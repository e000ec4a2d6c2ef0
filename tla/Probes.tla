-------------------------------- MODULE Probes --------------------------------
(***************************************************************************)
(* The hand-rolled TLS probes: a probe opens one connection or several,    *)
(* writes a ClientHello of its own making, reads the server's records with *)
(* a reader of its own, may write more and read one answer, and turns what *)
(* it saw into flags of the report.                                        *)
(*                                                                         *)
(* A probe is a sequence of trials (one connection each), a trial a script *)
(* of steps.  The server is external: what it supports, how it lays its    *)
(* flight out in records, how it turns a peer away and which behaviours    *)
(* the probes look for it shows are fixed for a run.  A connection may be  *)
(* lost, or answered too late, at any step; the number of such faults is   *)
(* bounded by Faults.  Bytes, keys and hashes are abstracted away.         *)
(***************************************************************************)
EXTENDS Integers, Sequences, FiniteSets

CONSTANTS Servers,    \* the servers met: see ServerType
          Faults      \* how many steps may be lost or late

ASSUME BoundsAssumption == Faults \in Nat

-------------------------------------------------------------------------------
(* Versions by the minor byte of the wire; suites by the family they are of. *)
Versions == 0..4
SSL3  == 0
TLS10 == 1
TLS11 == 2
TLS12 == 3
TLS13 == 4

Families == {"AES128CBC", "RSA", "RC4", "3DES", "ECDHE", "DHE", "RSA_EXPORT", "DHE_EXPORT",
             "ANON_EXPORT", "DH_DSS", "OBSCURE", "TLS13"}

(* mangled: the ServerHello ends before its session id.                    *)
Features == {"ssl2", "scsv", "heartbeat", "compression", "ccs", "padding", "oracle", "echo",
             "renegotiation", "ems", "reneg_info", "alpn", "mlkem", "tickets", "early_data",
             "x25519", "badcert", "mangled"}

ServerType == [versions : SUBSET Versions, suites : SUBSET Families, features : SUBSET Features,
               framing : {"one", "big", "each", "split"}, manner : {"alert", "close", "silent"}]

ASSUME ServersAssumption == Servers \subseteq ServerType

Hello(version, suites, flags) == [op |-> "hello", version |-> version, suites |-> suites, flags |-> flags]

SSLv3Hello          == Hello(SSL3, {"AES128CBC", "RSA", "3DES", "RC4"}, {})
SSLv2Hello          == Hello(SSL3, {}, {"ssl2"})
HeartbleedHello     == Hello(TLS11, {"ECDHE", "RSA", "AES128CBC", "3DES"}, {"heartbeat"})
CrimeHello          == Hello(TLS12, {"ECDHE", "RSA", "AES128CBC"}, {"compression"})
CCSHello            == Hello(TLS12, {"AES128CBC"}, {})
DHHello             == Hello(TLS12, {"DHE"}, {})
ExtensionHello      == Hello(TLS12, {"ECDHE", "RSA", "AES128CBC"}, {"ems", "reneg_info"})
TicketbleedHello    == Hello(TLS11, {"ECDHE", "RSA", "AES128CBC"}, {"marker"})
ALPNHello           == Hello(TLS12, {"ECDHE", "RSA", "AES128CBC"}, {"alpn"})
ObscureHello        == Hello(TLS12, {"OBSCURE"}, {})
PQCHello            == Hello(TLS13, {"TLS13"}, {"mlkem"})
EarlyDataHello      == Hello(TLS13, {"TLS13"}, {"x25519"})
FallbackHello(v)    == Hello(v, {"ECDHE", "RSA", "AES128CBC"}, {"scsv"})
ExportHello(c)      == Hello(TLS10, c, {})
SingleHello(v, c)   == Hello(v, {c}, {})

FREAKCiphers  == {"RSA_EXPORT", "DHE_EXPORT", "ANON_EXPORT"}
LogjamCiphers == {"DHE_EXPORT", "ANON_EXPORT", "DH_DSS"}

(* The readers.  Header reads five bytes; First one whole record; Flight   *)
(* whole records up to a message it wants.  A reader skips or refuses a    *)
(* record that is no handshake, and gives up, reads on, or buffers when a  *)
(* message runs past the end of its record.                                *)
Header == [op |-> "header"]

First(until) == [op |-> "first", skip |-> FALSE, over |-> "fail", until |-> until]
Flight(skip, over, until) == [op |-> "flight", skip |-> skip, over |-> over, until |-> until]

SkipToServerHelloDone == Flight(TRUE, "more", {"ServerHelloDone"})

(* Mutant: the rest of the flight is left unread.                          *)
MutKeyFlight == Flight(FALSE, "more", {"Certificate"})

(* The readers of probeCCSInjection, probeOneROBOT, renegFullHandshake and *)
(* handshakeForCBCOracle, up to ServerHelloDone.                           *)
KeyFlight == Flight(FALSE, "more", {"ServerHelloDone"})

FetchRSAServerKey     == Flight(FALSE, "fail", {"Certificate"})
DHFlight              == Flight(TRUE, "fail", {"ServerKeyExchange", "ServerHelloDone"})
ServerHelloBody       == Flight(TRUE, "fail", {"ServerHello"})

(* A write whose answer is awaited, one that has none, and two records     *)
(* read without a look inside.                                             *)
Put(what) == [op |-> "put", what |-> what]
TwoRecords == [op |-> "skip_two"]

-------------------------------------------------------------------------------
(* The probes.                                                             *)
Talk(hello, reader) == <<hello, reader>>

HeartbleedTrial == <<HeartbleedHello, SkipToServerHelloDone, Put("heartbeat"), Header>>
CCSTrial        == <<CCSHello, KeyFlight, Put("early_ccs"), Header>>
RobotTrial(cke) == <<CCSHello, KeyFlight, Put(cke), Header>>
CBCTrial(mode)  == <<CCSHello, KeyFlight, Put(mode), Header>>
RenegHandshake  == <<CCSHello, KeyFlight, Put("finished"), TwoRecords>>
RenegTrial      == RenegHandshake \o <<Put("hello_again"), Header>>
BurstTrial      == RenegHandshake \o <<[op |-> "burst"]>>

(* probeTLS13EarlyData: the request is written after the client's Finished. *)
EarlyDataTrial  == <<EarlyDataHello, First({"ServerHello"}), Flight(TRUE, "buffer", {"Finished"}),
                     Put("finished13"), [op |-> "request"], [op |-> "tickets"]>>

(* Two connections of crypto/tls that share a session cache.               *)
GoTrial(min) == <<[op |-> "go", min |-> min]>>

(* max: the version the main session negotiated.                           *)
Trials(p, max) ==
  CASE p = "sslv3"       -> <<Talk(SSLv3Hello, Header)>>
    [] p = "sslv2"       -> <<Talk(SSLv2Hello, Header)>>
    [] p = "scsv"        -> <<Talk(FallbackHello(max - 1), Header)>>
    [] p = "heartbleed"  -> <<HeartbleedTrial>>
    [] p = "freak"       -> <<Talk(ExportHello(FREAKCiphers), Header)>>
    [] p = "logjam"      -> <<Talk(ExportHello(LogjamCiphers), Header)>>
    [] p = "ccs"         -> <<CCSTrial>>
    [] p = "crime"       -> <<Talk(CrimeHello, First({"ServerHello"}))>>
    [] p = "dh"          -> <<Talk(DHHello, DHFlight)>>
    [] p = "extensions"  -> <<Talk(ExtensionHello, ServerHelloBody)>>
    [] p = "ticketbleed" -> <<Talk(TicketbleedHello, ServerHelloBody)>>
    [] p = "alpn"        -> <<Talk(ALPNHello, ServerHelloBody)>>
    [] p = "obscure"     -> <<Talk(ObscureHello, First({"ServerHello"}))>>
    [] p = "pqc"         -> <<Talk(PQCHello, ServerHelloBody)>>
    [] p = "cipher"      -> <<Talk(SingleHello(TLS12, "ECDHE"), Header)>>
    [] p = "robot"       -> <<Talk(CCSHello, FetchRSAServerKey), RobotTrial("valid"), RobotTrial("bad_version"),
                              RobotTrial("bad_separator"), RobotTrial("short_pms"), RobotTrial("random_cipher")>>
    [] p = "reneg"       -> <<RenegTrial, RenegTrial, RenegTrial, BurstTrial>>
    [] p = "golden"      -> <<CBCTrial("bad_mac"), CBCTrial("bad_pad")>>
    [] p = "zombie"      -> <<CBCTrial("bad_mac"), CBCTrial("bad_pad"), CBCTrial("bad_both")>>
    [] p = "sleeping"    -> [i \in 1..6 |-> CBCTrial(IF i % 2 = 1 THEN "bad_mac" ELSE "bad_pad")]
    [] p = "resumption"  -> <<GoTrial(TLS10), GoTrial(TLS10)>>
    [] p = "zero_rtt"    -> <<EarlyDataTrial, GoTrial(TLS13), GoTrial(TLS13)>>

Probes == {"sslv3", "sslv2", "scsv", "heartbleed", "freak", "logjam", "ccs", "crime", "dh", "extensions",
           "ticketbleed", "alpn", "obscure", "pqc", "cipher", "robot", "reneg", "golden", "zombie",
           "sleeping", "resumption", "zero_rtt"}

-------------------------------------------------------------------------------
VARIABLES
  probe, srv,
  phase,      \* "talk", "done" or "panic"
  trial, pc,  \* the connection and the step
  wire,       \* records sent by the server and not read
  obs,        \* what each finished trial observed
  count,      \* renegotiations counted by the burst
  flags,      \* what the probe reports
  faults      \* lost or late steps so far

vars == <<probe, srv, phase, trial, pc, wire, obs, count, flags, faults>>

MaxVersion == CHOOSE v \in srv.versions : \A w \in srv.versions : w <= v
Script == Trials(probe, MaxVersion)[trial]
Step == Script[pc]
Talking(op) == phase = "talk" /\ Step.op = op
Has(feature) == feature \in srv.features

(* probeFallbackSCSV answers without a connection when there is nothing to *)
(* fall back to.                                                           *)
Init ==
  /\ probe \in Probes /\ srv \in Servers
  /\ probe = "scsv" => MaxVersion > TLS10
  /\ phase = "talk" /\ trial = 1 /\ pc = 1
  /\ wire = <<>> /\ obs = <<>> /\ count = 0 /\ flags = {}
  /\ faults = 0

-------------------------------------------------------------------------------
(***************************************************************************)
(* The server.  re says what a record answers: the hello or a later write. *)
(***************************************************************************)
Record(type, msgs, id, v, re) == [type |-> type, msgs |-> msgs, id |-> id, v |-> v, re |-> re]
Alert(id, re) == <<Record("alert", <<>>, id, 0, re)>>
Eof(re) == <<Record("eof", <<>>, "eof", 0, re)>>

TurnAway(id, re) == CASE srv.manner = "alert"  -> Alert(id, re)
                      [] srv.manner = "close"  -> Eof(re)
                      [] srv.manner = "silent" -> <<>>

(* The version and the suites the server would settle on.                  *)
CommonVersions(h) == {v \in srv.versions : IF h.version = TLS13 THEN v = TLS13 ELSE v <= h.version}
Negotiated(h) == CHOOSE v \in CommonVersions(h) : \A w \in CommonVersions(h) : w <= v
Choices(h) == {s \in h.suites \cap srv.suites : s = "TLS13" <=> Negotiated(h) = TLS13}

Messages(suite) ==
  CASE suite = "ANON_EXPORT" -> <<"ServerHello", "ServerKeyExchange", "ServerHelloDone">>
    [] suite \in {"ECDHE", "DHE", "DHE_EXPORT"}
         -> <<"ServerHello", "Certificate", "ServerKeyExchange", "ServerHelloDone">>
    [] OTHER -> <<"ServerHello", "Certificate", "ServerHelloDone">>

(* A flight in records.  A certificate list too long for one record is cut: *)
(* its head ends one record and the rest of it begins the next.            *)
Lay(msgs, type, v) ==
  LET rec(ms) == Record(type, ms, "flight", v, "hello")
      cut     == Len(msgs) > 1 /\ srv.framing = "split" /\ msgs[2] = "Certificate"
  IN  CASE srv.framing = "each" -> [i \in 1..Len(msgs) |-> rec(<<msgs[i]>>)]
        [] cut                  -> <<rec(<<msgs[1], "head">>), rec(<<"rest">> \o SubSeq(msgs, 3, Len(msgs)))>>
        [] OTHER                -> <<rec(msgs)>>

Encrypted == <<"EncryptedExtensions", "Certificate", "CertificateVerify", "Finished">>

Replies(h) ==
  IF "ssl2" \in h.flags
  THEN {IF Has("ssl2") THEN <<Record("ssl2", <<>>, "hello", 0, "hello")>> ELSE TurnAway("version", "hello")}
  ELSE IF CommonVersions(h) = {} \/ Choices(h) = {}
  THEN {TurnAway("refused", "hello")}
  ELSE IF "scsv" \in h.flags /\ Has("scsv")
  THEN {Alert("inappropriate_fallback", "hello")}
  ELSE IF h.version = TLS13
  THEN {Lay(<<"ServerHello">>, "handshake", TLS12)
          \o (IF "x25519" \in h.flags
               THEN <<Record("ccs", <<>>, "flight", TLS12, "hello")>> \o Lay(Encrypted, "data", TLS12) ELSE <<>>)}
  ELSE {Lay(Messages(s), "handshake", Negotiated(h)) : s \in Choices(h)}

Ticket == IF Has("early_data") THEN "early_ticket" ELSE "ticket"

(* The flight of a renegotiation is encrypted: its records are seen, not   *)
(* the messages in them.                                                   *)
RenegRecords == CASE srv.framing = "each"  -> 3
                  [] srv.framing = "split" -> 2
                  [] OTHER                 -> 1

(* The answer to a later write.  The data record of the CBC probes comes   *)
(* before any key exchange: no server has keys to try it with.             *)
Answer(what) ==
  CASE what = "heartbeat"   -> IF Has("heartbeat") THEN <<Record("heartbeat", <<>>, "long", TLS11, "put")>>
                                                   ELSE TurnAway("unexpected_message", "put")
    [] what = "early_ccs"   -> IF Has("ccs") THEN <<Record("handshake", <<>>, "finished", TLS12, "put")>>
                                             ELSE TurnAway("unexpected_message", "put")
    [] what = "hello_again" -> IF Has("renegotiation")
                               THEN [i \in 1..RenegRecords |-> Record("handshake", <<>>, "hello", TLS12, "put")]
                               ELSE TurnAway("no_renegotiation", "put")
    [] what = "finished"    -> IF Negotiated(CCSHello) = TLS12
                               THEN <<Record("ccs", <<>>, "ccs", TLS12, "put"),
                                      Record("handshake", <<>>, "finished", TLS12, "put")>>
                               ELSE TurnAway("decode_error", "put")
    [] what = "finished13"  -> IF Has("tickets") THEN <<Record("data", <<Ticket>>, "ticket", TLS12, "put")>> ELSE <<>>
    [] what \in {"bad_mac", "bad_pad", "bad_both"} -> TurnAway("unexpected_message", "put")
    [] what = "valid"       -> TurnAway("bad_record_mac", "put")
    [] OTHER                -> IF Has("padding") THEN Alert("decode_error", "put") ELSE TurnAway("bad_record_mac", "put")

-------------------------------------------------------------------------------
(* Failure of a trial.  The five trials of ROBOT name the place.           *)
Failed(o) == o \in {"-", "dial_failed", "hello_write_failed"}

FailedAt(why) ==
  IF probe # "robot" \/ trial = 1 THEN "-"
  ELSE CASE Step.op = "put"    -> "cke_write_failed"
         [] Step.op = "flight" -> IF why = "alert" THEN "non_handshake_record" ELSE "early_io_err"
         [] Step.op = "header" -> IF why = "eof" THEN "eof" ELSE "read_err"

Accepted(o) == Cardinality({i \in 1..3 : i <= Len(o) /\ o[i] = "yes"})

(* Whether another connection follows the ones that observed o.            *)
More(p, o) ==
  LET n == Len(o)
  IN  CASE p = "robot"                -> n < 6 /\ ~Failed(o[1])
        [] p = "reneg"                -> n < 3 \/ (n = 3 /\ Accepted(o) >= 2)
        [] p \in {"golden", "zombie"} -> n < Len(Trials(p, TLS12)) /\ ~Failed(o[n])
        [] p = "sleeping"             -> n < 6 /\ (n % 2 = 1 \/ ~(Failed(o[n]) \/ Failed(o[n - 1])))
        [] p = "resumption"           -> n = 1 /\ ~Failed(o[1])
        [] p = "zero_rtt"             -> n < 3 /\ (n = 1 <=> Failed(o[n]))
        [] OTHER                      -> FALSE

(* probeROBOT: the malformed messages are told apart from the valid one.   *)
RobotVulnerable(o) == o[3] = o[4] /\ o[3] = o[6] /\ o[2] # o[3]

(* Mutant: the largest difference decides.                                 *)
MutSleepingPoodle(o) == \E i \in {1, 3, 5} : o[i] # o[i + 1]

(* The median of three differences is above the threshold.                 *)
SleepingPoodle(o) == Cardinality({i \in {1, 3, 5} : o[i] # o[i + 1]}) >= 2

AllIn(o) == \A i \in 1..Len(o) : ~Failed(o[i])
If(cond, flag) == IF cond THEN {flag} ELSE {}

Verdict(p, o, seen, n) ==
  LET last == o[Len(o)]
  IN  CASE p = "robot"      -> IF Failed(o[1]) THEN {} ELSE {"probed"} \cup If(RobotVulnerable(o), "found")
        [] p = "reneg"      -> {"probed"} \cup If(Accepted(o) >= 2, "found") \cup If(n >= 5, "amplifies")
        [] p = "golden"     -> {"probed"} \cup If(AllIn(o) /\ o[1] # last, "found")
        [] p = "zombie"     -> {"probed"} \cup If(AllIn(o) /\ Cardinality({o[i] : i \in 1..Len(o)}) > 1, "found")
        [] p = "sleeping"   -> {"probed"} \cup If(AllIn(o) /\ SleepingPoodle(o), "found")
        [] p = "scsv"       -> If(last = "protected", "protected") \cup If(last \in {"protected", "unprotected"}, "conclusive")
        [] p = "dh"         -> If(last \notin {"dial_failed", "hello_write_failed"}, "determined") \cup If(last = "yes", "supported")
        [] p = "extensions" -> If(~Failed(last), "determined") \cup seen
        [] p = "obscure"    -> If(last # "dial_failed", "probed") \cup If(last = "yes", "found")
        [] p = "pqc"        -> {"probed"} \cup If(last = "yes", "supported")
        [] p = "resumption" -> If(Len(o) = 2 /\ o[1] = "ticket" /\ ~Failed(last), "resumes")
        [] p = "zero_rtt"   -> {"probed"} \cup
                               (IF Len(o) = 1 THEN {"tls13"} \cup seen
                                ELSE If(~Failed(o[2]), "tls13") \cup If(o[2] = "ticket" /\ ~Failed(last), "resumes"))
        [] OTHER            -> If(last = "yes", "found")

EndTrial(o, seen) ==
  /\ obs' = Append(obs, o)
  /\ wire' = <<>>
  /\ IF More(probe, obs')
     THEN trial' = trial + 1 /\ pc' = 1 /\ UNCHANGED <<phase, flags>>
     ELSE phase' = "done" /\ flags' = Verdict(probe, obs', seen, count) /\ UNCHANGED <<trial, pc>>

Advance == pc' = pc + 1

-------------------------------------------------------------------------------
(***************************************************************************)
(* The steps of a trial.                                                   *)
(***************************************************************************)
Fixed == <<probe, srv, faults>>

SendHello ==
  /\ Talking("hello")
  /\ \E reply \in Replies(Step) : wire' = reply
  /\ Advance
  /\ UNCHANGED <<Fixed, phase, trial, obs, count, flags>>

(* Mutant: only the first message of a record is looked at.                *)
MutScan(step, msgs) == IF msgs[1] \in step.until THEN msgs[1] ELSE "more"

(* What a reader makes of the messages of one record: it stops at one it   *)
(* wants, runs over the end of the record, or needs another record.        *)
Scan(step, msgs) ==
  LET wanted == {i \in 1..Len(msgs) : msgs[i] \in step.until}
      broken == {i \in 1..Len(msgs) : step.over # "buffer" /\ msgs[i] \in {"head", "rest"}}
      first(S) == CHOOSE i \in S : \A j \in S : i <= j
  IN  IF wanted # {} /\ (broken = {} \/ first(wanted) < first(broken)) THEN msgs[first(wanted)]
      ELSE IF broken # {} /\ step.over = "fail" THEN "fail"
      ELSE "more"

(* What the last read of a trial tells, when it is a handshake message.    *)
(* serverHelloCompressionByte is 0xff, and not zero, when it cannot parse. *)
Tells(msg) ==
  LET yes(cond) == IF cond THEN "yes" ELSE "no"
      parsed(cond) == yes(cond /\ ~Has("mangled"))
  IN  CASE probe = "crime"       -> yes(Has("compression") \/ Has("mangled"))
        [] probe = "dh"          -> yes(msg = "ServerKeyExchange")
        [] probe = "ticketbleed" -> parsed(Has("echo"))
        [] probe = "alpn"        -> parsed(Has("alpn"))
        [] probe = "pqc"         -> parsed(Has("mlkem"))
        [] probe = "obscure"     -> parsed(TRUE)
        [] probe = "robot"       -> IF Has("badcert") THEN "nil" ELSE "key"
        [] OTHER                 -> "ok"

Seen == IF probe = "extensions"
        THEN IF Has("mangled") THEN {} ELSE If(Has("ems"), "ems") \cup If(Has("reneg_info"), "secure_reneg")
        ELSE flags

(* The records a reader looks into.                                        *)
Carrier(step) == IF step.over = "buffer" THEN "data" ELSE "handshake"

(* A record above 4096 bytes is refused by probeObscureCiphers only; a     *)
(* ServerHello without an x25519 share by probeTLS13EarlyData.             *)
Unfit(rec) == \/ probe = "obscure" /\ srv.framing \in {"big", "split"}
              \/ probe = "zero_rtt" /\ (~Has("x25519") \/ Has("mangled"))

ReadRecord ==
  /\ phase = "talk" /\ Step.op \in {"first", "flight"} /\ wire # <<>>
  /\ LET rec  == Head(wire)
         says == Scan(Step, rec.msgs)
         last == pc = Len(Script)
     IN  \/ /\ rec.type \in {"alert", "eof"} \/ (rec.type # Carrier(Step) /\ ~Step.skip)
            /\ EndTrial(FailedAt(rec.type), flags) /\ UNCHANGED count
         \/ /\ rec.type \notin {"alert", "eof", Carrier(Step)} /\ Step.skip
            /\ wire' = Tail(wire)
            /\ UNCHANGED <<phase, trial, pc, obs, count, flags>>
         \/ /\ rec.type = Carrier(Step) /\ ~Unfit(rec) /\ says = "more" /\ Step.op = "flight"
            /\ wire' = Tail(wire)
            /\ UNCHANGED <<phase, trial, pc, obs, count, flags>>
         \/ /\ rec.type = Carrier(Step)
            /\ Unfit(rec) \/ says = "fail" \/ (says = "more" /\ Step.op = "first")
            /\ EndTrial(FailedAt("fail"), flags) /\ UNCHANGED count
         \/ /\ rec.type = Carrier(Step) /\ ~Unfit(rec) /\ says \in Step.until
            /\ IF last THEN EndTrial(Tells(says), Seen)
                       ELSE wire' = Tail(wire) /\ Advance /\ UNCHANGED <<phase, trial, obs, flags>>
            /\ UNCHANGED count
  /\ UNCHANGED Fixed

(* The flight had no server random and no suite to derive keys from, or no *)
(* RSA key to renegotiate with.                                            *)
NoKeys == \/ probe \in {"ccs", "reneg", "golden", "zombie", "sleeping"} /\ Has("mangled")
          \/ probe = "reneg" /\ Has("badcert")

(* The write of the key exchange needs the key: rsa.EncryptPKCS1v15 of a   *)
(* nil key panics.                                                         *)
SendMore ==
  /\ Talking("put")
  /\ \/ /\ probe = "robot" /\ obs[1] = "nil"
        /\ phase' = "panic" /\ UNCHANGED <<trial, pc, wire, obs, flags>>
     \/ /\ NoKeys
        /\ EndTrial("-", flags)
     \/ /\ ~(probe = "robot" /\ obs[1] = "nil") /\ ~NoKeys
        /\ wire' = wire \o Answer(Step.what) /\ Advance /\ UNCHANGED <<phase, trial, obs, flags>>
  /\ UNCHANGED <<Fixed, count>>

(* Mutant: any alert is the refusal of a downgrade.                        *)
MutFallbackTells(rec) == IF rec.type = "alert" THEN "protected" ELSE "unprotected"

(* What the five bytes of a header tell.                                   *)
HeaderTells(rec) ==
  LET yes(cond) == IF cond THEN "yes" ELSE "no"
  IN  CASE probe = "sslv3"               -> yes(rec.type = "handshake" /\ rec.v = SSL3)
        [] probe = "sslv2"               -> yes(rec.type = "ssl2")
        [] probe = "heartbleed"          -> yes(rec.type = "heartbeat" /\ rec.id = "long")
        [] probe = "scsv"                -> CASE rec.id = "inappropriate_fallback" -> "protected"
                                              [] rec.type = "handshake"            -> "unprotected"
                                              [] OTHER                             -> "-"
        [] probe = "robot"               -> rec.id
        [] probe = "zombie"              -> IF rec.type = "alert" THEN "short" ELSE "long"
        [] probe = "golden"              -> IF rec.type = "alert" THEN rec.id ELSE "-"
        [] probe = "sleeping"            -> "fast"
        [] OTHER                         -> yes(rec.type = "handshake")

ReadHeader ==
  /\ Talking("header") /\ wire # <<>>
  /\ IF Head(wire).type = "eof" THEN EndTrial(FailedAt("eof"), flags)
                                ELSE EndTrial(HeaderTells(Head(wire)), flags)
  /\ UNCHANGED <<Fixed, count>>

(* The server's ChangeCipherSpec and Finished, or the alert that rejects   *)
(* the client's.                                                           *)
SkipTwo ==
  /\ Talking("skip_two") /\ wire # <<>>
  /\ IF Head(wire).type \in {"alert", "eof"}
     THEN EndTrial("-", flags)
     ELSE /\ Len(wire) >= 2
          /\ wire' = SubSeq(wire, 3, Len(wire)) /\ Advance
          /\ UNCHANGED <<phase, trial, obs, flags>>
  /\ UNCHANGED <<Fixed, count>>

(* renegBurstTrial, one turn of its loop: unless the budget has passed, a  *)
(* hello is written and one record read.  The server takes up a first      *)
(* hello; another one, before that renegotiation is finished, is out of    *)
(* place.                                                                  *)
Burst ==
  LET turn == wire \o (IF count = 0 THEN Answer("hello_again") ELSE TurnAway("unexpected_message", "put"))
  IN  /\ Talking("burst")
      /\ \/ /\ turn # <<>> /\ Head(turn).type = "handshake"
            /\ wire' = Tail(turn) /\ count' = count + 1
            /\ UNCHANGED <<phase, trial, pc, obs, flags>>
         \/ EndTrial("burst", flags) /\ UNCHANGED count
      /\ UNCHANGED Fixed

(* The GET of probeTLS13EarlyData.                                         *)
SendRequest ==
  /\ Talking("request")
  /\ Advance
  /\ UNCHANGED <<Fixed, phase, trial, wire, obs, count, flags>>

(* Tickets are collected until the connection or the window ends.          *)
ReadTickets ==
  /\ Talking("tickets")
  /\ \/ /\ wire # <<>>
        /\ wire' = Tail(wire)
        /\ flags' = flags \cup {"resumes"} \cup If(Head(Head(wire).msgs) = "early_ticket", "early")
        /\ UNCHANGED <<phase, trial, pc, obs, count>>
     \/ /\ wire = <<>>
        /\ EndTrial("ok", flags) /\ UNCHANGED count
  /\ UNCHANGED Fixed

(* Mutant: a second connection is taken for a resumed one.                 *)
MutGoConnects ==
  /\ Talking("go")
  /\ IF \E v \in srv.versions : v >= Step.min THEN EndTrial("ticket", {}) ELSE EndTrial("-", {})
  /\ UNCHANGED <<Fixed, count>>

(* A connection of crypto/tls: it settles on a version from min up.        *)
GoConnects ==
  /\ Talking("go")
  /\ IF ~Has("mangled") /\ \E v \in srv.versions : v >= Step.min
     THEN EndTrial(IF Has("tickets") THEN "ticket" ELSE "ok", {})
     ELSE EndTrial("-", {})
  /\ UNCHANGED <<Fixed, count>>

(* The deadline passes on a silent server.                                 *)
Deadline ==
  /\ phase = "talk" /\ Step.op \in {"first", "flight", "header", "skip_two"} /\ wire = <<>>
  /\ EndTrial(FailedAt("deadline"), {})
  /\ UNCHANGED <<Fixed, count>>

(* The network loses or delays a step.  A delay is an observation of its   *)
(* own where time is measured; a ticket window that closes early is no     *)
(* failure.                                                                *)
Lose ==
  /\ phase = "talk" /\ faults < Faults
  /\ faults' = faults + 1
  /\ CASE Step.op \in {"hello", "go"} -> \E o \in {"dial_failed", "hello_write_failed"} : EndTrial(o, {})
       [] Step.op = "tickets"         -> EndTrial("ok", flags)
       [] Step.op = "burst"           -> EndTrial("burst", {})
       [] Step.op = "request"         -> pc' = pc + 1 /\ wire' = <<>> /\ UNCHANGED <<phase, trial, obs, flags>>
       [] probe = "sleeping" /\ Step.op = "header" -> \E o \in {"slow", "-"} : EndTrial(o, {})
       [] OTHER                       -> EndTrial(FailedAt("lost"), {})
  /\ UNCHANGED <<probe, srv, count>>

Ended == phase \in {"done", "panic"} /\ UNCHANGED vars

Next ==
  \/ SendHello \/ ReadRecord \/ SendMore \/ ReadHeader \/ SkipTwo \/ Burst
  \/ SendRequest \/ ReadTickets \/ GoConnects \/ Deadline \/ Lose \/ Ended

Spec == Init /\ [][Next]_vars

-------------------------------------------------------------------------------
TypeOK ==
  /\ probe \in Probes /\ srv \in Servers
  /\ phase \in {"talk", "done", "panic"}
  /\ trial \in 1..6 /\ pc \in 1..6 /\ Len(obs) <= 6
  /\ faults \in 0..Faults /\ count \in Nat
  /\ flags \subseteq {"probed", "determined", "conclusive", "found", "amplifies", "protected",
                      "supported", "ems", "secure_reneg", "resumes", "early", "tls13"}

Offered == CASE probe = "freak" -> FREAKCiphers [] probe = "logjam" -> LogjamCiphers [] OTHER -> {}

(* What a probe claims of the server it has flagged.                       *)
Shows ==
  CASE probe = "sslv3"       -> SSL3 \in srv.versions
    [] probe = "sslv2"       -> Has("ssl2")
    [] probe = "freak"       -> "RSA_EXPORT" \in srv.suites
    [] probe = "logjam"      -> "DHE_EXPORT" \in srv.suites
    [] probe = "heartbleed"  -> Has("heartbeat")
    [] probe = "ccs"         -> Has("ccs")
    [] probe = "crime"       -> Has("compression")
    [] probe = "ticketbleed" -> Has("echo")
    [] probe = "alpn"        -> Has("alpn")
    [] probe = "obscure"     -> "OBSCURE" \in srv.suites
    [] probe = "cipher"      -> "ECDHE" \in srv.suites
    [] probe = "robot"       -> Has("padding")
    [] probe = "reneg"       -> Has("renegotiation")
    [] OTHER                 -> Has("oracle")

(* No server is flagged for what it does not show, whatever its framing    *)
(* and whatever is lost on the way: a lost connection never counts as an   *)
(* answer.  The export probes are held to the suites they offer.  Excepted *)
(* are CRIME on a ServerHello it cannot parse, ROBOT with anything lost    *)
(* and Sleeping POODLE with two answers late: there the code does flag a   *)
(* sound server.                                                           *)
FlagsAreEarned ==
  "found" \in flags =>
    /\ probe \in {"freak", "logjam"} => srv.suites \cap Offered # {}
    /\ \/ probe \in {"freak", "logjam"}
       \/ probe = "crime" /\ Has("mangled")
       \/ probe = "robot" /\ faults > 0
       \/ probe = "sleeping" /\ faults > 1
       \/ Shows

(* The answer a probe judges after a write of its own is an answer to that *)
(* write: nothing of the server's flight is left to be taken for it.       *)
JudgesItsAnswer ==
  phase = "talk" /\ pc > 2 /\ Step.op \in {"header", "skip_two"} =>
    \A i \in 1..Len(wire) : wire[i].re = "put"

(* The probe for downgrade protection never contradicts the server: it is  *)
(* conclusive only on an answer, and protected only by the fallback alert. *)
FallbackConclusive ==
  probe = "scsv" /\ "conclusive" \in flags => ("protected" \in flags <=> Has("scsv"))

(* Zero-RTT is offered only by a server whose ticket says so, and the      *)
(* report never has early data without resumption.                         *)
EarlyDataIsOffered ==
  probe = "zero_rtt" /\ phase = "done" =>
    /\ "early" \in flags => Has("tickets") /\ Has("early_data") /\ "resumes" \in flags
    /\ "resumes" \in flags => Has("tickets") /\ TLS13 \in srv.versions

(* Nothing a probe reports is more than the server's answers bear out.     *)
ClaimsEarned == TypeOK /\ FlagsAreEarned /\ FallbackConclusive /\ EarlyDataIsOffered

(* With nothing lost, a probe finds what a server that agrees to its hello *)
(* shows, unless the certificate list does not fit a record or the         *)
(* ServerHello cannot be parsed.                                           *)
NothingMissed ==
  /\ phase = "done" /\ faults = 0 /\ srv.framing \in {"one", "each"} /\ srv.manner = "alert" /\ ~Has("mangled")
  => /\ probe \in {"freak", "logjam"} /\ TLS10 \in srv.versions => (Shows => "found" \in flags)
     /\ probe \in {"sslv2", "obscure"} /\ TLS10 \in srv.versions => (Shows <=> "found" \in flags)
     /\ probe \in {"heartbleed", "ccs", "crime", "robot", "reneg"}
          /\ TLS12 \in srv.versions /\ TLS11 \in srv.versions /\ "AES128CBC" \in srv.suites /\ ~Has("badcert")
        => (Shows <=> "found" \in flags)

-------------------------------------------------------------------------------
(* probeROBOT: what it flags is a signal of the server and no quirk of the *)
(* transport.  It is not so: a connection lost under the valid message     *)
(* makes that one differ from the others.                                  *)
RobotSurvivesLoss ==
  probe = "robot" /\ "found" \in flags => Shows
===============================================================================
