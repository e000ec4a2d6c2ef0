------------------------------ MODULE ProbesProofs ------------------------------
(***************************************************************************)
(* Proofs about the raw TLS probes: for every server of Servers, every     *)
(* probe and any number of lost connections.                               *)
(*                                                                         *)
(* What a probe concludes rests on what each of its connections observed,  *)
(* and what a connection observes rests on what was on the wire when it    *)
(* read.  So the invariant follows the bytes.  Placed says where the probe *)
(* is in its script; Wired, step by step, which records of the server are  *)
(* still unread (a suffix of its reply to the hello, then the answer to    *)
(* the write and nothing else); Ahead, that what a reader of the flight    *)
(* waits for is not behind it; Observed, that every observation on record  *)
(* is borne out by the server (Sound) and, when no connection was lost, is *)
(* the one the server must lead to (Steady); Reported, that the report is  *)
(* the verdict on those observations.  The scripts and the server's        *)
(* replies are described first (Scripts, LayoutFacts, RepliesAnswer), so   *)
(* that the steps need not open them again.                                *)
(***************************************************************************)
EXTENDS Probes, SequenceTheorems, FiniteSetTheorems, WellFoundedInduction, TLAPS

(* Concatenation, element by element.                                      *)
LEMMA Glue ==
  ASSUME NEW S, NEW s \in Seq(S), NEW t \in Seq(S), NEW u \in Seq(S),
         Len(u) = Len(s) + Len(t),
         \A i \in 1..Len(u) : u[i] = IF i <= Len(s) THEN s[i] ELSE t[i - Len(s)]
  PROVE  s \o t = u
<1>1. s \o t \in Seq(S) /\ Len(s \o t) = Len(u) /\ \A i \in 1..Len(u) : (s \o t)[i] = u[i]
  BY ConcatProperties
<1> QED BY <1>1, SeqEqual, Zenon

(* Four steps of a script and two more.                                    *)
LEMMA GlueTwo ==
  ASSUME NEW a, NEW b, NEW c, NEW d, NEW e, NEW f
  PROVE  <<a, b, c, d>> \o <<e, f>> = <<a, b, c, d, e, f>>
<1> DEFINE S == {a, b, c, d, e, f}
           s == <<a, b, c, d>>
           t == <<e, f>>
           u == <<a, b, c, d, e, f>>
<1>1. s \in Seq(S) /\ t \in Seq(S) /\ u \in Seq(S) OBVIOUS
<1>2. Len(u) = Len(s) + Len(t) OBVIOUS
<1>3. \A i \in 1..Len(u) : u[i] = IF i <= Len(s) THEN s[i] ELSE t[i - Len(s)] OBVIOUS
<1> HIDE DEF S, s, t, u
<1>4. s \o t = u BY <1>1, <1>2, <1>3, Glue, Zenon
<1> QED BY <1>4 DEF s, t, u

(* Four steps of a script and one more.                                    *)
LEMMA GlueOne ==
  ASSUME NEW a, NEW b, NEW c, NEW d, NEW e
  PROVE  <<a, b, c, d>> \o <<e>> = <<a, b, c, d, e>>
<1> DEFINE S == {a, b, c, d, e}
           s == <<a, b, c, d>>
           t == <<e>>
           u == <<a, b, c, d, e>>
<1>1. s \in Seq(S) /\ t \in Seq(S) /\ u \in Seq(S) OBVIOUS
<1>2. Len(u) = Len(s) + Len(t) OBVIOUS
<1>3. \A i \in 1..Len(u) : u[i] = IF i <= Len(s) THEN s[i] ELSE t[i - Len(s)] OBVIOUS
<1> HIDE DEF S, s, t, u
<1>4. s \o t = u BY <1>1, <1>2, <1>3, Glue, Zenon
<1> QED BY <1>4 DEF s, t, u

-----------------------------------------------------------------------------
(* The scripts.  A trial is of one of six kinds.                           *)

Talks  == {"sslv3", "sslv2", "scsv", "freak", "logjam", "crime", "dh", "extensions",
           "ticketbleed", "alpn", "obscure", "pqc", "cipher"}
Writes == {"heartbleed", "ccs", "robot", "golden", "zombie", "sleeping"}

Kind(p, t) ==
  IF p \in Talks \/ (p = "robot" /\ t = 1) THEN "talk"
  ELSE IF p \in Writes THEN "write"
  ELSE IF p = "reneg" THEN (IF t = 4 THEN "burst" ELSE "again")
  ELSE IF p = "zero_rtt" /\ t = 1 THEN "early"
  ELSE "go"

Connections(p) ==
  IF p \in {"robot", "sleeping"} THEN 6
  ELSE IF p = "reneg" THEN 4
  ELSE IF p \in {"zombie", "zero_rtt"} THEN 3
  ELSE IF p \in {"golden", "resumption"} THEN 2
  ELSE 1

(* The first step, the reader that follows it, and the write after that.   *)
HelloFor(p, max) ==
  CASE p = "sslv3"       -> SSLv3Hello
    [] p = "sslv2"       -> SSLv2Hello
    [] p = "scsv"        -> FallbackHello(max - 1)
    [] p = "heartbleed"  -> HeartbleedHello
    [] p = "freak"       -> ExportHello(FREAKCiphers)
    [] p = "logjam"      -> ExportHello(LogjamCiphers)
    [] p = "crime"       -> CrimeHello
    [] p = "dh"          -> DHHello
    [] p = "extensions"  -> ExtensionHello
    [] p = "ticketbleed" -> TicketbleedHello
    [] p = "alpn"        -> ALPNHello
    [] p = "obscure"     -> ObscureHello
    [] p = "pqc"         -> PQCHello
    [] p = "cipher"      -> SingleHello(TLS12, "ECDHE")
    [] p = "zero_rtt"    -> EarlyDataHello
    [] OTHER             -> CCSHello

ReaderFor(p, t) ==
  IF p = "heartbleed" THEN SkipToServerHelloDone
  ELSE IF p \in {"crime", "obscure", "zero_rtt"} THEN First({"ServerHello"})
  ELSE IF p = "dh" THEN DHFlight
  ELSE IF p \in {"extensions", "ticketbleed", "alpn", "pqc"} THEN ServerHelloBody
  ELSE IF p = "robot" /\ t = 1 THEN FetchRSAServerKey
  ELSE IF p \in {"robot", "ccs", "golden", "zombie", "sleeping", "reneg"} THEN KeyFlight
  ELSE Header

What(p, t) ==
  CASE p = "heartbleed" -> "heartbeat"
    [] p = "ccs"        -> "early_ccs"
    [] p = "robot"      -> (IF t = 2 THEN "valid" ELSE IF t = 3 THEN "bad_version" ELSE
                            IF t = 4 THEN "bad_separator" ELSE IF t = 5 THEN "short_pms" ELSE "random_cipher")
    [] p \in {"golden", "zombie", "sleeping"} ->
         (IF p = "zombie" /\ t = 3 THEN "bad_both" ELSE IF t % 2 = 1 THEN "bad_mac" ELSE "bad_pad")
    [] OTHER            -> "finished"

GoStep(p)       == [op |-> "go", min |-> IF p = "resumption" THEN TLS10 ELSE TLS13]
EncryptedFlight == Flight(TRUE, "buffer", {"Finished"})
RequestStep     == [op |-> "request"]
TicketsStep     == [op |-> "tickets"]
BurstStep       == [op |-> "burst"]

Steps(k) == IF k = "go" THEN 1 ELSE IF k = "talk" THEN 2 ELSE IF k = "write" THEN 4
            ELSE IF k = "burst" THEN 5 ELSE 6

(* What the steps of a script are, by its kind.                            *)
Shaped(s, p, t, max) ==
  /\ s[1] = IF Kind(p, t) = "go" THEN GoStep(p) ELSE HelloFor(p, max)
  /\ Kind(p, t) # "go" => s[2] = ReaderFor(p, t)
  /\ Kind(p, t) \in {"write", "again", "burst"} => s[3] = Put(What(p, t))
  /\ Kind(p, t) = "write" => s[4] = Header
  /\ Kind(p, t) \in {"again", "burst"} => s[4] = TwoRecords
  /\ Kind(p, t) = "again" => s[5] = Put("hello_again") /\ s[6] = Header
  /\ Kind(p, t) = "burst" => s[5] = BurstStep
  /\ Kind(p, t) = "early" =>
       /\ s[3] = EncryptedFlight /\ s[4] = Put("finished13")
       /\ s[5] = RequestStep /\ s[6] = TicketsStep
  /\ Len(s) = Steps(Kind(p, t))

(* A script of each kind has the shape of its kind.                        *)
LEMMA ShapeOfKind ==
  ASSUME NEW s, NEW p, NEW t, NEW max,
         \/ Kind(p, t) = "go" /\ s = <<GoStep(p)>>
         \/ Kind(p, t) = "talk" /\ s = <<HelloFor(p, max), ReaderFor(p, t)>>
         \/ Kind(p, t) = "write" /\ s = <<HelloFor(p, max), ReaderFor(p, t), Put(What(p, t)), Header>>
         \/ Kind(p, t) = "again"
              /\ s = <<HelloFor(p, max), ReaderFor(p, t), Put(What(p, t)), TwoRecords, Put("hello_again"), Header>>
         \/ Kind(p, t) = "burst"
              /\ s = <<HelloFor(p, max), ReaderFor(p, t), Put(What(p, t)), TwoRecords, BurstStep>>
         \/ Kind(p, t) = "early"
              /\ s = <<HelloFor(p, max), ReaderFor(p, t), EncryptedFlight, Put("finished13"), RequestStep, TicketsStep>>
  PROVE  Shaped(s, p, t, max)
BY DEF Shaped, Steps

(* Every connection of every probe runs a script of one of six shapes.     *)
LEMMA Scripts ==
  ASSUME NEW p \in Probes, NEW max, NEW t \in 1..Connections(p)
  PROVE  Shaped(Trials(p, max)[t], p, t, max) /\ Len(Trials(p, max)) = Connections(p)
<1> USE DEF Connections
<1> DEFINE h == HelloFor(p, max)
           r == ReaderFor(p, t)
           w == Put(What(p, t))
<1>1. CASE p \in Talks
  <2>1. t = 1 /\ Kind(p, t) = "talk"
    BY <1>1 DEF Talks, Kind
  <2>2. Trials(p, max) = <<Talk(h, r)>>
    BY <1>1, <2>1 DEF Trials, Talks, HelloFor, ReaderFor
  <2>3. Trials(p, max)[t] = <<h, r>> /\ Len(Trials(p, max)) = 1
    BY <2>1, <2>2 DEF Talk
  <2>4. Connections(p) = 1
    BY <1>1 DEF Talks
  <2> QED BY <2>1, <2>3, <2>4, ShapeOfKind, Zenon
<1>2. CASE p \in {"heartbleed", "ccs"}
  <2>1. t = 1 /\ Len(Trials(p, max)) = 1 /\ Kind(p, t) = "write" /\ Connections(p) = 1
    BY <1>2 DEF Trials, Kind, Writes, Talks
  <2>2. Trials(p, max)[t] = <<h, r, w, Header>>
    BY <1>2, <2>1 DEF Trials, HeartbleedTrial, CCSTrial, HelloFor, ReaderFor, What
  <2> QED BY <2>1, <2>2, ShapeOfKind, Zenon
<1>3. CASE p \in {"golden", "zombie", "sleeping"}
  <2>1. Len(Trials(p, max)) = Connections(p) /\ Kind(p, t) = "write"
    BY <1>3 DEF Trials, Kind, Writes, Talks
  <2>2. Trials(p, max)[t] = CBCTrial(What(p, t))
    BY <1>3 DEF Trials, What
  <2>3. Trials(p, max)[t] = <<CCSHello, KeyFlight, w, Header>>
    BY <2>2 DEF CBCTrial
  <2>4. h = CCSHello /\ r = KeyFlight
    BY <1>3 DEF HelloFor, ReaderFor
  <2> QED BY <2>1, <2>3, <2>4, ShapeOfKind, Zenon
<1>4. CASE p = "robot"
  <2>1. Len(Trials(p, max)) = 6 /\ Trials(p, max)[1] = <<CCSHello, FetchRSAServerKey>> /\ Connections(p) = 6
    BY <1>4 DEF Trials, Talk
  <2>2. h = CCSHello
    BY <1>4 DEF HelloFor
  <2>3. CASE t = 1
    <3>1. Kind(p, t) = "talk" /\ r = FetchRSAServerKey
      BY <1>4, <2>3 DEF Kind, ReaderFor
    <3>2. Trials(p, max)[t] = <<h, r>>
      BY <2>1, <2>2, <2>3, <3>1
    <3> QED BY <2>1, <3>1, <3>2, ShapeOfKind, Zenon
  <2>4. CASE t # 1
    <3>1. Kind(p, t) = "write" /\ r = KeyFlight
      BY <1>4, <2>4 DEF Kind, ReaderFor, Writes, Talks
    <3>2. Trials(p, max)[t] = RobotTrial(What(p, t))
      BY <1>4, <2>4 DEF Trials, What
    <3>3. Trials(p, max)[t] = <<h, r, w, Header>>
      BY <3>2, <2>2, <3>1 DEF RobotTrial
    <3> QED BY <2>1, <3>1, <3>3, ShapeOfKind, Zenon
  <2> QED BY <2>3, <2>4
<1>5. CASE p = "reneg"
  <2>1. RenegTrial = <<CCSHello, KeyFlight, Put("finished"), TwoRecords, Put("hello_again"), Header>>
    BY GlueTwo DEF RenegTrial, RenegHandshake
  <2>2. BurstTrial = <<CCSHello, KeyFlight, Put("finished"), TwoRecords, BurstStep>>
    BY GlueOne DEF BurstTrial, RenegHandshake, BurstStep
  <2>3. h = CCSHello /\ r = KeyFlight /\ w = Put("finished")
    BY <1>5 DEF HelloFor, ReaderFor, What
  <2>4. Len(Trials(p, max)) = 4 /\ Connections(p) = 4
    BY <1>5 DEF Trials
  <2>5. CASE t = 4
    <3>1. Kind(p, t) = "burst" /\ Trials(p, max)[t] = BurstTrial
      BY <1>5, <2>5 DEF Kind, Writes, Talks, Trials
    <3> QED BY <2>2, <2>3, <2>4, <3>1, ShapeOfKind, Zenon
  <2>6. CASE t # 4
    <3>1. Kind(p, t) = "again" /\ Trials(p, max)[t] = RenegTrial
      BY <1>5, <2>6 DEF Kind, Writes, Talks, Trials
    <3> QED BY <2>1, <2>3, <2>4, <3>1, ShapeOfKind, Zenon
  <2> QED BY <2>5, <2>6
<1>6. CASE p = "resumption"
  <2>1. Len(Trials(p, max)) = 2 /\ Trials(p, max)[t] = <<GoStep(p)>> /\ Connections(p) = 2
    BY <1>6 DEF Trials, GoTrial, GoStep
  <2>2. Kind(p, t) = "go"
    BY <1>6 DEF Kind, Writes, Talks
  <2> QED BY <2>1, <2>2, ShapeOfKind, Zenon
<1>7. CASE p = "zero_rtt"
  <2>1. Len(Trials(p, max)) = 3 /\ Connections(p) = 3
    BY <1>7 DEF Trials
  <2>2. h = EarlyDataHello /\ r = First({"ServerHello"})
    BY <1>7 DEF HelloFor, ReaderFor
  <2>3. CASE t = 1
    <3>1. Kind(p, t) = "early" /\ Trials(p, max)[t] = EarlyDataTrial
      BY <1>7, <2>3 DEF Kind, Writes, Talks, Trials
    <3>2. Trials(p, max)[t] = <<h, r, EncryptedFlight, Put("finished13"), RequestStep, TicketsStep>>
      BY <3>1, <2>2 DEF EarlyDataTrial, EncryptedFlight, RequestStep, TicketsStep
    <3> QED BY <2>1, <3>1, <3>2, ShapeOfKind, Zenon
  <2>4. CASE t # 1
    <3>1. Kind(p, t) = "go" /\ Trials(p, max)[t] = <<GoStep(p)>>
      BY <1>7, <2>4 DEF Kind, Writes, Talks, Trials, GoTrial, GoStep
    <3> QED BY <2>1, <3>1, ShapeOfKind, Zenon
  <2> QED BY <2>3, <2>4
<1> QED BY <1>1, <1>2, <1>3, <1>4, <1>5, <1>6, <1>7 DEF Probes, Talks

(* The order of the naturals is a well-founded relation.                   *)
LEMMA LessThan ==
  \E R : IsWellFoundedOn(R, Nat) /\ \A x, y \in Nat : <<y, x>> \in R <=> y < x
<1>1. IsWellFoundedOn(OpToRel(<, Nat), Nat)
  BY NatLessThanWellFounded
<1>2. \A x, y \in Nat : <<y, x>> \in OpToRel(<, Nat) <=> y < x
  BY DEF OpToRel
<1> QED BY <1>1, <1>2

(* A nonempty set of naturals has a least element.                         *)
LEMMA LeastNatural ==
  ASSUME NEW S \in SUBSET Nat, S # {}
  PROVE  \E n \in S : \A m \in S : n <= m
<1>1. PICK R : IsWellFoundedOn(R, Nat) /\ \A x, y \in Nat : <<y, x>> \in R <=> y < x
  BY LessThan
<1>2. PICK n \in S : \A y \in S : ~(<<y, n>> \in R)
  BY <1>1, WFMin
<1>3. \A y \in S : ~(y < n)
  BY <1>1, <1>2
<1>4. \A y \in S : n <= y
  BY <1>3
<1> QED BY <1>4

-----------------------------------------------------------------------------
(* The server.                                                             *)

Names == {"ServerHello", "Certificate", "ServerKeyExchange", "ServerHelloDone", "EncryptedExtensions",
          "CertificateVerify", "Finished", "head", "rest", "ticket", "early_ticket"}
Types == {"alert", "eof", "ssl2", "handshake", "ccs", "data", "heartbeat"}
Ids   == {"eof", "version", "refused", "inappropriate_fallback", "hello", "flight", "long", "finished", "ccs",
          "ticket", "unexpected_message", "no_renegotiation", "bad_record_mac", "decode_error"}
Recs  == [type : Types, msgs : Seq(Names), id : Ids, v : Int, re : {"hello", "put"}]
Finals == {"ServerHelloDone", "Finished"}
Torn   == {"head", "rest"}

Holds(ms, e) == \E j \in 1..Len(ms) : ms[j] = e
Final(ms)    == \E j \in 1..Len(ms) : ms[j] \in Finals
Clean(ms)    == \A j \in 1..Len(ms) : ms[j] \notin Torn

(* A flight of messages: the final one is at the end and none is torn.     *)
Ending(m, e) ==
  /\ m \in Seq(Names) /\ Len(m) >= 1 /\ m[Len(m)] = e
  /\ \A i \in 1..Len(m) : m[i] \notin Torn /\ (m[i] \in Finals => i = Len(m))

(* The flight of TLS 1.2 and below opens with ServerHello and ends with    *)
(* ServerHelloDone.                                                        *)
LEMMA MessagesEnd ==
  ASSUME NEW s
  PROVE  /\ Ending(Messages(s), "ServerHelloDone") /\ Messages(s)[1] = "ServerHello"
         /\ s = "AES128CBC" => Messages(s) = <<"ServerHello", "Certificate", "ServerHelloDone">>
<1>1. CASE Messages(s) = <<"ServerHello", "ServerKeyExchange", "ServerHelloDone">> /\ s = "ANON_EXPORT"
  BY <1>1 DEF Ending, Torn, Finals, Names
<1>2. CASE Messages(s) = <<"ServerHello", "Certificate", "ServerKeyExchange", "ServerHelloDone">>
           /\ s \in {"ECDHE", "DHE", "DHE_EXPORT"}
  BY <1>2 DEF Ending, Torn, Finals, Names
<1>3. CASE Messages(s) = <<"ServerHello", "Certificate", "ServerHelloDone">>
  BY <1>3 DEF Ending, Torn, Finals, Names
<1> QED BY <1>1, <1>2, <1>3 DEF Messages

(* The encrypted flight of TLS 1.3 ends with Finished.                     *)
LEMMA EncryptedEnds == Ending(Encrypted, "Finished")
BY DEF Ending, Encrypted, Torn, Finals, Names

(* A ServerHello on its own ends with itself.                              *)
LEMMA HelloEnds == Ending(<<"ServerHello">>, "ServerHello")
BY DEF Ending, Torn, Finals, Names

(* What a layout in records keeps of it.                                   *)
OfFlight(r, type, v) == r.type = type /\ r.id = "flight" /\ r.v = v /\ r.re = "hello"

LaidOut(w, m, e, type, v) ==
  /\ w \in Seq(Recs) /\ Len(w) >= 1
  /\ \A i \in 1..Len(w) : OfFlight(w[i], type, v)
  /\ \A i \in 1..Len(w) : Final(w[i].msgs) => i = Len(w)
  /\ srv.framing # "split" => (\A i \in 1..Len(w) : Clean(w[i].msgs)) /\ Holds(w[Len(w)].msgs, e)
  /\ Len(w[1].msgs) >= 1 /\ w[1].msgs[1] = m[1]
  /\ srv.framing = "one" \/ Len(m) = 1 => Len(w) = 1 /\ w[1].msgs = m
  /\ srv.framing = "each" => Len(w) = Len(m) /\ \A i \in 1..Len(m) : w[i].msgs = <<m[i]>>
  /\ srv.framing = "split" /\ Len(m) > 1 /\ m[2] = "Certificate" => w[1].msgs = <<m[1], "head">>

(* A record of one message.                                                *)
LEMMA Singles ==
  ASSUME NEW x
  PROVE  /\ Len(<<x>>) = 1 /\ <<x>>[1] = x /\ Holds(<<x>>, x)
         /\ Final(<<x>>) <=> x \in Finals
         /\ Clean(<<x>>) <=> x \notin Torn
BY DEF Holds, Final, Clean

(* However the server cuts its flight into records, its messages arrive in *)
(* order and the last one last.                                            *)
LEMMA LayoutFacts ==
  ASSUME NEW m, NEW e, Ending(m, e), NEW type \in Types, NEW v \in Int
  PROVE  LaidOut(Lay(m, type, v), m, e, type, v)
<1> DEFINE rec(ms) == Record(type, ms, "flight", v, "hello")
           cut == Len(m) > 1 /\ srv.framing = "split" /\ m[2] = "Certificate"
           w == Lay(m, type, v)
<1>0. m \in Seq(Names) /\ Len(m) >= 1 /\ Len(m) \in Nat /\ \A i \in 1..Len(m) : m[i] \in Names
  BY DEF Ending
<1>a. \A ms \in Seq(Names) : rec(ms) \in Recs /\ OfFlight(rec(ms), type, v) /\ rec(ms).msgs = ms
  BY DEF Record, Recs, Ids, OfFlight
<1>b. w = IF srv.framing = "each" THEN [i \in 1..Len(m) |-> rec(<<m[i]>>)]
          ELSE IF cut THEN <<rec(<<m[1], "head">>), rec(<<"rest">> \o SubSeq(m, 3, Len(m)))>>
          ELSE <<rec(m)>>
  BY DEF Lay
<1> SUFFICES LaidOut(w, m, e, type, v)
  OBVIOUS
<1> HIDE DEF rec, w
<1>1. CASE srv.framing = "each"
  <2>1. \A i \in 1..Len(m) : <<m[i]>> \in Seq(Names)
    BY <1>0
  <2>2. w = [i \in 1..Len(m) |-> rec(<<m[i]>>)]
    BY <1>1, <1>b
  <2>3. \A i \in 1..Len(m) : w[i] = rec(<<m[i]>>) /\ w[i] \in Recs
    BY <2>1, <2>2, <1>a
  <2>4. w \in Seq(Recs) /\ Len(w) = Len(m) /\ Len(w) >= 1 /\ 1 \in 1..Len(w) /\ Len(m) \in 1..Len(w)
    BY <2>2, <2>3, <1>0
  <2>5. \A i \in 1..Len(m) : w[i].msgs = <<m[i]>>
    BY <2>1, <2>3, <1>a
  <2>6. \A i \in 1..Len(w) : OfFlight(w[i], type, v)
    BY <2>1, <2>3, <2>4, <1>a, Zenon
  <2>7. \A i \in 1..Len(w) : Final(<<m[i]>>) => i = Len(w)
    BY <2>4, <1>0, Singles DEF Ending
  <2>8. \A i \in 1..Len(w) : Clean(<<m[i]>>)
    BY <2>4, <1>0, Singles DEF Ending
  <2>9. Holds(<<m[Len(m)]>>, e)
    BY Singles DEF Ending
  <2>10. Len(<<m[1]>>) >= 1 /\ <<m[1]>>[1] = m[1]
    OBVIOUS
  <2>11. srv.framing # "one" /\ srv.framing # "split"
    BY <1>1
  <2>12. \A i \in 1..Len(w) : Final(w[i].msgs) => i = Len(w)
    BY <2>4, <2>5, <2>7, Zenon
  <2>13. (\A i \in 1..Len(w) : Clean(w[i].msgs)) /\ Holds(w[Len(w)].msgs, e)
    BY <2>4, <2>5, <2>8, <2>9, Zenon
  <2>14. Len(w[1].msgs) >= 1 /\ w[1].msgs[1] = m[1]
    BY <2>4, <2>5, <2>10, Zenon
  <2>15. Len(m) = 1 => Len(w) = 1 /\ w[1].msgs = m
    <3>1. Len(m) = 1 => m = <<m[1]>>
      BY <1>0
    <3> QED BY <2>4, <2>5, <3>1
  <2> QED BY <2>4, <2>5, <2>6, <2>11, <2>12, <2>13, <2>14, <2>15 DEF LaidOut
<1>2. CASE srv.framing # "each" /\ ~cut
  <2>1. w = <<rec(m)>> /\ w \in Seq(Recs) /\ Len(w) = 1 /\ w[1] = rec(m) /\ Len(w) >= 1
    BY <1>2, <1>b, <1>0, <1>a
  <2>2. w[1].msgs = m /\ OfFlight(w[1], type, v)
    BY <2>1, <1>0, <1>a, Zenon
  <2>3. \A i \in 1..Len(w) : i = 1 /\ i = Len(w)
    BY <2>1
  <2>4. Clean(m) /\ Holds(m, e)
    BY <1>0 DEF Ending, Clean, Holds
  <2>5. \A i \in 1..Len(w) : w[i].msgs = m
    BY <2>2, <2>3, Zenon
  <2>6. \A i \in 1..Len(w) : OfFlight(w[i], type, v)
    BY <2>2, <2>3, Zenon
  <2>7. w[Len(w)].msgs = m
    BY <2>1, <2>2
  <2>8. (\A i \in 1..Len(w) : Clean(w[i].msgs)) /\ Holds(w[Len(w)].msgs, e)
    BY <2>4, <2>5, <2>7, Zenon
  <2>9. Len(w[1].msgs) >= 1 /\ w[1].msgs[1] = m[1]
    BY <1>0, <2>2, Zenon
  <2> QED BY <1>2, <2>1, <2>2, <2>3, <2>6, <2>8, <2>9 DEF LaidOut
<1>3. CASE cut
  <2> DEFINE a == <<m[1], "head">>
             b == <<"rest">> \o SubSeq(m, 3, Len(m))
  <2>1. a \in Seq(Names) /\ Len(a) >= 1 /\ a[1] = m[1]
    BY <1>0, <1>3 DEF Names
  <2>2. ~Final(a)
    BY <1>0, <1>3 DEF Ending, Finals, Final
  <2>3. b \in Seq(Names)
    <3>1. SubSeq(m, 3, Len(m)) \in Seq(Names)
      BY <1>0
    <3>2. <<"rest">> \in Seq(Names)
      BY DEF Names
    <3> QED BY <3>1, <3>2, ConcatProperties, Zenon
  <2> HIDE DEF a, b
  <2>4. w = <<rec(a), rec(b)>>
    BY <1>3, <1>b DEF a, b
  <2>5. rec(a) \in Recs /\ rec(b) \in Recs /\ OfFlight(rec(a), type, v) /\ OfFlight(rec(b), type, v) /\ rec(a).msgs = a
    BY <2>1, <2>3, <1>a, Zenon
  <2>6. w \in Seq(Recs) /\ Len(w) = 2 /\ w[1] = rec(a) /\ w[2] = rec(b)
    BY <2>4, <2>5
  <2>7. \A i \in 1..Len(w) : i = 1 \/ (i = 2 /\ i = Len(w))
    BY <2>6
  <2>8. \A i \in 1..Len(w) : OfFlight(w[i], type, v)
    BY <2>5, <2>6, <2>7, Zenon
  <2>9. w[1].msgs = a
    BY <2>5, <2>6, Zenon
  <2>10. \A i \in 1..Len(w) : Final(w[i].msgs) => i = Len(w)
    BY <2>2, <2>7, <2>9, Zenon
  <2>11. Len(w) >= 1 /\ Len(m) # 1 /\ srv.framing # "one" /\ srv.framing # "each" /\ srv.framing = "split"
    BY <1>0, <1>3, <2>6
  <2>12. Len(w[1].msgs) >= 1 /\ w[1].msgs[1] = m[1]
    BY <2>1, <2>9, Zenon
  <2>13. w[1].msgs = <<m[1], "head">>
    BY <2>9, Zenon DEF a
  <2> QED BY <2>6, <2>8, <2>10, <2>11, <2>12, <2>13 DEF LaidOut
<1> QED BY <1>1, <1>2, <1>3

Agreed(h) == CommonVersions(h) # {} /\ Choices(h) # {}

(* What a record that answers hello h says.                                *)
Truthful(r, h) ==
  /\ r.re = "hello"
  /\ r.type = "handshake" => /\ Agreed(h) /\ ~("scsv" \in h.flags /\ Has("scsv"))
                             /\ h.version # TLS13 => r.v = Negotiated(h)
  /\ r.type = "ssl2" => Has("ssl2")
  /\ r.id = "inappropriate_fallback" => Has("scsv")

AnswersHello(w, h) ==
  /\ w \in Seq(Recs)
  /\ \A i \in 1..Len(w) : Truthful(w[i], h)
  /\ \A i \in 1..Len(w) : Final(w[i].msgs) => i = Len(w)

(* The highest version of a nonempty set of versions.                      *)
LEMMA HighestVersion ==
  ASSUME NEW S \in SUBSET (0..4), S # {}
  PROVE  LET m == CHOOSE v \in S : \A w \in S : w <= v IN m \in S /\ \A w \in S : w <= m
<1>1. \E v \in S : \A w \in S : w <= v
  <2>1. CASE 4 \in S
    BY <2>1
  <2>2. CASE 4 \notin S /\ 3 \in S
    BY <2>2
  <2>3. CASE 4 \notin S /\ 3 \notin S /\ 2 \in S
    BY <2>3
  <2>4. CASE 4 \notin S /\ 3 \notin S /\ 2 \notin S /\ 1 \in S
    BY <2>4
  <2>5. CASE 4 \notin S /\ 3 \notin S /\ 2 \notin S /\ 1 \notin S
    <3>1. \A w \in S : w = 0
      BY <2>5
    <3>2. 0 \in S
      BY <3>1
    <3> QED BY <3>1, <3>2
  <2> QED BY <2>1, <2>2, <2>3, <2>4, <2>5
<1> QED BY <1>1

(* What a server is made of.                                               *)
LEMMA ServerTyped ==
  ASSUME srv \in Servers
  PROVE  /\ srv.versions \in SUBSET (0..4) /\ srv.framing \in {"one", "big", "each", "split"}
         /\ srv.manner \in {"alert", "close", "silent"} /\ srv.suites \in SUBSET Families
BY ServersAssumption DEF ServerType, Versions

(* The version negotiated is one that both sides offer.                    *)
LEMMA NegotiatedIsCommon ==
  ASSUME srv \in Servers, NEW h, CommonVersions(h) # {}
  PROVE  /\ Negotiated(h) \in CommonVersions(h) /\ Negotiated(h) \in srv.versions /\ Negotiated(h) \in Int
         /\ h.version = TLS13 <=> Negotiated(h) = TLS13 /\ h.version = TLS13
<1>1. CommonVersions(h) \in SUBSET (0..4) /\ CommonVersions(h) \subseteq srv.versions
  BY ServerTyped DEF CommonVersions
<1>2. Negotiated(h) \in CommonVersions(h)
  BY <1>1, HighestVersion DEF Negotiated
<1> QED BY <1>1, <1>2 DEF CommonVersions

(* An alert, an end of the stream or silence.                              *)
LEMMA TurnedAway ==
  ASSUME srv \in Servers, NEW id \in Ids, id # "inappropriate_fallback", NEW re \in {"hello", "put"}
  PROVE  /\ TurnAway(id, re) \in Seq(Recs) /\ Len(TurnAway(id, re)) <= 1
         /\ \A i \in 1..Len(TurnAway(id, re)) :
              LET r == TurnAway(id, re)[i]
              IN  r.type \in {"alert", "eof"} /\ r.msgs = <<>> /\ r.re = re /\ r.id \in {id, "eof"}
         /\ srv.manner = "alert" => TurnAway(id, re) = Alert(id, re)
<1> DEFINE t == TurnAway(id, re)
           a == Record("alert", <<>>, id, 0, re)
           e == Record("eof", <<>>, "eof", 0, re)
<1>1. a \in Recs /\ e \in Recs
  BY DEF Record, Recs, Types, Ids
<1>2. t = <<a>> \/ t = <<e>> \/ t = <<>>
  BY ServerTyped DEF TurnAway, Alert, Eof
<1>3. srv.manner = "alert" => t = Alert(id, re)
  BY DEF TurnAway
<1>4. a.type = "alert" /\ a.msgs = <<>> /\ a.re = re /\ a.id = id
  BY DEF Record
<1>5. e.type = "eof" /\ e.msgs = <<>> /\ e.re = re /\ e.id = "eof"
  BY DEF Record
<1> HIDE DEF t, a, e
<1>6. t \in Seq(Recs) /\ Len(t) <= 1 /\ \A i \in 1..Len(t) : t[i] = a \/ t[i] = e
  <2>1. CASE t = <<a>>
    BY <1>1, <2>1
  <2>2. CASE t = <<e>>
    BY <1>1, <2>2
  <2>3. CASE t = <<>>
    BY <2>3
  <2> QED BY <1>2, <2>1, <2>2, <2>3
<1>7. \A i \in 1..Len(t) : t[i].type \in {"alert", "eof"} /\ t[i].msgs = <<>> /\ t[i].re = re /\ t[i].id \in {id, "eof"}
  <2> TAKE i \in 1..Len(t)
  <2>1. CASE t[i] = a
    BY <1>4, <2>1, Zenon
  <2>2. CASE t[i] = e
    BY <1>5, <2>2, Zenon
  <2>3. t[i] = a \/ t[i] = e
    BY <1>6
  <2> QED BY <2>1, <2>2, <2>3, Zenon
<1> QED BY <1>3, <1>6, <1>7 DEF t

(* A record without messages ends no flight.                               *)
LEMMA NoMessages == ~Final(<<>>)
BY DEF Final

(* Concatenation of records that answer a hello.                           *)
LEMMA AnswersGlue ==
  ASSUME NEW h, NEW x, NEW y, AnswersHello(x, h), AnswersHello(y, h),
         \A i \in 1..Len(x) : ~Final(x[i].msgs)
  PROVE  AnswersHello(x \o y, h)
<1> DEFINE z == x \o y
<1>1. x \in Seq(Recs) /\ y \in Seq(Recs) /\ Len(x) \in Nat /\ Len(y) \in Nat
  BY DEF AnswersHello
<1>2. /\ z \in Seq(Recs) /\ Len(z) = Len(x) + Len(y)
      /\ \A i \in 1..Len(x) + Len(y) : z[i] = IF i <= Len(x) THEN x[i] ELSE y[i - Len(x)]
  BY <1>1, ConcatProperties, Zenon
<1> SUFFICES AnswersHello(z, h)
  OBVIOUS
<1> HIDE DEF z
<1>3. \A i \in 1..Len(z) : \/ i \in 1..Len(x) /\ z[i] = x[i]
                           \/ i - Len(x) \in 1..Len(y) /\ z[i] = y[i - Len(x)]
  BY <1>1, <1>2
<1>4. \A i \in 1..Len(z) : Truthful(z[i], h)
  BY <1>3, Zenon DEF AnswersHello
<1>5. \A i \in 1..Len(z) : Final(z[i].msgs) => i = Len(z)
  <2> SUFFICES ASSUME NEW i \in 1..Len(z), Final(z[i].msgs) PROVE i = Len(z)
    OBVIOUS
  <2>1. i - Len(x) \in 1..Len(y) /\ z[i] = y[i - Len(x)]
    BY <1>3, Zenon
  <2>2. i - Len(x) = Len(y)
    BY <2>1, Zenon DEF AnswersHello
  <2> QED BY <2>2, <1>1, <1>2
<1> QED BY <1>2, <1>4, <1>5 DEF AnswersHello

(* A layout answers a hello that was agreed to.                            *)
LEMMA LayoutAnswers ==
  ASSUME NEW h, NEW w, NEW m, NEW e, NEW type \in {"handshake", "data"}, NEW v, LaidOut(w, m, e, type, v),
         Agreed(h), ~("scsv" \in h.flags /\ Has("scsv")), h.version # TLS13 => v = Negotiated(h)
  PROVE  AnswersHello(w, h)
<1>1. \A r : OfFlight(r, type, v) => Truthful(r, h)
  BY DEF OfFlight, Truthful
<1> QED BY <1>1, Zenon DEF LaidOut, AnswersHello

(* A single truthful record answers a hello.                               *)
LEMMA OneAnswers ==
  ASSUME NEW h, NEW r \in Recs, Truthful(r, h)
  PROVE  AnswersHello(<<r>>, h)
<1>1. <<r>> \in Seq(Recs) /\ Len(<<r>>) = 1 /\ <<r>>[1] = r
  OBVIOUS
<1>2. \A i \in 1..Len(<<r>>) : i = 1 /\ i = Len(<<r>>)
  BY <1>1
<1>3. \A i \in 1..Len(<<r>>) : Truthful(<<r>>[i], h)
  BY <1>1, <1>2, Zenon
<1> QED BY <1>1, <1>2, <1>3, Zenon DEF AnswersHello

(* Silence answers any hello.                                              *)
LEMMA NoneAnswers ==
  ASSUME NEW h
  PROVE  AnswersHello(<<>>, h)
BY DEF AnswersHello

(* Every reply of the server to a hello answers that hello.                *)
LEMMA RepliesAnswer ==
  ASSUME srv \in Servers, NEW h, NEW reply \in Replies(h)
  PROVE  AnswersHello(reply, h)
<1>1. ASSUME NEW id \in {"version", "refused"}
      PROVE  AnswersHello(TurnAway(id, "hello"), h)
  <2> DEFINE t == TurnAway(id, "hello")
  <2>1. id \in Ids /\ id # "inappropriate_fallback"
    BY DEF Ids
  <2>2. t \in Seq(Recs) /\ Len(t) <= 1
        /\ \A i \in 1..Len(t) : t[i].type \in {"alert", "eof"} /\ t[i].msgs = <<>> /\ t[i].re = "hello" /\ t[i].id \in {id, "eof"}
    BY <2>1, TurnedAway
  <2> HIDE DEF t
  <2>3. \A i \in 1..Len(t) : Truthful(t[i], h)
    BY <2>1, <2>2 DEF Truthful
  <2>4. \A i \in 1..Len(t) : ~Final(t[i].msgs)
    BY <2>2, NoMessages
  <2>5. AnswersHello(t, h)
    BY <2>2, <2>3, <2>4 DEF AnswersHello
  <2> QED BY <2>5 DEF t
<1>2. CASE "ssl2" \in h.flags
  <2>1. CASE Has("ssl2")
    <3>1. reply = <<Record("ssl2", <<>>, "hello", 0, "hello")>>
      BY <1>2, <2>1 DEF Replies
    <3>2. Record("ssl2", <<>>, "hello", 0, "hello") \in Recs /\ Truthful(Record("ssl2", <<>>, "hello", 0, "hello"), h)
      BY <2>1 DEF Record, Recs, Types, Ids, Truthful
    <3> QED BY <3>1, <3>2, OneAnswers
  <2>2. CASE ~Has("ssl2")
    BY <1>1, <1>2, <2>2 DEF Replies
  <2> QED BY <2>1, <2>2
<1>3. CASE "ssl2" \notin h.flags /\ ~Agreed(h)
  BY <1>1, <1>3 DEF Replies, Agreed
<1>4. CASE "ssl2" \notin h.flags /\ Agreed(h) /\ "scsv" \in h.flags /\ Has("scsv")
  <2>1. reply = <<Record("alert", <<>>, "inappropriate_fallback", 0, "hello")>>
    BY <1>4 DEF Replies, Agreed, Alert
  <2>2. Record("alert", <<>>, "inappropriate_fallback", 0, "hello") \in Recs
        /\ Truthful(Record("alert", <<>>, "inappropriate_fallback", 0, "hello"), h)
    BY <1>4 DEF Record, Recs, Types, Ids, Truthful
  <2> QED BY <2>1, <2>2, OneAnswers
<1>5. CASE "ssl2" \notin h.flags /\ Agreed(h) /\ ~("scsv" \in h.flags /\ Has("scsv")) /\ h.version # TLS13
  <2>1. PICK s \in Choices(h) : reply = Lay(Messages(s), "handshake", Negotiated(h))
    BY <1>5 DEF Replies, Agreed
  <2>2. Negotiated(h) \in Int
    BY <1>5, NegotiatedIsCommon DEF Agreed
  <2>3. LaidOut(reply, Messages(s), "ServerHelloDone", "handshake", Negotiated(h))
    BY <2>1, <2>2, MessagesEnd, LayoutFacts DEF Types
  <2> QED BY <1>5, <2>3, LayoutAnswers
<1>6. CASE "ssl2" \notin h.flags /\ Agreed(h) /\ ~("scsv" \in h.flags /\ Has("scsv")) /\ h.version = TLS13
  <2> DEFINE x == Lay(<<"ServerHello">>, "handshake", TLS12)
             c == Record("ccs", <<>>, "flight", TLS12, "hello")
             y == Lay(Encrypted, "data", TLS12)
  <2>1. LaidOut(x, <<"ServerHello">>, "ServerHello", "handshake", TLS12)
    BY HelloEnds, LayoutFacts DEF TLS12, Types
  <2>2. LaidOut(y, Encrypted, "Finished", "data", TLS12)
    BY EncryptedEnds, LayoutFacts DEF TLS12, Types
  <2>3. c \in Recs /\ Truthful(c, h) /\ c.msgs = <<>>
    BY DEF Record, Recs, Types, Ids, Truthful, TLS12
  <2>4. reply = x \o (IF "x25519" \in h.flags THEN <<c>> \o y ELSE <<>>)
    BY <1>6 DEF Replies, Agreed
  <2> HIDE DEF x, c, y
  <2>5. AnswersHello(x, h) /\ AnswersHello(y, h)
    BY <1>6, <2>1, <2>2, LayoutAnswers
  <2>6. Len(x) = 1 /\ x[1].msgs = <<"ServerHello">>
    BY <2>1 DEF LaidOut
  <2>7. \A i \in 1..Len(x) : ~Final(x[i].msgs)
    <3>1. ~Final(<<"ServerHello">>)
      BY Singles DEF Finals
    <3>2. \A i \in 1..Len(x) : i = 1
      BY <2>6
    <3> QED BY <2>6, <3>1, <3>2, Zenon
  <2>8. AnswersHello(<<c>>, h) /\ \A i \in 1..Len(<<c>>) : ~Final(<<c>>[i].msgs)
    <3>1. AnswersHello(<<c>>, h)
      BY <2>3, OneAnswers
    <3>2. \A i \in 1..Len(<<c>>) : <<c>>[i] = c
      OBVIOUS
    <3> QED BY <2>3, <3>1, <3>2, NoMessages, Zenon
  <2>9. AnswersHello(<<c>> \o y, h)
    BY <2>5, <2>8, AnswersGlue, Zenon
  <2>10. AnswersHello(IF "x25519" \in h.flags THEN <<c>> \o y ELSE <<>>, h)
    BY <2>9, NoneAnswers, Zenon
  <2> QED BY <2>4, <2>5, <2>7, <2>10, AnswersGlue, Zenon
<1> QED BY <1>2, <1>3, <1>4, <1>5, <1>6

(* What a reader makes of a record.                                        *)
LEMMA ScanFacts ==
  ASSUME NEW step, NEW msgs \in Seq(Names), "fail" \notin step.until, "more" \notin step.until
  PROVE  /\ Scan(step, msgs) \in step.until => Holds(msgs, Scan(step, msgs))
         /\ Clean(msgs) /\ (\E j \in 1..Len(msgs) : msgs[j] \in step.until) => Scan(step, msgs) \in step.until
         /\ Clean(msgs) /\ (\A j \in 1..Len(msgs) : msgs[j] \notin step.until) => Scan(step, msgs) = "more"
         /\ Scan(step, msgs) = "fail" => step.over = "fail" /\ ~Clean(msgs)
         /\ \/ Scan(step, msgs) \in step.until
            \/ Scan(step, msgs) = "fail"
            \/ Scan(step, msgs) = "more"
<1> DEFINE wanted == {i \in 1..Len(msgs) : msgs[i] \in step.until}
           broken == {i \in 1..Len(msgs) : step.over # "buffer" /\ msgs[i] \in {"head", "rest"}}
           first(S) == CHOOSE i \in S : \A j \in S : i <= j
           says == Scan(step, msgs)
<1>1. says = IF wanted # {} /\ (broken = {} \/ first(wanted) < first(broken)) THEN msgs[first(wanted)]
             ELSE IF broken # {} /\ step.over = "fail" THEN "fail"
             ELSE "more"
  BY DEF Scan
<1>2. wanted # {} => first(wanted) \in wanted
  <2>1. wanted \in SUBSET Nat
    OBVIOUS
  <2> HIDE DEF wanted
  <2> QED BY <2>1, LeastNatural
<1>3. wanted # {} => first(wanted) \in 1..Len(msgs) /\ msgs[first(wanted)] \in step.until
  BY <1>2
<1>4. Clean(msgs) => broken = {}
  BY DEF Clean, Torn
<1>5. (\E j \in 1..Len(msgs) : msgs[j] \in step.until) => wanted # {}
  OBVIOUS
<1>6. (\A j \in 1..Len(msgs) : msgs[j] \notin step.until) => wanted = {}
  OBVIOUS
<1> HIDE DEF wanted, broken, first, says
<1>7. says \in step.until => Holds(msgs, says)
  BY <1>1, <1>3 DEF Holds
<1>8. Clean(msgs) /\ (\E j \in 1..Len(msgs) : msgs[j] \in step.until) => says \in step.until
  BY <1>1, <1>3, <1>4, <1>5
<1>9. Clean(msgs) /\ (\A j \in 1..Len(msgs) : msgs[j] \notin step.until) => says = "more"
  BY <1>1, <1>4, <1>6
<1>10. says = "fail" => step.over = "fail" /\ ~Clean(msgs)
  BY <1>1, <1>3, <1>4
<1>11. says \in step.until \/ says = "fail" \/ says = "more"
  BY <1>1, <1>3
<1> QED BY <1>7, <1>8, <1>9, <1>10, <1>11, Zenon DEF says

(* A record torn before anything wanted ends a reader that gives up.       *)
LEMMA ScanTorn ==
  ASSUME NEW step, NEW x, x \notin step.until, x # "head", "head" \notin step.until, step.over = "fail"
  PROVE  Scan(step, <<x, "head">>) = "fail"
<1> DEFINE msgs == <<x, "head">>
<1>1. {i \in 1..Len(msgs) : msgs[i] \in step.until} = {}
  OBVIOUS
<1>2. 2 \in {i \in 1..Len(msgs) : step.over # "buffer" /\ msgs[i] \in {"head", "rest"}}
  OBVIOUS
<1> QED BY <1>1, <1>2 DEF Scan

-----------------------------------------------------------------------------
(* Answers to a later write.                                               *)
Replied(w) == w \in Seq(Recs) /\ \A i \in 1..Len(w) : w[i].re = "put"

(* Every answer of the server to what a probe writes later answers that    *)
(* write.                                                                  *)
LEMMA AnswersAreReplies ==
  ASSUME srv \in Servers, NEW what
  PROVE  Replied(Answer(what))
<1>1. ASSUME NEW id \in Ids, id # "inappropriate_fallback"
      PROVE  Replied(TurnAway(id, "put"))
  BY <1>1, TurnedAway DEF Replied
<1>2. ASSUME NEW r, r \in Recs, r.re = "put"
      PROVE  Replied(<<r>>)
  BY <1>2 DEF Replied
<1>3. ASSUME NEW type \in Types, NEW ms \in Seq(Names), NEW id \in Ids, NEW v \in Int
      PROVE  Record(type, ms, id, v, "put") \in Recs /\ Record(type, ms, id, v, "put").re = "put"
  BY DEF Record, Recs
<1>4. <<>> \in Seq(Names) /\ <<Ticket>> \in Seq(Names)
  BY DEF Ticket, Names
<1>5. Replied(<<>>)
  BY DEF Replied
<1>6. {"unexpected_message", "no_renegotiation", "bad_record_mac", "decode_error", "long", "finished",
       "hello", "ccs", "ticket"} \subseteq Ids
       /\ {"heartbeat", "handshake", "ccs", "data", "alert"} \subseteq Types /\ TLS11 \in Int /\ TLS12 \in Int
  BY DEF Ids, Types, TLS11, TLS12
<1> DEFINE c == Record("ccs", <<>>, "ccs", TLS12, "put")
           f == Record("handshake", <<>>, "finished", TLS12, "put")
<1>7. Replied(<<c, f>>)
  <2>1. c \in Recs /\ f \in Recs /\ c.re = "put" /\ f.re = "put"
    BY <1>3, <1>4, <1>6
  <2> HIDE DEF c, f
  <2> QED BY <2>1 DEF Replied
<1>8. Replied(Alert("decode_error", "put"))
  <2>1. "decode_error" \in Ids /\ "alert" \in Types /\ 0 \in Int
    BY <1>6
  <2>2. Record("alert", <<>>, "decode_error", 0, "put") \in Recs /\ Record("alert", <<>>, "decode_error", 0, "put").re = "put"
    BY <1>3, <1>4, <2>1, Zenon
  <2> QED BY <1>2, <2>2 DEF Alert
<1>9. /\ Replied(TurnAway("unexpected_message", "put")) /\ Replied(TurnAway("no_renegotiation", "put"))
      /\ Replied(TurnAway("bad_record_mac", "put")) /\ Replied(TurnAway("decode_error", "put"))
  <2>1. "unexpected_message" \in Ids /\ "no_renegotiation" \in Ids /\ "bad_record_mac" \in Ids /\ "decode_error" \in Ids
    BY <1>6
  <2> QED BY <1>1, <2>1
<1>10. /\ Replied(<<Record("heartbeat", <<>>, "long", TLS11, "put")>>)
       /\ Replied(<<Record("handshake", <<>>, "finished", TLS12, "put")>>)
       /\ Replied(<<Record("data", <<Ticket>>, "ticket", TLS12, "put")>>)
  <2>1. ASSUME NEW type \in Types, NEW ms \in Seq(Names), NEW id \in Ids, NEW v \in Int
        PROVE  Replied(<<Record(type, ms, id, v, "put")>>)
    BY <1>2, <1>3
  <2>2. "heartbeat" \in Types /\ "handshake" \in Types /\ "data" \in Types
        /\ "long" \in Ids /\ "finished" \in Ids /\ "ticket" \in Ids
    BY <1>6
  <2> QED BY <1>4, <1>6, <2>1, <2>2, Zenon
<1> DEFINE h == Record("handshake", <<>>, "hello", TLS12, "put")
<1>11. Replied([i \in 1..RenegRecords |-> h])
  <2>1. h \in Recs /\ h.re = "put"
    BY <1>3, <1>4, <1>6
  <2>2. RenegRecords \in Nat
    BY DEF RenegRecords
  <2> HIDE DEF h
  <2> QED BY <2>1, <2>2 DEF Replied
<1> QED BY <1>5, <1>7, <1>8, <1>9, <1>10, <1>11 DEF Answer

(* What a trial may observe.                                               *)
Said == Ids \cup {"-", "dial_failed", "hello_write_failed", "cke_write_failed", "non_handshake_record", "early_io_err",
                  "read_err", "yes", "no", "nil", "key", "ok", "protected", "unprotected", "slow", "fast", "short", "long", "burst"}

KindNow  == Kind(probe, trial)
HelloNow == HelloFor(probe, MaxVersion)

TicketSeen(s) ==
  /\ s \subseteq {"resumes", "early"}
  /\ s # {} => "resumes" \in s /\ Has("tickets") /\ TLS13 \in srv.versions
  /\ "early" \in s => Has("early_data")

SeenFits(s) == TicketSeen(s) \/ (probe = "extensions" /\ s \subseteq {"ems", "secure_reneg"})

(* Where the probe is.                                                     *)
Placed ==
  /\ probe \in Probes /\ srv \in Servers /\ phase \in {"talk", "done", "panic"}
  /\ faults \in 0..Faults /\ count \in Nat
  /\ obs \in Seq(Said)
  /\ trial \in 1..Connections(probe) /\ pc \in 1..Steps(KindNow)
  /\ Len(obs) = IF phase = "done" THEN trial ELSE trial - 1
  /\ phase # "done" /\ trial > 1 => More(probe, obs)
  /\ phase = "done" => ~More(probe, obs)

(* What it has reported.                                                   *)
Reported ==
  /\ phase # "done" => TicketSeen(flags) /\ (flags # {} => KindNow = "early" /\ pc = 6)
  /\ phase = "done" => \E seen \in SUBSET {"resumes", "early", "ems", "secure_reneg"} :
                         SeenFits(seen) /\ flags = Verdict(probe, obs, seen, count)

Suffix(w, r) == Len(w) <= Len(r) /\ \A i \in 1..Len(w) : w[i] = r[i + (Len(r) - Len(w))]

TicketRecord == Record("data", <<Ticket>>, "ticket", TLS12, "put")

(* What of the server's records is left to read, step by step.             *)
Wired ==
  phase = "talk" =>
    /\ wire \in Seq(Recs)
    /\ pc = 1 => wire = <<>>
    /\ pc = 2 => \E reply \in Replies(HelloNow) :
                   Suffix(wire, reply) /\ (ReaderFor(probe, trial).op # "flight" => wire = reply)
    /\ pc = 3 /\ KindNow = "early" => \E reply \in Replies(HelloNow) : Suffix(wire, reply)
    /\ pc = 3 /\ KindNow # "early" => wire = <<>>
    /\ pc = 4 /\ KindNow = "write" => wire = Answer(What(probe, trial))
    /\ pc = 4 /\ KindNow \in {"again", "burst"} => wire = Answer("finished")
    /\ pc = 4 /\ KindNow = "early" => wire = <<>>
    /\ pc = 5 /\ KindNow = "again" => wire = <<>>
    /\ pc = 6 /\ KindNow = "again" => wire = Answer("hello_again")
    /\ pc >= 5 /\ KindNow = "early" /\ wire # <<>> => Has("tickets") /\ wire = <<TicketRecord>>
    /\ pc >= 3 /\ KindNow = "early" => TLS13 \in srv.versions

(* What a reader of the flight waits for is still to come.                 *)
Ahead ==
  phase = "talk" /\ pc = 2 /\ Agreed(HelloNow) =>
    /\ KindNow \in {"write", "again", "burst"} /\ srv.framing # "split" => wire # <<>>
    /\ probe = "robot" /\ trial = 1 /\ srv.framing = "split" => wire \in Replies(HelloNow)
    /\ probe = "robot" /\ trial = 1 /\ srv.framing = "one" => wire # <<>>
    /\ probe = "robot" /\ trial = 1 /\ srv.framing = "each" => Len(wire) >= 2

(* What one observation bears out.                                         *)
YesProbes == {"sslv3", "sslv2", "heartbleed", "ccs", "ticketbleed", "alpn", "obscure", "cipher", "reneg"}

Turned == IF srv.manner = "alert" THEN "bad_record_mac" ELSE IF srv.manner = "close" THEN "eof" ELSE "read_err"

Quiet == faults = 0 /\ srv.framing \in {"one", "each"} /\ srv.manner = "alert" /\ ~Has("mangled")

Simple  == probe \in {"sslv2", "freak", "logjam", "obscure"} /\ Quiet /\ TLS10 \in srv.versions
Willing == /\ probe \in {"heartbleed", "ccs", "crime", "robot", "reneg"} /\ Quiet
           /\ TLS12 \in srv.versions /\ TLS11 \in srv.versions /\ "AES128CBC" \in srv.suites /\ ~Has("badcert")

YesIf(cond) == IF cond THEN "yes" ELSE "no"

Expected(i) ==
  IF probe \in {"heartbleed", "ccs", "crime"} THEN YesIf(Shows)
  ELSE IF probe = "reneg" THEN (IF i = 4 THEN "burst" ELSE YesIf(Shows))
  ELSE IF i = 1 THEN "key" ELSE IF i > 2 /\ Shows THEN "decode_error" ELSE "bad_record_mac"

Sound(o, i) ==
  /\ probe \in YesProbes /\ o = "yes" => Shows
  /\ probe \in {"freak", "logjam"} /\ o = "yes" => srv.suites \cap Offered # {}
  /\ probe = "crime" /\ o = "yes" => Shows \/ Has("mangled")
  /\ probe = "golden" => Failed(o) \/ o = "unexpected_message"
  /\ probe = "zombie" => Failed(o) \/ o = "short"
  /\ probe = "sleeping" => Failed(o) \/ o \in {"fast", "slow"}
  /\ probe = "scsv" => (o = "protected" => Has("scsv")) /\ (o = "unprotected" => ~Has("scsv"))
  /\ probe = "zero_rtt" /\ i = 2 /\ o = "ticket" => Has("tickets") /\ TLS13 \in srv.versions
  /\ probe = "robot" /\ i = 1 /\ ~Failed(o) => Agreed(CCSHello) /\ srv.framing # "split"

Steady(o, i) ==
  /\ probe = "robot" /\ i > 1 /\ faults = 0 /\ ~Has("padding") => o = Turned
  /\ probe = "sleeping" /\ faults = 0 => o # "slow"
  /\ Simple => (Shows => o = "yes")
  /\ Willing => o = Expected(i)

Observed ==
  /\ \A i \in 1..Len(obs) : Sound(obs[i], i) /\ Steady(obs[i], i)
  /\ probe = "sleeping" /\ faults <= 1 =>
       \A i, j \in 1..Len(obs) : obs[i] = "slow" /\ obs[j] = "slow" => i = j

IInv == Placed /\ Reported /\ Wired /\ Ahead /\ Observed

(* The six kinds of connection.                                            *)
LEMMA KindsAre ==
  ASSUME NEW p, NEW t
  PROVE  Kind(p, t) \in {"talk", "write", "again", "burst", "early", "go"}
BY DEF Kind

(* How many steps each kind takes.                                         *)
LEMMA StepsAre ==
  /\ Steps("go") = 1 /\ Steps("talk") = 2 /\ Steps("write") = 4 /\ Steps("burst") = 5
  /\ Steps("again") = 6 /\ Steps("early") = 6
BY DEF Steps

(* A probe opens between one and six connections.                          *)
LEMMA ConnectionsAre == \A p : Connections(p) \in 1..6
BY DEF Connections

(* The step about to be taken.                                             *)
LEMMA StepIs ==
  ASSUME Placed
  PROVE  /\ Len(Script) = Steps(KindNow)
         /\ pc \in 1..6
         /\ pc = 1 /\ KindNow = "go" => Step = GoStep(probe)
         /\ pc = 1 /\ KindNow # "go" => Step = HelloNow
         /\ pc = 2 => KindNow # "go" /\ Step = ReaderFor(probe, trial)
         /\ pc = 3 /\ KindNow # "early" => KindNow \in {"write", "again", "burst"} /\ Step = Put(What(probe, trial))
         /\ pc = 3 /\ KindNow = "early" => Step = EncryptedFlight
         /\ pc = 4 => \/ KindNow = "write" /\ Step = Header
                      \/ KindNow \in {"again", "burst"} /\ Step = TwoRecords
                      \/ KindNow = "early" /\ Step = Put("finished13")
         /\ pc = 5 => \/ KindNow = "again" /\ Step = Put("hello_again")
                      \/ KindNow = "burst" /\ Step = BurstStep
                      \/ KindNow = "early" /\ Step = RequestStep
         /\ pc = 6 => \/ KindNow = "again" /\ Step = Header
                      \/ KindNow = "early" /\ Step = TicketsStep
<1>1. probe \in Probes /\ trial \in 1..Connections(probe) /\ pc \in 1..Steps(KindNow)
  BY DEF Placed
<1>2. Shaped(Script, probe, trial, MaxVersion)
  BY <1>1, Scripts DEF Script
<1>3. KindNow \in {"talk", "write", "again", "burst", "early", "go"}
  BY KindsAre DEF KindNow
<1>4. pc \in 1..6
  BY <1>1, <1>3, StepsAre
<1>5. Len(Script) = Steps(KindNow)
  BY <1>2 DEF Shaped, KindNow
<1>6. /\ pc = 1 /\ KindNow = "go" => Step = GoStep(probe)
      /\ pc = 1 /\ KindNow # "go" => Step = HelloNow
  BY <1>2 DEF Shaped, KindNow, HelloNow, Step
<1>7. pc = 2 => KindNow # "go" /\ Step = ReaderFor(probe, trial)
  BY <1>1, <1>2, StepsAre DEF Shaped, KindNow, Step
<1>8. pc = 3 => KindNow \in {"write", "again", "burst", "early"}
  BY <1>1, <1>3, StepsAre
<1>9. pc = 3 /\ KindNow \in {"write", "again", "burst"} => Step = Put(What(probe, trial))
  BY <1>2 DEF Shaped, KindNow, Step
<1>10. KindNow = "early" => /\ pc = 3 => Step = EncryptedFlight
                            /\ pc = 4 => Step = Put("finished13")
                            /\ pc = 5 => Step = RequestStep
                            /\ pc = 6 => Step = TicketsStep
  BY <1>2 DEF Shaped, KindNow, Step
<1>11. pc = 4 => KindNow \in {"write", "again", "burst", "early"}
  BY <1>1, <1>3, StepsAre
<1>12. pc = 4 => /\ KindNow = "write" => Step = Header
                 /\ KindNow \in {"again", "burst"} => Step = TwoRecords
  BY <1>2 DEF Shaped, KindNow, Step
<1>13. pc = 5 => KindNow \in {"again", "burst", "early"}
  BY <1>1, <1>3, StepsAre
<1>14. pc = 5 => /\ KindNow = "again" => Step = Put("hello_again")
                 /\ KindNow = "burst" => Step = BurstStep
  BY <1>2 DEF Shaped, KindNow, Step
<1>15. pc = 6 => KindNow \in {"again", "early"}
  BY <1>1, <1>3, StepsAre
<1>16. pc = 6 /\ KindNow = "again" => Step = Header
  BY <1>2 DEF Shaped, KindNow, Step
<1> QED BY <1>4, <1>5, <1>6, <1>7, <1>8, <1>9, <1>10, <1>11, <1>12, <1>13, <1>14, <1>15, <1>16, Zenon

(* A hello is a step that sends one.                                       *)
LEMMA HelloOp ==
  ASSUME NEW p, NEW max
  PROVE  HelloFor(p, max).op = "hello"
BY DEF HelloFor, Hello, SSLv3Hello, SSLv2Hello, FallbackHello, HeartbleedHello, ExportHello, CrimeHello, DHHello, ExtensionHello,
       TicketbleedHello, ALPNHello, ObscureHello, PQCHello, SingleHello, EarlyDataHello, CCSHello

(* The steps that read the reply to a hello.                               *)
LEMMA ReaderOp ==
  ASSUME NEW p, NEW t
  PROVE  ReaderFor(p, t).op \in {"header", "first", "flight"}
BY DEF ReaderFor, Header, First, Flight, SkipToServerHelloDone, DHFlight, ServerHelloBody, FetchRSAServerKey, KeyFlight

(* Where an operation takes place.                                         *)
LEMMA OpIs ==
  ASSUME Placed
  PROVE  /\ Step.op = "hello" => pc = 1 /\ KindNow # "go" /\ Step = HelloNow
         /\ Step.op = "go" => pc = 1 /\ KindNow = "go" /\ Step = GoStep(probe)
         /\ Step.op = "first" => pc = 2 /\ Step = ReaderFor(probe, trial) /\ KindNow # "go"
         /\ Step.op = "flight" => \/ pc = 2 /\ Step = ReaderFor(probe, trial) /\ KindNow # "go"
                                  \/ pc = 3 /\ KindNow = "early" /\ Step = EncryptedFlight
         /\ Step.op = "header" => \/ pc = 2 /\ Step = ReaderFor(probe, trial) /\ KindNow # "go"
                                  \/ pc = 4 /\ KindNow = "write"
                                  \/ pc = 6 /\ KindNow = "again"
         /\ Step.op = "put" => \/ pc = 3 /\ KindNow \in {"write", "again", "burst"} /\ Step = Put(What(probe, trial))
                               \/ pc = 4 /\ KindNow = "early" /\ Step = Put("finished13")
                               \/ pc = 5 /\ KindNow = "again" /\ Step = Put("hello_again")
         /\ Step.op = "skip_two" => pc = 4 /\ KindNow \in {"again", "burst"}
         /\ Step.op = "burst" => pc = 5 /\ KindNow = "burst"
         /\ Step.op = "request" => pc = 5 /\ KindNow = "early"
         /\ Step.op = "tickets" => pc = 6 /\ KindNow = "early"
<1>1. pc \in 1..6 /\ KindNow \in {"talk", "write", "again", "burst", "early", "go"}
  BY StepIs, KindsAre DEF KindNow
<1>2. CASE pc = 1 /\ KindNow = "go"
  <2>1. Step = GoStep(probe) /\ Step.op = "go"
    BY <1>2, StepIs DEF GoStep
  <2> QED BY <1>2, <2>1
<1>3. CASE pc = 1 /\ KindNow # "go"
  <2>1. Step = HelloNow /\ Step.op = "hello"
    BY <1>3, StepIs, HelloOp DEF HelloNow
  <2> QED BY <1>3, <2>1
<1>4. CASE pc = 2
  <2>1. KindNow # "go" /\ Step = ReaderFor(probe, trial) /\ Step.op \in {"header", "first", "flight"}
    BY <1>4, StepIs, ReaderOp
  <2> QED BY <1>4, <2>1
<1>5. CASE pc = 3 /\ KindNow # "early"
  <2>1. KindNow \in {"write", "again", "burst"} /\ Step = Put(What(probe, trial)) /\ Step.op = "put"
    BY <1>5, StepIs DEF Put
  <2> QED BY <1>5, <2>1
<1>6. CASE pc = 3 /\ KindNow = "early"
  <2>1. Step = EncryptedFlight /\ Step.op = "flight"
    BY <1>6, StepIs DEF EncryptedFlight, Flight
  <2> QED BY <1>6, <2>1
<1>7. CASE pc = 4
  <2>1. \/ KindNow = "write" /\ Step.op = "header"
        \/ KindNow \in {"again", "burst"} /\ Step.op = "skip_two"
        \/ KindNow = "early" /\ Step = Put("finished13") /\ Step.op = "put"
    BY <1>7, StepIs DEF Header, TwoRecords, Put
  <2> QED BY <1>7, <2>1
<1>8. CASE pc = 5
  <2>1. \/ KindNow = "again" /\ Step = Put("hello_again") /\ Step.op = "put"
        \/ KindNow = "burst" /\ Step.op = "burst"
        \/ KindNow = "early" /\ Step.op = "request"
    BY <1>8, StepIs DEF BurstStep, RequestStep, Put
  <2> QED BY <1>8, <2>1
<1>9. CASE pc = 6
  <2>1. \/ KindNow = "again" /\ Step.op = "header"
        \/ KindNow = "early" /\ Step.op = "tickets"
    BY <1>9, StepIs DEF Header, TicketsStep
  <2> QED BY <1>9, <2>1
<1> QED BY <1>1, <1>2, <1>3, <1>4, <1>5, <1>6, <1>7, <1>8, <1>9

(* Has is fixed while the server and the probe are.                        *)
LEMMA SameHas == ASSUME NEW f, srv' = srv PROVE Has(f)' = Has(f)
BY DEF Has

(* MaxVersion is fixed while the server and the probe are.                 *)
LEMMA SameMax == ASSUME srv' = srv PROVE MaxVersion' = MaxVersion
BY DEF MaxVersion

(* Ticket is fixed while the server and the probe are.                     *)
LEMMA SameTicket == ASSUME srv' = srv PROVE Ticket' = Ticket
BY DEF Ticket, Has

(* CommonVersions is fixed while the server and the probe are.             *)
LEMMA SameCommon == ASSUME NEW h, srv' = srv PROVE CommonVersions(h)' = CommonVersions(h)
BY DEF CommonVersions

(* Negotiated is fixed while the server and the probe are.                 *)
LEMMA SameNegotiated == ASSUME NEW h, srv' = srv PROVE Negotiated(h)' = Negotiated(h)
BY SameCommon DEF Negotiated

(* Choices is fixed while the server and the probe are.                    *)
LEMMA SameChoices == ASSUME NEW h, srv' = srv PROVE Choices(h)' = Choices(h)
BY SameNegotiated DEF Choices

(* Agreed is fixed while the server and the probe are.                     *)
LEMMA SameAgreed == ASSUME NEW h, srv' = srv PROVE Agreed(h)' = Agreed(h)
BY SameCommon, SameChoices DEF Agreed

(* TurnAway is fixed while the server and the probe are.                   *)
LEMMA SameTurnAway == ASSUME NEW id, NEW re, srv' = srv PROVE TurnAway(id, re)' = TurnAway(id, re)
BY DEF TurnAway

(* Answer is fixed while the server and the probe are.                     *)
LEMMA SameAnswer == ASSUME NEW w, srv' = srv PROVE Answer(w)' = Answer(w)
BY SameTurnAway, SameHas, SameTicket, SameNegotiated DEF Answer, RenegRecords

(* Replies is fixed while the server and the probe are.                    *)
LEMMA SameReplies == ASSUME NEW h, srv' = srv PROVE Replies(h)' = Replies(h)
BY SMT DEF Replies, TurnAway, Has, Lay, CommonVersions, Choices, Negotiated

(* Shows is fixed while the server and the probe are.                      *)
LEMMA SameShows == ASSUME srv' = srv, probe' = probe PROVE Shows' = Shows
BY SameHas DEF Shows

(* Sound is fixed while the server and the probe are.                      *)
LEMMA SameSound == ASSUME NEW o, NEW i, srv' = srv, probe' = probe PROVE Sound(o, i)' = Sound(o, i)
BY SameShows, SameHas, SameAgreed DEF Sound, Offered

(* Expected is fixed while the server and the probe are.                   *)
LEMMA SameExpected == ASSUME NEW i, srv' = srv, probe' = probe PROVE Expected(i)' = Expected(i)
BY SameShows DEF Expected

(* Steady is fixed while the server and the probe are.                     *)
LEMMA SameSteady == ASSUME NEW o, NEW i, srv' = srv, probe' = probe, faults' = faults PROVE Steady(o, i)' = Steady(o, i)
BY SameShows, SameHas, SameExpected DEF Steady, Simple, Willing, Quiet, Turned

(* A lost connection excuses what is observed.                             *)
LEMMA LostSteady == ASSUME NEW o, NEW i, faults' # 0 PROVE Steady(o, i)'
BY DEF Steady, Simple, Willing, Quiet

(* TicketSeen is fixed while the server and the probe are.                 *)
LEMMA SameTicketSeen == ASSUME NEW s, srv' = srv PROVE TicketSeen(s)' = TicketSeen(s)
BY SameHas DEF TicketSeen

(* SeenFits is fixed while the server and the probe are.                   *)
LEMMA SameSeenFits == ASSUME NEW s, srv' = srv, probe' = probe PROVE SeenFits(s)' = SeenFits(s)
BY SameTicketSeen DEF SeenFits

(* A probe opens no more connections than it has trials.                   *)
LEMMA MoreFits ==
  ASSUME NEW p \in Probes, NEW o \in Seq(Said), Len(o) >= 1, More(p, o)
  PROVE  Len(o) + 1 <= Connections(p)
<1>1. p \in {"golden", "zombie"} => Len(Trials(p, TLS12)) = Connections(p)
  BY Scripts, ConnectionsAre
<1>2. CASE p \in {"golden", "zombie"}
  BY <1>1, <1>2 DEF More
<1>3. CASE p \notin {"golden", "zombie"}
  <2>1. p \in {"robot", "reneg", "sleeping", "resumption", "zero_rtt"}
    BY <1>3 DEF More, Probes
  <2>2. p = "robot" => Len(o) < 6
    BY DEF More
  <2>3. p = "reneg" => Len(o) <= 3
    BY DEF More
  <2>4. p = "sleeping" => Len(o) < 6
    BY DEF More
  <2>5. p = "resumption" => Len(o) = 1
    BY DEF More
  <2>6. p = "zero_rtt" => Len(o) < 3
    BY DEF More
  <2>7. Len(o) \in Nat
    OBVIOUS
  <2>8. CASE p = "robot" \/ p = "sleeping"
    BY <2>8, <2>2, <2>4, <2>7 DEF Connections
  <2>9. CASE p = "reneg"
    BY <2>9, <2>3, <2>7 DEF Connections
  <2>10. CASE p = "resumption"
    <3>1. Len(o) = 1 /\ Connections(p) = 2
      BY <2>10, <2>5 DEF Connections
    <3> QED BY <3>1
  <2>11. CASE p = "zero_rtt"
    BY <2>11, <2>6, <2>7 DEF Connections
  <2> QED BY <2>1, <2>8, <2>9, <2>10, <2>11
<1> QED BY <1>2, <1>3

(* Tickets are looked at in one trial only, and it is not repeated.        *)
LEMMA TicketsEnd ==
  ASSUME NEW p, NEW t \in Nat, NEW q \in Seq(Said), Len(q) = t, Kind(p, t) = "early", q[t] = "ok"
  PROVE  ~More(p, q)
<1>1. p = "zero_rtt" /\ t = 1
  BY DEF Kind, Talks, Writes
<1> QED BY <1>1 DEF More, Failed

(* A connection that ends with an observation its server bears out keeps   *)
(* the invariant: EndTrial records it and goes on to the next connection,  *)
(* or concludes.                                                           *)
LEMMA TrialEnds ==
  ASSUME IInv, phase = "talk", NEW o \in Said, NEW seen, EndTrial(o, seen), SeenFits(seen),
         flags = {} \/ o = "ok", Sound(o, trial),
         probe' = probe, srv' = srv, count' = count, faults' \in 0..Faults,
         \/ faults' = faults + 1
         \/ /\ faults' = faults /\ Steady(o, trial)
            /\ probe = "sleeping" => o # "slow"
  PROVE  IInv'
<1>1. Placed /\ Reported /\ Observed
  BY DEF IInv
<1>2. obs' = Append(obs, o) /\ obs \in Seq(Said) /\ Len(obs) = trial - 1 /\ trial \in 1..Connections(probe) /\ Connections(probe) \in 1..6
  BY <1>1, ConnectionsAre DEF Placed, EndTrial
<1>3. obs' \in Seq(Said) /\ Len(obs') = trial /\ (\A i \in 1..trial - 1 : obs'[i] = obs[i]) /\ obs'[trial] = o
  BY <1>2
<1>4. \A i \in 1..Len(obs') : Sound(obs[i], i)' /\ Steady(obs[i], i)'
  <2> SUFFICES ASSUME NEW i \in 1..Len(obs') PROVE Sound(obs[i], i)' /\ Steady(obs[i], i)'
    OBVIOUS
  <2>0. i = trial \/ i \in 1..Len(obs)
    BY <1>2, <1>3
  <2>1. PICK x : x = obs'[i]
    OBVIOUS
  <2>2. Sound(x, i)
    BY <2>0, <2>1, <1>1, <1>2, <1>3 DEF Observed
  <2>3. Sound(x, i)'
    BY <2>2, SameSound
  <2>4. faults' = faults + 1 => Steady(x, i)'
    BY LostSteady, <1>1 DEF Placed
  <2>5. faults' = faults /\ Steady(o, trial) => Steady(x, i)'
    BY <2>0, <2>1, <1>1, <1>2, <1>3, SameSteady DEF Observed
  <2> QED BY <2>1, <2>3, <2>4, <2>5
<1>5. Observed'
  <2>1. ASSUME probe' = "sleeping", faults' <= 1, NEW i \in 1..Len(obs'), NEW j \in 1..Len(obs'),
               obs'[i] = "slow", obs'[j] = "slow"
        PROVE  i = j
    <3>1. probe = "sleeping"
      BY <2>1
    <3>2. \A k \in 1..Len(obs) : faults = 0 => obs[k] # "slow"
      BY <1>1, <3>1 DEF Observed, Steady
    <3>3. faults' = faults + 1 => faults = 0
      BY <1>1, <2>1 DEF Placed
    <3>4. faults' = faults => o # "slow" /\ faults <= 1
      BY <3>1, <2>1, <1>1 DEF Placed
    <3>5. \A k, l \in 1..Len(obs) : faults <= 1 /\ obs[k] = "slow" /\ obs[l] = "slow" => k = l
      BY <1>1, <3>1 DEF Observed
    <3>6. CASE faults' = faults + 1
      <4>1. i = trial /\ j = trial
        BY <3>6, <3>2, <3>3, <2>1, <1>2, <1>3
      <4> QED BY <4>1
    <3>7. CASE faults' = faults
      <4>1. i \in 1..Len(obs) /\ j \in 1..Len(obs) /\ obs[i] = "slow" /\ obs[j] = "slow"
        BY <3>7, <3>4, <2>1, <1>2, <1>3
      <4> QED BY <4>1, <3>4, <3>5, <3>7
    <3> QED BY <3>6, <3>7
  <2> QED BY <1>4, <2>1 DEF Observed
<1>6. CASE More(probe, obs')
  <2>1. trial' = trial + 1 /\ pc' = 1 /\ phase' = "talk" /\ flags' = flags /\ wire' = <<>>
    BY <1>6 DEF EndTrial
  <2>2. trial' \in 1..Connections(probe)
    <3>1. probe \in Probes /\ obs' \in Seq(Said) /\ Len(obs') >= 1
      BY <1>1, <1>2, <1>3 DEF Placed
    <3>2. Len(obs') + 1 <= Connections(probe)
      BY <3>1, <1>6, MoreFits, Zenon
    <3> QED BY <3>2, <2>1, <1>2, <1>3
  <2>3. pc' \in 1..Steps(KindNow')
    BY <2>1, KindsAre, StepsAre DEF KindNow
  <2>4. Placed'
    BY <1>1, <1>2, <1>3, <1>6, <2>1, <2>2, <2>3 DEF Placed
  <2>5. flags = {}
    <3>1. ASSUME flags # {} PROVE FALSE
      <4>1. Kind(probe, trial) = "early" /\ obs'[trial] = "ok"
        BY <3>1, <1>1, <1>3 DEF Reported, KindNow
      <4>2. trial \in Nat
        BY <1>2
      <4> QED BY <4>1, <4>2, <1>3, <1>6, TicketsEnd, Zenon
    <3> QED BY <3>1
  <2>6. Reported'
    BY <2>1, <2>5 DEF Reported, TicketSeen
  <2>7. Wired'
    BY <2>1 DEF Wired
  <2>8. Ahead'
    BY <2>1 DEF Ahead
  <2> QED BY <1>5, <2>4, <2>6, <2>7, <2>8 DEF IInv
<1>7. CASE ~More(probe, obs')
  <2>1. phase' = "done" /\ flags' = Verdict(probe, obs', seen, count) /\ trial' = trial /\ pc' = pc
    BY <1>7 DEF EndTrial
  <2>2. KindNow' = KindNow
    BY <2>1 DEF KindNow
  <2>3. Placed'
    BY <1>1, <1>2, <1>3, <1>7, <2>1, <2>2 DEF Placed
  <2>4. seen \in SUBSET {"resumes", "early", "ems", "secure_reneg"}
    BY DEF SeenFits, TicketSeen
  <2>5. SeenFits(seen)'
    BY SameSeenFits
  <2>6. Reported'
    BY <2>1, <2>4, <2>5 DEF Reported
  <2>7. Wired' /\ Ahead'
    BY <2>1 DEF Wired, Ahead
  <2> QED BY <1>5, <2>3, <2>6, <2>7 DEF IInv
<1> QED BY <1>6, <1>7

(* A step that ends no trial.                                              *)
LEMMA StaysPut ==
  ASSUME IInv, phase = "talk", phase' \in {"talk", "panic"}, probe' = probe, srv' = srv, trial' = trial, obs' = obs,
         faults' \in 0..Faults, faults' = faults \/ faults' = faults + 1, count' \in Nat,
         pc' \in 1..Steps(KindNow), TicketSeen(flags'), flags' # {} => KindNow = "early" /\ pc' = 6,
         Wired', Ahead'
  PROVE  IInv'
<1>1. Placed /\ Reported /\ Observed
  BY DEF IInv
<1>2. KindNow' = KindNow
  BY DEF KindNow
<1>3. Placed'
  BY <1>1, <1>2 DEF Placed
<1>4. TicketSeen(flags)'
  <2>1. PICK f : f = flags'
    OBVIOUS
  <2>2. TicketSeen(f)'
    BY <2>1, SameTicketSeen
  <2> QED BY <2>1, <2>2
<1>5. Reported'
  BY <1>2, <1>4 DEF Reported
<1>6. \A i \in 1..Len(obs) : Sound(obs[i], i)' /\ Steady(obs[i], i)'
  <2> SUFFICES ASSUME NEW i \in 1..Len(obs) PROVE Sound(obs[i], i)' /\ Steady(obs[i], i)'
    OBVIOUS
  <2>1. PICK x : x = obs[i]
    OBVIOUS
  <2>2. Sound(x, i) /\ Steady(x, i)
    BY <2>1, <1>1 DEF Observed
  <2>3. Sound(x, i)'
    BY <2>2, SameSound
  <2>4. faults' = faults + 1 => Steady(x, i)'
    BY LostSteady, <1>1 DEF Placed
  <2>5. faults' = faults => Steady(x, i)'
    BY <2>2, SameSteady
  <2> QED BY <2>1, <2>3, <2>4, <2>5
<1>7. faults' <= 1 => faults <= 1
  BY <1>1 DEF Placed
<1>8. Observed'
  BY <1>1, <1>6, <1>7 DEF Observed
<1> QED BY <1>3, <1>5, <1>8 DEF IInv

(* The records that are left are the last of the reply.                    *)
LEMMA HeadOf ==
  ASSUME NEW w \in Seq(Recs), NEW r \in Seq(Recs), Suffix(w, r), w # <<>>
  PROVE  /\ \E k \in 1..Len(r) : Head(w) = r[k] /\ k = Len(r) - Len(w) + 1
         /\ Suffix(Tail(w), r) /\ Tail(w) \in Seq(Recs) /\ Len(Tail(w)) = Len(w) - 1
<1>1. Len(w) >= 1 /\ Head(w) = w[1]
  OBVIOUS
<1>2. Tail(w) \in Seq(Recs) /\ Len(Tail(w)) = Len(w) - 1 /\ \A i \in 1..Len(w) - 1 : Tail(w)[i] = w[i + 1]
  BY <1>1
<1>3. Len(r) - Len(w) + 1 \in 1..Len(r) /\ Head(w) = r[Len(r) - Len(w) + 1]
  BY <1>1 DEF Suffix
<1>4. ASSUME NEW i \in 1..Len(Tail(w)) PROVE Tail(w)[i] = r[i + (Len(r) - Len(Tail(w)))]
  <2>1. i + 1 \in 1..Len(w) /\ Tail(w)[i] = w[i + 1] /\ (i + 1) + (Len(r) - Len(w)) = i + (Len(r) - Len(Tail(w)))
    BY <1>1, <1>2, <1>4
  <2> QED BY <2>1 DEF Suffix
<1>5. Suffix(Tail(w), r)
  BY <1>1, <1>2, <1>4 DEF Suffix
<1> QED BY <1>2, <1>3, <1>5

(* A reply none of which is read yet.                                      *)
LEMMA WholeSuffix == ASSUME NEW r \in Seq(Recs) PROVE Suffix(r, r)
BY DEF Suffix

(* A record read from what is left of the answer to a hello.               *)
LEMMA NextRecord ==
  ASSUME srv \in Servers, NEW h, NEW reply \in Replies(h), NEW w \in Seq(Recs), Suffix(w, reply), w # <<>>
  PROVE  /\ Truthful(Head(w), h) /\ Head(w) \in Recs
         /\ Final(Head(w).msgs) => Tail(w) = <<>>
         /\ Tail(w) \in Seq(Recs) /\ Suffix(Tail(w), reply)
<1>1. AnswersHello(reply, h)
  BY RepliesAnswer
<1>2. reply \in Seq(Recs)
  BY <1>1 DEF AnswersHello
<1>3. PICK k \in 1..Len(reply) : Head(w) = reply[k] /\ k = Len(reply) - Len(w) + 1
  BY <1>2, HeadOf
<1>4. Truthful(reply[k], h) /\ (Final(reply[k].msgs) => k = Len(reply))
  BY <1>1 DEF AnswersHello
<1>5. Tail(w) \in Seq(Recs) /\ Suffix(Tail(w), reply) /\ Len(Tail(w)) = Len(w) - 1
  BY <1>2, HeadOf
<1>6. k = Len(reply) => Tail(w) = <<>>
  BY <1>2, <1>3, <1>5
<1>7. reply[k] \in Recs
  BY <1>2
<1> QED BY <1>3, <1>4, <1>5, <1>6, <1>7, Zenon

(* Hellos of a version below TLS 1.3, without an escape.                   *)
Plain(h) == "ssl2" \notin h.flags /\ "scsv" \notin h.flags /\ h.version # TLS13

(* A server that agrees to a hello answers it with its whole flight.       *)
LEMMA AgreedFlight ==
  ASSUME srv \in Servers, NEW h, Plain(h), Agreed(h), NEW reply \in Replies(h)
  PROVE  \E s \in Choices(h) : LaidOut(reply, Messages(s), "ServerHelloDone", "handshake", Negotiated(h))
<1>1. PICK s \in Choices(h) : reply = Lay(Messages(s), "handshake", Negotiated(h))
  BY DEF Plain, Replies, Agreed
<1>2. Negotiated(h) \in Int
  BY NegotiatedIsCommon DEF Agreed
<1> QED BY <1>1, <1>2, MessagesEnd, LayoutFacts DEF Types

(* A record of the flight of a hello that was agreed to.                   *)
LEMMA FlightRecord ==
  ASSUME srv \in Servers, NEW h, Plain(h), Agreed(h), NEW reply \in Replies(h), srv.framing # "split",
         NEW w \in Seq(Recs), Suffix(w, reply), w # <<>>
  PROVE  /\ Head(w).type = "handshake" /\ Clean(Head(w).msgs)
         /\ Tail(w) = <<>> => Holds(Head(w).msgs, "ServerHelloDone")
<1>1. PICK s \in Choices(h) : LaidOut(reply, Messages(s), "ServerHelloDone", "handshake", Negotiated(h))
  BY AgreedFlight
<1>2. reply \in Seq(Recs)
  BY <1>1 DEF LaidOut
<1>3. PICK k \in 1..Len(reply) : Head(w) = reply[k] /\ k = Len(reply) - Len(w) + 1
  BY <1>2, HeadOf
<1>4. /\ OfFlight(reply[k], "handshake", Negotiated(h)) /\ Clean(reply[k].msgs)
      /\ Holds(reply[Len(reply)].msgs, "ServerHelloDone")
  BY <1>1 DEF LaidOut
<1>5. Tail(w) = <<>> => k = Len(reply)
  <2>1. Tail(w) \in Seq(Recs) /\ Len(Tail(w)) = Len(w) - 1
    BY <1>2, HeadOf
  <2>2. Tail(w) = <<>> => Len(Tail(w)) = 0
    BY <2>1, EmptySeq, Zenon
  <2>3. ASSUME NEW n \in Nat, NEW m \in Nat, n = m - 1, n = 0 PROVE Len(reply) - m + 1 = Len(reply)
    BY <1>2, <2>3
  <2>4. Len(Tail(w)) \in Nat /\ Len(w) \in Nat
    BY <2>1
  <2> QED BY <1>3, <2>1, <2>2, <2>3, <2>4, Zenon
<1> QED BY <1>3, <1>4, <1>5 DEF OfFlight

(* Which hello a probe sends.                                              *)
LEMMA PlainHellos ==
  ASSUME NEW p \in Probes \ {"sslv2", "scsv", "pqc", "zero_rtt"}, NEW max
  PROVE  Plain(HelloFor(p, max))
BY DEF Plain, HelloFor, Hello, SSLv3Hello, SSLv2Hello, FallbackHello, HeartbleedHello, ExportHello, CrimeHello, DHHello, ExtensionHello,
       TicketbleedHello, ALPNHello, ObscureHello, PQCHello, SingleHello, EarlyDataHello, CCSHello, Probes,
       SSL3, TLS10, TLS11, TLS12, TLS13

(* The hellos of the probes that write after the flight.                   *)
LEMMA WritersHello ==
  ASSUME Placed, KindNow \in {"write", "again", "burst"} \/ probe \in {"robot", "heartbleed", "ccs", "golden", "zombie", "sleeping", "reneg"}
  PROVE  /\ probe = "heartbleed" => HelloNow = HeartbleedHello
         /\ probe # "heartbleed" => HelloNow = CCSHello
         /\ Plain(HelloNow)
         /\ probe \in {"robot", "heartbleed", "ccs", "golden", "zombie", "sleeping", "reneg"}
<1>1. probe \in {"robot", "heartbleed", "ccs", "golden", "zombie", "sleeping", "reneg"}
  BY DEF KindNow, Kind, Writes
<1>2. probe \in Probes \ {"sslv2", "scsv", "pqc", "zero_rtt"}
  BY <1>1 DEF Placed, Probes
<1>3. Plain(HelloNow)
  BY <1>2, PlainHellos DEF HelloNow
<1>4. /\ probe = "heartbleed" => HelloNow = HeartbleedHello
      /\ probe # "heartbleed" => HelloNow = CCSHello
  BY <1>1 DEF HelloNow, HelloFor
<1> QED BY <1>1, <1>3, <1>4

(* A hello with one of the server's versions and one of its suites.        *)
LEMMA WillAgree ==
  ASSUME srv \in Servers, NEW h, NEW v \in srv.versions, v <= h.version, h.version \in 0..3, NEW c \in h.suites, c \in srv.suites, c # "TLS13"
  PROVE  Agreed(h)
<1>1. v \in CommonVersions(h)
  BY ServerTyped DEF CommonVersions, TLS13
<1>2. Negotiated(h) \in CommonVersions(h)
  BY <1>1, NegotiatedIsCommon
<1>3. Negotiated(h) # TLS13
  BY <1>2, ServerTyped DEF CommonVersions, TLS13
<1>4. c \in Choices(h)
  BY <1>3 DEF Choices
<1> QED BY <1>1, <1>4 DEF Agreed

(* A hello that was agreed to shares a suite with the server.              *)
LEMMA AgreedShares ==
  ASSUME NEW h, Agreed(h)
  PROVE  \E c \in h.suites : c \in srv.suites
BY DEF Agreed, Choices

(* A willing server agrees to the hello of the probes that write.          *)
LEMMA WillingAgrees ==
  ASSUME Placed, Willing
  PROVE  /\ probe # "crime" => Agreed(HelloNow)
         /\ Agreed(CrimeHello) /\ srv.framing # "split" /\ srv.manner = "alert"
<1>0. srv \in Servers /\ srv.framing # "split" /\ srv.manner = "alert"
  BY DEF Placed, Willing, Quiet
<1>1. TLS11 \in srv.versions /\ TLS12 \in srv.versions /\ "AES128CBC" \in srv.suites
  BY DEF Willing
<1>2. /\ HeartbleedHello.version = TLS11 /\ "AES128CBC" \in HeartbleedHello.suites
      /\ CCSHello.version = TLS12 /\ "AES128CBC" \in CCSHello.suites
      /\ CrimeHello.version = TLS12 /\ "AES128CBC" \in CrimeHello.suites
  BY DEF HeartbleedHello, CCSHello, CrimeHello, Hello
<1>3. TLS11 \in 0..3 /\ TLS12 \in 0..3 /\ TLS11 <= TLS11 /\ TLS12 <= TLS12 /\ "AES128CBC" # "TLS13"
  BY DEF TLS11, TLS12
<1>4. Agreed(HeartbleedHello)
  BY <1>0, <1>1, <1>2, <1>3, WillAgree, Zenon
<1>5. Agreed(CCSHello)
  BY <1>0, <1>1, <1>2, <1>3, WillAgree, Zenon
<1>6. Agreed(CrimeHello)
  BY <1>0, <1>1, <1>2, <1>3, WillAgree, Zenon
<1>7. probe # "crime" => HelloNow \in {HeartbleedHello, CCSHello}
  BY WritersHello DEF Willing
<1> QED BY <1>0, <1>4, <1>5, <1>6, <1>7

(* The trials of ROBOT after the first are of a server that took the hello. *)
LEMMA RobotAgreed ==
  ASSUME Placed, Observed, phase = "talk", probe = "robot", trial > 1
  PROVE  Agreed(HelloNow) /\ srv.framing # "split"
<1>1. Len(obs) = trial - 1 /\ More(probe, obs) /\ trial \in Nat /\ obs \in Seq(Said)
  BY ConnectionsAre DEF Placed
<1>2. ~Failed(obs[1])
  BY <1>1 DEF More
<1>3. 1 \in 1..Len(obs)
  BY <1>1
<1>4. Sound(obs[1], 1)
  BY <1>3 DEF Observed
<1>5. Agreed(CCSHello) /\ srv.framing # "split"
  BY <1>2, <1>4 DEF Sound
<1> QED BY <1>5, WritersHello

(* What must still be there to read.                                       *)
Sure == Willing \/ (probe = "robot" /\ trial > 1)

(* A connection that is sure of its answer was agreed to.                  *)
LEMMA SureHello ==
  ASSUME Placed, Observed, phase = "talk", Sure
  PROVE  Agreed(HelloNow) /\ srv.framing # "split" /\ Plain(HelloNow)
<1>1. CASE probe = "crime"
  <2>1. HelloNow = CrimeHello /\ Willing
    BY <1>1 DEF HelloNow, HelloFor, Sure
  <2>2. Plain(HelloNow)
    BY <1>1, PlainHellos DEF HelloNow, Probes
  <2> QED BY <2>1, <2>2, WillingAgrees
<1>2. CASE probe # "crime"
  <2>1. Agreed(HelloNow) /\ srv.framing # "split"
    BY <1>2, WillingAgrees, RobotAgreed DEF Sure
  <2>2. probe \in {"robot", "heartbleed", "ccs", "golden", "zombie", "sleeping", "reneg"}
    BY <1>2 DEF Sure, Willing
  <2> QED BY <2>1, <2>2, WritersHello
<1> QED BY <1>1, <1>2

(* What the present connection is about is fixed while it lasts.           *)
LEMMA SameNow ==
  ASSUME srv' = srv, probe' = probe, trial' = trial
  PROVE  /\ KindNow' = KindNow /\ HelloNow' = HelloNow
         /\ Replies(HelloNow)' = Replies(HelloNow) /\ Agreed(HelloNow)' = Agreed(HelloNow)
<1>1. KindNow' = KindNow /\ HelloNow' = HelloNow
  BY SameMax DEF KindNow, HelloNow
<1>2. PICK h : h = HelloNow
  OBVIOUS
<1>3. Replies(h)' = Replies(h) /\ Agreed(h)' = Agreed(h)
  BY SameReplies, SameAgreed
<1> QED BY <1>1, <1>2, <1>3

(* Writing the ClientHello keeps the invariant.                            *)
LEMMA SendHelloKeeps == ASSUME IInv, SendHello PROVE IInv'
<1>1. Placed /\ Reported /\ phase = "talk" /\ Step.op = "hello"
  BY DEF IInv, SendHello, Talking
<1>2. pc = 1 /\ KindNow # "go" /\ Step = HelloNow
  BY <1>1, OpIs
<1>3. /\ pc' = 2 /\ phase' = "talk" /\ probe' = probe /\ srv' = srv /\ trial' = trial /\ obs' = obs
      /\ faults' = faults /\ count' = count /\ flags' = flags
  BY <1>1, <1>2 DEF SendHello, Advance, Fixed
<1>4. PICK reply \in Replies(HelloNow) : wire' = reply
  BY <1>2 DEF SendHello
<1>5. srv \in Servers /\ probe \in Probes
  BY <1>1 DEF Placed
<1>6. reply \in Seq(Recs) /\ Suffix(reply, reply)
  BY <1>5, RepliesAnswer, WholeSuffix DEF AnswersHello
<1>7. flags = {}
  BY <1>1, <1>2 DEF Reported
<1>8. KindNow' = KindNow /\ Replies(HelloNow)' = Replies(HelloNow) /\ Agreed(HelloNow)' = Agreed(HelloNow)
  BY <1>3, SameNow
<1>9. Wired'
  BY <1>3, <1>4, <1>6, <1>8 DEF Wired
<1>10. Ahead'
  <2>1. ASSUME Agreed(HelloNow), KindNow \in {"write", "again", "burst"} \/ probe = "robot"
        PROVE  Len(wire') >= 1 /\ (probe = "robot" /\ srv.framing = "each" => Len(wire') >= 2)
    <3>1. Plain(HelloNow) /\ (probe = "robot" => HelloNow = CCSHello)
      BY <2>1, <1>1, WritersHello
    <3>2. PICK s \in Choices(HelloNow) : LaidOut(reply, Messages(s), "ServerHelloDone", "handshake", Negotiated(HelloNow))
      BY <3>1, <2>1, <1>5, AgreedFlight
    <3>3. Len(reply) >= 1 /\ (srv.framing = "each" => Len(reply) = Len(Messages(s)))
      BY <3>2 DEF LaidOut
    <3>4. probe = "robot" => s = "AES128CBC"
      BY <3>1, <3>2 DEF Choices, CCSHello, Hello
    <3>5. s = "AES128CBC" => Len(Messages(s)) = 3
      BY MessagesEnd
    <3>6. Len(wire') = Len(reply)
      BY <1>4, Zenon
    <3>7. probe = "robot" /\ srv.framing = "each" => Len(reply) = 3
      BY <3>3, <3>4, <3>5, Zenon
    <3>8. probe = "robot" /\ srv.framing = "each" => Len(wire') >= 2
      BY <3>6, <3>7
    <3> QED BY <3>3, <3>6, <3>8, Zenon
  <2>2. ASSUME Agreed(HelloNow), KindNow \in {"write", "again", "burst"} \/ probe = "robot"
        PROVE  wire' # <<>>
    BY <2>1, <2>2
  <2> QED BY <2>1, <2>2, <1>3, <1>4, <1>8 DEF Ahead
<1>11. pc' \in 1..Steps(KindNow)
  BY <1>1, <1>2, <1>3, StepsAre, KindsAre DEF KindNow
<1>12. TicketSeen(flags')
  BY <1>3, <1>7 DEF TicketSeen
<1> QED BY <1>1, <1>3, <1>7, <1>9, <1>10, <1>11, <1>12, StaysPut DEF Placed

(* The wire is where it was when nothing is read or written.               *)
LEMMA SameWired ==
  ASSUME srv' = srv, probe' = probe, trial' = trial, pc' = pc, wire' = wire, phase' = phase, IInv
  PROVE  Wired' /\ Ahead'
<1>1. Wired /\ Ahead
  BY DEF IInv
<1>2. KindNow' = KindNow /\ Replies(HelloNow)' = Replies(HelloNow) /\ Agreed(HelloNow)' = Agreed(HelloNow)
  BY SameNow
<1>3. \A x : Answer(x)' = Answer(x)
  BY SameAnswer
<1>4. Has("tickets")' = Has("tickets") /\ TicketRecord' = TicketRecord
  BY SameHas, SameTicket DEF TicketRecord
<1>5. Ahead'
  BY <1>1, <1>2 DEF Ahead
<1>6. Wired'
  BY <1>1, <1>2, <1>3, <1>4 DEF Wired
<1> QED BY <1>5, <1>6

(* Writing on after the flight keeps the invariant.                        *)
LEMMA SendMoreKeeps == ASSUME IInv, SendMore PROVE IInv'
<1>1. Placed /\ Reported /\ Wired /\ phase = "talk" /\ Step.op = "put"
  BY DEF IInv, SendMore, Talking
<1>2. \/ pc = 3 /\ KindNow \in {"write", "again", "burst"} /\ Step = Put(What(probe, trial))
      \/ pc = 4 /\ KindNow = "early" /\ Step = Put("finished13")
      \/ pc = 5 /\ KindNow = "again" /\ Step = Put("hello_again")
  BY <1>1, OpIs
<1>3. probe' = probe /\ srv' = srv /\ faults' = faults /\ count' = count
  BY DEF SendMore, Fixed
<1>4. flags = {} /\ TicketSeen(flags) /\ SeenFits(flags)
  BY <1>1, <1>2 DEF Reported, TicketSeen, SeenFits
<1>5. srv \in Servers /\ faults' \in 0..Faults /\ count' \in Nat
  BY <1>1, <1>3 DEF Placed
<1>6. CASE phase' = "panic" /\ UNCHANGED <<trial, pc, wire, obs, flags>>
  <2>1. phase' = "panic" /\ wire' = wire /\ pc' = pc /\ trial' = trial /\ obs' = obs /\ flags' = flags
    BY <1>6
  <2>2. Wired' /\ Ahead'
    BY <2>1 DEF Wired, Ahead
  <2>3. pc' \in 1..Steps(KindNow)
    BY <2>1, <1>1 DEF Placed
  <2> QED BY <1>1, <1>3, <1>4, <1>5, <2>1, <2>2, <2>3, StaysPut
<1>7. CASE NoKeys /\ EndTrial("-", flags)
  <2>1. ~Willing /\ ~Simple /\ probe # "robot"
    BY <1>7 DEF NoKeys, Willing, Quiet, Simple
  <2>2. Sound("-", trial) /\ Steady("-", trial) /\ "-" \in Said
    BY <2>1 DEF Sound, Steady, Failed, Said
  <2> QED BY <1>1, <1>3, <1>4, <1>5, <1>7, <2>2, TrialEnds
<1>8. CASE wire' = wire \o Answer(Step.what) /\ Advance /\ UNCHANGED <<phase, trial, obs, flags>>
  <2>1. /\ wire' = wire \o Answer(Step.what) /\ pc' = pc + 1 /\ phase' = "talk"
        /\ trial' = trial /\ obs' = obs /\ flags' = flags
    BY <1>1, <1>8 DEF Advance
  <2>2. wire = <<>>
    BY <1>1, <1>2 DEF Wired
  <2>3. Answer(Step.what) \in Seq(Recs)
    BY <1>5, AnswersAreReplies DEF Replied
  <2>4. wire' = Answer(Step.what) /\ wire' \in Seq(Recs)
    BY <2>1, <2>2, <2>3
  <2>5. Step.what = IF pc = 3 THEN What(probe, trial) ELSE IF pc = 4 THEN "finished13" ELSE "hello_again"
    BY <1>2 DEF Put
  <2>6. KindNow' = KindNow /\ What(probe, trial)' = What(probe, trial) /\ TicketRecord' = TicketRecord /\ Has("tickets")' = Has("tickets")
    BY <1>3, <2>1, SameNow, SameTicket, SameHas DEF TicketRecord
  <2>7. \A x : Answer(x)' = Answer(x)
    BY <1>3, SameAnswer
  <2>8. Ahead'
    BY <1>2, <2>1 DEF Ahead
  <2>9. pc' \in 1..Steps(KindNow)
    BY <1>2, <2>1, StepsAre
  <2>10. Wired'
    <3>1. CASE pc = 3
      <4>1. pc' = 4 /\ KindNow \in {"write", "again", "burst"}
        BY <3>1, <1>2, <2>1
      <4>2. KindNow \in {"again", "burst"} => What(probe, trial) = "finished"
        BY DEF KindNow, Kind, What, Talks, Writes
      <4>3. wire' = Answer(What(probe, trial))
        BY <2>4, <2>5, <3>1
      <4>4. wire' = Answer(What(probe, trial))'
        BY <4>3, <1>3, <2>1, <2>6, <2>7
      <4>5. KindNow \in {"again", "burst"} => wire' = Answer("finished")'
        BY <4>2, <4>3, <2>7
      <4> QED BY <4>1, <4>4, <4>5, <2>4, <2>6 DEF Wired
    <3>2. CASE pc = 4
      <4>1. pc' = 5 /\ KindNow = "early"
        BY <3>2, <1>2, <2>1
      <4>2. wire' = IF Has("tickets") THEN <<TicketRecord>> ELSE <<>>
        BY <2>4, <2>5, <3>2 DEF Answer, TicketRecord
      <4>3. TLS13 \in srv.versions
        BY <1>1, <3>2, <4>1 DEF Wired
      <4> QED BY <4>1, <4>2, <4>3, <1>3, <2>4, <2>6 DEF Wired
    <3>3. CASE pc = 5
      <4>1. pc' = 6 /\ KindNow = "again"
        BY <3>3, <1>2, <2>1
      <4>2. wire' = Answer("hello_again")
        BY <2>4, <2>5, <3>3
      <4> QED BY <4>1, <4>2, <2>4, <2>6, <2>7 DEF Wired
    <3> QED BY <1>2, <3>1, <3>2, <3>3
  <2> QED BY <1>1, <1>3, <1>4, <1>5, <2>1, <2>8, <2>9, <2>10, StaysPut
<1> QED BY <1>6, <1>7, <1>8 DEF SendMore

(* How a server turns a client away.                                       *)
LEMMA TurnHead ==
  ASSUME srv \in Servers, NEW id
  PROVE  /\ srv.manner = "alert" => TurnAway(id, "put") # <<>> /\ Head(TurnAway(id, "put")).type = "alert" /\ Head(TurnAway(id, "put")).id = id
         /\ srv.manner = "close" => TurnAway(id, "put") # <<>> /\ Head(TurnAway(id, "put")).type = "eof"
         /\ srv.manner = "silent" => TurnAway(id, "put") = <<>>
         /\ srv.manner \in {"alert", "close", "silent"}
<1>1. ASSUME NEW x PROVE <<x>> # <<>> /\ Head(<<x>>) = x
  OBVIOUS
<1>2. srv.manner = "alert" => TurnAway(id, "put") = <<Record("alert", <<>>, id, 0, "put")>>
  BY DEF TurnAway, Alert
<1>3. srv.manner = "close" => TurnAway(id, "put") = <<Record("eof", <<>>, "eof", 0, "put")>>
  BY DEF TurnAway, Eof
<1>4. srv.manner = "silent" => TurnAway(id, "put") = <<>>
  BY DEF TurnAway
<1>5. /\ Record("alert", <<>>, id, 0, "put").type = "alert" /\ Record("alert", <<>>, id, 0, "put").id = id
      /\ Record("eof", <<>>, "eof", 0, "put").type = "eof"
  BY DEF Record
<1>6. srv.manner \in {"alert", "close", "silent"}
  BY ServerTyped
<1> QED BY <1>1, <1>2, <1>3, <1>4, <1>5, <1>6, Zenon

(* The answer to the client's Finished: two records, or a refusal where    *)
(* the server settled on another version than the client's keys are for.   *)
LEMMA FinishedIs ==
  ASSUME srv \in Servers
  PROVE  /\ \/ /\ Answer("finished") # <<>> /\ Head(Answer("finished")).type = "ccs"
               /\ \E a, b : Answer("finished") = <<a, b>>
            \/ /\ Answer("finished") # <<>> => Head(Answer("finished")).type \in {"alert", "eof"}
               /\ TLS12 \notin srv.versions
         /\ TLS12 \in srv.versions => Answer("finished") # <<>>
<1> DEFINE c == Record("ccs", <<>>, "ccs", TLS12, "put")
           f == Record("handshake", <<>>, "finished", TLS12, "put")
<1>1. ASSUME TLS12 \in srv.versions PROVE Negotiated(CCSHello) = TLS12
  <2>1. CCSHello.version = 3 /\ TLS12 = 3 /\ TLS13 = 4
    BY DEF CCSHello, Hello, TLS12, TLS13
  <2>2. \A v \in CommonVersions(CCSHello) : v \in 0..4 /\ v <= 3
    BY <2>1, ServerTyped DEF CommonVersions
  <2>3. 3 \in CommonVersions(CCSHello) /\ CommonVersions(CCSHello) \in SUBSET (0..4)
    BY <1>1, <2>1, <2>2 DEF CommonVersions
  <2>4. \A w \in CommonVersions(CCSHello) : w <= Negotiated(CCSHello)
    BY <2>3, HighestVersion DEF Negotiated
  <2>5. Negotiated(CCSHello) \in CommonVersions(CCSHello)
    BY <2>3, NegotiatedIsCommon
  <2> QED BY <2>1, <2>2, <2>3, <2>4, <2>5
<1>2. CASE Negotiated(CCSHello) = TLS12
  <2>1. Answer("finished") = <<c, f>>
    BY <1>2 DEF Answer
  <2>2. c.type = "ccs"
    BY DEF Record
  <2> HIDE DEF c, f
  <2>3. <<c, f>> # <<>> /\ Head(<<c, f>>) = c
    OBVIOUS
  <2> QED BY <2>1, <2>2, <2>3
<1>3. CASE Negotiated(CCSHello) # TLS12
  <2>1. Answer("finished") = TurnAway("decode_error", "put")
    BY <1>3 DEF Answer
  <2>2. TLS12 \notin srv.versions
    BY <1>1, <1>3
  <2> QED BY <2>1, <2>2, TurnHead
<1> QED BY <1>2, <1>3

(* Skipping ChangeCipherSpec and Finished keeps the invariant.             *)
LEMMA SkipTwoKeeps == ASSUME IInv, SkipTwo PROVE IInv'
<1>1. Placed /\ Reported /\ Wired /\ phase = "talk" /\ Step.op = "skip_two" /\ srv \in Servers
  BY DEF IInv, SkipTwo, Talking, Placed
<1>2. pc = 4 /\ KindNow \in {"again", "burst"}
  BY <1>1, OpIs
<1>3. probe' = probe /\ srv' = srv /\ faults' = faults /\ count' = count /\ faults \in 0..Faults /\ count \in Nat
  BY <1>1 DEF SkipTwo, Fixed, Placed
<1>4. wire = Answer("finished") /\ wire # <<>>
  BY <1>1, <1>2 DEF Wired, SkipTwo
<1>5. flags = {} /\ TicketSeen(flags) /\ SeenFits(flags)
  BY <1>1, <1>2 DEF Reported, TicketSeen, SeenFits
<1>6. CASE Head(wire).type \in {"alert", "eof"}
  <2>1. EndTrial("-", flags)
    BY <1>6 DEF SkipTwo
  <2>2. TLS12 \notin srv.versions
    BY <1>1, <1>4, <1>6, FinishedIs
  <2>3. probe = "reneg"
    BY <1>2 DEF KindNow, Kind
  <2>4. Sound("-", trial) /\ Steady("-", trial) /\ "-" \in Said
    BY <2>2, <2>3 DEF Sound, Steady, Simple, Willing, Said
  <2> QED BY <1>1, <1>3, <1>5, <2>1, <2>3, <2>4, TrialEnds
<1>7. CASE Head(wire).type \notin {"alert", "eof"}
  <2>1. /\ wire' = SubSeq(wire, 3, Len(wire)) /\ pc' = 5
        /\ phase' = "talk" /\ trial' = trial /\ obs' = obs /\ flags' = flags
    BY <1>1, <1>2, <1>7 DEF SkipTwo, Advance
  <2>2. wire' = <<>>
    <3>1. ASSUME NEW a, NEW b PROVE SubSeq(<<a, b>>, 3, Len(<<a, b>>)) = <<>>
      OBVIOUS
    <3>2. \E a, b : wire = <<a, b>>
      BY <1>1, <1>4, <1>7, FinishedIs
    <3> QED BY <2>1, <3>1, <3>2, Zenon
  <2>3. KindNow' = KindNow
    BY <1>3, <2>1, SameNow
  <2>4. Wired' /\ Ahead'
    <3>1. pc' = 5 /\ KindNow' \in {"again", "burst"} /\ phase' = "talk"
      BY <1>2, <2>1, <2>3
    <3>2. wire' \in Seq(Recs)
      BY <2>2
    <3> QED BY <2>2, <3>1, <3>2 DEF Wired, Ahead
  <2>5. pc' \in 1..Steps(KindNow)
    BY <1>2, <2>1, StepsAre
  <2> QED BY <1>1, <1>3, <1>5, <2>1, <2>4, <2>5, StaysPut
<1> QED BY <1>6, <1>7

(* What the kind of a trial says of the probe.                             *)
LEMMA KindProbe ==
  /\ KindNow = "burst" => probe = "reneg" /\ trial = 4
  /\ KindNow = "again" => probe = "reneg" /\ trial # 4
  /\ KindNow = "early" => probe = "zero_rtt" /\ trial = 1
  /\ KindNow = "go" => probe \notin Talks /\ probe \notin Writes /\ probe # "reneg" /\ (probe = "zero_rtt" => trial # 1)
  /\ KindNow = "write" => probe \in Writes /\ (probe = "robot" => trial # 1)
  /\ KindNow = "talk" => probe \in Talks \/ (probe = "robot" /\ trial = 1)
BY DEF KindNow, Kind, Talks, Writes

(* What the probes put on record.                                          *)
LEMMA SaidThese ==
  /\ "burst" \in Said /\ "ok" \in Said /\ "ticket" \in Said /\ "-" \in Said /\ "yes" \in Said /\ "no" \in Said /\ "nil" \in Said /\ "key" \in Said
  /\ "dial_failed" \in Said /\ "hello_write_failed" \in Said /\ "slow" \in Said /\ "fast" \in Said
  /\ "short" \in Said /\ "unexpected_message" \in Said
  /\ "cke_write_failed" \in Said /\ "non_handshake_record" \in Said /\ "early_io_err" \in Said /\ "read_err" \in Said /\ "eof" \in Said
  /\ "protected" \in Said /\ "unprotected" \in Said
BY DEF Said, Ids

(* A connection that saw nothing.                                          *)
LEMMA NothingSeen == TicketSeen({}) /\ SeenFits({})
BY DEF TicketSeen, SeenFits

(* What is on record while a connection lasts.                             *)
LEMMA FlagsSeen ==
  ASSUME IInv, phase = "talk"
  PROVE  /\ TicketSeen(flags) /\ SeenFits(flags) /\ faults \in 0..Faults /\ count \in Nat /\ Placed
         /\ flags = {} \/ (KindNow = "early" /\ pc = 6)
BY DEF IInv, Placed, Reported, SeenFits

(* Sending the HTTP request of the early-data probe keeps the invariant.   *)
LEMMA SendRequestKeeps == ASSUME IInv, SendRequest PROVE IInv'
<1>1. Placed /\ Reported /\ Wired /\ phase = "talk" /\ Step.op = "request"
  BY DEF IInv, SendRequest, Talking
<1>2. pc = 5 /\ KindNow = "early"
  BY <1>1, OpIs
<1>3. /\ probe' = probe /\ srv' = srv /\ trial' = trial /\ obs' = obs /\ phase' = "talk" /\ wire' = wire
      /\ faults' = faults /\ count' = count /\ flags' = flags /\ pc' = 6
  BY <1>1, <1>2 DEF SendRequest, Fixed, Advance
<1>4. KindNow' = KindNow /\ Has("tickets")' = Has("tickets") /\ TicketRecord' = TicketRecord
  BY <1>3, SameNow, SameHas, SameTicket DEF TicketRecord
<1>5. Wired' /\ Ahead'
  BY <1>1, <1>2, <1>3, <1>4 DEF Wired, Ahead
<1>6. pc' \in 1..Steps(KindNow)
  BY <1>2, <1>3, StepsAre
<1> QED BY <1>1, <1>2, <1>3, <1>5, <1>6, FlagsSeen, StaysPut

(* The burst of renegotiations keeps the invariant.                        *)
LEMMA BurstKeeps == ASSUME IInv, Burst PROVE IInv'
<1>1. Placed /\ phase = "talk" /\ Step.op = "burst"
  BY DEF IInv, Burst, Talking
<1>2. pc = 5 /\ KindNow = "burst" /\ probe = "reneg" /\ trial = 4
  BY <1>1, OpIs, KindProbe
<1>3. probe' = probe /\ srv' = srv /\ faults' = faults
  BY DEF Burst, Fixed
<1>4. TicketSeen(flags) /\ SeenFits(flags) /\ faults \in 0..Faults /\ count \in Nat /\ flags = {}
  BY <1>1, <1>2, FlagsSeen
<1> DEFINE turn == wire \o (IF count = 0 THEN Answer("hello_again") ELSE TurnAway("unexpected_message", "put"))
<1>5. CASE turn # <<>> /\ wire' = Tail(turn) /\ count' = count + 1 /\ UNCHANGED <<phase, trial, pc, obs, flags>>
  <2>1. srv \in Servers /\ wire \in Seq(Recs)
    BY <1>1 DEF IInv, Placed, Wired
  <2>2. Answer("hello_again") \in Seq(Recs)
    BY <2>1, AnswersAreReplies DEF Replied
  <2>3. TurnAway("unexpected_message", "put") \in Seq(Recs)
    BY <2>1, TurnedAway DEF Ids
  <2>4. turn \in Seq(Recs)
    BY <2>1, <2>2, <2>3
  <2> HIDE DEF turn
  <2>5. wire' \in Seq(Recs)
    BY <1>5, <2>4
  <2>6. KindNow' = KindNow
    BY <1>3, <1>5, SameNow
  <2>7. Wired' /\ Ahead'
    BY <1>2, <1>5, <2>5, <2>6 DEF Wired, Ahead
  <2>8. count' \in Nat
    BY <1>4, <1>5
  <2>9. pc' \in 1..Steps(KindNow)
    BY <1>1, <1>5 DEF Placed
  <2> QED BY <1>1, <1>3, <1>4, <1>5, <2>7, <2>8, <2>9, StaysPut
<1>6. CASE EndTrial("burst", flags) /\ count' = count
  <2>1. Sound("burst", trial)
    BY <1>2 DEF Sound
  <2>2. Steady("burst", trial)
    BY <1>2 DEF Steady, Simple, Expected
  <2>3. "burst" \in Said
    BY SaidThese
  <2> QED BY <1>1, <1>2, <1>3, <1>4, <1>6, <2>1, <2>2, <2>3, TrialEnds
<1> QED BY <1>5, <1>6 DEF Burst

(* Reading the session tickets keeps the invariant.                        *)
LEMMA ReadTicketsKeeps == ASSUME IInv, ReadTickets PROVE IInv'
<1>1. Placed /\ Wired /\ phase = "talk" /\ Step.op = "tickets"
  BY DEF IInv, ReadTickets, Talking
<1>2. pc = 6 /\ KindNow = "early" /\ probe = "zero_rtt" /\ trial = 1
  BY <1>1, OpIs, KindProbe
<1>3. probe' = probe /\ srv' = srv /\ faults' = faults
  BY DEF ReadTickets, Fixed
<1>4. TicketSeen(flags) /\ SeenFits(flags) /\ faults \in 0..Faults /\ count \in Nat
  BY <1>1, <1>2, FlagsSeen
<1>5. CASE /\ wire # <<>> /\ wire' = Tail(wire) /\ UNCHANGED <<phase, trial, pc, obs, count>>
           /\ flags' = flags \cup {"resumes"} \cup If(Head(Head(wire).msgs) = "early_ticket", "early")
  <2>1. Has("tickets") /\ wire = <<TicketRecord>> /\ TLS13 \in srv.versions
    BY <1>1, <1>2, <1>5 DEF Wired
  <2>2. Head(wire) = TicketRecord /\ wire' = <<>>
    BY <2>1, <1>5
  <2>3. Head(Head(wire).msgs) = Ticket
    BY <2>2 DEF TicketRecord, Record
  <2>4. Ticket = "early_ticket" => Has("early_data")
    BY DEF Ticket
  <2>5. TicketSeen(flags')
    BY <1>4, <1>5, <2>1, <2>3, <2>4 DEF TicketSeen, If
  <2>6. KindNow' = KindNow
    BY <1>3, <1>5, SameNow
  <2>7. Wired' /\ Ahead'
    BY <1>2, <1>3, <1>5, <2>1, <2>2, <2>6 DEF Wired, Ahead
  <2>8. pc' \in 1..Steps(KindNow)
    BY <1>1, <1>5 DEF Placed
  <2> QED BY <1>1, <1>2, <1>3, <1>4, <1>5, <2>5, <2>7, <2>8, StaysPut
<1>6. CASE EndTrial("ok", flags) /\ count' = count
  <2>1. Sound("ok", trial)
    BY <1>2 DEF Sound, YesProbes
  <2>2. Steady("ok", trial)
    BY <1>2 DEF Steady, Simple, Willing
  <2>3. "ok" \in Said
    BY SaidThese
  <2> QED BY <1>1, <1>2, <1>3, <1>4, <1>6, <2>1, <2>2, <2>3, TrialEnds
<1> QED BY <1>5, <1>6 DEF ReadTickets

(* A handshake made by crypto/tls keeps the invariant.                     *)
LEMMA GoConnectsKeeps == ASSUME IInv, GoConnects PROVE IInv'
<1>1. Placed /\ phase = "talk" /\ Step.op = "go"
  BY DEF IInv, GoConnects, Talking
<1>2. pc = 1 /\ KindNow = "go" /\ Step = GoStep(probe)
  BY <1>1, OpIs
<1>3. probe' = probe /\ srv' = srv /\ faults' = faults /\ count' = count
  BY DEF GoConnects, Fixed
<1>4. faults \in 0..Faults /\ flags = {}
  BY <1>1, <1>2, FlagsSeen
<1>5. probe \in {"resumption", "zero_rtt"}
  BY <1>1, <1>2, KindProbe DEF Placed, Probes, Talks, Writes
<1>6. PICK o \in {"ticket", "ok", "-"} : EndTrial(o, {}) /\ (o = "ticket" => Has("tickets") /\ \E v \in srv.versions : v >= Step.min)
  <2>1. CASE ~Has("mangled") /\ \E v \in srv.versions : v >= Step.min
    <3>1. CASE Has("tickets")
      BY <2>1, <3>1 DEF GoConnects
    <3>2. CASE ~Has("tickets")
      BY <2>1, <3>2 DEF GoConnects
    <3> QED BY <3>1, <3>2
  <2>2. CASE ~(~Has("mangled") /\ \E v \in srv.versions : v >= Step.min)
    BY <2>2 DEF GoConnects
  <2> QED BY <2>1, <2>2
<1>7. Sound(o, trial)
  <2>1. ASSUME probe = "zero_rtt", o = "ticket" PROVE Has("tickets") /\ TLS13 \in srv.versions
    <3>1. Step.min = TLS13
      BY <1>2, <2>1 DEF GoStep
    <3>2. srv.versions \in SUBSET (0..4)
      BY <1>1, ServerTyped DEF Placed
    <3> QED BY <1>6, <2>1, <3>1, <3>2 DEF TLS13
  <2> QED BY <1>5, <2>1 DEF Sound, YesProbes
<1>8. Steady(o, trial)
  BY <1>5 DEF Steady, Simple, Willing
<1>9. o \in Said
  BY <1>6, SaidThese
<1> QED BY <1>1, <1>3, <1>4, <1>5, <1>6, <1>7, <1>8, <1>9, NothingSeen, TrialEnds

(* The invariant holds before the first connection.                        *)
LEMMA InitKeeps == Init => IInv
<1> SUFFICES ASSUME Init PROVE IInv
  OBVIOUS
<1>1. Placed
  BY ConnectionsAre, StepsAre, KindsAre, BoundsAssumption DEF Init, Placed, KindNow
<1>2. Reported
  BY NothingSeen DEF Init, Reported
<1>3. Wired
  BY DEF Init, Wired
<1>4. Ahead
  BY DEF Init, Ahead
<1>5. Observed
  BY DEF Init, Observed
<1> QED BY <1>1, <1>2, <1>3, <1>4, <1>5 DEF IInv

(* The invariant survives a step that changes nothing.                     *)
LEMMA StutterKeeps == ASSUME IInv, UNCHANGED vars PROVE IInv'
<1>1. /\ KindNow' = KindNow /\ HelloNow' = HelloNow
      /\ Replies(HelloNow)' = Replies(HelloNow) /\ Agreed(HelloNow)' = Agreed(HelloNow)
  BY SameNow DEF vars
<1>2. Placed'
  BY <1>1 DEF Placed, IInv, vars
<1>3. Wired' /\ Ahead'
  BY SameWired DEF vars
<1>4. \A s : SeenFits(s)' = SeenFits(s) /\ TicketSeen(s)' = TicketSeen(s)
  BY SameSeenFits, SameTicketSeen DEF vars
<1>5. Reported'
  BY <1>1, <1>4 DEF IInv, Reported, vars
<1>6. \A o, i : Sound(o, i)' = Sound(o, i) /\ Steady(o, i)' = Steady(o, i)
  BY SameSound, SameSteady DEF vars
<1>7. Has("oracle")' = Has("oracle")
  BY SameHas DEF vars
<1>8. Observed'
  BY <1>6, <1>7 DEF IInv, Observed, vars
<1> QED BY <1>2, <1>3, <1>5, <1>8 DEF IInv

(* An obscure suite is agreed on exactly when it is shared; an export      *)
(* suite is one of those offered.                                          *)
LEMMA SharedShows ==
  ASSUME Placed, probe \in {"freak", "logjam", "obscure", "cipher"}
  PROVE  /\ Agreed(HelloNow) /\ probe \in {"obscure", "cipher"} => Shows
         /\ Agreed(HelloNow) /\ probe \in {"freak", "logjam"} => srv.suites \cap Offered # {}
         /\ Plain(HelloNow)
         /\ Simple /\ Shows => Agreed(HelloNow)
<1>1. Plain(HelloNow)
  BY PlainHellos DEF HelloNow, Probes
<1>2. /\ probe \in {"freak", "logjam"} => HelloNow.suites = Offered /\ HelloNow.version = TLS10
      /\ probe = "obscure" => HelloNow.suites = {"OBSCURE"} /\ HelloNow.version = TLS12
      /\ probe = "cipher" => HelloNow.suites = {"ECDHE"}
  BY DEF HelloNow, HelloFor, ExportHello, ObscureHello, SingleHello, Hello, Offered
<1>3. ASSUME Agreed(HelloNow)
      PROVE  /\ probe \in {"obscure", "cipher"} => Shows
             /\ probe \in {"freak", "logjam"} => srv.suites \cap Offered # {}
  <2>1. PICK c \in HelloNow.suites : c \in srv.suites
    BY <1>3, AgreedShares
  <2>2. CASE probe \in {"freak", "logjam"}
    <3>1. c \in srv.suites \cap Offered
      BY <1>2, <2>1, <2>2
    <3> QED BY <2>2, <3>1
  <2>3. CASE probe = "obscure"
    BY <1>2, <2>1, <2>3 DEF Shows
  <2>4. CASE probe = "cipher"
    BY <1>2, <2>1, <2>4 DEF Shows
  <2> QED BY <2>2, <2>3, <2>4
<1>4. ASSUME Simple, Shows PROVE Agreed(HelloNow)
  <2>1. srv \in Servers /\ TLS10 \in srv.versions
    BY <1>4 DEF Placed, Simple
  <2>2. CASE probe \in {"freak", "logjam"}
    <3>1. PICK c : c \in srv.suites /\ c \in Offered /\ c # "TLS13"
      BY <1>4, <2>2 DEF Shows, Offered, FREAKCiphers, LogjamCiphers
    <3>3. TLS10 <= HelloNow.version /\ HelloNow.version \in 0..3 /\ c \in HelloNow.suites
      BY <1>2, <2>2, <3>1 DEF TLS10
    <3> QED BY <2>1, <3>1, <3>3, WillAgree
  <2>3. CASE probe = "obscure"
    <3>1. "OBSCURE" \in srv.suites
      BY <1>4, <2>3 DEF Shows
    <3>2. TLS10 <= HelloNow.version /\ HelloNow.version \in 0..3 /\ "OBSCURE" \in HelloNow.suites
      BY <1>2, <2>3 DEF TLS10, TLS12
    <3> QED BY <2>1, <3>1, <3>2, WillAgree
  <2> QED BY <1>4, <2>2, <2>3 DEF Simple
<1> QED BY <1>1, <1>3, <1>4

HeaderProbes == {"sslv3", "sslv2", "scsv", "freak", "logjam", "cipher"}

(* The probes that judge the first record by its header.                   *)
LEMMA HeaderReaders ==
  ASSUME Placed, ReaderFor(probe, trial).op = "header", KindNow # "go"
  PROVE  probe \in HeaderProbes /\ KindNow = "talk"
<1>1. probe \in HeaderProbes \cup {"resumption"}
  BY DEF Placed, ReaderFor, First, SkipToServerHelloDone, DHFlight, ServerHelloBody, FetchRSAServerKey, KeyFlight, Flight, HeaderProbes, Probes
<1>2. probe # "resumption"
  BY KindProbe DEF KindNow, Kind, Talks, Writes
<1> QED BY <1>1, <1>2 DEF KindNow, Kind, HeaderProbes, Talks

(* The record that answers a hello, where its header is all that is read.  *)
LEMMA HeaderOfReply ==
  ASSUME IInv, phase = "talk", pc = 2, probe \in HeaderProbes
  PROVE  \E reply \in Replies(HelloNow) : wire = reply /\ wire \in Seq(Recs) /\ Suffix(wire, reply)
<1>1. ReaderFor(probe, trial).op = "header"
  BY DEF ReaderFor, Header, HeaderProbes
<1>2. Wired
  BY DEF IInv
<1> QED BY <1>1, <1>2 DEF Wired

(* What they read off the header is so.                                    *)
LEMMA TalkHeader ==
  ASSUME IInv, phase = "talk", pc = 2, probe \in HeaderProbes, wire # <<>>, NEW o,
         o = IF Head(wire).type = "eof" THEN "-" ELSE HeaderTells(Head(wire))
  PROVE  o \in Said /\ Sound(o, trial) /\ Steady(o, trial)
<1>1. Placed /\ srv \in Servers
  BY DEF IInv, Placed
<1>2. PICK reply \in Replies(HelloNow) : wire = reply /\ wire \in Seq(Recs) /\ Suffix(wire, reply)
  BY HeaderOfReply
<1>3. Truthful(Head(wire), HelloNow)
  BY <1>1, <1>2, NextRecord
<1> DEFINE r == Head(wire)
<1>4. CASE probe = "sslv3"
  <2>1. o \in {"yes", "no", "-"} /\ (o = "yes" => r.type = "handshake" /\ r.v = SSL3)
    BY <1>4 DEF HeaderTells
  <2>2. o = "yes" => SSL3 \in srv.versions
    <3>1. HelloNow.version = SSL3
      BY <1>4 DEF HelloNow, HelloFor, SSLv3Hello, Hello
    <3>2. o = "yes" => Agreed(HelloNow) /\ Negotiated(HelloNow) = SSL3
      BY <1>3, <2>1, <3>1 DEF Truthful, SSL3, TLS13
    <3>3. Agreed(HelloNow) => Negotiated(HelloNow) \in srv.versions
      BY <1>1, NegotiatedIsCommon DEF Agreed
    <3> QED BY <3>2, <3>3
  <2>3. o = "yes" => Shows
    BY <1>4, <2>2 DEF Shows
  <2>4. Sound(o, trial) /\ Steady(o, trial)
    BY <1>4, <2>3 DEF Sound, Steady, Simple, Willing
  <2> QED BY <2>1, <2>4, SaidThese
<1>5. CASE probe = "sslv2"
  <2>1. o \in {"yes", "no", "-"} /\ (o = "yes" <=> r.type = "ssl2")
    BY <1>5 DEF HeaderTells
  <2>2. o = "yes" => Has("ssl2")
    BY <1>3, <2>1 DEF Truthful
  <2>3. Has("ssl2") => o = "yes"
    <3>1. "ssl2" \in HelloNow.flags
      BY <1>5 DEF HelloNow, HelloFor, SSLv2Hello, Hello
    <3>2. ASSUME Has("ssl2") PROVE wire = <<Record("ssl2", <<>>, "hello", 0, "hello")>>
      BY <3>1, <3>2, <1>2 DEF Replies
    <3>3. Has("ssl2") => r.type = "ssl2"
      BY <3>2 DEF Record
    <3> QED BY <2>1, <3>3
  <2>4. Shows <=> Has("ssl2")
    BY <1>5 DEF Shows
  <2>5. Sound(o, trial) /\ Steady(o, trial)
    BY <1>5, <2>2, <2>3, <2>4 DEF Sound, Steady, Willing
  <2> QED BY <2>1, <2>5, SaidThese
<1>6. CASE probe = "scsv"
  <2>1. /\ o \in {"protected", "unprotected", "-"}
        /\ o = "protected" => r.id = "inappropriate_fallback"
        /\ o = "unprotected" => r.type = "handshake"
    BY <1>6 DEF HeaderTells
  <2>2. "scsv" \in HelloNow.flags
    BY <1>6 DEF HelloNow, HelloFor, FallbackHello, Hello
  <2>3. (o = "protected" => Has("scsv")) /\ (o = "unprotected" => ~Has("scsv"))
    BY <1>3, <2>1, <2>2 DEF Truthful
  <2>4. Sound(o, trial) /\ Steady(o, trial)
    BY <1>6, <2>3 DEF Sound, Steady, Simple, Willing, YesProbes
  <2> QED BY <2>1, <2>4, SaidThese
<1>7. CASE probe \in {"freak", "logjam", "cipher"}
  <2>1. o \in {"yes", "no", "-"} /\ (o = "yes" <=> r.type = "handshake")
    BY <1>7 DEF HeaderTells
  <2>2. /\ o = "yes" /\ probe = "cipher" => Shows
        /\ o = "yes" /\ probe # "cipher" => srv.suites \cap Offered # {}
    BY <1>1, <1>3, <1>7, <2>1, SharedShows DEF Truthful
  <2>3. ASSUME Simple, Shows PROVE o = "yes"
    <3>1. Agreed(HelloNow) /\ Plain(HelloNow) /\ srv.framing # "split"
      BY <1>1, <1>7, <2>3, SharedShows DEF Simple, Quiet
    <3>2. r.type = "handshake"
      BY <3>1, <1>1, <1>2, FlightRecord
    <3> QED BY <2>1, <3>2
  <2>4. Sound(o, trial) /\ Steady(o, trial)
    BY <1>7, <2>2, <2>3 DEF Sound, Steady, Willing, YesProbes
  <2> QED BY <2>1, <2>4, SaidThese
<1> QED BY <1>4, <1>5, <1>6, <1>7 DEF HeaderProbes

(* The answer to a probe's write: what the probe looks for, or a refusal.  *)
LEMMA AnswerIs ==
  ASSUME NEW p, NEW t \in 1..6
  PROVE  /\ p = "heartbleed" => Answer(What(p, t)) = IF Has("heartbeat") THEN <<Record("heartbeat", <<>>, "long", TLS11, "put")>>
                                                     ELSE TurnAway("unexpected_message", "put")
         /\ p = "ccs" => Answer(What(p, t)) = IF Has("ccs") THEN <<Record("handshake", <<>>, "finished", TLS12, "put")>>
                                              ELSE TurnAway("unexpected_message", "put")
         /\ p = "robot" => Answer(What(p, t)) = IF t # 2 /\ Has("padding") THEN Alert("decode_error", "put")
                                                ELSE TurnAway("bad_record_mac", "put")
         /\ p \in {"golden", "zombie", "sleeping"} =>
              Answer(What(p, t)) = TurnAway("unexpected_message", "put")
<1>1. CASE p = "heartbleed"
  BY <1>1 DEF What, Answer
<1>2. CASE p = "ccs"
  BY <1>2 DEF What, Answer
<1>3. CASE p = "robot"
  <2>1. CASE t = 2
    BY <1>3, <2>1 DEF What, Answer
  <2>2. CASE t # 2
    <3>1. What(p, t) \in {"bad_version", "bad_separator", "short_pms", "random_cipher"}
      BY <1>3, <2>2 DEF What
    <3>2. Answer(What(p, t)) = IF Has("padding") THEN Alert("decode_error", "put") ELSE TurnAway("bad_record_mac", "put")
      BY <3>1 DEF Answer
    <3> QED BY <1>3, <2>2, <3>2
  <2> QED BY <2>1, <2>2
<1>4. CASE p \in {"golden", "zombie", "sleeping"}
  <2>1. What(p, t) \in {"bad_pad", "bad_mac", "bad_both"}
    BY <1>4 DEF What
  <2> QED BY <1>4, <2>1 DEF Answer
<1> QED BY <1>1, <1>2, <1>3, <1>4

(* What a read of the header that answers a write observes.                *)
Hears(o) ==
  /\ wire = <<>> => o = FailedAt("deadline")
  /\ wire # <<>> /\ Head(wire).type = "eof" => o = FailedAt("eof")
  /\ wire # <<>> /\ Head(wire).type # "eof" => o = HeaderTells(Head(wire))

(* A wire with one record on it.                                           *)
LEMMA OneRecord ==
  ASSUME NEW type, NEW id, NEW v, NEW re
  PROVE  LET w == <<Record(type, <<>>, id, v, re)>> IN w # <<>> /\ Head(w).type = type /\ Head(w).id = id
<1> DEFINE r == Record(type, <<>>, id, v, re)
<1>1. r.type = type /\ r.id = id
  BY DEF Record
<1> HIDE DEF r
<1>2. <<r>> # <<>> /\ Head(<<r>>) = r
  OBVIOUS
<1> QED BY <1>1, <1>2 DEF r

(* An alert on the wire.                                                   *)
LEMMA AlertRecord ==
  ASSUME NEW id
  PROVE  Alert(id, "put") # <<>> /\ Head(Alert(id, "put")).type = "alert" /\ Head(Alert(id, "put")).id = id
BY OneRecord DEF Alert

(* A refusal, or one record in its place.                                  *)
LEMMA Refusal ==
  ASSUME srv \in Servers, NEW id, wire = TurnAway(id, "put"), NEW o, Hears(o)
  PROVE  \/ srv.manner = "alert" /\ \E r : r.type = "alert" /\ r.id = id /\ o = HeaderTells(r)
         \/ srv.manner = "close" /\ o = FailedAt("eof")
         \/ srv.manner = "silent" /\ o = FailedAt("deadline")
<1>1. CASE srv.manner = "alert"
  <2>1. wire # <<>> /\ Head(wire).type = "alert" /\ Head(wire).id = id
    BY <1>1, TurnHead
  <2> QED BY <1>1, <2>1 DEF Hears
<1>2. CASE srv.manner = "close"
  BY <1>2, TurnHead DEF Hears
<1>3. CASE srv.manner = "silent"
  BY <1>3, TurnHead DEF Hears
<1> QED BY <1>1, <1>2, <1>3, TurnHead

(* What the probes that write once read off the answer is so.              *)
LEMMA WriteHeader ==
  ASSUME IInv, phase = "talk", pc = 4, KindNow = "write", NEW o, Hears(o)
  PROVE  /\ o \in Said /\ Sound(o, trial) /\ Steady(o, trial)
         /\ probe = "sleeping" => o # "slow"
<1>1. Placed /\ srv \in Servers /\ wire = Answer(What(probe, trial)) /\ probe \in Writes /\ (probe = "robot" => trial # 1)
  BY KindProbe DEF IInv, Placed, Wired
<1>2. trial \in 1..6
  BY <1>1, ConnectionsAre DEF Placed
<1>3. Step.op = "header"
  BY <1>1, StepIs DEF Header
<1>4. CASE probe = "heartbleed"
  <2>1. FailedAt("eof") = "-" /\ FailedAt("deadline") = "-"
    BY <1>4 DEF FailedAt
  <2>2. Shows <=> Has("heartbeat")
    BY <1>4 DEF Shows
  <2>3. CASE Has("heartbeat")
    <3>1. wire # <<>> /\ Head(wire).type = "heartbeat" /\ Head(wire).id = "long"
      BY <1>1, <1>2, <1>4, <2>3, AnswerIs, OneRecord
    <3>2. o = "yes"
      BY <1>4, <3>1 DEF Hears, HeaderTells
    <3>3. Sound(o, trial) /\ Steady(o, trial)
      BY <1>4, <2>2, <2>3, <3>2 DEF Sound, Steady, Simple, Expected, YesIf
    <3> QED BY <1>4, <3>2, <3>3, SaidThese
  <2>4. CASE ~Has("heartbeat")
    <3>1. wire = TurnAway("unexpected_message", "put")
      BY <1>1, <1>2, <1>4, <2>4, AnswerIs
    <3>2. o = "-" \/ (o = "no" /\ srv.manner = "alert")
      BY <1>1, <1>4, <2>1, <3>1, Refusal DEF HeaderTells
    <3>3. srv.manner = "alert" => o = "no"
      BY <1>1, <1>4, <3>1, Refusal DEF HeaderTells
    <3>4. Sound(o, trial) /\ Steady(o, trial)
      BY <1>4, <2>2, <2>4, <3>2, <3>3 DEF Sound, Steady, Simple, Willing, Quiet, Expected, YesIf
    <3> QED BY <1>4, <3>2, <3>4, SaidThese
  <2> QED BY <2>3, <2>4
<1>5. CASE probe = "ccs"
  <2>1. FailedAt("eof") = "-" /\ FailedAt("deadline") = "-"
    BY <1>5 DEF FailedAt
  <2>2. Shows <=> Has("ccs")
    BY <1>5 DEF Shows
  <2>3. CASE Has("ccs")
    <3>1. wire # <<>> /\ Head(wire).type = "handshake"
      BY <1>1, <1>2, <1>5, <2>3, AnswerIs, OneRecord
    <3>2. o = "yes"
      BY <1>5, <3>1 DEF Hears, HeaderTells
    <3>3. Sound(o, trial) /\ Steady(o, trial)
      BY <1>5, <2>2, <2>3, <3>2 DEF Sound, Steady, Simple, Expected, YesIf
    <3> QED BY <1>5, <3>2, <3>3, SaidThese
  <2>4. CASE ~Has("ccs")
    <3>1. wire = TurnAway("unexpected_message", "put")
      BY <1>1, <1>2, <1>5, <2>4, AnswerIs
    <3>2. o = "-" \/ (o = "no" /\ srv.manner = "alert")
      BY <1>1, <1>5, <2>1, <3>1, Refusal DEF HeaderTells
    <3>3. srv.manner = "alert" => o = "no"
      BY <1>1, <1>5, <3>1, Refusal DEF HeaderTells
    <3>4. Sound(o, trial) /\ Steady(o, trial)
      BY <1>5, <2>2, <2>4, <3>2, <3>3 DEF Sound, Steady, Simple, Willing, Quiet, Expected, YesIf
    <3> QED BY <1>5, <3>2, <3>4, SaidThese
  <2> QED BY <2>3, <2>4
<1>6. CASE probe = "robot"
  <2>1. FailedAt("eof") = "eof" /\ FailedAt("deadline") = "read_err"
    BY <1>1, <1>3, <1>6 DEF FailedAt
  <2>2. Shows <=> Has("padding")
    BY <1>6 DEF Shows
  <2>3. CASE trial # 2 /\ Has("padding")
    <3>1. wire # <<>> /\ Head(wire).type = "alert" /\ Head(wire).id = "decode_error"
      BY <1>1, <1>2, <1>6, <2>3, AnswerIs, AlertRecord
    <3>2. o = "decode_error"
      BY <1>6, <3>1 DEF Hears, HeaderTells
    <3>3. Sound(o, trial) /\ Steady(o, trial)
      BY <1>1, <1>2, <1>6, <2>2, <2>3, <3>2 DEF Sound, Steady, Simple, Expected, YesProbes
    <3> QED BY <1>6, <3>2, <3>3 DEF Said, Ids
  <2>4. CASE ~(trial # 2 /\ Has("padding"))
    <3>1. wire = TurnAway("bad_record_mac", "put")
      BY <1>1, <1>2, <1>6, <2>4, AnswerIs
    <3>2. o = Turned
      <4>1. srv.manner = "alert" => o = "bad_record_mac"
        BY <1>1, <1>6, <3>1, Refusal DEF HeaderTells
      <4>2. srv.manner = "close" => o = "eof"
        BY <1>1, <1>6, <3>1, <2>1, Refusal
      <4>3. srv.manner = "silent" => o = "read_err"
        BY <1>1, <1>6, <3>1, <2>1, Refusal
      <4> QED BY <4>1, <4>2, <4>3, <1>1, ServerTyped DEF Turned
    <3>3. Sound(o, trial)
      BY <1>1, <1>6 DEF Sound, YesProbes
    <3>4. Steady(o, trial)
      BY <1>1, <1>2, <1>6, <2>2, <2>4, <3>2 DEF Steady, Simple, Willing, Quiet, Turned, Expected
    <3>5. o \in Said
      BY <3>2 DEF Turned, Said, Ids
    <3> QED BY <1>6, <3>3, <3>4, <3>5
  <2> QED BY <2>3, <2>4
<1>7. CASE probe \in {"golden", "zombie", "sleeping"}
  <2>1. FailedAt("eof") = "-" /\ FailedAt("deadline") = "-"
    BY <1>7 DEF FailedAt
  <2>2. wire = TurnAway("unexpected_message", "put")
    BY <1>1, <1>2, <1>7, AnswerIs
  <2>3. srv.manner = "alert" =>
          o = IF probe = "sleeping" THEN "fast" ELSE IF probe = "zombie" THEN "short" ELSE "unexpected_message"
    <3>1. ASSUME srv.manner = "alert" PROVE \E r : r.type = "alert" /\ r.id = "unexpected_message" /\ o = HeaderTells(r)
      BY <1>1, <2>2, <3>1, Refusal
    <3> QED BY <1>7, <3>1 DEF HeaderTells
  <2>4. srv.manner # "alert" => o = "-"
    BY <1>1, <2>1, <2>2, Refusal
  <2>5. Sound(o, trial)
    BY <1>7, <2>3, <2>4 DEF Sound, YesProbes, Failed
  <2>6. Steady(o, trial)
    BY <1>7, <2>3, <2>4 DEF Steady, Simple, Willing
  <2>7. o \in Said
    BY <2>3, <2>4, SaidThese
  <2> QED BY <1>7, <2>3, <2>4, <2>5, <2>6, <2>7
<1> QED BY <1>1, <1>4, <1>5, <1>6, <1>7 DEF Writes

(* What the renegotiation probe reads off the answer to its second hello   *)
(* is so.                                                                  *)
LEMMA AgainHeader ==
  ASSUME IInv, phase = "talk", pc = 6, KindNow = "again", NEW o, Hears(o)
  PROVE  o \in Said /\ Sound(o, trial) /\ Steady(o, trial)
<1>1. srv \in Servers /\ wire = Answer("hello_again") /\ probe = "reneg" /\ trial # 4
  BY KindProbe DEF IInv, Placed, Wired
<1>2. FailedAt("eof") = "-" /\ FailedAt("deadline") = "-"
  BY <1>1 DEF FailedAt
<1>3. Shows <=> Has("renegotiation")
  BY <1>1 DEF Shows
<1>4. CASE Has("renegotiation")
  <2>1. wire = [i \in 1..RenegRecords |-> Record("handshake", <<>>, "hello", TLS12, "put")]
    BY <1>1, <1>4 DEF Answer
  <2>2. wire # <<>> /\ Head(wire).type = "handshake"
    <3>1. RenegRecords \in Nat /\ RenegRecords >= 1
      BY DEF RenegRecords
    <3>2. ASSUME NEW r, NEW n \in Nat, n >= 1 PROVE LET w == [i \in 1..n |-> r] IN w # <<>> /\ Head(w) = r
      BY <3>2
    <3>3. Record("handshake", <<>>, "hello", TLS12, "put").type = "handshake"
      BY DEF Record
    <3> QED BY <2>1, <3>1, <3>2, <3>3, Zenon
  <2>3. o = "yes"
    BY <1>1, <2>2 DEF Hears, HeaderTells
  <2>4. Sound(o, trial) /\ Steady(o, trial)
    BY <1>1, <1>3, <1>4, <2>3 DEF Sound, Steady, Simple, Expected, YesIf
  <2> QED BY <2>3, <2>4, SaidThese
<1>5. CASE ~Has("renegotiation")
  <2>1. wire = TurnAway("no_renegotiation", "put")
    BY <1>1, <1>5 DEF Answer
  <2>2. o = "-" \/ (o = "no" /\ srv.manner = "alert")
    BY <1>1, <1>2, <2>1, Refusal DEF HeaderTells
  <2>3. srv.manner = "alert" => o = "no"
    BY <1>1, <2>1, Refusal DEF HeaderTells
  <2>4. Sound(o, trial) /\ Steady(o, trial)
    BY <1>1, <1>3, <1>5, <2>2, <2>3 DEF Sound, Steady, Simple, Willing, Quiet, Expected, YesIf
  <2> QED BY <2>2, <2>4, SaidThese
<1> QED BY <1>4, <1>5

(* Reading a record header keeps the invariant.                            *)
LEMMA ReadHeaderKeeps == ASSUME IInv, ReadHeader PROVE IInv'
<1>1. Placed /\ phase = "talk" /\ Step.op = "header" /\ wire # <<>>
  BY DEF IInv, ReadHeader, Talking
<1>2. probe' = probe /\ srv' = srv /\ faults' = faults /\ count' = count
  BY DEF ReadHeader, Fixed
<1>3. PICK o : /\ EndTrial(o, flags)
               /\ o = IF Head(wire).type = "eof" THEN FailedAt("eof") ELSE HeaderTells(Head(wire))
  <2>1. CASE Head(wire).type = "eof"
    BY <2>1 DEF ReadHeader
  <2>2. CASE Head(wire).type # "eof"
    BY <2>2 DEF ReadHeader
  <2> QED BY <2>1, <2>2
<1>4. Hears(o)
  BY <1>1, <1>3 DEF Hears
<1>5. /\ o \in Said /\ Sound(o, trial) /\ Steady(o, trial)
      /\ probe = "sleeping" => o # "slow"
      /\ flags = {}
  <2>1. CASE pc = 2 /\ Step = ReaderFor(probe, trial) /\ KindNow # "go"
    <3>1. probe \in HeaderProbes /\ KindNow = "talk"
      BY <1>1, <2>1, HeaderReaders
    <3>2. FailedAt("eof") = "-" /\ probe # "sleeping"
      BY <3>1 DEF FailedAt, HeaderProbes
    <3>3. o = IF Head(wire).type = "eof" THEN "-" ELSE HeaderTells(Head(wire))
      BY <1>3, <3>2
    <3>4. o \in Said /\ Sound(o, trial) /\ Steady(o, trial)
      BY <1>1, <2>1, <3>1, <3>3, TalkHeader
    <3> QED BY <1>1, <2>1, <3>1, <3>2, <3>4, FlagsSeen
  <2>2. CASE pc = 4 /\ KindNow = "write"
    BY <1>1, <1>4, <2>2, WriteHeader, FlagsSeen
  <2>3. CASE pc = 6 /\ KindNow = "again"
    BY <1>1, <1>4, <2>3, AgainHeader, FlagsSeen, KindProbe
  <2> QED BY <1>1, <2>1, <2>2, <2>3, OpIs
<1>6. SeenFits(flags) /\ faults \in 0..Faults
  BY <1>1, FlagsSeen
<1> QED BY <1>1, <1>2, <1>3, <1>5, <1>6, TrialEnds

(* A probe bound to be answered.                                           *)
Certain == Sure \/ (Simple /\ Shows /\ probe = "obscure")

(* A connection certain of its answer was agreed to.                       *)
LEMMA CertainHello ==
  ASSUME IInv, phase = "talk", Certain
  PROVE  Agreed(HelloNow) /\ srv.framing # "split" /\ Plain(HelloNow) /\ ~Unfit({})
<1>1. Placed /\ Observed
  BY DEF IInv
<1>2. CASE Sure
  <2>1. probe \notin {"obscure", "zero_rtt"}
    BY <1>2 DEF Sure, Willing
  <2> QED BY <1>1, <1>2, <2>1, SureHello DEF Unfit
<1>3. CASE Simple /\ Shows /\ probe = "obscure"
  <2>1. srv.framing \in {"one", "each"}
    BY <1>3 DEF Simple, Quiet
  <2> QED BY <1>1, <1>3, <2>1, SharedShows DEF Unfit
<1> QED BY <1>2, <1>3 DEF Certain

(* A failure of a probe that was not bound to be answered says nothing.    *)
LEMMA FailsQuietly ==
  ASSUME ~Sure, Simple => ~Shows, trial \in Nat
  PROVE  Sound("-", trial) /\ Steady("-", trial) /\ "-" \in Said
<1>1. ~Willing /\ ~(probe = "robot" /\ trial > 1)
  BY DEF Sure
<1>2. Sound("-", trial)
  BY DEF Sound, Failed
<1>3. Steady("-", trial)
  BY <1>1 DEF Steady
<1> QED BY <1>2, <1>3, SaidThese

(* The readers of handshake messages.                                      *)
LEMMA ReaderFacts ==
  ASSUME NEW p, NEW t, NEW r, r = ReaderFor(p, t), r.op \in {"first", "flight"}
  PROVE  /\ "fail" \notin r.until /\ "more" \notin r.until /\ r.over \in {"fail", "more"}
         /\ r.op = "first" => ~r.skip /\ r.until = {"ServerHello"} /\ p \in {"crime", "obscure", "zero_rtt"}
         /\ r.op = "flight" => p \in {"heartbleed", "dh", "extensions", "ticketbleed", "alpn", "pqc", "robot", "ccs",
                                      "golden", "zombie", "sleeping", "reneg"}
         /\ p = "robot" /\ t = 1 => r.until = {"Certificate"} /\ r.over = "fail" /\ r.op = "flight"
         /\ p \in {"heartbleed", "ccs", "golden", "zombie", "sleeping", "reneg"} \/ (p = "robot" /\ t # 1) =>
              r.until = {"ServerHelloDone"} /\ r.over = "more" /\ r.op = "flight"
<1> USE DEF First, Flight
<1>1. CASE p = "heartbleed"
  BY <1>1 DEF ReaderFor, SkipToServerHelloDone
<1>2. CASE p \in {"crime", "obscure", "zero_rtt"}
  BY <1>2 DEF ReaderFor
<1>3. CASE p = "dh"
  BY <1>3 DEF ReaderFor, DHFlight
<1>4. CASE p \in {"extensions", "ticketbleed", "alpn", "pqc"}
  BY <1>4 DEF ReaderFor, ServerHelloBody
<1>5. CASE p = "robot" /\ t = 1
  BY <1>5 DEF ReaderFor, FetchRSAServerKey
<1>6. CASE p \in {"robot", "ccs", "golden", "zombie", "sleeping", "reneg"} /\ ~(p = "robot" /\ t = 1)
  BY <1>6 DEF ReaderFor, KeyFlight
<1>7. ASSUME p \notin {"heartbleed", "crime", "obscure", "zero_rtt", "dh", "extensions", "ticketbleed", "alpn", "pqc",
                       "robot", "ccs", "golden", "zombie", "sleeping", "reneg"}
      PROVE  FALSE
  BY <1>7 DEF ReaderFor, Header
<1> QED BY <1>1, <1>2, <1>3, <1>4, <1>5, <1>6, <1>7

(* Such a probe is not left waiting for the server's flight.               *)
LEMMA CertainReads ==
  ASSUME IInv, phase = "talk", Certain, pc = 2, Step.op \in {"first", "flight"}
  PROVE  wire # <<>>
<1>1. Placed /\ Wired /\ Ahead /\ srv \in Servers
  BY DEF IInv, Placed
<1>2. Agreed(HelloNow) /\ srv.framing # "split" /\ Plain(HelloNow)
  BY CertainHello
<1>3. Step = ReaderFor(probe, trial) /\ KindNow # "go"
  BY <1>1, OpIs
<1>4. CASE Step.op = "first"
  <2>1. wire \in Replies(HelloNow)
    BY <1>1, <1>3, <1>4 DEF Wired
  <2>2. PICK reply \in Replies(HelloNow) : wire = reply
    BY <2>1
  <2>3. Len(reply) >= 1
    BY <1>1, <1>2, AgreedFlight DEF LaidOut
  <2> QED BY <2>2, <2>3
<1>5. CASE Step.op = "flight"
  <2>1. probe \in {"heartbleed", "dh", "extensions", "ticketbleed", "alpn", "pqc", "robot", "ccs", "golden", "zombie", "sleeping", "reneg"}
    BY <1>3, <1>5, ReaderFacts
  <2>2. Sure
    BY <2>1 DEF Certain
  <2>3. CASE probe = "robot" /\ trial = 1
    <3>1. srv.framing \in {"one", "each"}
      BY <2>2, <2>3 DEF Sure, Willing, Quiet
    <3> QED BY <1>1, <1>2, <2>3, <3>1 DEF Ahead
  <2>4. CASE ~(probe = "robot" /\ trial = 1)
    <3>1. KindNow \in {"write", "again", "burst"}
      BY <2>1, <2>2, <2>4 DEF Sure, Willing, KindNow, Kind, Talks, Writes
    <3> QED BY <1>1, <1>2, <3>1 DEF Ahead
  <2> QED BY <2>3, <2>4
<1> QED BY <1>4, <1>5

(* A read that runs into its deadline keeps the invariant: when nothing is *)
(* lost it does so only where no answer was due.                           *)
LEMMA DeadlineKeeps == ASSUME IInv, Deadline PROVE IInv'
<1>1. /\ Placed /\ phase = "talk" /\ Step.op \in {"first", "flight", "header", "skip_two"} /\ wire = <<>>
      /\ srv \in Servers /\ EndTrial(FailedAt("deadline"), {})
  BY DEF IInv, Placed, Deadline
<1>2. probe' = probe /\ srv' = srv /\ faults' = faults /\ count' = count
  BY DEF Deadline, Fixed
<1>3. trial \in Nat /\ trial >= 1 /\ faults \in 0..Faults
  BY <1>1, ConnectionsAre DEF Placed
<1>4. PICK o : o = FailedAt("deadline")
  OBVIOUS
<1>5. Hears(o)
  BY <1>1, <1>4 DEF Hears
<1>6. /\ o \in Said /\ Sound(o, trial) /\ Steady(o, trial)
      /\ probe = "sleeping" => o # "slow"
      /\ flags = {}
  <2>1. CASE pc = 2 /\ Step.op = "header"
    <3>1. probe \in HeaderProbes /\ KindNow = "talk"
      BY <1>1, <2>1, HeaderReaders, OpIs
    <3>2. o = "-" /\ ~Sure
      BY <1>4, <3>1 DEF FailedAt, HeaderProbes, Sure, Willing
    <3>3. wire \in Replies(HelloNow)
      BY <1>1, <2>1, <3>1, HeaderOfReply
    <3>4. ASSUME Simple, Shows PROVE FALSE
      <4>1. CASE probe = "sslv2"
        <5>1. "ssl2" \in HelloNow.flags /\ Has("ssl2")
          BY <4>1, <3>4 DEF HelloNow, HelloFor, SSLv2Hello, Hello, Shows
        <5>2. wire = <<Record("ssl2", <<>>, "hello", 0, "hello")>>
          BY <3>3, <5>1 DEF Replies
        <5> QED BY <1>1, <5>2
      <4>2. CASE probe \in {"freak", "logjam"}
        <5>1. Agreed(HelloNow) /\ Plain(HelloNow)
          BY <1>1, <3>4, <4>2, SharedShows
        <5>2. PICK reply \in Replies(HelloNow) : wire = reply
          BY <3>3
        <5>3. Len(reply) >= 1
          BY <1>1, <5>1, AgreedFlight DEF LaidOut
        <5> QED BY <1>1, <5>2, <5>3
      <4> QED BY <3>1, <3>4, <4>1, <4>2 DEF Simple, HeaderProbes
    <3>5. flags = {}
      BY <1>1, <2>1, FlagsSeen
    <3> QED BY <1>3, <3>2, <3>4, <3>5, FailsQuietly
  <2>2. CASE pc = 4 /\ KindNow = "write"
    BY <1>1, <1>5, <2>2, WriteHeader, FlagsSeen
  <2>3. CASE pc = 6 /\ KindNow = "again"
    BY <1>1, <1>5, <2>3, AgainHeader, FlagsSeen, KindProbe
  <2>4. CASE Step.op = "skip_two"
    <3>1. wire = Answer("finished") /\ KindNow \in {"again", "burst"} /\ flags = {}
      BY <1>1, <2>4, OpIs, FlagsSeen DEF IInv, Wired
    <3>2. TLS12 \notin srv.versions
      BY <1>1, <3>1, FinishedIs
    <3>3. o = "-" /\ probe = "reneg" /\ ~Sure /\ ~Simple
      BY <1>4, <3>1, <3>2, KindProbe DEF FailedAt, Sure, Willing, Simple
    <3> QED BY <1>3, <3>1, <3>3, FailsQuietly
  <2>5. CASE pc = 2 /\ Step.op \in {"first", "flight"}
    <3>1. ~Certain
      BY <1>1, <2>5, CertainReads
    <3>2. ~Sure /\ o = "-"
      BY <1>3, <1>4, <3>1 DEF Certain, Sure, FailedAt
    <3>3. Simple => ~Shows
      <4>1. probe \in {"crime", "obscure", "zero_rtt", "heartbleed", "dh", "extensions", "ticketbleed", "alpn", "pqc", "robot",
                       "ccs", "golden", "zombie", "sleeping", "reneg"}
        BY <1>1, <2>5, OpIs, ReaderFacts
      <4> QED BY <3>1, <4>1 DEF Certain, Simple
    <3>4. flags = {}
      BY <1>1, <2>5, FlagsSeen
    <3> QED BY <1>3, <3>2, <3>3, <3>4, FailsQuietly
  <2>6. CASE pc = 3 /\ KindNow = "early"
    <3>1. probe = "zero_rtt"
      BY <2>6, KindProbe
    <3>2. o = "-" /\ ~Sure /\ ~Simple
      BY <1>4, <3>1 DEF FailedAt, Sure, Willing, Simple
    <3>3. flags = {}
      BY <1>1, <2>6, FlagsSeen
    <3> QED BY <1>3, <3>2, <3>3, FailsQuietly
  <2> QED BY <1>1, <2>1, <2>2, <2>3, <2>4, <2>5, <2>6, OpIs
<1> QED BY <1>1, <1>2, <1>3, <1>4, <1>6, NothingSeen, TrialEnds

(* A connection lost to the network keeps the invariant, since it is       *)
(* counted.                                                                *)
LEMMA LoseKeeps == ASSUME IInv, Lose PROVE IInv'
<1>1. Placed /\ phase = "talk" /\ faults' = faults + 1 /\ srv \in Servers /\ faults' \in 0..Faults
  BY BoundsAssumption DEF IInv, Lose, Placed
<1>2. probe' = probe /\ srv' = srv /\ count' = count
  BY DEF Lose
<1>3. trial \in Nat /\ TicketSeen(flags) /\ SeenFits(flags) /\ (flags = {} \/ (KindNow = "early" /\ pc = 6)) /\ count \in Nat
  BY <1>1, ConnectionsAre, FlagsSeen DEF Placed
<1>4. CASE Step.op \in {"hello", "go"}
  <2>1. PICK o \in {"dial_failed", "hello_write_failed"} : EndTrial(o, {})
    BY <1>4 DEF Lose
  <2>2. Sound(o, trial) /\ o \in Said
    BY <2>1, SaidThese DEF Sound, Failed
  <2>3. flags = {}
    BY <1>1, <1>3, <1>4, OpIs
  <2> QED BY <1>1, <1>2, <2>1, <2>2, <2>3, NothingSeen, TrialEnds
<1>5. CASE Step.op = "tickets"
  <2>1. EndTrial("ok", flags)
    BY <1>5 DEF Lose
  <2>2. probe = "zero_rtt" /\ trial = 1
    BY <1>1, <1>5, OpIs, KindProbe
  <2>3. Sound("ok", trial) /\ "ok" \in Said
    BY <2>2, SaidThese DEF Sound, YesProbes
  <2> QED BY <1>1, <1>2, <1>3, <2>1, <2>3, TrialEnds
<1>6. CASE Step.op = "burst"
  <2>1. EndTrial("burst", {})
    BY <1>6 DEF Lose
  <2>2. probe = "reneg" /\ flags = {}
    BY <1>1, <1>3, <1>6, OpIs, KindProbe
  <2>3. Sound("burst", trial) /\ "burst" \in Said
    BY <2>2, SaidThese DEF Sound
  <2> QED BY <1>1, <1>2, <2>1, <2>2, <2>3, NothingSeen, TrialEnds
<1>7. CASE Step.op = "request"
  <2>1. pc' = pc + 1 /\ wire' = <<>> /\ UNCHANGED <<phase, trial, obs, flags>>
    BY <1>7 DEF Lose
  <2>2. pc = 5 /\ KindNow = "early" /\ Wired
    BY <1>1, <1>7, OpIs DEF IInv
  <2>3. KindNow' = KindNow
    BY <1>2, <2>1, SameNow
  <2>4. Wired' /\ Ahead'
    BY <1>1, <1>2, <2>1, <2>2, <2>3 DEF Wired, Ahead
  <2>5. pc' \in 1..Steps(KindNow)
    BY <2>1, <2>2, StepsAre
  <2> QED BY <1>1, <1>2, <1>3, <2>1, <2>2, <2>4, <2>5, StaysPut
<1>8. CASE probe = "sleeping" /\ Step.op = "header"
  <2>1. PICK o \in {"slow", "-"} : EndTrial(o, {})
    BY <1>8 DEF Lose
  <2>2. Sound(o, trial) /\ o \in Said
    BY <1>8, <2>1, SaidThese DEF Sound, YesProbes, Failed
  <2>3. flags = {}
    BY <1>3, <1>8, KindProbe
  <2> QED BY <1>1, <1>2, <2>1, <2>2, <2>3, NothingSeen, TrialEnds
<1>9. CASE Step.op \notin {"hello", "go", "tickets", "burst", "request"} /\ ~(probe = "sleeping" /\ Step.op = "header")
  <2>1. PICK o : o = FailedAt("lost") /\ EndTrial(o, {})
    BY <1>9 DEF Lose
  <2>2. o = "-" \/ (o \in {"cke_write_failed", "early_io_err", "read_err"} /\ probe = "robot" /\ trial # 1)
    <3>1. CASE probe # "robot" \/ trial = 1
      BY <2>1, <3>1 DEF FailedAt
    <3>2. CASE probe = "robot" /\ trial # 1
      <4>1. Step.op \in {"put", "flight", "header"}
        <5>1. KindNow = "write" /\ ReaderFor(probe, trial).op = "flight"
          BY <3>2 DEF KindNow, Kind, Talks, Writes, ReaderFor, KeyFlight, Flight
        <5>2. pc \in 1..4
          BY <1>1, <5>1, StepsAre DEF Placed
        <5>3. Step.op \in {"hello", "flight", "put", "header"}
          BY <1>1, <5>1, <5>2, StepIs, HelloOp DEF HelloNow, Put, Header
        <5> QED BY <1>9, <5>3
      <4> QED BY <2>1, <3>2, <4>1 DEF FailedAt
    <3> QED BY <3>1, <3>2
  <2>3. Sound(o, trial) /\ o \in Said
    BY <2>2, SaidThese DEF Sound, YesProbes, Failed
  <2>4. flags = {}
    BY <1>1, <1>3, <1>9, StepIs DEF TicketsStep
  <2> QED BY <1>1, <1>2, <2>1, <2>3, <2>4, NothingSeen, TrialEnds
<1> QED BY <1>4, <1>5, <1>6, <1>7, <1>8, <1>9

(* A reader that fails when its probe was not bound to be answered.        *)
LEMMA ReaderFails ==
  ASSUME IInv, phase = "talk", Step.op \in {"first", "flight"}, ~(pc = 2 /\ Certain), NEW why
  PROVE  /\ FailedAt(why) = "-" /\ "-" \in Said /\ Sound("-", trial) /\ Steady("-", trial) /\ flags = {}
<1>1. Placed /\ trial \in Nat /\ trial >= 1
  BY ConnectionsAre DEF IInv, Placed
<1>2. CASE pc = 2
  <2>1. ~Sure /\ FailedAt(why) = "-"
    BY <1>1, <1>2 DEF Certain, Sure, FailedAt
  <2>2. Simple => ~Shows
    <3>1. probe \in {"crime", "obscure", "zero_rtt", "heartbleed", "dh", "extensions", "ticketbleed", "alpn", "pqc", "robot",
                     "ccs", "golden", "zombie", "sleeping", "reneg"}
      BY <1>1, <1>2, OpIs, ReaderFacts
    <3> QED BY <1>2, <3>1 DEF Certain, Simple
  <2> QED BY <1>1, <1>2, <2>1, <2>2, FailsQuietly, FlagsSeen
<1>3. CASE pc = 3 /\ KindNow = "early"
  <2>1. probe = "zero_rtt"
    BY <1>3, KindProbe
  <2>2. FailedAt(why) = "-" /\ ~Sure /\ ~Simple
    BY <2>1 DEF FailedAt, Sure, Willing, Simple
  <2> QED BY <1>1, <1>3, <2>2, FailsQuietly, FlagsSeen
<1> QED BY <1>1, <1>2, <1>3, OpIs

(* A reader looks at the next record of the server's reply.                *)
LEMMA ReadsReply ==
  ASSUME IInv, phase = "talk", Step.op \in {"first", "flight"}, wire # <<>>
  PROVE  /\ Placed /\ srv \in Servers /\ wire \in Seq(Recs)
         /\ \E reply \in Replies(HelloNow) : Suffix(wire, reply) /\ (Step.op = "first" => wire = reply)
<1>1. Placed /\ srv \in Servers /\ wire \in Seq(Recs) /\ Wired
  BY DEF IInv, Placed, Wired
<1>2. CASE pc = 2 /\ Step = ReaderFor(probe, trial)
  BY <1>1, <1>2 DEF Wired
<1>3. CASE pc = 3 /\ KindNow = "early" /\ Step = EncryptedFlight
  BY <1>1, <1>3 DEF Wired, EncryptedFlight, Flight
<1> QED BY <1>1, <1>2, <1>3, OpIs

(* What a record is made of.                                               *)
LEMMA RecordTyped ==
  ASSUME NEW r \in Recs
  PROVE  r.msgs \in Seq(Names) /\ r.type \in Types /\ r.id \in Ids
BY DEF Recs

(* A probe bound to be answered gets on with every record.                 *)
LEMMA CertainScan ==
  ASSUME IInv, phase = "talk", pc = 2, Step.op \in {"first", "flight"}, wire # <<>>, Certain
  PROVE  /\ Head(wire).type = "handshake" /\ ~Unfit(Head(wire))
         /\ Scan(Step, Head(wire).msgs) # "fail"
         /\ Step.op = "first" => Scan(Step, Head(wire).msgs) # "more"
<1>1. Placed /\ srv \in Servers /\ wire \in Seq(Recs)
  BY ReadsReply
<1>2. PICK reply \in Replies(HelloNow) : Suffix(wire, reply) /\ (Step.op = "first" => wire = reply)
  BY ReadsReply
<1>3. Agreed(HelloNow) /\ srv.framing # "split" /\ Plain(HelloNow) /\ ~Unfit({})
  BY CertainHello
<1>4. Head(wire).type = "handshake" /\ Clean(Head(wire).msgs)
  BY <1>1, <1>2, <1>3, FlightRecord
<1>5. ~Unfit(Head(wire))
  BY <1>3 DEF Unfit
<1>6. Step = ReaderFor(probe, trial)
  BY <1>1, OpIs
<1>7. "fail" \notin Step.until /\ "more" \notin Step.until /\ (Step.op = "first" => Step.until = {"ServerHello"})
  BY <1>6, ReaderFacts
<1>8. Head(wire).msgs \in Seq(Names)
  BY <1>1, RecordTyped
<1>9. Scan(Step, Head(wire).msgs) # "fail"
  BY <1>4, <1>7, <1>8, ScanFacts
<1>10. ASSUME Step.op = "first" PROVE Scan(Step, Head(wire).msgs) # "more"
  <2>1. PICK s \in Choices(HelloNow) : LaidOut(reply, Messages(s), "ServerHelloDone", "handshake", Negotiated(HelloNow))
    BY <1>1, <1>2, <1>3, AgreedFlight
  <2>2. Head(wire) = reply[1]
    BY <1>1, <1>2, <1>10
  <2>3. Len(reply[1].msgs) >= 1 /\ reply[1].msgs[1] = "ServerHello"
    BY <2>1, MessagesEnd DEF LaidOut
  <2>4. \E j \in 1..Len(Head(wire).msgs) : Head(wire).msgs[j] \in Step.until
    <3>1. 1 \in 1..Len(Head(wire).msgs)
      BY <2>2, <2>3, <1>8
    <3>2. Head(wire).msgs[1] \in Step.until
      BY <2>2, <2>3, <1>7, <1>10
    <3> QED BY <3>1, <3>2
  <2>5. Scan(Step, Head(wire).msgs) \in Step.until
    BY <1>4, <1>7, <1>8, <2>4, ScanFacts
  <2> QED BY <1>7, <2>5
<1> QED BY <1>4, <1>5, <1>9, <1>10

(* fetchRSAServerKey on a server that took the hello.                      *)
LEMMA RobotScan ==
  ASSUME IInv, phase = "talk", pc = 2, probe = "robot", trial = 1, Agreed(HelloNow), wire # <<>>
  PROVE  /\ Head(wire).type = "handshake"
         /\ srv.framing = "one" => Scan(Step, Head(wire).msgs) # "more"
         /\ srv.framing = "each" /\ Len(wire) = 2 => Scan(Step, Head(wire).msgs) # "more"
         /\ srv.framing = "split" => Scan(Step, Head(wire).msgs) = "fail"
<1>1. Placed /\ srv \in Servers /\ Ahead
  BY DEF IInv, Placed
<1>2. Step = FetchRSAServerKey /\ Step.op = "flight" /\ Step.until = {"Certificate"} /\ Step.over = "fail"
  BY <1>1, StepIs DEF ReaderFor, FetchRSAServerKey, Flight
<1>3. wire \in Seq(Recs)
  BY <1>2, ReadsReply
<1>4. Plain(HelloNow) /\ HelloNow = CCSHello
  BY <1>1, WritersHello
<1>5. ASSUME NEW reply \in Replies(HelloNow)
      PROVE  LaidOut(reply, <<"ServerHello", "Certificate", "ServerHelloDone">>, "ServerHelloDone", "handshake", Negotiated(HelloNow))
  <2>1. PICK s \in Choices(HelloNow) : LaidOut(reply, Messages(s), "ServerHelloDone", "handshake", Negotiated(HelloNow))
    BY <1>1, <1>4, <1>5, AgreedFlight
  <2>2. s = "AES128CBC"
    BY <1>4, <2>1 DEF Choices, CCSHello, Hello
  <2> QED BY <2>1, <2>2, MessagesEnd
<1>6. PICK reply \in Replies(HelloNow) : Suffix(wire, reply)
  BY <1>2, ReadsReply
<1> DEFINE m == <<"ServerHello", "Certificate", "ServerHelloDone">>
<1>7. LaidOut(reply, m, "ServerHelloDone", "handshake", Negotiated(HelloNow))
  BY <1>5
<1>8. reply \in Seq(Recs)
  BY <1>7 DEF LaidOut
<1>9. PICK k \in 1..Len(reply) : Head(wire) = reply[k] /\ k = Len(reply) - Len(wire) + 1
  BY <1>3, <1>6, <1>8, HeadOf
<1>10. Head(wire).type = "handshake"
  BY <1>7, <1>9 DEF LaidOut, OfFlight
<1>11. m \in Seq(Names) /\ <<"Certificate">> \in Seq(Names) /\ Len(m) = 3 /\ m[2] = "Certificate" /\ m[1] = "ServerHello"
  BY DEF Names
<1>12. Scan(Step, m) # "more" /\ Scan(Step, <<"Certificate">>) # "more"
  <2>1. "fail" \notin Step.until /\ "more" \notin Step.until
    BY <1>2
  <2>2. Clean(m) /\ \E j \in 1..Len(m) : m[j] \in Step.until
    BY <1>2 DEF Clean, Torn
  <2>3. Clean(<<"Certificate">>) /\ \E j \in 1..Len(<<"Certificate">>) : <<"Certificate">>[j] \in Step.until
    BY <1>2 DEF Clean, Torn
  <2> QED BY <1>11, <2>1, <2>2, <2>3, ScanFacts
<1> HIDE DEF m
<1>13. srv.framing = "one" => Scan(Step, Head(wire).msgs) # "more"
  <2>1. ASSUME srv.framing = "one" PROVE Head(wire).msgs = m
    <3>1. Len(reply) = 1 /\ reply[1].msgs = m
      BY <1>7, <2>1 DEF LaidOut
    <3>2. k = 1
      BY <1>9, <3>1
    <3> QED BY <1>9, <3>1, <3>2
  <2> QED BY <1>12, <2>1
<1>14. srv.framing = "each" /\ Len(wire) = 2 => Scan(Step, Head(wire).msgs) # "more"
  <2>1. ASSUME srv.framing = "each", Len(wire) = 2 PROVE Head(wire).msgs = <<"Certificate">>
    <3>1. Len(reply) = 3 /\ reply[2].msgs = <<"Certificate">>
      BY <1>7, <1>11, <2>1 DEF LaidOut
    <3>2. k = 2
      BY <1>9, <2>1, <3>1
    <3> QED BY <1>9, <3>1, <3>2
  <2> QED BY <1>12, <2>1
<1>15. srv.framing = "split" => Scan(Step, Head(wire).msgs) = "fail"
  <2> SUFFICES ASSUME srv.framing = "split" PROVE Scan(Step, Head(wire).msgs) = "fail"
    OBVIOUS
  <2>1. wire \in Replies(HelloNow)
    BY <1>1 DEF Ahead
  <2>2. LaidOut(wire, m, "ServerHelloDone", "handshake", Negotiated(HelloNow))
    BY <1>5, <2>1 DEF m
  <2>3. wire[1].msgs = <<"ServerHello", "head">>
    BY <2>2, <1>11 DEF LaidOut
  <2>4. Head(wire) = wire[1]
    BY <1>3
  <2>5. Scan(Step, <<"ServerHello", "head">>) = "fail"
    BY <1>2, ScanTorn
  <2> QED BY <2>3, <2>4, <2>5
<1> QED BY <1>10, <1>13, <1>14, <1>15

(* A record skipped or read to its end: what is awaited is still ahead.    *)
LEMMA ReadOn ==
  ASSUME IInv, phase = "talk", Step.op = "flight", wire # <<>>,
         \/ Head(wire).type \notin {"alert", "eof", Carrier(Step)}
         \/ Head(wire).type = Carrier(Step) /\ Scan(Step, Head(wire).msgs) = "more",
         wire' = Tail(wire), UNCHANGED <<phase, trial, pc, obs, count, flags>>, UNCHANGED Fixed
  PROVE  IInv'
<1>1. Placed /\ srv \in Servers /\ wire \in Seq(Recs) /\ Wired /\ Ahead
  BY ReadsReply DEF IInv
<1>2. PICK reply \in Replies(HelloNow) : Suffix(wire, reply)
  BY ReadsReply
<1>3. Tail(wire) \in Seq(Recs) /\ Suffix(Tail(wire), reply)
  BY <1>1, <1>2, NextRecord
<1>4. srv' = srv /\ probe' = probe /\ faults' = faults
  BY DEF Fixed
<1>5. KindNow' = KindNow /\ Replies(HelloNow)' = Replies(HelloNow) /\ Agreed(HelloNow)' = Agreed(HelloNow)
  BY <1>4, SameNow
<1>6. (pc = 2 /\ Step = ReaderFor(probe, trial)) \/ (pc = 3 /\ KindNow = "early")
  BY <1>1, OpIs
<1>7. Wired'
  <2>1. CASE pc = 2 /\ Step = ReaderFor(probe, trial)
    <3>1. pc' = 2 /\ wire' \in Seq(Recs) /\ (ReaderFor(probe, trial).op # "flight" => FALSE) /\ ReaderFor(probe, trial)' = ReaderFor(probe, trial)
      BY <1>3, <1>4, <2>1
    <3>2. \E x \in Replies(HelloNow)' : Suffix(wire', x)
      BY <1>2, <1>3, <1>5
    <3> QED BY <3>1, <3>2, <1>4 DEF Wired
  <2>2. CASE pc = 3 /\ KindNow = "early"
    <3>1. TLS13 \in srv.versions
      BY <1>1, <2>2 DEF Wired
    <3>2. \E x \in Replies(HelloNow)' : Suffix(wire', x)
      BY <1>2, <1>3, <1>5
    <3> QED BY <2>2, <3>1, <3>2, <1>3, <1>4, <1>5 DEF Wired
  <2> QED BY <1>6, <2>1, <2>2
<1>8. Ahead'
  <2> SUFFICES ASSUME pc = 2, Agreed(HelloNow)
               PROVE  /\ KindNow \in {"write", "again", "burst"} /\ srv.framing # "split" => Tail(wire) # <<>>
                      /\ probe = "robot" /\ trial = 1 /\ srv.framing = "split" => FALSE
                      /\ probe = "robot" /\ trial = 1 /\ srv.framing = "one" => FALSE
                      /\ probe = "robot" /\ trial = 1 /\ srv.framing = "each" => Len(Tail(wire)) >= 2
    BY <1>4, <1>5 DEF Ahead
  <2>1. Step = ReaderFor(probe, trial) /\ Carrier(Step) = "handshake" /\ "fail" \notin Step.until /\ "more" \notin Step.until
    BY <1>6, ReaderFacts DEF Carrier
  <2>2. Head(wire).msgs \in Seq(Names)
    BY <1>1, RecordTyped
  <2>3. ASSUME KindNow \in {"write", "again", "burst"}, srv.framing # "split", Tail(wire) = <<>> PROVE FALSE
    <3>1. Plain(HelloNow) /\ probe \in {"robot", "heartbleed", "ccs", "golden", "zombie", "sleeping", "reneg"}
      BY <1>1, <2>3, WritersHello
    <3>2. Head(wire).type = "handshake" /\ Clean(Head(wire).msgs) /\ Holds(Head(wire).msgs, "ServerHelloDone")
      BY <1>1, <1>2, <2>3, <3>1, FlightRecord
    <3>3. probe = "robot" => trial # 1
      BY <2>3, KindProbe
    <3>4. Step.until = {"ServerHelloDone"}
      BY <2>1, <3>1, <3>3, ReaderFacts
    <3>5. Scan(Step, Head(wire).msgs) \in Step.until
      BY <2>1, <2>2, <3>2, <3>4, ScanFacts DEF Holds
    <3> QED BY <2>1, <3>2, <3>4, <3>5
  <2>4. ASSUME probe = "robot", trial = 1 PROVE srv.framing # "split" /\ srv.framing # "one" /\ (srv.framing = "each" => Len(wire) # 2)
    <3>1. Head(wire).type = "handshake"
      BY <2>4, RobotScan
    <3>2. Scan(Step, Head(wire).msgs) = "more"
      BY <2>1, <3>1
    <3> QED BY <2>4, <3>2, RobotScan
  <2>5. probe = "robot" /\ trial = 1 /\ srv.framing = "each" => Len(wire) >= 2
    BY <1>1 DEF Ahead
  <2>6. Len(Tail(wire)) = Len(wire) - 1 /\ Len(wire) \in Nat
    BY <1>1
  <2>7. ASSUME NEW n \in Nat, n >= 2, n # 2 PROVE n - 1 >= 2
    BY <2>7
  <2>8. probe = "robot" /\ trial = 1 /\ srv.framing = "each" => Len(Tail(wire)) >= 2
    BY <2>4, <2>5, <2>6, <2>7
  <2> QED BY <2>3, <2>4, <2>8
<1>9. pc' \in 1..Steps(KindNow) /\ faults' \in 0..Faults /\ count' \in Nat
  BY <1>1, <1>4 DEF Placed
<1>10. TicketSeen(flags) /\ flags = {}
  BY <1>6, FlagsSeen
<1> QED BY <1>4, <1>7, <1>8, <1>9, <1>10, StaysPut

(* The message a reader waited for, where more steps follow.               *)
LEMMA ReadPast ==
  ASSUME IInv, phase = "talk", Step.op \in {"first", "flight"}, wire # <<>>, pc # Len(Script),
         Head(wire).type = Carrier(Step), Scan(Step, Head(wire).msgs) \in Step.until,
         wire' = Tail(wire), pc' = pc + 1, UNCHANGED <<phase, trial, obs, flags>>, count' = count, UNCHANGED Fixed
  PROVE  IInv'
<1>1. Placed /\ srv \in Servers /\ wire \in Seq(Recs) /\ Wired
  BY ReadsReply DEF IInv
<1>2. PICK reply \in Replies(HelloNow) : Suffix(wire, reply)
  BY ReadsReply
<1>3. /\ Tail(wire) \in Seq(Recs) /\ Suffix(Tail(wire), reply) /\ Truthful(Head(wire), HelloNow) /\ Head(wire) \in Recs
      /\ Final(Head(wire).msgs) => Tail(wire) = <<>>
  BY <1>1, <1>2, NextRecord
<1>4. srv' = srv /\ probe' = probe /\ faults' = faults
  BY DEF Fixed
<1>5. KindNow' = KindNow /\ Replies(HelloNow)' = Replies(HelloNow)
  BY <1>4, SameNow
<1>6. Len(Script) = Steps(KindNow) /\ pc \in 1..Steps(KindNow)
  BY <1>1, StepIs DEF Placed
<1>7. \/ pc = 2 /\ Step = ReaderFor(probe, trial) /\ KindNow # "go"
      \/ pc = 3 /\ KindNow = "early" /\ Step = EncryptedFlight
  BY <1>1, OpIs
<1>8. KindNow # "talk"
  BY <1>6, <1>7, StepsAre
<1>9. KindNow \in {"write", "again", "burst", "early"}
  BY <1>7, <1>8, KindsAre DEF KindNow
<1>10. pc' \in 1..Steps(KindNow)
  BY <1>7, <1>9, StepsAre
<1>11. ASSUME Step.until \subseteq Finals, "fail" \notin Step.until, "more" \notin Step.until PROVE Tail(wire) = <<>>
  <2>1. Head(wire).msgs \in Seq(Names)
    BY <1>3, RecordTyped
  <2>2. Holds(Head(wire).msgs, Scan(Step, Head(wire).msgs))
    BY <1>11, <2>1, ScanFacts
  <2>3. Final(Head(wire).msgs)
    BY <1>11, <2>2 DEF Holds, Final
  <2> QED BY <1>3, <2>3
<1>12. Wired'
  <2>1. CASE pc = 2 /\ KindNow # "early"
    <3>1. KindNow \in {"write", "again", "burst"} /\ Step = ReaderFor(probe, trial) /\ pc' = 3
      BY <1>7, <1>9, <2>1
    <3>2. probe \in {"heartbleed", "ccs", "golden", "zombie", "sleeping", "reneg"} \/ (probe = "robot" /\ trial # 1)
      BY <3>1, KindProbe DEF Writes
    <3>3. Step.until = {"ServerHelloDone"}
      BY <3>1, <3>2, ReaderFacts
    <3>4. Tail(wire) = <<>>
      BY <1>11, <3>3 DEF Finals
    <3>5. wire' = <<>> /\ wire' \in Seq(Recs)
      BY <3>4, <1>3
    <3> QED BY <3>1, <3>5, <1>5 DEF Wired
  <2>2. CASE pc = 2 /\ KindNow = "early"
    <3>1. probe = "zero_rtt" /\ pc' = 3 /\ Step = ReaderFor(probe, trial)
      BY <1>7, <2>2, KindProbe
    <3>2. Carrier(Step) = "handshake"
      BY <3>1 DEF Carrier, ReaderFor, First
    <3>3. Agreed(HelloNow) /\ HelloNow.version = TLS13
      BY <1>3, <3>1, <3>2 DEF Truthful, HelloNow, HelloFor, EarlyDataHello, Hello
    <3>4. TLS13 \in srv.versions
      BY <3>3 DEF Agreed, CommonVersions
    <3>5. \E x \in Replies(HelloNow)' : Suffix(wire', x)
      BY <1>2, <1>3, <1>5
    <3> QED BY <1>3, <1>4, <1>5, <2>2, <3>1, <3>4, <3>5 DEF Wired
  <2>3. CASE pc = 3 /\ KindNow = "early"
    <3>1. Step.until = {"Finished"} /\ pc' = 4
      BY <1>7, <2>3 DEF EncryptedFlight, Flight
    <3>2. Tail(wire) = <<>>
      BY <1>11, <3>1 DEF Finals
    <3>3. TLS13 \in srv.versions
      BY <1>1, <2>3 DEF Wired
    <3>4. wire' = <<>> /\ wire' \in Seq(Recs)
      BY <3>2, <1>3
    <3> QED BY <1>4, <1>5, <2>3, <3>1, <3>3, <3>4 DEF Wired
  <2> QED BY <1>7, <2>1, <2>2, <2>3
<1>13. Ahead'
  BY <1>7 DEF Ahead
<1>14. TicketSeen(flags) /\ flags = {} /\ faults \in 0..Faults /\ count \in Nat
  BY <1>7, FlagsSeen
<1> QED BY <1>4, <1>10, <1>12, <1>13, <1>14, StaysPut

(* The message a reader waited for, where it ends the trial.               *)
LEMMA ReadLast ==
  ASSUME IInv, phase = "talk", Step.op \in {"first", "flight"}, wire # <<>>, pc = Len(Script),
         Head(wire).type = Carrier(Step), Scan(Step, Head(wire).msgs) \in Step.until, ~Unfit(Head(wire)),
         EndTrial(Tells(Scan(Step, Head(wire).msgs)), Seen), count' = count, UNCHANGED Fixed
  PROVE  IInv'
<1>1. Placed /\ srv \in Servers /\ wire \in Seq(Recs)
  BY ReadsReply
<1>2. PICK reply \in Replies(HelloNow) : Suffix(wire, reply)
  BY ReadsReply
<1>3. Truthful(Head(wire), HelloNow)
  BY <1>1, <1>2, NextRecord
<1>4. srv' = srv /\ probe' = probe /\ faults' = faults
  BY DEF Fixed
<1>5. Len(Script) = Steps(KindNow)
  BY <1>1, StepIs
<1>6. \/ pc = 2 /\ Step = ReaderFor(probe, trial) /\ KindNow # "go"
      \/ pc = 3 /\ KindNow = "early"
  BY <1>1, OpIs
<1>7. pc = 2 /\ Step = ReaderFor(probe, trial) /\ KindNow = "talk"
  BY <1>5, <1>6, StepsAre, KindsAre DEF KindNow
<1>8. Carrier(Step) = "handshake"
  BY <1>7, ReaderFacts DEF Carrier
<1>9. Agreed(HelloNow)
  BY <1>3, <1>8 DEF Truthful
<1>10. probe \in {"crime", "obscure", "dh", "extensions", "ticketbleed", "alpn", "pqc"} \/ (probe = "robot" /\ trial = 1)
  <2>1. probe \in Talks \/ (probe = "robot" /\ trial = 1)
    BY <1>7, KindProbe
  <2> QED BY <1>7, <2>1, ReaderFacts DEF Talks
<1>11. PICK o : o = Tells(Scan(Step, Head(wire).msgs))
  OBVIOUS
<1>12. o \in {"yes", "no", "nil", "key", "ok"}
  BY <1>11 DEF Tells
<1>13. o \in Said
  BY <1>12, SaidThese
<1>14. Sound(o, trial) /\ Steady(o, trial) /\ probe # "sleeping"
  <2>1. CASE probe = "crime"
    <3>1. o = IF Has("compression") \/ Has("mangled") THEN "yes" ELSE "no"
      BY <1>11, <2>1 DEF Tells
    <3>2. Shows <=> Has("compression")
      BY <2>1 DEF Shows
    <3> QED BY <2>1, <3>1, <3>2 DEF Sound, Steady, Simple, Willing, Quiet, Expected, YesIf, YesProbes
  <2>2. CASE probe = "obscure"
    <3>1. Shows
      BY <1>1, <1>9, <2>2, SharedShows
    <3>2. ~Has("mangled") => o = "yes"
      BY <1>11, <2>2 DEF Tells
    <3> QED BY <2>2, <3>1, <3>2 DEF Sound, Steady, Willing, Simple, Quiet
  <2>3. CASE probe \in {"dh", "extensions", "pqc"}
    BY <2>3 DEF Sound, Steady, Simple, Willing, YesProbes
  <2>4. CASE probe \in {"ticketbleed", "alpn"}
    <3>1. o = "yes" => Shows
      BY <1>11, <2>4 DEF Tells, Shows
    <3> QED BY <2>4, <3>1 DEF Sound, Steady, Simple, Willing
  <2>5. CASE probe = "robot" /\ trial = 1
    <3>1. HelloNow = CCSHello
      BY <1>1, <2>5, WritersHello
    <3>2. srv.framing # "split"
      <4>1. "fail" \notin Step.until
        BY <1>7, ReaderFacts
      <4> QED BY <1>7, <1>9, <2>5, <4>1, RobotScan
    <3>3. ~Has("badcert") => o = "key"
      BY <1>11, <2>5 DEF Tells
    <3>4. Sound(o, trial)
      BY <1>9, <2>5, <3>1, <3>2 DEF Sound, YesProbes
    <3>5. Steady(o, trial)
      BY <2>5, <3>3 DEF Steady, Simple, Willing, Expected
    <3> QED BY <2>5, <3>4, <3>5
  <2> QED BY <1>10, <2>1, <2>2, <2>3, <2>4, <2>5
<1>15. flags = {} /\ SeenFits(flags) /\ faults \in 0..Faults
  BY <1>7, FlagsSeen
<1>16. SeenFits(Seen)
  <2>1. CASE probe = "extensions"
    BY <2>1 DEF Seen, SeenFits, If
  <2>2. CASE probe # "extensions"
    BY <1>15, <2>2 DEF Seen
  <2> QED BY <2>1, <2>2
<1>17. PICK x : x = Seen
  OBVIOUS
<1> QED BY <1>4, <1>11, <1>13, <1>14, <1>15, <1>16, <1>17, TrialEnds

(* Reading a whole record keeps the invariant.                             *)
LEMMA ReadRecordKeeps == ASSUME IInv, ReadRecord PROVE IInv'
<1> DEFINE rec == Head(wire)
           says == Scan(Step, rec.msgs)
<1>1. phase = "talk" /\ Step.op \in {"first", "flight"} /\ wire # <<>> /\ UNCHANGED Fixed
  BY DEF ReadRecord
<1>2. Placed /\ faults \in 0..Faults
  BY <1>1, ReadsReply, FlagsSeen
<1>3. pc = 2 => Carrier(Step) = "handshake" /\ (Step.op = "first" => ~Step.skip)
  BY <1>1, <1>2, OpIs, ReaderFacts DEF Carrier
<1>4. pc = 3 => Step.op = "flight"
  BY <1>1, <1>2, OpIs
<1>5. pc \in {2, 3}
  BY <1>1, <1>2, OpIs
<1>6. ASSUME NEW why, EndTrial(FailedAt(why), flags), count' = count, ~(pc = 2 /\ Certain) PROVE IInv'
  <2>1. FailedAt(why) = "-" /\ "-" \in Said /\ Sound("-", trial) /\ Steady("-", trial) /\ flags = {}
    BY <1>1, <1>6, ReaderFails
  <2>2. SeenFits(flags)
    BY <1>1, FlagsSeen
  <2>3. EndTrial("-", flags)
    BY <1>6, <2>1
  <2>4. probe' = probe /\ srv' = srv /\ faults' = faults
    BY <1>1 DEF Fixed
  <2> QED BY <1>1, <1>2, <1>6, <2>1, <2>2, <2>3, <2>4, TrialEnds
<1>7. CASE /\ rec.type \in {"alert", "eof"} \/ (rec.type # Carrier(Step) /\ ~Step.skip)
           /\ EndTrial(FailedAt(rec.type), flags) /\ UNCHANGED count
  <2>1. ~(pc = 2 /\ Certain)
    BY <1>1, <1>3, <1>7, CertainScan
  <2> QED BY <1>6, <1>7, <2>1
<1>8. CASE /\ rec.type \notin {"alert", "eof", Carrier(Step)} /\ Step.skip
           /\ wire' = Tail(wire) /\ UNCHANGED <<phase, trial, pc, obs, count, flags>>
  <2>1. Step.op = "flight"
    BY <1>1, <1>3, <1>4, <1>5, <1>8
  <2> QED BY <1>1, <1>8, <2>1, ReadOn
<1>9. CASE /\ rec.type = Carrier(Step) /\ says = "more" /\ Step.op = "flight"
           /\ wire' = Tail(wire) /\ UNCHANGED <<phase, trial, pc, obs, count, flags>>
  BY <1>1, <1>9, ReadOn
<1>10. CASE /\ rec.type = Carrier(Step) /\ (Unfit(rec) \/ says = "fail" \/ (says = "more" /\ Step.op = "first"))
            /\ EndTrial(FailedAt("fail"), flags) /\ UNCHANGED count
  <2>1. ~(pc = 2 /\ Certain)
    BY <1>1, <1>10, CertainScan
  <2> QED BY <1>6, <1>10, <2>1
<1>11. CASE /\ rec.type = Carrier(Step) /\ ~Unfit(rec) /\ says \in Step.until /\ pc = Len(Script)
            /\ EndTrial(Tells(says), Seen) /\ UNCHANGED count
  BY <1>1, <1>11, ReadLast
<1>12. CASE /\ rec.type = Carrier(Step) /\ says \in Step.until /\ pc # Len(Script)
            /\ wire' = Tail(wire) /\ Advance /\ UNCHANGED <<phase, trial, obs, flags>> /\ UNCHANGED count
  BY <1>1, <1>12, ReadPast DEF Advance
<1> QED BY <1>7, <1>8, <1>9, <1>10, <1>11, <1>12 DEF ReadRecord

(* The invariant is inductive.                                             *)
LEMMA StepKeeps == IInv /\ [Next]_vars => IInv'
<1> SUFFICES ASSUME IInv, [Next]_vars PROVE IInv'
  OBVIOUS
<1>1. CASE UNCHANGED vars
  BY <1>1, StutterKeeps
<1>2. CASE Ended
  BY <1>2, StutterKeeps DEF Ended
<1> QED
  BY <1>1, <1>2, SendHelloKeeps, ReadRecordKeeps, SendMoreKeeps, ReadHeaderKeeps, SkipTwoKeeps, BurstKeeps,
     SendRequestKeeps, ReadTicketsKeeps, GoConnectsKeeps, DeadlineKeeps, LoseKeeps DEF Next

(* Every probe, on every server and under any number of lost connections   *)
(* up to Faults, keeps the invariant: each connection is where its script  *)
(* says, the wire holds what the server still has to say, and every        *)
(* observation on record is borne out by the server.                       *)
THEOREM ProbesInvariant == Spec => []IInv
<1>1. Init => IInv
  BY InitKeeps
<1>2. IInv /\ [Next]_vars => IInv'
  BY StepKeeps
<1> QED BY <1>1, <1>2, PTL DEF Spec

(* The invariant makes a probe judge the record that answers it.           *)
LEMMA AnswersAwaited == IInv => JudgesItsAnswer
<1> SUFFICES ASSUME IInv, phase = "talk", pc > 2, Step.op \in {"header", "skip_two"}, NEW i \in 1..Len(wire)
             PROVE  wire[i].re = "put"
  BY DEF JudgesItsAnswer
<1>1. Placed /\ Wired /\ srv \in Servers
  BY DEF IInv, Placed
<1>2. \E what : wire = Answer(what)
  <2>1. (pc = 4 /\ KindNow \in {"write", "again", "burst"}) \/ (pc = 6 /\ KindNow = "again")
    BY <1>1, OpIs
  <2>2. CASE pc = 4 /\ KindNow = "write"
    BY <1>1, <2>2 DEF Wired
  <2>3. CASE pc = 4 /\ KindNow \in {"again", "burst"}
    BY <1>1, <2>3 DEF Wired
  <2>4. CASE pc = 6 /\ KindNow = "again"
    BY <1>1, <2>4 DEF Wired
  <2> QED BY <2>1, <2>2, <2>3, <2>4
<1>3. PICK what : wire = Answer(what)
  BY <1>2
<1>4. Replied(Answer(what))
  BY <1>1, AnswersAreReplies
<1> QED BY <1>3, <1>4 DEF Replied

(* A probe that writes once after the flight (Heartbleed, CCS, ROBOT, the  *)
(* CBC oracles, a single renegotiation) judges the record that answers its *)
(* write, never one the server sent before it: the readers of the flight   *)
(* leave nothing behind.  The loop of renegBurstTrial, which does not wait *)
(* for whole answers, is no part of this.                                  *)
THEOREM ProbesJudgeTheirAnswer == Spec => []JudgesItsAnswer
BY ProbesInvariant, AnswersAwaited, PTL

(* Sets of a few elements.                                                 *)
LEMMA TwoOf ==
  ASSUME NEW S, IsFiniteSet(S), Cardinality(S) >= 2
  PROVE  \E a, b \in S : a # b
<1> SUFFICES ASSUME \A a, b \in S : a = b PROVE FALSE
  OBVIOUS
<1>1. CASE S = {}
  BY <1>1, FS_EmptySet
<1>2. CASE S # {}
  <2>1. PICK a \in S : S = {a}
    BY <1>2
  <2>2. Cardinality({a}) = 1
    BY FS_Singleton
  <2> QED BY <2>1, <2>2
<1> QED BY <1>1, <1>2

(* A set of three.                                                         *)
LEMMA ThreeOf ==
  ASSUME NEW a, NEW b, NEW c, a # b, a # c, b # c
  PROVE  Cardinality({a, b, c}) = 3 /\ IsFiniteSet({a, b, c})
<1>1. IsFiniteSet({a}) /\ Cardinality({a}) = 1
  BY FS_Singleton
<1>2. IsFiniteSet({a} \cup {b}) /\ Cardinality({a} \cup {b}) = 2
  BY <1>1, FS_AddElement
<1>3. IsFiniteSet({a} \cup {b} \cup {c}) /\ Cardinality({a} \cup {b} \cup {c}) = 3
  BY <1>2, FS_AddElement
<1>4. {a} \cup {b} \cup {c} = {a, b, c}
  OBVIOUS
<1> QED BY <1>3, <1>4

(* A probe that has concluded has one observation per connection.          *)
LEMMA TrialsCounted ==
  ASSUME Placed, phase = "done"
  PROVE  Len(obs) = trial /\ Len(obs) \in 1..6 /\ obs \in Seq(Said) /\ ~More(probe, obs)
BY ConnectionsAre DEF Placed

(* A probe that is done and failed nowhere has made all its connections.   *)
LEMMA AllConnections ==
  ASSUME Placed, phase = "done"
  PROVE  /\ probe = "robot" /\ ~Failed(obs[1]) => Len(obs) = 6
         /\ probe = "reneg" => Len(obs) >= 3
         /\ probe = "golden" /\ AllIn(obs) => Len(obs) = 2
         /\ probe = "zombie" /\ AllIn(obs) => Len(obs) = 3
         /\ probe = "sleeping" /\ AllIn(obs) => Len(obs) = 6
<1>1. Len(obs) \in 1..6 /\ obs \in Seq(Said) /\ ~More(probe, obs) /\ Len(obs) <= Connections(probe) /\ probe \in Probes
  <2>1. trial \in 1..Connections(probe) /\ probe \in Probes /\ Connections(probe) \in 1..6
    BY ConnectionsAre DEF Placed
  <2>2. trial <= Connections(probe)
    BY <2>1
  <2> QED BY <2>1, <2>2, TrialsCounted
<1>2. probe = "robot" /\ ~Failed(obs[1]) => Len(obs) = 6
  <2>1. probe = "robot" /\ ~Failed(obs[1]) => ~(Len(obs) < 6)
    BY <1>1 DEF More
  <2>2. PICK n \in 1..6 : n = Len(obs)
    BY <1>1
  <2>3. ~(n < 6) => n = 6
    OBVIOUS
  <2> QED BY <2>1, <2>2, <2>3, Zenon
<1>3. probe = "reneg" => Len(obs) >= 3
  BY <1>1 DEF More
<1>4. ASSUME probe \in {"golden", "zombie"}, AllIn(obs) PROVE Len(obs) = Connections(probe)
  <2>1. Len(Trials(probe, TLS12)) = Connections(probe)
    BY <1>1, ConnectionsAre, Scripts
  <2>2. ~Failed(obs[Len(obs)])
    BY <1>1, <1>4 DEF AllIn
  <2>3. ~(Len(obs) < Len(Trials(probe, TLS12)))
    BY <1>1, <1>4, <2>2 DEF More
  <2> QED BY <1>1, <2>1, <2>3, ConnectionsAre
<1>5. probe = "sleeping" /\ AllIn(obs) => Len(obs) = 6
  <2> SUFFICES ASSUME probe = "sleeping", AllIn(obs), Len(obs) # 6 PROVE FALSE
    OBVIOUS
  <2>1. Len(obs) \in {1, 2, 3, 4, 5}
    BY <1>1
  <2>2. ~Failed(obs[Len(obs)])
    BY <1>1 DEF AllIn
  <2>3. Len(obs) \in {2, 4} => ~Failed(obs[Len(obs) - 1])
    BY <1>1 DEF AllIn
  <2>4. Len(obs) \in {1, 3, 5} => Len(obs) % 2 = 1
    <3>1. 1 % 2 = 1 /\ 3 % 2 = 1 /\ 5 % 2 = 1
      OBVIOUS
    <3> QED BY <3>1
  <2> QED BY <1>1, <2>1, <2>2, <2>3, <2>4 DEF More
<1>6. (probe = "golden" => Connections(probe) = 2) /\ (probe = "zombie" => Connections(probe) = 3)
  BY DEF Connections
<1> QED BY <1>2, <1>3, <1>4, <1>5, <1>6

Flags == {"probed", "determined", "conclusive", "found", "amplifies", "protected",
          "supported", "ems", "secure_reneg", "resumes", "early", "tls13"}

(* The flags a verdict is made of.                                         *)
LEMMA VerdictTyped ==
  ASSUME NEW p \in Probes, NEW o, NEW s, s \subseteq {"resumes", "early", "ems", "secure_reneg"}, NEW n
  PROVE  Verdict(p, o, s, n) \subseteq Flags
<1> USE DEF If, Flags
<1>1. CASE p \in {"robot", "reneg", "golden", "zombie", "sleeping"}
  BY <1>1 DEF Verdict
<1>2. CASE p \in {"scsv", "dh", "extensions", "obscure", "pqc", "resumption"}
  BY <1>2 DEF Verdict
<1>3. CASE p = "zero_rtt"
  BY <1>3 DEF Verdict
<1>4. CASE p \notin {"robot", "reneg", "golden", "zombie", "sleeping", "scsv", "dh", "extensions", "obscure", "pqc", "resumption", "zero_rtt"}
  BY <1>4 DEF Verdict
<1> QED BY <1>1, <1>2, <1>3, <1>4

(* The invariant contains the type invariant.                              *)
LEMMA Typed == IInv => TypeOK
<1> SUFFICES ASSUME IInv PROVE TypeOK
  OBVIOUS
<1>1. Placed /\ Reported
  BY DEF IInv
<1>2. /\ probe \in Probes /\ srv \in Servers /\ phase \in {"talk", "done", "panic"}
      /\ faults \in 0..Faults /\ count \in Nat /\ trial \in 1..6 /\ Len(obs) <= 6
  BY <1>1, ConnectionsAre DEF Placed
<1>3. pc \in 1..6
  BY <1>1, StepIs
<1>4. flags \subseteq Flags
  <2>1. CASE phase = "done"
    <3>1. PICK seen \in SUBSET {"resumes", "early", "ems", "secure_reneg"} : flags = Verdict(probe, obs, seen, count)
      BY <1>1, <2>1 DEF Reported
    <3> QED BY <1>2, <3>1, VerdictTyped
  <2>2. CASE phase # "done"
    BY <1>1, <2>2 DEF Reported, TicketSeen, Flags
  <2> QED BY <2>1, <2>2
<1> QED BY <1>2, <1>3, <1>4 DEF TypeOK, Flags

(* What the probes that compare trials conclude.                           *)
LEMMA ComparisonsEarned ==
  ASSUME IInv, phase = "done"
  PROVE  /\ probe = "robot" /\ faults = 0 /\ ~Failed(obs[1]) /\ RobotVulnerable(obs) => Shows
         /\ probe = "reneg" /\ Accepted(obs) >= 2 => Shows
         /\ probe = "golden" /\ AllIn(obs) /\ obs[1] # obs[Len(obs)] => Shows
         /\ probe = "zombie" /\ AllIn(obs) /\ Cardinality({obs[i] : i \in 1..Len(obs)}) > 1 => Shows
         /\ probe = "sleeping" /\ faults <= 1 /\ AllIn(obs) /\ SleepingPoodle(obs) => Shows
<1>1. Placed /\ Observed /\ Len(obs) \in 1..6 /\ obs \in Seq(Said)
  BY TrialsCounted DEF IInv
<1>2. ASSUME probe = "robot", faults = 0, ~Failed(obs[1]), RobotVulnerable(obs), ~Shows PROVE FALSE
  <2>1. Len(obs) = 6 /\ ~Has("padding")
    BY <1>1, <1>2, AllConnections DEF Shows
  <2>2. Steady(obs[2], 2) /\ Steady(obs[3], 3)
    BY <1>1, <2>1 DEF Observed
  <2>3. obs[2] = Turned /\ obs[3] = Turned
    BY <1>2, <2>1, <2>2 DEF Steady
  <2> QED BY <1>2, <2>3 DEF RobotVulnerable
<1>3. ASSUME probe = "reneg", Accepted(obs) >= 2 PROVE Shows
  <2> DEFINE S == {i \in 1..3 : i <= Len(obs) /\ obs[i] = "yes"}
  <2>1. S # {}
    BY <1>3, FS_EmptySet DEF Accepted
  <2>2. PICK i \in 1..Len(obs) : obs[i] = "yes"
    BY <1>1, <2>1
  <2>3. Sound(obs[i], i)
    BY <1>1 DEF Observed
  <2> QED BY <1>3, <2>2, <2>3 DEF Sound, YesProbes
<1>4. ASSUME probe \in {"golden", "zombie"}, AllIn(obs), NEW i \in 1..Len(obs)
      PROVE  obs[i] = IF probe = "zombie" THEN "short" ELSE "unexpected_message"
  <2>1. Sound(obs[i], i) /\ ~Failed(obs[i])
    BY <1>1, <1>4 DEF Observed, AllIn
  <2> QED BY <1>4, <2>1 DEF Sound
<1>5. ASSUME probe = "golden", AllIn(obs) PROVE obs[1] = obs[Len(obs)]
  BY <1>1, <1>4, <1>5
<1>6. ASSUME probe = "zombie", AllIn(obs) PROVE Cardinality({obs[i] : i \in 1..Len(obs)}) = 1
  <2>1. {obs[i] : i \in 1..Len(obs)} = {"short"}
    <3>1. \A i \in 1..Len(obs) : obs[i] = "short"
      BY <1>4, <1>6
    <3>2. 1 \in 1..Len(obs)
      BY <1>1
    <3> QED BY <3>1, <3>2
  <2> QED BY <2>1, FS_Singleton
<1>7. ASSUME probe = "sleeping", faults <= 1, AllIn(obs), SleepingPoodle(obs), ~Shows PROVE FALSE
  <2> DEFINE S == {i \in {1, 3, 5} : obs[i] # obs[i + 1]}
  <2>1. Len(obs) = 6
    BY <1>1, <1>7, AllConnections
  <2>2. IsFiniteSet(S)
    <3>1. IsFiniteSet({1, 3, 5})
      <4>1. 1 # 3 /\ 1 # 5 /\ 3 # 5
        OBVIOUS
      <4> QED BY <4>1, ThreeOf, Zenon
    <3> QED BY <3>1, FS_Subset
  <2>3. PICK a, b \in S : a # b
    BY <1>7, <2>2, TwoOf DEF SleepingPoodle
  <2>4. \A i \in 1..6 : obs[i] \in {"fast", "slow"}
    <3> SUFFICES ASSUME NEW i \in 1..6 PROVE obs[i] \in {"fast", "slow"}
      OBVIOUS
    <3>1. Sound(obs[i], i) /\ ~Failed(obs[i])
      BY <1>1, <1>7, <2>1 DEF Observed, AllIn
    <3> QED BY <1>7, <2>1, <3>1 DEF Sound
  <2>5. ASSUME NEW i \in S PROVE \E j \in 1..6 : obs[j] = "slow" /\ (j = i \/ j = i + 1)
    <3>1. i \in 1..6 /\ i + 1 \in 1..6 /\ obs[i] # obs[i + 1]
      BY <2>5
    <3>2. obs[i] = "slow" \/ obs[i + 1] = "slow"
      BY <2>4, <3>1
    <3> QED BY <3>1, <3>2
  <2>6. PICK j \in 1..6 : obs[j] = "slow" /\ (j = a \/ j = a + 1)
    BY <2>3, <2>5
  <2>7. PICK k \in 1..6 : obs[k] = "slow" /\ (k = b \/ k = b + 1)
    BY <2>3, <2>5
  <2>8. j = k
    BY <1>1, <1>7, <2>1, <2>6, <2>7 DEF Observed
  <2>9. a \in {1, 3, 5} /\ b \in {1, 3, 5}
    BY <2>3
  <2> QED BY <2>3, <2>6, <2>7, <2>8, <2>9
<1> QED BY <1>2, <1>3, <1>5, <1>6, <1>7

(* A finding is borne out by the server.                                   *)
LEMMA Earned == IInv => FlagsAreEarned
<1> SUFFICES ASSUME IInv, probe = "robot" => faults = 0, probe = "sleeping" => faults <= 1, "found" \in flags
             PROVE  /\ probe \in {"freak", "logjam"} => srv.suites \cap Offered # {}
                    /\ probe \notin {"freak", "logjam"} => Shows \/ (probe = "crime" /\ Has("mangled"))
  <2>1. IInv => faults \in Nat
    BY BoundsAssumption DEF IInv, Placed
  <2>2. IInv => (~(faults > 0) => faults = 0) /\ (~(faults > 1) => faults <= 1)
    BY <2>1
  <2> QED BY <2>2, Zenon DEF FlagsAreEarned
<1>1. Placed /\ Reported /\ Observed /\ probe \in Probes
  BY DEF IInv, Placed
<1>2. phase = "done"
  BY <1>1 DEF Reported, TicketSeen
<1>3. PICK seen \in SUBSET {"resumes", "early", "ems", "secure_reneg"} : flags = Verdict(probe, obs, seen, count)
  BY <1>1, <1>2 DEF Reported
<1>4. Len(obs) \in 1..6 /\ Sound(obs[Len(obs)], Len(obs))
  BY <1>1, <1>2, TrialsCounted DEF Observed
<1>5. CASE probe \in {"robot", "reneg", "golden", "zombie", "sleeping"}
  <2>1. CASE probe = "robot"
    BY <1>2, <1>3, <2>1, ComparisonsEarned DEF Verdict, If
  <2>2. CASE probe = "reneg"
    BY <1>2, <1>3, <2>2, ComparisonsEarned DEF Verdict, If
  <2>3. CASE probe = "golden"
    BY <1>2, <1>3, <2>3, ComparisonsEarned DEF Verdict, If
  <2>4. CASE probe = "zombie"
    BY <1>2, <1>3, <2>4, ComparisonsEarned DEF Verdict, If
  <2>5. CASE probe = "sleeping"
    BY <1>2, <1>3, <2>5, ComparisonsEarned DEF Verdict, If
  <2> QED BY <1>5, <2>1, <2>2, <2>3, <2>4, <2>5
<1>6. CASE probe \in {"scsv", "dh", "extensions", "pqc", "resumption", "zero_rtt"}
  <2>1. "found" \notin Verdict(probe, obs, seen, count)
    BY <1>6 DEF Verdict, If
  <2> QED BY <1>3, <2>1
<1>7. CASE probe \notin {"robot", "reneg", "golden", "zombie", "sleeping", "scsv", "dh", "extensions", "pqc", "resumption", "zero_rtt"}
  <2>1. obs[Len(obs)] = "yes"
    BY <1>3, <1>7 DEF Verdict, If
  <2>2. probe \in YesProbes \cup {"freak", "logjam", "crime"}
    BY <1>1, <1>7 DEF Probes, YesProbes
  <2> QED BY <1>4, <2>1, <2>2 DEF Sound, YesProbes
<1> QED BY <1>5, <1>6, <1>7

(* The downgrade probe never contradicts the server.                       *)
LEMMA Fallback == IInv => FallbackConclusive
<1> SUFFICES ASSUME IInv, probe = "scsv", "conclusive" \in flags PROVE "protected" \in flags <=> Has("scsv")
  BY DEF FallbackConclusive
<1>1. Placed /\ Reported /\ Observed
  BY DEF IInv
<1>2. phase = "done"
  BY <1>1 DEF Reported, TicketSeen
<1>3. PICK seen : flags = Verdict(probe, obs, seen, count)
  BY <1>1, <1>2 DEF Reported
<1>4. Len(obs) \in 1..6 /\ Sound(obs[Len(obs)], Len(obs))
  BY <1>1, <1>2, TrialsCounted DEF Observed
<1>5. flags = If(obs[Len(obs)] = "protected", "protected") \cup If(obs[Len(obs)] \in {"protected", "unprotected"}, "conclusive")
  BY <1>3 DEF Verdict
<1>6. obs[Len(obs)] \in {"protected", "unprotected"} /\ ("protected" \in flags <=> obs[Len(obs)] = "protected")
  BY <1>5 DEF If
<1> QED BY <1>4, <1>6 DEF Sound

(* Early data is reported only when a ticket offered it.                   *)
LEMMA EarlyData == IInv => EarlyDataIsOffered
<1> SUFFICES ASSUME IInv, probe = "zero_rtt", phase = "done"
             PROVE  /\ "early" \in flags => Has("tickets") /\ Has("early_data") /\ "resumes" \in flags
                    /\ "resumes" \in flags => Has("tickets") /\ TLS13 \in srv.versions
  BY DEF EarlyDataIsOffered
<1>1. Placed /\ Reported /\ Observed
  BY DEF IInv
<1>2. PICK seen : SeenFits(seen) /\ flags = Verdict(probe, obs, seen, count)
  BY <1>1 DEF Reported
<1>3. TicketSeen(seen)
  BY <1>2 DEF SeenFits
<1>4. Len(obs) \in 1..6
  BY <1>1, TrialsCounted
<1>5. CASE Len(obs) = 1
  <2>1. flags = {"probed"} \cup ({"tls13"} \cup seen)
    BY <1>2, <1>5 DEF Verdict
  <2> QED BY <1>3, <2>1 DEF TicketSeen
<1>6. CASE Len(obs) # 1
  <2>1. flags = {"probed"} \cup (If(~Failed(obs[2]), "tls13") \cup If(obs[2] = "ticket" /\ ~Failed(obs[Len(obs)]), "resumes"))
    BY <1>2, <1>6 DEF Verdict
  <2>2. "early" \notin flags /\ ("resumes" \in flags => obs[2] = "ticket")
    BY <2>1 DEF If
  <2>3. Sound(obs[2], 2)
    BY <1>1, <1>4, <1>6 DEF Observed
  <2> QED BY <2>2, <2>3 DEF Sound
<1> QED BY <1>5, <1>6

(* No probe reports what its server does not show, whatever the framing of *)
(* its records and however many connections are lost on the way.  Stated   *)
(* apart are ROBOT, which also compares failures (when none is lost), the  *)
(* timing probe (when at most one answer is late), CRIME on a ServerHello  *)
(* it can parse, and the export probes, whose finding is a suite of the    *)
(* list they offer.  The downgrade probe is conclusive only on an answer,  *)
(* and early data is reported only of a server whose ticket offers it.     *)
THEOREM ProbesClaimWhatTheySaw == Spec => []ClaimsEarned
<1>1. IInv => ClaimsEarned
  BY Typed, Earned, Fallback, EarlyData DEF ClaimsEarned
<1> QED BY <1>1, ProbesInvariant, PTL

(* A willing server is met by every connection, as expected.               *)
LEMMA Missed == IInv => NothingMissed
<1> SUFFICES ASSUME IInv, phase = "done", Quiet
             PROVE  /\ Simple => (Shows => "found" \in flags) /\ (probe \in {"sslv2", "obscure"} => (Shows <=> "found" \in flags))
                    /\ Willing => (Shows <=> "found" \in flags)
  BY DEF NothingMissed, Quiet, Simple, Willing
<1>1. Placed /\ Reported /\ Observed /\ probe \in Probes
  BY DEF IInv, Placed
<1>2. PICK seen \in SUBSET {"resumes", "early", "ems", "secure_reneg"} : flags = Verdict(probe, obs, seen, count)
  BY <1>1 DEF Reported
<1>3. Len(obs) \in 1..6 /\ obs \in Seq(Said)
  BY <1>1, TrialsCounted
<1>4. ASSUME Simple PROVE (Shows => "found" \in flags) /\ (probe \in {"sslv2", "obscure"} => (Shows <=> "found" \in flags))
  <2>1. Steady(obs[Len(obs)], Len(obs)) /\ Sound(obs[Len(obs)], Len(obs))
    <3>1. \A n \in 1..6 : n \in 1..n
      OBVIOUS
    <3>2. Len(obs) \in 1..Len(obs)
      BY <1>3, <3>1, Zenon
    <3> QED BY <1>1, <3>2 DEF Observed
  <2>2. /\ Shows => obs[Len(obs)] = "yes"
        /\ probe \in {"sslv2", "obscure"} => (obs[Len(obs)] = "yes" => Shows)
    BY <1>4, <2>1 DEF Steady, Sound, YesProbes
  <2>3. CASE probe = "obscure"
    BY <1>2, <2>2, <2>3 DEF Verdict, If
  <2>4. CASE probe \in {"sslv2", "freak", "logjam"}
    BY <1>2, <2>2, <2>4 DEF Verdict, If
  <2> QED BY <1>4, <2>3, <2>4 DEF Simple
<1>5. ASSUME Willing PROVE Shows <=> "found" \in flags
  <2>1. \A i \in 1..Len(obs) : obs[i] = Expected(i)
    BY <1>1, <1>5 DEF Observed, Steady
  <2>2. CASE probe \in {"heartbleed", "ccs", "crime"}
    <3>1. obs[Len(obs)] = YesIf(Shows)
      BY <1>3, <2>1, <2>2 DEF Expected
    <3> QED BY <1>2, <2>2, <3>1 DEF Verdict, If, YesIf
  <2>3. CASE probe = "robot"
    <3>1. obs[1] = "key"
      BY <1>3, <2>1, <2>3 DEF Expected
    <3>2. ~Failed(obs[1])
      BY <3>1 DEF Failed
    <3>3. Len(obs) = 6
      BY <1>1, <2>3, <3>2, AllConnections
    <3>4. obs[2] = Expected(2) /\ obs[3] = Expected(3) /\ obs[4] = Expected(4) /\ obs[6] = Expected(6)
      BY <2>1, <3>3
    <3>5. /\ Expected(2) = "bad_record_mac"
          /\ \A i \in {3, 4, 6} : Expected(i) = IF Shows THEN "decode_error" ELSE "bad_record_mac"
      BY <2>3 DEF Expected
    <3>6. RobotVulnerable(obs) <=> Shows
      BY <3>4, <3>5 DEF RobotVulnerable
    <3> QED BY <1>2, <2>3, <3>2, <3>6 DEF Verdict, If
  <2>4. CASE probe = "reneg"
    <3>1. Len(obs) >= 3
      BY <1>1, <2>4, AllConnections
    <3>2. \A i \in 1..3 : i <= Len(obs) /\ obs[i] = YesIf(Shows)
      BY <1>3, <2>1, <2>4, <3>1 DEF Expected
    <3>3. CASE Shows
      <4>1. {i \in 1..3 : i <= Len(obs) /\ obs[i] = "yes"} = {1, 2, 3}
        BY <3>2, <3>3 DEF YesIf
      <4>2. 1 # 2 /\ 1 # 3 /\ 2 # 3
        OBVIOUS
      <4>3. Cardinality({1, 2, 3}) = 3
        BY <4>2, ThreeOf, Zenon
      <4>4. Accepted(obs) = 3
        BY <4>1, <4>3 DEF Accepted
      <4> QED BY <1>2, <2>4, <3>3, <4>4 DEF Verdict, If
    <3>4. CASE ~Shows
      <4>1. {i \in 1..3 : i <= Len(obs) /\ obs[i] = "yes"} = {}
        BY <3>2, <3>4 DEF YesIf
      <4>2. Accepted(obs) = 0
        BY <4>1, FS_EmptySet DEF Accepted
      <4> QED BY <1>2, <2>4, <3>4, <4>2 DEF Verdict, If
    <3> QED BY <3>3, <3>4
  <2> QED BY <1>5, <2>2, <2>3, <2>4 DEF Willing
<1> QED BY <1>4, <1>5

(* When no connection is lost, a server that agrees to the hello of a      *)
(* probe and shows what it looks for is found out: no reader of its flight *)
(* gives up before the record it waits for, and no verdict throws away     *)
(* what was observed.  The CBC oracle probes, which hand the server a      *)
(* record before any keys, are no part of this.                            *)
THEOREM ProbesMissNothing == Spec => []NothingMissed
BY Missed, ProbesInvariant, PTL

===============================================================================
