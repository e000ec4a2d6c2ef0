------------------------------- MODULE Starttls -------------------------------
(***************************************************************************)
(* The plaintext dialogues that precede a TLS handshake.  Three callers    *)
(* hold them: dialSTARTTLS (one of fourteen protocols), probeSTARTTLS (one *)
(* MX host) and probeSTARTTLSInjection (five protocols).                   *)
(*                                                                         *)
(* A handler is a script of writes and reads.  The server is external: it  *)
(* answers each write (and greets first where the protocol says so) with a *)
(* reply that arrives in pieces, lines or TCP segments.  A piece is told   *)
(* apart by its signal (it accepts, it refuses, neither), by whether it is *)
(* the last of its reply, and by its mark: what a client that looks for    *)
(* the end of the reply sees in it.  A line of a coded reply is marked     *)
(* "end" when its fourth character is a space, "short" when it has fewer   *)
(* than four, and "more" otherwise.  A line inside an FTP reply may be     *)
(* marked anyhow (RFC 959), and a bare code may be the last line of an     *)
(* SMTP one (RFC 5321): mark and last are apart.  Where the client reads   *)
(* segments, not lines, a reply may be cut anywhere.                       *)
(***************************************************************************)
EXTENDS Integers, Sequences

CONSTANTS Patience,    \* in place of the 5, 8, 16 and 32 reads of a loop
          InFlight     \* how many pieces may be on the wire

ASSUME PatienceAssumption == Patience \in Nat \ {0} /\ InFlight \in Nat \ {0}

-------------------------------------------------------------------------------
(***************************************************************************)
(* Scripts.  A read stops at the first piece, at a mark or at a signal; a  *)
(* loop with a limit stops there too and either fails or judges what it    *)
(* has.  It then judges the first piece, any piece or nothing.             *)
(***************************************************************************)
Write     == [op |-> "write", answered |-> TRUE]
WriteLast == [op |-> "write", answered |-> FALSE]

Read(stop, limit, need) == [op |-> "read", stop |-> stop, limit |-> limit, need |-> need]

(* bufio.Reader.ReadString, or io.ReadFull of a packet, or one conn.Read.  *)
Line(need) == Read("first", "none", need)

(* Mutant: only the first line of a reply is read.                         *)
MutReply(need) == Line(need)

(* readSMTPLine and readSMTPResponse: up to a line whose fourth character  *)
(* is a space or that has fewer than four.                                 *)
Reply(need) == Read("line4", "none", need)

(* Mutant: the answer to the upgrade command is not awaited.               *)
MutSMTPScript == <<Reply("nothing"), Write, Reply("any"), Write>>

SMTPScript == <<Reply("nothing"), Write, Reply("any"), Write, Reply("first")>>

POP3Script     == <<Line("first"), Write, Line("first")>>
IMAPScript     == <<Line("first"), Write, Read("signal", "fail", "any")>>
FTPScript      == <<Reply("nothing"), Write, Reply("first")>>
NNTPScript     == <<Line("nothing"), Write, Line("first")>>
XMPPScript     == <<Write, Read("offer", "judge", "any"), Write, Read("signal", "fail", "any")>>
SieveScript    == <<Read("mark", "judge", "any"), Write, Line("first")>>
TelnetScript   == <<Write, Read("signal", "fail", "any"), Write>>
LDAPScript     == <<Write, Line("first")>>
IRCScript      == <<Write, Read("signal", "fail", "any")>>
MySQLScript    == <<Line("first"), WriteLast>>
PostgresScript == <<Write, Line("first")>>

Protocols == {"smtp", "lmtp", "pop3", "imap", "ftp", "nntp", "xmpp", "xmpp-server",
              "sieve", "telnet", "ldap", "irc", "mysql", "postgres"}

(* upgradeToTLS                                                            *)
UpgradeScript(proto) ==
  CASE proto \in {"smtp", "lmtp"}        -> SMTPScript
    [] proto = "pop3"                    -> POP3Script
    [] proto = "imap"                    -> IMAPScript
    [] proto = "ftp"                     -> FTPScript
    [] proto = "nntp"                    -> NNTPScript
    [] proto \in {"xmpp", "xmpp-server"} -> XMPPScript
    [] proto = "sieve"                   -> SieveScript
    [] proto = "telnet"                  -> TelnetScript
    [] proto = "ldap"                    -> LDAPScript
    [] proto = "irc"                     -> IRCScript
    [] proto = "mysql"                   -> MySQLScript
    [] proto = "postgres"                -> PostgresScript

(* probeSTARTTLS: the dialogue with an MX host.                            *)
MXScript == <<Reply("nothing"), Write, Reply("any"), Write, Reply("first")>>

(* injectionPlans: the preamble of a plan, then the upgrade command with a *)
(* second one behind it, and one line of acknowledgment.                   *)
Preamble(proto) ==
  CASE proto = "smtp" -> <<Line("nothing"), Write, Read("mark", "fail", "notSole")>>
    [] proto = "imap" -> <<Line("first")>>
    [] proto = "pop3" -> <<Line("first")>>
    [] proto = "ftp"  -> <<Read("mark", "fail", "nothing")>>
    [] proto = "nntp" -> <<Line("nothing")>>

InjectionPlans == {"smtp", "imap", "pop3", "ftp", "nntp"}
InjectionScript(proto) == Preamble(proto) \o <<Write, Line("first")>>

(* The conversations the program can hold.                                 *)
Conversations == ({"dial"} \X Protocols) \cup {<<"mx", "smtp">>} \cup ({"inject"} \X InjectionPlans)

ScriptOf(c) == CASE c[1] = "dial"   -> UpgradeScript(c[2])
                 [] c[1] = "mx"     -> MXScript
                 [] c[1] = "inject" -> InjectionScript(c[2])

(* The protocols whose replies begin each line with a code.                *)
Coded == {"smtp", "lmtp", "ftp"}

(* The handlers that read through a bufio.Reader, which may hold pieces    *)
(* the handler has not read.  tls.Client reads past it, so they are lost.  *)
Buffered == Protocols \ {"xmpp", "xmpp-server", "telnet", "ldap", "mysql", "postgres"}

(* The protocols whose handler reads lines or counted bytes.               *)
Framed == Protocols \ {"xmpp", "xmpp-server", "telnet", "ldap"}

-------------------------------------------------------------------------------
VARIABLES
  conv,       \* the conversation: <<caller, protocol>>
  outcome,    \* "dial", "dialogue", "ready", "tls", "end" or "error"
  pc,         \* the step of the script
  got,        \* what the current read has collected
  wire,       \* the pieces sent by the server and not read
  owed,       \* how many replies the server has still to finish
  replies,    \* how many it has finished
  sent,       \* how many pieces of the current one it has sent, up to Patience
  granted,    \* its latest reply accepts
  legible,    \* none of its pieces has misled a client about where a reply ends
  keeps,      \* it keeps plaintext commands past the handshake
  result      \* the flags the caller reports

vars == <<conv, outcome, pc, got, wire, owed, replies, sent, granted, legible, keeps, result>>
server == <<owed, replies, sent, granted, legible>>

script == ScriptOf(conv)

Nothing == [n |-> 0, first |-> "-", yes |-> FALSE]

Pieces == [sig : {"yes", "no", "-"}, last : BOOLEAN, mark : {"end", "short", "more"}]

(* The server speaks first where the script begins with a read.            *)
Init ==
  /\ conv \in Conversations
  /\ outcome = "dial" /\ pc = 1 /\ got = Nothing
  /\ wire = <<>>
  /\ owed = IF script[1].op = "read" THEN 1 ELSE 0
  /\ replies = 0 /\ sent = 0 /\ granted = FALSE /\ legible = TRUE
  /\ keeps \in BOOLEAN
  /\ result = {}

(* net.DialTimeout and SetDeadline, once for the whole dialogue.           *)
Dial ==
  /\ outcome = "dial"
  /\ \/ outcome' = "dialogue" /\ result' = {"reachable"}
     \/ outcome' = "error" /\ UNCHANGED result
  /\ UNCHANGED <<conv, pc, got, wire, server, keeps>>

InDialogue == outcome = "dialogue"

Advance ==
  /\ pc' = pc + 1
  /\ got' = Nothing
  /\ outcome' = IF pc = Len(script) THEN "ready" ELSE outcome

Send ==
  /\ InDialogue /\ script[pc].op = "write"
  /\ owed' = IF script[pc].answered THEN owed + 1 ELSE owed
  /\ Advance
  /\ UNCHANGED <<conv, wire, replies, sent, granted, legible, keeps, result>>

(* Mutant: the reads of a loop are not limited.                            *)
MutCollect(piece) ==
  [n |-> got.n + 1,
   first |-> IF got.n = 0 THEN piece.sig ELSE got.first,
   yes |-> got.yes \/ piece.sig = "yes"]

Collect(piece) ==
  [n |-> IF got.n < Patience THEN got.n + 1 ELSE got.n,
   first |-> IF got.n = 0 THEN piece.sig ELSE got.first,
   yes |-> got.yes \/ piece.sig = "yes"]

Stops(step, piece) ==
  CASE step.stop = "first"  -> TRUE
    [] step.stop = "line4"  -> piece.mark # "more"
    [] step.stop = "mark"   -> piece.mark = "end"
    [] step.stop = "signal" -> piece.sig # "-"
    [] step.stop = "offer"  -> piece.sig = "yes" \/ piece.last

Judges(step, g) ==
  CASE step.need = "nothing"  -> TRUE
    [] step.need = "first"    -> g.first = "yes"
    [] step.need = "any"      -> g.yes
    [] step.need = "notSole" -> g.n > 1 \/ g.first = "yes"

(* MX hosts: the capability is recorded when the second reply is in.       *)
Advertises(g) == IF conv[1] = "mx" /\ pc = 3 /\ g.yes THEN {"advertised"} ELSE {}

Receive ==
  /\ InDialogue /\ script[pc].op = "read" /\ wire # <<>>
  /\ wire' = Tail(wire)
  /\ LET step  == script[pc]
         piece == Head(wire)
         g     == Collect(piece)
         spent == step.limit # "none" /\ g.n = Patience
     IN  \/ /\ ~Stops(step, piece) /\ ~spent
            /\ got' = g
            /\ UNCHANGED <<pc, outcome, result>>
         \/ /\ Stops(step, piece) \/ (spent /\ step.limit = "judge")
            /\ Judges(step, g)
            /\ Advance
            /\ result' = result \cup Advertises(g)
         \/ /\ Stops(step, piece) \/ spent
            /\ ~Judges(step, g) \/ (~Stops(step, piece) /\ step.limit = "fail")
            /\ outcome' = "error"
            /\ UNCHANGED <<pc, got, result>>
  /\ UNCHANGED <<conv, server, keeps>>

(* Mutant: every read renews the deadline, so it only meets a silent server. *)
MutDeadline ==
  /\ InDialogue /\ wire = <<>>
  /\ outcome' = "error"
  /\ UNCHANGED <<conv, pc, got, wire, server, keeps, result>>

(* The deadline passes, or the connection is lost, in a read or a write.   *)
Deadline ==
  /\ InDialogue
  /\ outcome' = "error"
  /\ UNCHANGED <<conv, pc, got, wire, server, keeps, result>>

(* tls.Client: it fails on plaintext still to come.                        *)
Handshake ==
  /\ outcome = "ready"
  /\ \/ /\ granted /\ owed = 0 /\ (wire = <<>> \/ conv[2] \in Buffered)
        /\ outcome' = "tls"
        /\ result' = result \cup (CASE conv[1] = "inject" -> {"probed"}
                                    [] OTHER              -> {"upgraded"})
     \/ /\ outcome' = "error"
        /\ result' = result \cup (IF conv[1] = "inject" THEN {"probed"} ELSE {})
  /\ UNCHANGED <<conv, pc, got, wire, server, keeps>>

(* The first line inside the encrypted channel, if any comes in time.  A   *)
(* server that kept the second command answers it; others say nothing or,  *)
(* except over POP3, greet again.                                          *)
ReadEncrypted ==
  /\ outcome = "tls"
  /\ outcome' = "end"
  /\ \E line \in {"none", "answer"} \cup (IF conv[2] = "pop3" THEN {} ELSE {"greeting"}) :
       /\ line = "answer" => keeps
       /\ result' = result \cup (IF conv[1] = "inject" /\ line = "answer" THEN {"vulnerable"} ELSE {})
  /\ UNCHANGED <<conv, pc, got, wire, server, keeps>>

Client == Dial \/ Send \/ Receive \/ Deadline \/ Handshake \/ ReadEncrypted

-------------------------------------------------------------------------------
(***************************************************************************)
(* The server.                                                             *)
(***************************************************************************)
XMPP    == {"xmpp", "xmpp-server"}
OneLine == {"pop3", "nntp", "mysql", "postgres"}

(* The framing of the protocol: replies of one line, replies that end with *)
(* the line that decides, tags that occur once, codes of three digits.     *)
WellFramed(piece) ==
  /\ conv[2] \in OneLine => piece.last
  /\ conv[2] = "irc" => (piece.sig # "-" <=> piece.last)
  /\ conv[2] = "imap" => IF replies = 0 THEN piece.last ELSE (piece.sig # "-" <=> piece.last)
  /\ conv[2] = "sieve" => /\ replies > 0 => piece.last
                        /\ piece.mark = IF piece.last THEN "end" ELSE "more"
  /\ conv[2] = "telnet" /\ replies = 0 /\ piece.sig # "-" => piece.last
  /\ conv[2] \in XMPP /\ replies = 0 => piece.sig # "no"
  /\ conv[2] \in XMPP /\ sent > 0 /\ granted => piece.sig = "-"
  /\ conv[2] \in Coded /\ piece.last => piece.mark # "short"
  /\ conv[2] \notin Coded \cup {"sieve"} => piece.mark = "more"

(* A client that goes by the marks, and gives a Sieve greeting Patience    *)
(* lines, does not stop at this piece unless it is the last.               *)
Legible(piece) ==
  piece.last \/ (piece.mark = "more" /\ ~(conv[2] = "sieve" /\ sent + 1 >= Patience))

Speak ==
  /\ outcome \in {"dialogue", "ready"} /\ owed > 0
  /\ Len(wire) < InFlight
  /\ \E piece \in Pieces :
       /\ WellFramed(piece)
       /\ wire' = Append(wire, piece)
       /\ owed' = IF piece.last THEN owed - 1 ELSE owed
       /\ replies' = IF piece.last THEN replies + 1 ELSE replies
       /\ sent' = IF piece.last THEN 0 ELSE IF sent < Patience THEN sent + 1 ELSE sent
       /\ granted' = (piece.sig = "yes" \/ (granted /\ sent > 0))
       /\ legible' = (legible /\ Legible(piece))
  /\ UNCHANGED <<conv, outcome, pc, got, keeps, result>>

Ended == outcome \in {"end", "error"} /\ UNCHANGED vars

Next == Client \/ Speak \/ Ended

(* The deadline is absolute, so it passes whatever the server does; what   *)
(* follows the dialogue has deadlines of its own.  Nothing is assumed of   *)
(* the server.                                                             *)
Spec == Init /\ [][Next]_vars /\ WF_vars(Dial) /\ WF_vars(Deadline)
             /\ WF_vars(Handshake) /\ WF_vars(ReadEncrypted)

-------------------------------------------------------------------------------
TypeOK ==
  /\ conv \in Conversations
  /\ outcome \in {"dial", "dialogue", "ready", "tls", "end", "error"}
  /\ pc \in 1..Len(script) + 1
  /\ got \in [n : 0..Patience, first : {"yes", "no", "-"}, yes : BOOLEAN]
  /\ wire \in Seq(Pieces) /\ Len(wire) <= InFlight
  /\ owed \in 0..3 /\ replies \in 0..3 /\ sent \in 0..Patience
  /\ granted \in BOOLEAN /\ legible \in BOOLEAN /\ keeps \in BOOLEAN
  /\ result \subseteq {"reachable", "advertised", "upgraded", "probed", "vulnerable"}

(* The conversations that read whole replies, in lines or counted bytes.   *)
(* The injection probes of SMTP and FTP read one line of a reply that may  *)
(* have several, the handlers outside Framed read segments.                *)
InFrames == conv[2] \in Framed /\ conv \notin {<<"inject", "smtp">>, <<"inject", "ftp">>}

(* tls.Client gets the connection only when the server has granted the     *)
(* upgrade and not one byte of plaintext is left in either direction, so   *)
(* that the next byte read is the first of the handshake: when no line of  *)
(* the server's passed for the end of a reply it was not.  (MySQL's server *)
(* does not answer the request.)                                           *)
UpgradeWasGranted ==
  InFrames /\ legible /\ outcome \in {"ready", "tls"} => granted /\ wire = <<>> /\ owed = 0

(* The handover to tls.Client, for every conversation read in frames and   *)
(* every server whose replies can be told apart.                           *)
HandoverSafe == TypeOK /\ UpgradeWasGranted

(* A handler sends its next command only after it has read the whole reply *)
(* to the last one, so that no reply is taken for the answer to another    *)
(* command; with the same conversations and servers.                       *)
InStep ==
  [][InFrames /\ legible /\ pc' > pc /\ script[pc].op = "write" => wire = <<>> /\ owed = 0]_vars

(* Every dialogue ends, also with a server that never stops talking.       *)
DialogueEnds == <>(outcome \in {"end", "error"})
===============================================================================
