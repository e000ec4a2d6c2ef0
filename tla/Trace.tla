--------------------------------- MODULE Trace ---------------------------------
(***************************************************************************)
(* runTrace: one GET, followed through its redirects by net/http, whose    *)
(* httptrace hooks leave seven timestamps.  The phases of the transaction  *)
(* are the intervals between them.                                         *)
(*                                                                         *)
(* net/http is external.  What is modelled of it is when it calls the      *)
(* hooks: a request takes an idle connection to its origin or dials; the   *)
(* dial resolves the name (unless it is an address), connects, in parallel *)
(* goroutines when the host has both address families, and shakes hands    *)
(* for https.  A connect goroutine that lost the race is not joined and    *)
(* calls its hook when it ends, however late.  A connect hook is two       *)
(* steps, the test for the zero time and the assignment, because nothing   *)
(* keeps two goroutines from being in it at once.                          *)
(***************************************************************************)
EXTENDS Integers, Sequences

CONSTANTS Schemes,        \* the schemes of the target
          Attempts,       \* the connect goroutines of one dial
          MaxRedirects    \* the 10 of CheckRedirect

Hops == 1..MaxRedirects
Events == {"dnsStart", "dnsDone", "connStart", "connDone", "tlsStart", "tlsDone", "firstByte"}

VARIABLES
  stage,       \* where the transaction is
  hop,         \* the number of the request under way
  scheme,      \* its scheme
  idle,        \* the schemes with an idle connection
  reused,      \* the request runs on an idle connection
  attempt,     \* [Hops \X Attempts -> where the connect goroutine is]
  clock,       \* one unit per step
  mark,        \* [Events -> its timestamp, 0 for the zero time]
  redirects, chain,   \* what CheckRedirect counts and collects
  phases,      \* the intervals of TraceResult, <<>> for one that is not set
  trace        \* d.trace: "nil", "error" or "response"

request == <<hop, scheme, idle, reused>>
vars == <<stage, hop, scheme, idle, reused, attempt, clock, mark, redirects, chain, phases, trace>>

Phases == {"DNS", "TCP", "TLS", "Server"}

Init ==
  /\ stage = "get" /\ hop = 1
  /\ scheme \in Schemes
  /\ idle = {} /\ reused = FALSE
  /\ attempt = [x \in Hops \X Attempts |-> "unborn"]
  /\ clock = 1
  /\ mark = [e \in Events |-> 0]
  /\ redirects = 0 /\ chain = <<>>
  /\ phases = [p \in Phases |-> <<>>]
  /\ trace = "nil"

-------------------------------------------------------------------------------
Elapse == clock' = clock + 1

(* Only the first occurrence of an event is recorded.                      *)
Mark(e) == mark' = IF mark[e] = 0 THEN [mark EXCEPT ![e] = clock] ELSE mark

Fails == stage' = "failed"

(* The transport finds an idle connection, or dials an address, or a name. *)
GetConn ==
  /\ stage = "get" /\ Elapse
  /\ \/ scheme \in idle /\ reused' = TRUE /\ stage' = "wait" /\ UNCHANGED mark
     \/ reused' = FALSE /\ stage' = "dial" /\ UNCHANGED mark
     \/ reused' = FALSE /\ stage' = "resolve" /\ Mark("dnsStart")
  /\ UNCHANGED <<hop, scheme, idle, attempt, redirects, chain, phases, trace>>

DNSDone ==
  /\ stage = "resolve" /\ Elapse /\ Mark("dnsDone")
  /\ stage' = "dial" \/ Fails
  /\ UNCHANGED <<request, attempt, redirects, chain, phases, trace>>

Moves(x, from, to) == attempt[x] = from /\ attempt' = [attempt EXCEPT ![x] = to]

(* ConnectStart: the test, then the assignment.                            *)
ConnectStart(x) ==
  /\ stage = "dial" /\ x[1] = hop /\ Elapse
  /\ Moves(x, "unborn", IF mark["connStart"] = 0 THEN "startHook" ELSE "dialling")
  /\ UNCHANGED <<stage, request, mark, redirects, chain, phases, trace>>

SetConnStart(x) ==
  /\ Moves(x, "startHook", "dialling") /\ Elapse
  /\ mark' = [mark EXCEPT !["connStart"] = clock]
  /\ UNCHANGED <<stage, request, redirects, chain, phases, trace>>

DoneHook == [up |-> "upHook", down |-> "downHook"]

(* ConnectDone, of a connection or of an error.                            *)
ConnectDone(x) ==
  /\ Elapse
  /\ \E end \in {"up", "down"} :
       Moves(x, "dialling", IF mark["connDone"] = 0 THEN DoneHook[end] ELSE end)
  /\ UNCHANGED <<stage, request, mark, redirects, chain, phases, trace>>

SetConnDone(x) ==
  /\ Elapse
  /\ \E end \in {"up", "down"} : Moves(x, DoneHook[end], end)
  /\ mark' = [mark EXCEPT !["connDone"] = clock]
  /\ UNCHANGED <<stage, request, redirects, chain, phases, trace>>

(* The dial returns with the first connection, or when all it had          *)
(* addresses for have failed.                                              *)
Dialled ==
  /\ stage = "dial" /\ Elapse
  /\ \/ /\ \E a \in Attempts : attempt[<<hop, a>>] = "up"
        /\ IF scheme = "https" THEN stage' = "handshake" /\ Mark("tlsStart")
                               ELSE stage' = "wait" /\ UNCHANGED mark
     \/ /\ \E a \in Attempts : attempt[<<hop, a>>] = "down"
        /\ \A a \in Attempts : attempt[<<hop, a>>] \in {"unborn", "down"}
        /\ Fails /\ UNCHANGED mark
  /\ UNCHANGED <<request, attempt, redirects, chain, phases, trace>>

TLSHandshakeDone ==
  /\ stage = "handshake" /\ Elapse /\ Mark("tlsDone")
  /\ stage' = "wait" \/ Fails
  /\ UNCHANGED <<request, attempt, redirects, chain, phases, trace>>

GotFirstResponseByte ==
  /\ stage = "wait" /\ Elapse /\ Mark("firstByte")
  /\ idle' = idle \cup {scheme}
  /\ stage' = "answer"
  /\ UNCHANGED <<hop, scheme, reused, attempt, redirects, chain, phases, trace>>

(* The server closes instead; net/http retries on a new connection if the  *)
(* one it lost was an idle one.                                            *)
ConnectionLost ==
  /\ stage = "wait" /\ Elapse
  /\ IF reused THEN stage' = "get" /\ idle' = idle \ {scheme} ELSE Fails /\ UNCHANGED idle
  /\ UNCHANGED <<hop, scheme, reused, attempt, mark, redirects, chain, phases, trace>>

(* Mutant: the chain does not start with the URL of the target.            *)
MutCheckRedirect ==
  /\ stage = "answer" /\ Elapse
  /\ redirects' = hop
  /\ chain' = Append(chain, hop + 1)
  /\ IF hop >= MaxRedirects
     THEN stage' = "returned" /\ UNCHANGED <<hop, scheme>>
     ELSE stage' = "get" /\ hop' = hop + 1 /\ scheme' \in {"http", "https"}
  /\ UNCHANGED <<idle, reused, attempt, mark, phases, trace>>

(* Mutant: one request too many.                                           *)
MutLimit ==
  /\ stage = "answer" /\ Elapse
  /\ redirects' = hop
  /\ chain' = IF chain = <<>> THEN <<1, hop + 1>> ELSE Append(chain, hop + 1)
  /\ IF hop > MaxRedirects
     THEN stage' = "returned" /\ UNCHANGED <<hop, scheme>>
     ELSE stage' = "get" /\ hop' = hop + 1 /\ scheme' \in {"http", "https"}
  /\ UNCHANGED <<idle, reused, attempt, mark, phases, trace>>

(* CheckRedirect, with len(via) = hop: URLs are the numbers of their hops. *)
CheckRedirect ==
  /\ stage = "answer" /\ Elapse
  /\ redirects' = hop
  /\ chain' = IF chain = <<>> THEN <<1, hop + 1>> ELSE Append(chain, hop + 1)
  /\ IF hop >= MaxRedirects
     THEN stage' = "returned" /\ UNCHANGED <<hop, scheme>>
     ELSE stage' = "get" /\ hop' = hop + 1 /\ scheme' \in {"http", "https"}
  /\ UNCHANGED <<idle, reused, attempt, mark, phases, trace>>

FinalResponse ==
  /\ stage = "answer" /\ Elapse
  /\ stage' = "returned"
  /\ UNCHANGED <<request, attempt, mark, redirects, chain, phases, trace>>

InFlight == stage \in {"get", "resolve", "dial", "handshake", "wait", "answer"}

(* Mutant: the timeout covers the first request only.                      *)
MutTimeout ==
  /\ InFlight /\ hop = 1 /\ Elapse /\ Fails
  /\ UNCHANGED <<request, attempt, mark, redirects, chain, phases, trace>>

(* client.Timeout covers the redirects.                                    *)
Timeout ==
  /\ InFlight /\ Elapse /\ Fails
  /\ UNCHANGED <<request, attempt, mark, redirects, chain, phases, trace>>

-------------------------------------------------------------------------------
(* The rest of runTrace, once client.Do has returned.                      *)
Span(from, to) == IF mark[from] = 0 \/ mark[to] = 0 THEN <<>> ELSE <<mark[from], mark[to]>>

(* Mutant: the server phase starts at the end of the connect.              *)
MutServerSpan == Span("connDone", "firstByte")

(* lastNet is the end of the handshake, or of the connect without one.     *)
ServerSpan == Span(IF mark["tlsDone"] # 0 THEN "tlsDone" ELSE "connDone", "firstByte")

Spans == [DNS |-> Span("dnsStart", "dnsDone"), TCP |-> Span("connStart", "connDone"),
          TLS |-> Span("tlsStart", "tlsDone"), Server |-> ServerSpan]

(* A read that races the assignment of a hook may give anything, here an   *)
(* interval that runs backwards.                                           *)
Torn(P) == [p \in Phases |-> IF p \in P THEN <<clock, 0>> ELSE Spans[p]]

(* The dial of a failed request may still be running, and calling hooks.   *)
ReturnError ==
  /\ stage = "failed" /\ Elapse
  /\ stage' = "end" /\ trace' = "error"
  /\ phases' \in {Spans, Torn(Phases)}
  /\ UNCHANGED <<request, attempt, mark, redirects, chain>>

InHook == \E x \in Hops \X Attempts : attempt[x] \in {"startHook", "upHook", "downHook"}

(* The phases that are computed from the timestamps of a connect hook.     *)
Hooked == {"TCP"} \cup (IF mark["tlsDone"] = 0 THEN {"Server"} ELSE {})

(* The phases, then the body, up to its end or the timeout.                *)
ReturnResponse ==
  /\ stage = "returned" /\ Elapse
  /\ stage' = "end" /\ trace' = "response"
  /\ phases' \in {Spans} \cup (IF InHook THEN {Torn(Hooked)} ELSE {})
  /\ UNCHANGED <<request, attempt, mark, redirects, chain>>

Connect(x) == ConnectStart(x) \/ SetConnStart(x) \/ ConnectDone(x) \/ SetConnDone(x)

Ended == stage = "end" /\ UNCHANGED vars

Next ==
  \/ GetConn \/ DNSDone \/ (\E x \in Hops \X Attempts : Connect(x)) \/ Dialled
  \/ TLSHandshakeDone \/ GotFirstResponseByte \/ ConnectionLost
  \/ CheckRedirect \/ FinalResponse \/ Timeout \/ ReturnError \/ ReturnResponse \/ Ended

(* Nothing is assumed of the network; the client's timer fires.            *)
Spec == Init /\ [][Next]_vars
             /\ WF_vars(Timeout) /\ WF_vars(ReturnError) /\ WF_vars(ReturnResponse)

-------------------------------------------------------------------------------
AttemptStates == {"unborn", "startHook", "dialling", "upHook", "downHook", "up", "down"}

(* The transaction and its timestamps keep their types, and no timestamp   *)
(* lies in the future.                                                     *)
TypeOK ==
  /\ stage \in {"get", "resolve", "dial", "handshake", "wait", "answer", "returned", "failed", "end"}
  /\ hop \in Hops /\ scheme \in {"http", "https"}
  /\ idle \subseteq {"http", "https"} /\ reused \in BOOLEAN
  /\ attempt \in [Hops \X Attempts -> AttemptStates]
  /\ clock \in Nat \ {0}
  /\ mark \in [Events -> 0..clock - 1]
  /\ redirects \in 0..MaxRedirects /\ chain \in Seq(1..MaxRedirects + 1)
  /\ phases \in [Phases -> {<<>>} \cup (Nat \X Nat)]
  /\ trace \in {"nil", "error", "response"}

(* The phases of P run forwards, and no two of them overlap.               *)
Apart(P) ==
  \A p, q \in {r \in P : phases[r] # <<>>} :
    /\ phases[p][1] <= phases[p][2]
    /\ p # q => phases[p][2] <= phases[q][1] \/ phases[q][2] <= phases[p][1]

(* What trace.go:16-18 says of the phases of a transaction, "they never    *)
(* double-count one another", of the connect beside the lookup or of the   *)
(* handshake beside the wait for the server: a behaviour that breaks it    *)
(* breaks both.                                                            *)
KeepApart(p, q) == phases[p] # <<>> /\ phases[q] # <<>> => Apart({p, q})
PhasesNeverOverlap ==
  trace = "response" => KeepApart("DNS", "TCP") \/ KeepApart("TLS", "Server")

(* A dial of this transaction had more than one connect goroutine.         *)
Hedged == \E h \in Hops, a, b \in Attempts :
            a # b /\ attempt[<<h, a>>] # "unborn" /\ attempt[<<h, b>>] # "unborn"

(* The first handshake came after the first response: http led to https.   *)
Upgraded == mark["firstByte"] > 0 /\ mark["firstByte"] < mark["tlsStart"]

(* What is left of that promise.  The lookup and the handshake never       *)
(* overlap; unless http led to https, the wait for the server of an https  *)
(* target overlaps neither, whatever the connect goroutines do; and unless *)
(* these were more than one, all four phases keep apart.                   *)
PhasesKeepApart ==
  trace = "response" =>
    /\ Apart({"DNS", "TLS"})
    /\ ~Upgraded /\ mark["tlsDone"] > 0 => Apart({"DNS", "TLS", "Server"})
    /\ ~Upgraded /\ ~Hedged => Apart(Phases)

(* The redirect chain names every URL once and in order, from the target's *)
(* to the last redirect's, which was followed unless the limit is reached. *)
ChainFaithful ==
  /\ chain = IF redirects = 0 THEN <<>> ELSE [i \in 1..redirects + 1 |-> i]
  /\ redirects = hop - 1 \/ (redirects = hop /\ hop = MaxRedirects /\ stage \in {"returned", "end"})

(* What the transaction says of itself, its timings and its redirects.     *)
TransactionFaithful == TypeOK /\ PhasesKeepApart /\ ChainFaithful
===============================================================================
