------------------------------ MODULE WatchProofs ------------------------------
(***************************************************************************)
(* Proofs about Watch and about its composition with Trace, for any        *)
(* metrics, readings, options, ring size and limit of redirects.           *)
(*                                                                         *)
(* The rings are sliding windows on the readings (RecentAppend), and the   *)
(* cursor is hidden only where the loop cannot end without showing it.     *)
(* That the phases of a response do not overlap is not inductive: they are *)
(* computed from timestamps the hooks left over many steps, so that the    *)
(* invariant orders the timestamps by the stage of the transaction: those  *)
(* of the transport's own goroutine always (Serial), those of the connect  *)
(* hooks as long as no dial had two goroutines in them (Unraced).          *)
(***************************************************************************)
EXTENDS WatchTrace, SequenceTheorems, TLAPS

(* The last n entries of s, or all of them.                                *)
Recent(s, n) ==
  LET k == IF Len(s) > n THEN n ELSE Len(s)
  IN  SubSeq(s, Len(s) - k + 1, Len(s))

(* The cursor, by where the loop is.                                       *)
CursorOwned == pc \in {"start", "hide", "exited", "killed"} => cursor = "shown"

WatchInv == TypeOK /\ RingIsRecent /\ CursorOwned

-------------------------------------------------------------------------------
ChainInv == T!TypeOK /\ T!ChainFaithful

Hooks == {"startHook", "upHook", "downHook"}

(* client.Do has not failed and runTrace has not returned.                 *)
Live == stage \notin {"failed", "end"}

(* The goroutine of the transport itself: its lookup, its handshake and    *)
(* its response leave their timestamps in order.  A lookup before the      *)
(* first byte is over when the handshake starts; one after it belongs to a *)
(* later request.                                                          *)
LookupTimes ==
  /\ (stage = "resolve") => mark["dnsStart"] > 0
  /\ mark["dnsStart"] > 0 => mark["dnsDone"] > 0 \/ stage = "resolve"
  /\ mark["dnsDone"] > 0 => 0 < mark["dnsStart"] /\ mark["dnsStart"] < mark["dnsDone"]

HandshakeTimes ==
  /\ (stage = "handshake") => mark["tlsStart"] > 0
  /\ mark["tlsStart"] > 0 => mark["tlsDone"] > 0 \/ stage = "handshake"
  /\ mark["tlsDone"] > 0 => 0 < mark["tlsStart"] /\ mark["tlsStart"] < mark["tlsDone"]

ServerTimes ==
  /\ mark["dnsStart"] > 0 /\ mark["tlsStart"] > 0 =>
       \/ mark["dnsDone"] > 0 /\ mark["dnsDone"] < mark["tlsStart"]
       \/ /\ mark["tlsDone"] > 0 /\ mark["tlsDone"] < mark["dnsStart"]
          /\ mark["firstByte"] > 0 /\ mark["firstByte"] < mark["dnsStart"]
  /\ mark["firstByte"] > 0 /\ mark["tlsStart"] > 0 =>
       \/ mark["firstByte"] < mark["tlsStart"]
       \/ mark["tlsDone"] > 0 /\ mark["tlsDone"] < mark["firstByte"]

(* Up to the first byte there is one request, and its stages come in turn. *)
FirstRequest ==
  mark["firstByte"] = 0 =>
    /\ hop = 1 /\ ~reused /\ idle = {}
    /\ stage \in {"get", "resolve", "dial", "handshake", "wait"}
    /\ (stage = "get") => mark["dnsStart"] = 0
    /\ stage \in {"get", "resolve"} => mark["dnsDone"] = 0
    /\ stage \in {"get", "resolve", "dial"} => mark["tlsStart"] = 0 /\ mark["tlsDone"] = 0

(* The connect hooks, when no dial had more than one goroutine: there is   *)
(* nobody to race with, and each goroutine is over before its dial is.     *)
OneByOne ==
  /\ \A y \in T!Hops \X Attempts : y[1] # hop \/ stage # "dial" => attempt[y] \in {"unborn", "up"}
  /\ stage \in {"get", "resolve"} \/ reused => \A a \in Attempts : attempt[<<hop, a>>] = "unborn"
  /\ stage \in {"resolve", "dial"} => ~reused
  /\ \A y \in T!Hops \X Attempts :
       /\ attempt[y] = "startHook" => mark["connStart"] = 0 /\ mark["connDone"] = 0
       /\ attempt[y] \in {"upHook", "downHook"} => mark["connStart"] > 0 /\ mark["connDone"] = 0
       /\ attempt[y] = "dialling" => mark["connStart"] > 0
       /\ attempt[y] \in {"up", "down"} => mark["connDone"] > 0

ConnectTimes ==
  /\ mark["connDone"] > 0 => 0 < mark["connStart"] /\ mark["connStart"] < mark["connDone"]
  /\ mark["connStart"] > 0 /\ mark["dnsStart"] > 0 =>
       \/ mark["dnsDone"] > 0 /\ mark["dnsDone"] < mark["connStart"]
       \/ /\ mark["connDone"] > 0 /\ mark["connDone"] < mark["firstByte"]
          /\ mark["firstByte"] < mark["dnsStart"]
  /\ mark["tlsStart"] > 0 => mark["connDone"] > 0 /\ mark["connDone"] < mark["tlsStart"]
  /\ mark["firstByte"] > 0 => mark["connDone"] > 0 /\ mark["connDone"] < mark["firstByte"]
  /\ stage \in {"handshake", "wait"} => mark["connDone"] > 0
  /\ mark["firstByte"] = 0 /\ stage \in {"get", "resolve"} => mark["connStart"] = 0

Serial == LookupTimes /\ HandshakeTimes /\ ServerTimes /\ FirstRequest

Unraced == OneByOne /\ ConnectTimes

PhaseInv ==
  /\ stage \in {"answer", "returned"} => mark["firstByte"] > 0
  /\ trace # "nil" => stage = "end"
  /\ \A x \in T!Hops \X Attempts : x[1] > hop => attempt[x] = "unborn"
  /\ Live => Serial
  /\ Live /\ ~T!Hedged => Unraced
  /\ T!PhasesKeepApart

-------------------------------------------------------------------------------
(* The last n entries of a sequence are a sequence of at most n entries.   *)
LEMMA RecentFacts ==
  ASSUME NEW S, NEW s \in Seq(S), NEW n \in Nat
  PROVE  /\ Recent(s, n) \in Seq(S)
         /\ Len(Recent(s, n)) = IF Len(s) > n THEN n ELSE Len(s)
         /\ \A i \in 1..Len(Recent(s, n)) : Recent(s, n)[i] = s[Len(s) - Len(Recent(s, n)) + i]
<1> DEFINE k == IF Len(s) > n THEN n ELSE Len(s)
<1>1. Len(s) \in Nat /\ k \in 0..Len(s)
  OBVIOUS
<1> HIDE DEF k
<1>2. \A i \in Len(s) - k + 1..Len(s) : s[i] \in S
  BY <1>1
<1> DEFINE r == SubSeq(s, Len(s) - k + 1, Len(s))
<1>3. /\ r \in Seq(S)
      /\ Len(r) = IF Len(s) - k + 1 <= Len(s) THEN Len(s) - (Len(s) - k + 1) + 1 ELSE 0
      /\ \A i \in 1..Len(s) - (Len(s) - k + 1) + 1 : r[i] = s[Len(s) - k + 1 + i - 1]
  BY <1>1, <1>2, SubSeqProperties
<1> HIDE DEF r
<1>4. Len(r) = k /\ \A i \in 1..k : r[i] = s[Len(s) - k + i]
  BY <1>1, <1>3
<1> QED BY <1>3, <1>4 DEF Recent, r, k

(* appendRing keeps a ring the last n readings when one more is recorded.  *)
LEMMA RecentAppend ==
  ASSUME NEW S, NEW s \in Seq(S), NEW v \in S, NEW n \in Nat \ {0}
  PROVE  AppendRing(Recent(s, n), v, n) = Recent(Append(s, v), n)
<1> DEFINE r == Recent(s, n)
           t == Append(s, v)
           ys == Append(r, v)
<1>1. /\ r \in Seq(S) /\ Len(r) = IF Len(s) > n THEN n ELSE Len(s)
      /\ \A i \in 1..Len(r) : r[i] = s[Len(s) - Len(r) + i]
  BY RecentFacts
<1>2. /\ t \in Seq(S) /\ Len(t) = Len(s) + 1
      /\ \A i \in 1..Len(s) : t[i] = s[i]
      /\ t[Len(s) + 1] = v
  BY AppendProperties
<1> HIDE DEF r, t
<1>3. /\ ys \in Seq(S) /\ Len(ys) = Len(r) + 1
      /\ \A i \in 1..Len(r) : ys[i] = r[i]
      /\ ys[Len(r) + 1] = v
  BY <1>1, AppendProperties
<1>4. /\ Recent(t, n) \in Seq(S) /\ Len(Recent(t, n)) = IF Len(t) > n THEN n ELSE Len(t)
      /\ \A i \in 1..Len(Recent(t, n)) : Recent(t, n)[i] = t[Len(t) - Len(Recent(t, n)) + i]
  BY <1>2, RecentFacts
<1> HIDE DEF ys
<1>5. Len(s) \in Nat /\ Len(r) \in Nat
  BY <1>1
<1> DEFINE q == Recent(t, n)
<1> HIDE DEF q
<1>6. CASE Len(ys) > n
  <2>1. Len(r) = n /\ Len(s) >= n /\ Len(q) = n
    BY <1>1, <1>2, <1>3, <1>4, <1>5, <1>6 DEF q
  <2> DEFINE z == SubSeq(ys, Len(ys) - n + 1, Len(ys))
  <2>2. Len(ys) = n + 1 /\ \A i \in 2..n + 1 : ys[i] \in S
    BY <1>3, <2>1
  <2>3. z = SubSeq(ys, 2, n + 1)
    BY <2>2
  <2>4. z \in Seq(S) /\ Len(z) = n /\ \A i \in 1..n : z[i] = ys[i + 1]
    <3>1. /\ SubSeq(ys, 2, n + 1) \in Seq(S)
          /\ Len(SubSeq(ys, 2, n + 1)) = IF 2 <= n + 1 THEN n + 1 - 2 + 1 ELSE 0
          /\ \A i \in 1..n + 1 - 2 + 1 : SubSeq(ys, 2, n + 1)[i] = ys[2 + i - 1]
      BY <2>2, SubSeqProperties
    <3> HIDE DEF z
    <3> QED BY <2>3, <3>1
  <2> HIDE DEF z
  <2>5. \A i \in 1..n : z[i] = q[i]
    <3> TAKE i \in 1..n
    <3>1. q[i] = t[Len(s) + 1 - n + i]
      <4>1. q[i] = t[Len(t) - Len(q) + i]
        BY <1>4, <2>1 DEF q
      <4>2. Len(t) - Len(q) + i = Len(s) + 1 - n + i
        BY <1>2, <1>5, <2>1
      <4> QED BY <4>1, <4>2
    <3>2. CASE i = n
      BY <1>2, <1>3, <1>5, <2>1, <2>4, <3>1, <3>2
    <3>3. CASE i < n
      <4> DEFINE m == Len(s) + 1 - n + i
      <4>1. m \in 1..Len(s) /\ Len(s) - Len(r) + (i + 1) = m /\ i + 1 \in 1..Len(r)
        BY <1>5, <2>1, <3>3
      <4>2. r[i + 1] = s[Len(s) - Len(r) + (i + 1)]
        BY <1>1, <4>1
      <4> QED BY <1>2, <1>3, <2>4, <3>1, <4>1, <4>2
    <3> QED BY <3>2, <3>3
  <2>6. z = q
    BY <1>4, <2>1, <2>4, <2>5, SeqEqual DEF q
  <2> QED BY <1>6, <2>6 DEF AppendRing, z, q, ys, r, t
<1>7. CASE ~(Len(ys) > n)
  <2>1. Len(r) = Len(s) /\ Len(q) = Len(s) + 1 /\ Len(ys) = Len(s) + 1
    BY <1>1, <1>2, <1>3, <1>4, <1>5, <1>7 DEF q
  <2>2. \A i \in 1..Len(s) + 1 : ys[i] = q[i]
    <3> TAKE i \in 1..Len(s) + 1
    <3>1. q[i] = t[i]
      <4>1. q[i] = t[Len(t) - Len(q) + i]
        BY <1>4, <2>1 DEF q
      <4>2. Len(t) - Len(q) + i = i
        BY <1>2, <1>5, <2>1
      <4> QED BY <4>1, <4>2
    <3>2. CASE i = Len(s) + 1
      BY <1>2, <1>3, <2>1, <3>1, <3>2
    <3>3. CASE i < Len(s) + 1
      <4>1. i \in 1..Len(r) /\ Len(s) - Len(r) + i = i
        BY <1>5, <2>1, <3>3
      <4>2. r[i] = s[Len(s) - Len(r) + i]
        BY <1>1, <4>1
      <4> QED BY <1>2, <1>3, <2>1, <3>1, <4>1, <4>2
    <3> QED BY <1>5, <3>2, <3>3
  <2>3. ys = q
    BY <1>3, <1>4, <2>1, <2>2, SeqEqual DEF q
  <2> QED BY <1>7, <2>3 DEF AppendRing, q, ys, r, t
<1> QED BY <1>6, <1>7

-------------------------------------------------------------------------------
(* The loop of Watch.                                                      *)
LEMMA RingMeaning == RingIsRecent <=> \A m \in Metrics : ring[m] = Recent(log[m], MaxSamples)
  BY DEF RingIsRecent, Recent

LEMMA InitWatchInv == Init => WatchInv
<1> SUFFICES ASSUME Init PROVE WatchInv
  OBVIOUS
<1>1. <<>> \in Seq(Positive) /\ Len(<<>>) = 0
  OBVIOUS
<1>2. asked \in BOOLEAN
  BY Zenon DEF Init
<1>3. TypeOK
  BY <1>1, <1>2, MaxSamplesAssumption DEF Init, TypeOK
<1>4. Recent(<<>>, MaxSamples) = <<>>
  <2>1. /\ Recent(<<>>, MaxSamples) \in Seq(Positive)
        /\ Len(Recent(<<>>, MaxSamples)) = IF Len(<<>>) > MaxSamples THEN MaxSamples ELSE Len(<<>>)
    BY <1>1, RecentFacts, MaxSamplesAssumption
  <2> QED BY <1>1, <2>1, EmptySeq, MaxSamplesAssumption
<1>5. RingIsRecent
  BY <1>4, RingMeaning DEF Init
<1> QED BY <1>3, <1>5 DEF Init, WatchInv, CursorOwned

LEMMA RecordWatchInv == ASSUME NEW r \in Reports PROVE WatchInv /\ Record(r) => WatchInv'
<1> SUFFICES ASSUME WatchInv, Record(r) PROVE WatchInv'
  OBVIOUS
<1>1. ASSUME NEW m \in Metrics
      PROVE  /\ log'[m] \in Seq(Positive)
             /\ ring'[m] = Recent(log'[m], MaxSamples)
             /\ ring'[m] \in Seq(Positive) /\ Len(ring'[m]) <= MaxSamples
  <2>1. log[m] \in Seq(Positive) /\ ring[m] = Recent(log[m], MaxSamples)
    BY RingMeaning DEF WatchInv, TypeOK
  <2>2. /\ ring'[m] = IF r[m] > 0 THEN AppendRing(ring[m], r[m], MaxSamples) ELSE ring[m]
        /\ log'[m] = IF r[m] > 0 THEN Append(log[m], r[m]) ELSE log[m]
    BY DEF Record
  <2>3. r[m] > 0 => r[m] \in Positive
    <3>1. r[m] \in Readings \cup {0}
      BY DEF Reports
    <3> QED BY <3>1 DEF Positive
  <2>4. log'[m] \in Seq(Positive)
    BY <2>1, <2>2, <2>3, AppendProperties
  <2>5. ring'[m] = Recent(log'[m], MaxSamples)
    BY <2>1, <2>2, <2>3, RecentAppend, MaxSamplesAssumption
  <2> QED BY <2>4, <2>5, RecentFacts, MaxSamplesAssumption
<1>2. /\ ring' = [m \in Metrics |-> ring'[m]] /\ log' = [m \in Metrics |-> log'[m]]
  BY DEF Record
<1>3. ring' \in [Metrics -> Seq(Positive)] /\ log' \in [Metrics -> Seq(Positive)]
  BY <1>1, <1>2
<1>4. TypeOK'
  BY <1>1, <1>3 DEF WatchInv, TypeOK, Record
<1>5. RingIsRecent'
  BY <1>1 DEF RingIsRecent, Recent
<1>6. CursorOwned'
  BY DEF Record, CursorOwned
<1> QED BY <1>4, <1>5, <1>6 DEF WatchInv

(* The other steps leave the rings alone.                                  *)
LEMMA RingKept == WatchInv /\ UNCHANGED <<ring, log>> => RingIsRecent'
  BY DEF WatchInv, RingIsRecent

LEMMA OthersWatchInv == WatchInv /\ Others => WatchInv'
  BY RingKept DEF WatchInv, TypeOK, CursorOwned, Others, Notify, Hide, Draw, TimerFires, SelectTimer

LEMMA InterruptWatchInv == WatchInv /\ Interrupt => WatchInv'
<1> SUFFICES ASSUME WatchInv, Interrupt PROVE WatchInv'
  OBVIOUS
<1>1. asked' \in BOOLEAN
  BY Zenon DEF WatchInv, TypeOK, Interrupt
<1>2. pc' \in {pc, "killed"} /\ sigCh' \in 0..1 /\ UNCHANGED <<given, used, timer, cursor, ring, log>>
  BY DEF WatchInv, TypeOK, Interrupt
<1>3. TypeOK'
  BY <1>1, <1>2 DEF WatchInv, TypeOK
<1>4. CursorOwned'
  BY DEF WatchInv, CursorOwned, Interrupt
<1> QED BY <1>2, <1>3, <1>4, RingKept DEF WatchInv

LEMMA SelectSignalWatchInv == WatchInv /\ SelectSignal => WatchInv'
  BY RingKept DEF WatchInv, TypeOK, CursorOwned, SelectSignal

LEMMA StutterWatchInv == WatchInv /\ UNCHANGED vars => WatchInv'
  BY RingKept DEF WatchInv, TypeOK, CursorOwned, vars

LEMMA NextWatchInv == WatchInv /\ [Next]_vars => WatchInv'
  BY RecordWatchInv, OthersWatchInv, InterruptWatchInv, SelectSignalWatchInv, StutterWatchInv
     DEF Next, Loop, Tick, Others

LEMMA WatchInvSafe == WatchInv => WatchSafe
  BY DEF WatchInv, WatchSafe, CursorOwned, CursorRestored, Ended

(* A run of --watch always shows the latest readings, and leaves a cursor  *)
(* behind however it ends: by Ctrl+C in the loop or before the handler is  *)
(* installed.                                                              *)
THEOREM WatchIsSafe == Spec => []WatchSafe
<1>1. Spec => []WatchInv
  BY InitWatchInv, NextWatchInv, PTL DEF Spec
<1> QED BY <1>1, WatchInvSafe, PTL

-------------------------------------------------------------------------------
(* The refinement.  Every step of the session is a step of Watch or one    *)
(* that Watch does not see.                                                *)
LEMMA SessionStep == [SessionNext]_<<vars, transaction>> => [Next]_vars
<1>1. TickEnds => Tick
  BY DEF TickEnds, Tick
<1>2. Transact => UNCHANGED vars
  BY DEF Transact
<1> QED BY <1>1, <1>2 DEF SessionNext, Next, Loop, Others

(* A session with its transactions is a run of Watch: the safety part of   *)
(* ImplementsWatch.                                                        *)
THEOREM SessionRefinesWatch == SessionSpec => Init /\ [][Next]_vars
<1>1. SessionInit => Init
  BY DEF SessionInit
<1> QED BY <1>1, SessionStep, PTL DEF SessionSpec

LEMMA SessionWatchInv == SessionSpec => []WatchInv
  BY SessionRefinesWatch, InitWatchInv, NextWatchInv, PTL

-------------------------------------------------------------------------------
(* The transaction: its types and its redirect chain.                      *)
LEMMA EventFacts == /\ "dnsStart" \in T!Events /\ "dnsDone" \in T!Events /\ "connStart" \in T!Events
                    /\ "connDone" \in T!Events /\ "tlsStart" \in T!Events /\ "tlsDone" \in T!Events
                    /\ "firstByte" \in T!Events
  BY DEF T!Events

(* A hook leaves a timestamp of the present or keeps an earlier one.       *)
LEMMA MarkType ==
  ASSUME clock \in Nat \ {0}, mark \in [T!Events -> 0..clock - 1], T!Elapse,
         \/ UNCHANGED mark
         \/ \E e \in T!Events : T!Mark(e)
         \/ \E e \in T!Events : mark' = [mark EXCEPT ![e] = clock]
  PROVE  clock' \in Nat \ {0} /\ mark' \in [T!Events -> 0..clock' - 1]
  BY DEF T!Elapse, T!Mark

LEMMA AttemptType ==
  ASSUME attempt \in [T!Hops \X Attempts -> T!AttemptStates], NEW x \in T!Hops \X Attempts,
         NEW from, NEW to \in T!AttemptStates, T!Moves(x, from, to)
  PROVE  attempt' \in [T!Hops \X Attempts -> T!AttemptStates]
  BY DEF T!Moves

(* A step that adds nothing to the chain: what it may do besides.          *)
StageMoves ==
  \/ /\ stage \notin {"returned", "end"}
     /\ stage' \in {"get", "resolve", "dial", "handshake", "wait", "answer", "failed"}
  \/ stage' = "returned" /\ stage = "answer"
  \/ stage' \in {"end", stage}

LEMMA StepChainInv ==
  ASSUME ChainInv, T!Elapse,
         \/ UNCHANGED mark
         \/ \E e \in T!Events : T!Mark(e)
         \/ \E e \in T!Events : mark' = [mark EXCEPT ![e] = clock],
         UNCHANGED <<hop, scheme, redirects, chain>>,
         StageMoves,
         idle' \subseteq {"http", "https"}, reused' \in BOOLEAN,
         attempt' \in [T!Hops \X Attempts -> T!AttemptStates],
         phases' \in [T!Phases -> {<<>>} \cup (Nat \X Nat)],
         trace' \in {"nil", "error", "response"}
  PROVE  ChainInv'
<1>1. clock' \in Nat \ {0} /\ mark' \in [T!Events -> 0..clock' - 1]
  BY MarkType DEF ChainInv, T!TypeOK
<1>2. stage' \in {"get", "resolve", "dial", "handshake", "wait", "answer", "returned", "failed", "end"}
  BY DEF ChainInv, T!TypeOK, StageMoves
<1>3. T!TypeOK'
  BY <1>1, <1>2 DEF ChainInv, T!TypeOK
<1>4. T!ChainFaithful'
  BY DEF ChainInv, T!TypeOK, T!ChainFaithful, StageMoves
<1> QED BY <1>3, <1>4 DEF ChainInv

(* The intervals of TraceResult, also those of a torn read.                *)
LEMMA SpanTypes ==
  ASSUME T!TypeOK, NEW P
  PROVE  /\ T!Spans \in [T!Phases -> {<<>>} \cup (Nat \X Nat)]
         /\ T!Torn(P) \in [T!Phases -> {<<>>} \cup (Nat \X Nat)]
<1>1. ASSUME NEW e \in T!Events, NEW f \in T!Events
      PROVE  T!Span(e, f) \in {<<>>} \cup (Nat \X Nat)
  BY DEF T!TypeOK, T!Span
<1>2. T!ServerSpan \in {<<>>} \cup (Nat \X Nat)
  BY <1>1, EventFacts DEF T!ServerSpan
<1>3. /\ T!Span("dnsStart", "dnsDone") \in {<<>>} \cup (Nat \X Nat)
      /\ T!Span("connStart", "connDone") \in {<<>>} \cup (Nat \X Nat)
      /\ T!Span("tlsStart", "tlsDone") \in {<<>>} \cup (Nat \X Nat)
  BY <1>1, EventFacts
<1>4. T!Spans \in [T!Phases -> {<<>>} \cup (Nat \X Nat)]
  BY <1>2, <1>3 DEF T!Spans, T!Phases
<1>5. <<clock, 0>> \in Nat \X Nat
  BY DEF T!TypeOK
<1> QED BY <1>4, <1>5 DEF T!Torn

Transport == \/ T!GetConn \/ T!DNSDone \/ T!Dialled \/ T!TLSHandshakeDone \/ T!GotFirstResponseByte
             \/ T!ConnectionLost \/ T!FinalResponse \/ T!Timeout

LEMMA TransportChainInv == ChainInv /\ Transport => ChainInv'
<1> SUFFICES ASSUME ChainInv, Transport PROVE ChainInv'
  OBVIOUS
<1> USE DEF T!GetConn, T!DNSDone, T!Dialled, T!TLSHandshakeDone, T!GotFirstResponseByte,
            T!ConnectionLost, T!FinalResponse, T!Timeout, T!Fails, T!request
<1>1. T!Elapse /\ UNCHANGED <<hop, scheme, attempt, redirects, chain, phases, trace>>
  BY Zenon DEF Transport
<1>2. UNCHANGED mark \/ \E e \in T!Events : T!Mark(e)
  BY EventFacts, Zenon DEF Transport
<1>3. StageMoves
  BY DEF Transport, T!InFlight, StageMoves
<1>4. idle' \subseteq {"http", "https"}
  <2>1. idle' \subseteq idle \cup {scheme}
    BY DEF Transport
  <2> QED BY <2>1 DEF ChainInv, T!TypeOK
<1>5. reused' \in BOOLEAN
  <2>1. reused' = TRUE \/ reused' = FALSE \/ reused' = reused
    BY Zenon DEF Transport
  <2>2. reused \in BOOLEAN
    BY Zenon DEF ChainInv, T!TypeOK
  <2> QED BY <2>1, <2>2, Zenon
<1>6. /\ attempt' \in [T!Hops \X Attempts -> T!AttemptStates]
      /\ phases' \in [T!Phases -> {<<>>} \cup (Nat \X Nat)]
      /\ trace' \in {"nil", "error", "response"}
  BY <1>1 DEF ChainInv, T!TypeOK
<1> HIDE DEF T!GetConn, T!DNSDone, T!Dialled, T!TLSHandshakeDone, T!GotFirstResponseByte,
             T!ConnectionLost, T!FinalResponse, T!Timeout, T!Fails, T!request
<1> QED BY <1>1, <1>2, <1>3, <1>4, <1>5, <1>6, StepChainInv

LEMMA ConnectChainInv ==
  ASSUME ChainInv, NEW x \in T!Hops \X Attempts, T!Connect(x)
  PROVE  ChainInv'
<1>0. /\ idle \subseteq {"http", "https"} /\ reused \in BOOLEAN
      /\ attempt \in [T!Hops \X Attempts -> T!AttemptStates]
      /\ phases \in [T!Phases -> {<<>>} \cup (Nat \X Nat)]
      /\ trace \in {"nil", "error", "response"}
  BY DEF ChainInv, T!TypeOK
<1>1. UNCHANGED <<stage, hop, scheme, idle, reused, redirects, chain, phases, trace>> /\ T!Elapse
  BY DEF T!Connect, T!ConnectStart, T!SetConnStart, T!ConnectDone, T!SetConnDone, T!request
<1>2. UNCHANGED mark \/ \E e \in T!Events : mark' = [mark EXCEPT ![e] = clock]
  BY EventFacts DEF T!Connect, T!ConnectStart, T!SetConnStart, T!ConnectDone, T!SetConnDone
<1>3. \E from, to \in T!AttemptStates : T!Moves(x, from, to)
  <2>1. T!DoneHook["up"] = "upHook" /\ T!DoneHook["down"] = "downHook"
    BY DEF T!DoneHook
  <2> QED BY <2>1 DEF T!Connect, T!ConnectStart, T!SetConnStart, T!ConnectDone, T!SetConnDone, T!AttemptStates
<1>4. attempt' \in [T!Hops \X Attempts -> T!AttemptStates]
  BY <1>0, <1>3, AttemptType
<1> QED BY <1>0, <1>1, <1>2, <1>4, StepChainInv DEF StageMoves

LEMMA ReturnChainInv == ChainInv /\ (T!ReturnError \/ T!ReturnResponse) => ChainInv'
<1> SUFFICES ASSUME ChainInv, T!ReturnError \/ T!ReturnResponse PROVE ChainInv'
  OBVIOUS
<1>1. phases' \in [T!Phases -> {<<>>} \cup (Nat \X Nat)]
  BY SpanTypes DEF ChainInv, T!ReturnError, T!ReturnResponse
<1>2. trace' \in {"nil", "error", "response"} /\ stage' = "end" /\ T!Elapse
      /\ UNCHANGED <<hop, scheme, idle, reused, attempt, mark, redirects, chain>>
  BY DEF T!ReturnError, T!ReturnResponse, T!request
<1>3. /\ idle \subseteq {"http", "https"} /\ reused \in BOOLEAN
      /\ attempt \in [T!Hops \X Attempts -> T!AttemptStates]
  BY DEF ChainInv, T!TypeOK
<1> QED BY <1>1, <1>2, <1>3, StepChainInv DEF StageMoves

LEMMA RedirectChainInv == ChainInv /\ T!CheckRedirect => ChainInv'
<1> SUFFICES ASSUME ChainInv, T!CheckRedirect PROVE ChainInv'
  OBVIOUS
<1> DEFINE upTo(n) == [i \in 1..n |-> i]
<1>1. /\ hop \in 1..MaxRedirects /\ redirects = hop - 1
      /\ chain = IF redirects = 0 THEN <<>> ELSE upTo(redirects + 1)
  BY DEF ChainInv, T!TypeOK, T!ChainFaithful, T!CheckRedirect, T!Hops
<1>2. redirects' = hop /\ chain' = IF chain = <<>> THEN <<1, hop + 1>> ELSE Append(chain, hop + 1)
  BY DEF T!CheckRedirect
<1>3. \A n \in Nat : upTo(n) \in Seq(Nat) /\ Len(upTo(n)) = n
  OBVIOUS
<1>4. chain' = upTo(hop + 1)
  <2>1. CASE redirects = 0
    <3>1. chain' = <<1, 2>> /\ hop = 1
      BY <1>1, <1>2, <2>1, MaxRedirectsAssumption
    <3>2. <<1, 2>> \in Seq(Nat) /\ Len(<<1, 2>>) = 2 /\ \A i \in 1..2 : <<1, 2>>[i] = upTo(2)[i]
      OBVIOUS
    <3>3. upTo(2) \in Seq(Nat) /\ Len(upTo(2)) = 2
      BY <1>3
    <3> HIDE DEF upTo
    <3>4. <<1, 2>> = upTo(2)
      BY <3>2, <3>3, SeqEqual
    <3> QED BY <3>1, <3>4
  <2>2. CASE redirects # 0
    <3>1. hop \in Nat /\ hop + 1 \in Nat /\ redirects + 1 = hop /\ hop > 0
      BY <1>1, MaxRedirectsAssumption
    <3>2. chain = upTo(hop)
      BY <1>1, <2>2, <3>1
    <3>3. chain \in Seq(Nat) /\ Len(chain) = hop /\ \A i \in 1..hop : chain[i] = i
      BY <3>1, <3>2
    <3>4. chain # <<>>
      BY <3>1, <3>3, EmptySeq
    <3> DEFINE c == Append(chain, hop + 1)
    <3>5. /\ c \in Seq(Nat) /\ Len(c) = hop + 1
          /\ \A i \in 1..hop : c[i] = i
          /\ c[hop + 1] = hop + 1
      BY <3>1, <3>3, AppendProperties
    <3> HIDE DEF c
    <3>6. \A i \in 1..hop + 1 : c[i] = upTo(hop + 1)[i]
      BY <3>1, <3>5
    <3>7. upTo(hop + 1) \in Seq(Nat) /\ Len(upTo(hop + 1)) = hop + 1
      BY <1>3, <3>1
    <3> HIDE DEF upTo
    <3>8. c = upTo(hop + 1)
      BY <3>5, <3>6, <3>7, SeqEqual
    <3> QED BY <1>2, <3>4, <3>8 DEF c
  <2> QED BY <2>1, <2>2
<1>5. chain' \in Seq(1..MaxRedirects + 1)
  BY <1>1, <1>4, MaxRedirectsAssumption
<1>6. /\ hop' \in 1..MaxRedirects /\ scheme' \in {"http", "https"}
      /\ stage' \in {"get", "returned"}
      /\ redirects' = hop' - 1 \/ (redirects' = hop' /\ hop' = MaxRedirects /\ stage' = "returned")
  BY <1>1, <1>2, MaxRedirectsAssumption DEF T!CheckRedirect, ChainInv, T!TypeOK
<1>7. T!ChainFaithful'
  <2>1. redirects' # 0 /\ redirects' = hop
    BY <1>1, <1>2, MaxRedirectsAssumption
  <2>2. chain' = [i \in 1..redirects' + 1 |-> i]
    BY <1>4, <2>1
  <2> QED BY <1>6, <2>1, <2>2 DEF T!ChainFaithful
<1>8. clock' \in Nat \ {0} /\ mark' \in [T!Events -> 0..clock' - 1]
  BY MarkType DEF ChainInv, T!TypeOK, T!CheckRedirect
<1>9. T!TypeOK'
  <2>1. redirects' \in 0..MaxRedirects /\ hop' \in T!Hops
    BY <1>1, <1>2, <1>6, MaxRedirectsAssumption DEF T!Hops
  <2>2. UNCHANGED <<idle, reused, attempt, phases, trace>>
    BY DEF T!CheckRedirect
  <2> QED BY <1>5, <1>6, <1>8, <2>1, <2>2 DEF ChainInv, T!TypeOK
<1> QED BY <1>7, <1>9 DEF ChainInv

(* The state a transaction starts in, at the start and in every tick.      *)
Fresh ==
  /\ stage = "get" /\ hop = 1 /\ scheme \in Schemes /\ idle = {} /\ reused = FALSE
  /\ attempt = [x \in T!Hops \X Attempts |-> "unborn"]
  /\ clock = 1 /\ mark = [e \in T!Events |-> 0]
  /\ redirects = 0 /\ chain = <<>> /\ phases = [p \in T!Phases |-> <<>>] /\ trace = "nil"

LEMMA FreshChainInv == Fresh => ChainInv
<1> SUFFICES ASSUME Fresh PROVE ChainInv
  OBVIOUS
<1>1. chain \in Seq(1..MaxRedirects + 1) /\ attempt \in [T!Hops \X Attempts -> T!AttemptStates]
  BY DEF Fresh, T!AttemptStates
<1>2. reused \in BOOLEAN
  BY Zenon DEF Fresh
<1>3. T!TypeOK
  BY <1>1, <1>2, SchemesAssumption, MaxRedirectsAssumption DEF Fresh, T!TypeOK, T!Hops
<1>4. T!ChainFaithful
  BY DEF Fresh, T!ChainFaithful
<1> QED BY <1>3, <1>4 DEF ChainInv

LEMMA StutterChainInv == ChainInv /\ UNCHANGED transaction => ChainInv'
  BY DEF ChainInv, T!TypeOK, T!ChainFaithful, transaction

LEMMA FreshStarts ==
  /\ SessionInit => Fresh
  /\ TickEnds => Fresh'
  BY DEF SessionInit, T!Init, TickEnds, Fresh

(* The steps of a session that move its transaction.                       *)
LEMMA TransactionSteps ==
  [SessionNext]_<<vars, transaction>> =>
    \/ Transport \/ T!CheckRedirect \/ T!ReturnError \/ T!ReturnResponse
    \/ \E x \in T!Hops \X Attempts : T!Connect(x)
    \/ Fresh' \/ UNCHANGED transaction
  BY FreshStarts DEF SessionNext, Transact, T!Next, T!Ended, T!vars, transaction, Transport

LEMMA NextChainInv == ChainInv /\ [SessionNext]_<<vars, transaction>> => ChainInv'
<1>1. Fresh' => ChainInv'
  BY FreshChainInv, PTL
<1> QED BY <1>1, TransactionSteps, TransportChainInv, RedirectChainInv, ReturnChainInv, ConnectChainInv,
           StutterChainInv

LEMMA SessionChainInv == SessionSpec => []ChainInv
  BY FreshStarts, FreshChainInv, NextChainInv, PTL DEF SessionSpec

(* In every tick, whatever the servers answer and the network loses, the   *)
(* redirect chain that CheckRedirect collects names each URL once, in      *)
(* order.                                                                  *)
THEOREM ChainIsFaithful == SessionSpec => [](T!TypeOK /\ T!ChainFaithful)
  BY SessionChainInv, PTL DEF ChainInv

-------------------------------------------------------------------------------
(* The transaction: its phases.                                            *)
LEMMA MarkEffect ==
  ASSUME ChainInv, NEW e \in T!Events, T!Mark(e)
  PROVE  /\ mark'[e] = IF mark[e] = 0 THEN clock ELSE mark[e]
         /\ \A f \in T!Events : f # e => mark'[f] = mark[f]
  BY DEF ChainInv, T!TypeOK, T!Mark

LEMMA MarkNats ==
  ASSUME ChainInv
  PROVE  clock \in Nat /\ clock > 0 /\ \A e \in T!Events : mark[e] \in Nat /\ mark[e] < clock
  BY DEF ChainInv, T!TypeOK

(* The steps of the transport's own goroutine leave the connect goroutines *)
(* and the result alone.                                                   *)
LEMMA TransportFrame ==
  ASSUME ChainInv, PhaseInv, Transport
  PROVE  /\ UNCHANGED <<hop, scheme, attempt, phases, trace>> /\ Live /\ trace' = "nil"
         /\ T!Hedged' = T!Hedged
         /\ (\A x \in T!Hops \X Attempts : x[1] > hop => attempt[x] = "unborn")'
         /\ T!PhasesKeepApart'
<1>1. UNCHANGED <<hop, scheme, attempt, phases, trace>>
  BY Zenon DEF Transport, T!GetConn, T!DNSDone, T!Dialled, T!TLSHandshakeDone, T!GotFirstResponseByte,
     T!ConnectionLost, T!FinalResponse, T!Timeout, T!request
<1>2. Live
  BY DEF Live, Transport, T!GetConn, T!DNSDone, T!Dialled, T!TLSHandshakeDone, T!GotFirstResponseByte,
     T!ConnectionLost, T!FinalResponse, T!Timeout, T!InFlight
<1>3. trace = "nil"
  BY <1>2 DEF PhaseInv, Live
<1>4. T!Hedged' = T!Hedged
  BY <1>1 DEF T!Hedged, T!Hops
<1> QED BY <1>1, <1>2, <1>3, <1>4 DEF PhaseInv, T!PhasesKeepApart

LEMMA GetConnPhaseInv ==
  ASSUME ChainInv, PhaseInv, T!GetConn PROVE PhaseInv'
<1>1. clock \in Nat /\ clock > 0 /\ \A e \in T!Events : mark[e] \in Nat /\ mark[e] < clock
  BY MarkNats
<1>2. Transport
  BY DEF Transport
<1>3. Serial /\ (~T!Hedged => Unraced)
  BY <1>2, TransportFrame DEF PhaseInv
<1>4. /\ stage = "get" /\ UNCHANGED <<hop, idle, attempt>>
      /\ \/ /\ scheme \in idle /\ stage' = "wait" /\ reused' = TRUE
            /\ \A f \in T!Events : mark'[f] = mark[f]
         \/ /\ stage' = "dial" /\ reused' = FALSE
            /\ \A f \in T!Events : mark'[f] = mark[f]
         \/ /\ stage' = "resolve" /\ reused' = FALSE
            /\ mark'["dnsStart"] = IF mark["dnsStart"] = 0 THEN clock ELSE mark["dnsStart"]
            /\ \A f \in T!Events : f # "dnsStart" => mark'[f] = mark[f]
  BY MarkEffect, EventFacts DEF T!GetConn
<1>5. Serial'
  BY <1>1, <1>3, <1>4, EventFacts
     DEF Serial, LookupTimes, HandshakeTimes, ServerTimes, FirstRequest
<1>6. ~T!Hedged => Unraced'
  <2> SUFFICES ASSUME Unraced PROVE Unraced'
    BY <1>3
  <2>1. OneByOne'
    BY <1>1, <1>4, EventFacts DEF Unraced, OneByOne
  <2>2. ConnectTimes'
    BY <1>1, <1>3, <1>4, EventFacts DEF Unraced, ConnectTimes, Serial, FirstRequest, LookupTimes
  <2> QED BY <2>1, <2>2 DEF Unraced
<1> QED BY <1>2, <1>4, <1>5, <1>6, TransportFrame DEF PhaseInv

LEMMA DNSDonePhaseInv ==
  ASSUME ChainInv, PhaseInv, T!DNSDone PROVE PhaseInv'
<1>1. clock \in Nat /\ clock > 0 /\ \A e \in T!Events : mark[e] \in Nat /\ mark[e] < clock
  BY MarkNats
<1>2. Transport
  BY DEF Transport
<1>3. Serial /\ (~T!Hedged => Unraced)
  BY <1>2, TransportFrame DEF PhaseInv
<1>4. /\ stage = "resolve" /\ stage' \in {"dial", "failed"} /\ UNCHANGED <<hop, idle, reused, attempt>>
      /\ mark'["dnsDone"] = IF mark["dnsDone"] = 0 THEN clock ELSE mark["dnsDone"]
      /\ \A f \in T!Events : f # "dnsDone" => mark'[f] = mark[f]
  BY MarkEffect, EventFacts DEF T!DNSDone, T!Fails, T!request
<1>5. Live' => Serial'
  BY <1>1, <1>3, <1>4, EventFacts
     DEF Live, Serial, LookupTimes, HandshakeTimes, ServerTimes, FirstRequest
<1>6. Live' /\ ~T!Hedged => Unraced'
  <2> SUFFICES ASSUME Unraced, Live' PROVE Unraced'
    BY <1>3
  <2>1. OneByOne'
    BY <1>1, <1>4, EventFacts DEF Unraced, OneByOne, Live
  <2>2. ConnectTimes'
    BY <1>1, <1>3, <1>4, EventFacts DEF Unraced, ConnectTimes, Serial, FirstRequest, LookupTimes, Live
  <2> QED BY <2>1, <2>2 DEF Unraced
<1> QED BY <1>2, <1>4, <1>5, <1>6, TransportFrame DEF PhaseInv

LEMMA DialledPhaseInv ==
  ASSUME ChainInv, PhaseInv, T!Dialled PROVE PhaseInv'
<1>1. clock \in Nat /\ clock > 0 /\ \A e \in T!Events : mark[e] \in Nat /\ mark[e] < clock
  BY MarkNats
<1>2. Transport
  BY DEF Transport
<1>3. Serial /\ (~T!Hedged => Unraced)
  BY <1>2, TransportFrame DEF PhaseInv
<1>4. /\ stage = "dial" /\ UNCHANGED <<hop, idle, reused, attempt>>
      /\ \/ /\ stage' = "handshake" /\ \E a \in Attempts : attempt[<<hop, a>>] = "up"
            /\ mark'["tlsStart"] = IF mark["tlsStart"] = 0 THEN clock ELSE mark["tlsStart"]
            /\ \A f \in T!Events : f # "tlsStart" => mark'[f] = mark[f]
         \/ /\ stage' = "wait" /\ \E a \in Attempts : attempt[<<hop, a>>] = "up"
            /\ \A f \in T!Events : mark'[f] = mark[f]
         \/ stage' = "failed"
  BY MarkEffect, EventFacts DEF T!Dialled, T!Fails, T!request
<1>5. Live' => Serial'
  BY <1>1, <1>3, <1>4, EventFacts
     DEF Live, Serial, LookupTimes, HandshakeTimes, ServerTimes, FirstRequest
<1>6. Live' /\ ~T!Hedged => Unraced'
  <2> SUFFICES ASSUME Unraced, Live', ~T!Hedged PROVE Unraced'
    BY <1>3
  <2>1. hop \in T!Hops
    BY DEF ChainInv, T!TypeOK
  <2>2. PICK a \in Attempts : attempt[<<hop, a>>] = "up"
    BY <1>4 DEF Live
  <2>3. mark["connDone"] > 0
    BY <2>1, <2>2 DEF Unraced, OneByOne
  <2>4. \A y \in T!Hops \X Attempts : y[1] = hop => attempt[y] \in {"unborn", "up"}
    <3> SUFFICES ASSUME NEW y \in T!Hops \X Attempts, y[1] = hop PROVE attempt[y] \in {"unborn", "up"}
      OBVIOUS
    <3>1. y = <<hop, y[2]>> /\ y[2] \in Attempts
      OBVIOUS
    <3> QED BY <2>1, <2>2, <3>1 DEF T!Hedged
  <2>5. OneByOne'
    BY <1>1, <1>4, <2>4, EventFacts DEF Unraced, OneByOne, Live
  <2>6. ConnectTimes'
    BY <1>1, <1>3, <1>4, <2>3, EventFacts DEF Unraced, ConnectTimes, Live
  <2> QED BY <2>5, <2>6 DEF Unraced
<1> QED BY <1>2, <1>4, <1>5, <1>6, TransportFrame DEF PhaseInv

LEMMA TLSHandshakeDonePhaseInv ==
  ASSUME ChainInv, PhaseInv, T!TLSHandshakeDone PROVE PhaseInv'
<1>1. clock \in Nat /\ clock > 0 /\ \A e \in T!Events : mark[e] \in Nat /\ mark[e] < clock
  BY MarkNats
<1>2. Transport
  BY DEF Transport
<1>3. Serial /\ (~T!Hedged => Unraced)
  BY <1>2, TransportFrame DEF PhaseInv
<1>4. /\ stage = "handshake" /\ stage' \in {"wait", "failed"} /\ UNCHANGED <<hop, idle, reused, attempt>>
      /\ mark'["tlsDone"] = IF mark["tlsDone"] = 0 THEN clock ELSE mark["tlsDone"]
      /\ \A f \in T!Events : f # "tlsDone" => mark'[f] = mark[f]
  BY MarkEffect, EventFacts DEF T!TLSHandshakeDone, T!Fails, T!request
<1>5. Live' => Serial'
  BY <1>1, <1>3, <1>4, EventFacts
     DEF Live, Serial, LookupTimes, HandshakeTimes, ServerTimes, FirstRequest
<1>6. Live' /\ ~T!Hedged => Unraced'
  <2> SUFFICES ASSUME Unraced, Live' PROVE Unraced'
    BY <1>3
  <2>1. OneByOne'
    BY <1>1, <1>4, EventFacts DEF Unraced, OneByOne, Live
  <2>2. ConnectTimes'
    BY <1>1, <1>4, EventFacts DEF Unraced, ConnectTimes, Live
  <2> QED BY <2>1, <2>2 DEF Unraced
<1> QED BY <1>2, <1>4, <1>5, <1>6, TransportFrame DEF PhaseInv

LEMMA GotFirstResponseBytePhaseInv ==
  ASSUME ChainInv, PhaseInv, T!GotFirstResponseByte PROVE PhaseInv'
<1>1. clock \in Nat /\ clock > 0 /\ \A e \in T!Events : mark[e] \in Nat /\ mark[e] < clock
  BY MarkNats
<1>2. Transport
  BY DEF Transport
<1>3. Serial /\ (~T!Hedged => Unraced)
  BY <1>2, TransportFrame DEF PhaseInv
<1>4. /\ stage = "wait" /\ stage' = "answer" /\ UNCHANGED <<hop, reused, attempt>>
      /\ mark'["firstByte"] = IF mark["firstByte"] = 0 THEN clock ELSE mark["firstByte"]
      /\ \A f \in T!Events : f # "firstByte" => mark'[f] = mark[f]
  BY MarkEffect, EventFacts DEF T!GotFirstResponseByte
<1>5. Serial' /\ mark'["firstByte"] > 0
  BY <1>1, <1>3, <1>4, EventFacts
     DEF Serial, LookupTimes, HandshakeTimes, ServerTimes, FirstRequest
<1>6. ~T!Hedged => Unraced'
  <2> SUFFICES ASSUME Unraced PROVE Unraced'
    BY <1>3
  <2>1. OneByOne'
    BY <1>1, <1>4, EventFacts DEF Unraced, OneByOne
  <2>2. ConnectTimes'
    BY <1>1, <1>3, <1>4, EventFacts DEF Unraced, ConnectTimes, Serial, LookupTimes
  <2> QED BY <2>1, <2>2 DEF Unraced
<1> QED BY <1>2, <1>4, <1>5, <1>6, TransportFrame DEF PhaseInv

LEMMA RestPhaseInv ==
  ASSUME ChainInv, PhaseInv, T!ConnectionLost \/ T!FinalResponse \/ T!Timeout PROVE PhaseInv'
<1>1. clock \in Nat /\ clock > 0 /\ \A e \in T!Events : mark[e] \in Nat /\ mark[e] < clock
  BY MarkNats
<1>2. Transport
  BY DEF Transport
<1>3. Serial /\ (~T!Hedged => Unraced)
  BY <1>2, TransportFrame DEF PhaseInv
<1>4. /\ UNCHANGED <<hop, reused, attempt, mark>>
      /\ \/ stage = "wait" /\ stage' = "get" /\ reused
         \/ stage = "answer" /\ stage' = "returned"
         \/ stage' = "failed"
  BY DEF T!ConnectionLost, T!FinalResponse, T!Timeout, T!Fails, T!request
<1>5. Live' => Serial' /\ (stage' = "returned" => mark'["firstByte"] > 0) /\ stage' # "answer"
  <2>1. mark["firstByte"] > 0 \/ ~Live'
    BY <1>1, <1>3, <1>4, EventFacts DEF PhaseInv, Serial, FirstRequest, Live
  <2> QED BY <1>1, <1>3, <1>4, <2>1, EventFacts
      DEF Live, Serial, LookupTimes, HandshakeTimes, ServerTimes, FirstRequest
<1>6. Live' /\ ~T!Hedged => Unraced'
  <2> SUFFICES ASSUME Unraced, Live' PROVE Unraced'
    BY <1>3
  <2>1. \A a \in Attempts : (stage' = "get") => attempt[<<hop, a>>] = "unborn"
    BY <1>4 DEF Live, Unraced, OneByOne
  <2>2. OneByOne'
    BY <1>1, <1>4, <2>1, EventFacts DEF Unraced, OneByOne, Live
  <2>3. mark["firstByte"] > 0
    BY <1>1, <1>3, <1>4, EventFacts DEF PhaseInv, Serial, FirstRequest, Live
  <2>4. ConnectTimes'
    BY <1>1, <1>4, <2>3, EventFacts DEF Unraced, ConnectTimes, Live
  <2> QED BY <2>2, <2>4 DEF Unraced
<1> QED BY <1>2, <1>4, <1>5, <1>6, TransportFrame DEF PhaseInv, Live

LEMMA RedirectPhaseInv ==
  ASSUME ChainInv, PhaseInv, T!CheckRedirect PROVE PhaseInv'
<1>1. clock \in Nat /\ clock > 0 /\ \A e \in T!Events : mark[e] \in Nat /\ mark[e] < clock
  BY MarkNats
<1>2. /\ stage = "answer" /\ UNCHANGED <<idle, reused, attempt, mark, phases, trace>>
      /\ \/ stage' = "returned" /\ hop' = hop
         \/ stage' = "get" /\ hop' = hop + 1
  BY DEF T!CheckRedirect
<1>3. Live /\ hop \in Nat /\ mark["firstByte"] > 0 /\ trace' = "nil"
  BY <1>2 DEF Live, PhaseInv, ChainInv, T!TypeOK, T!Hops
<1>4. \A x \in T!Hops \X Attempts : x[1] > hop' => attempt'[x] = "unborn"
  <2> SUFFICES ASSUME NEW x \in T!Hops \X Attempts, x[1] > hop' PROVE attempt'[x] = "unborn"
    OBVIOUS
  <2>1. x[1] \in Nat
    BY DEF T!Hops
  <2> QED BY <1>2, <1>3, <2>1 DEF PhaseInv
<1>5. T!Hedged' = T!Hedged
  BY <1>2 DEF T!Hedged, T!Hops
<1>6. Serial'
  BY <1>1, <1>2, <1>3, EventFacts
     DEF PhaseInv, Live, Serial, LookupTimes, HandshakeTimes, ServerTimes, FirstRequest
<1>7. ~T!Hedged => Unraced'
  <2> SUFFICES ASSUME Unraced PROVE Unraced'
    BY <1>3 DEF PhaseInv
  <2>1. hop' \in T!Hops
    BY RedirectChainInv DEF ChainInv, T!TypeOK
  <2>2. \A a \in Attempts : (stage' = "get") => attempt'[<<hop', a>>] = "unborn"
    BY <1>2, <1>3, <2>1 DEF PhaseInv
  <2>3. \A a \in Attempts : reused' => attempt'[<<hop', a>>] = "unborn"
    BY <1>2, <2>2 DEF Unraced, OneByOne
  <2>4. OneByOne'
    BY <1>2, <2>2, <2>3 DEF Unraced, OneByOne
  <2>5. ConnectTimes'
    BY <1>1, <1>2, <1>3, EventFacts DEF Unraced, ConnectTimes
  <2> QED BY <2>4, <2>5 DEF Unraced
<1>8. T!PhasesKeepApart'
  BY <1>3 DEF T!PhasesKeepApart
<1> QED BY <1>2, <1>3, <1>4, <1>5, <1>6, <1>7, <1>8 DEF PhaseInv

LEMMA ConnectPhaseInv ==
  ASSUME ChainInv, PhaseInv, NEW x \in T!Hops \X Attempts, T!Connect(x)
  PROVE  PhaseInv'
<1>1. clock \in Nat /\ clock > 0 /\ \A e \in T!Events : mark[e] \in Nat /\ mark[e] < clock
  BY MarkNats
<1>2. UNCHANGED <<stage, hop, scheme, idle, reused, phases, trace>>
  BY DEF T!Connect, T!ConnectStart, T!SetConnStart, T!ConnectDone, T!SetConnDone, T!request
<1>3. attempt \in [T!Hops \X Attempts -> T!AttemptStates] /\ mark \in [T!Events -> Nat]
  BY <1>1 DEF ChainInv, T!TypeOK
<1>4. T!DoneHook["up"] = "upHook" /\ T!DoneHook["down"] = "downHook"
  BY DEF T!DoneHook
<1>5. /\ \/ /\ attempt[x] = "unborn" /\ x[1] = hop /\ stage = "dial" /\ mark' = mark
            /\ attempt'[x] = IF mark["connStart"] = 0 THEN "startHook" ELSE "dialling"
         \/ /\ attempt[x] = "startHook" /\ attempt'[x] = "dialling"
            /\ mark' = [mark EXCEPT !["connStart"] = clock]
         \/ /\ attempt[x] = "dialling" /\ mark' = mark
            /\ attempt'[x] \in IF mark["connDone"] = 0 THEN {"upHook", "downHook"} ELSE {"up", "down"}
         \/ /\ attempt[x] \in {"upHook", "downHook"} /\ attempt'[x] \in {"up", "down"}
            /\ mark' = [mark EXCEPT !["connDone"] = clock]
      /\ \A y \in T!Hops \X Attempts : y # x => attempt'[y] = attempt[y]
  BY <1>3, <1>4 DEF T!Connect, T!ConnectStart, T!SetConnStart, T!ConnectDone, T!SetConnDone, T!Moves
<1>6. \A f \in T!Events : f \notin {"connStart", "connDone"} => mark'[f] = mark[f]
  BY <1>3, <1>5, EventFacts
<1>7. \A y \in T!Hops \X Attempts : attempt'[y] = "unborn" => attempt[y] = "unborn"
  BY <1>3, <1>5
<1>8. T!Hedged => T!Hedged'
  BY <1>7 DEF T!Hedged
<1>9. \A y \in T!Hops \X Attempts : y[1] > hop' => attempt'[y] = "unborn"
  <2>1. hop \in Nat
    BY DEF ChainInv, T!TypeOK, T!Hops
  <2>2. ~(x[1] > hop)
    BY <1>5, <2>1 DEF PhaseInv
  <2> QED BY <1>2, <1>5, <2>2 DEF PhaseInv
<1>10. T!PhasesKeepApart'
  <2>1. T!Upgraded' = T!Upgraded /\ mark'["tlsDone"] = mark["tlsDone"]
    BY <1>6, EventFacts DEF T!Upgraded
  <2>2. \A P : T!Apart(P)' = T!Apart(P)
    BY <1>2 DEF T!Apart
  <2> QED BY <1>2, <1>8, <2>1, <2>2 DEF PhaseInv, T!PhasesKeepApart
<1>11. Live' => Serial'
  <2> SUFFICES ASSUME Live PROVE Serial'
    BY <1>2 DEF Live
  <2>1. Serial
    BY DEF PhaseInv
  <2> QED BY <1>2, <1>6, <2>1, EventFacts
      DEF Serial, LookupTimes, HandshakeTimes, ServerTimes, FirstRequest
<1>12. Live' /\ ~T!Hedged' => Unraced'
  <2> SUFFICES ASSUME Live, ~T!Hedged' PROVE Unraced'
    BY <1>2 DEF Live
  <2>1. Unraced /\ Serial
    BY <1>8 DEF PhaseInv
  <2>2. stage = "dial" /\ x[1] = hop
    BY <1>5, <2>1 DEF Unraced, OneByOne
  <2>3. \A y \in T!Hops \X Attempts : y # x => attempt'[y] = attempt[y] /\ attempt[y] \in {"unborn", "up"}
    <3> SUFFICES ASSUME NEW y \in T!Hops \X Attempts, y # x PROVE attempt[y] \in {"unborn", "up"}
      BY <1>5
    <3>1. CASE y[1] # hop
      BY <2>1, <3>1 DEF Unraced, OneByOne
    <3>2. CASE y[1] = hop
      <4>1. x = <<hop, x[2]>> /\ y = <<hop, y[2]>> /\ x[2] # y[2] /\ hop \in T!Hops
            /\ x[2] \in Attempts /\ y[2] \in Attempts
        BY <2>2, <3>2
      <4>2. attempt'[x] # "unborn"
        BY <1>5
      <4>3. attempt'[y] = "unborn"
        BY <4>1, <4>2 DEF T!Hedged
      <4> QED BY <1>5, <4>3
    <3> QED BY <3>1, <3>2
  <2>4. OneByOne'
    <3>1. /\ attempt'[x] = "startHook" => mark'["connStart"] = 0 /\ mark'["connDone"] = 0
          /\ attempt'[x] \in {"upHook", "downHook"} => mark'["connStart"] > 0 /\ mark'["connDone"] = 0
          /\ attempt'[x] = "dialling" => mark'["connStart"] > 0
          /\ attempt'[x] \in {"up", "down"} => mark'["connDone"] > 0
      BY <1>1, <1>3, <1>5, <2>1, EventFacts DEF Unraced, OneByOne, ConnectTimes
    <3>2. \A y \in T!Hops \X Attempts : y # x /\ attempt'[y] = "up" => mark'["connDone"] > 0
      BY <1>1, <1>3, <1>5, <2>1, <2>3, EventFacts DEF Unraced, OneByOne
    <3>3. ~reused /\ ~reused'
      BY <1>2, <2>1, <2>2 DEF Unraced, OneByOne
    <3>4. \A y \in T!Hops \X Attempts : y[1] # hop => attempt'[y] \in {"unborn", "up"}
      BY <2>2, <2>3
    <3>5. \A y \in T!Hops \X Attempts :
            /\ attempt'[y] = "startHook" => mark'["connStart"] = 0 /\ mark'["connDone"] = 0
            /\ attempt'[y] \in {"upHook", "downHook"} => mark'["connStart"] > 0 /\ mark'["connDone"] = 0
            /\ attempt'[y] = "dialling" => mark'["connStart"] > 0
            /\ attempt'[y] \in {"up", "down"} => mark'["connDone"] > 0
      BY <2>3, <3>1, <3>2
    <3> QED BY <1>2, <2>2, <3>3, <3>4, <3>5 DEF OneByOne
  <2>5. ConnectTimes'
    BY <1>1, <1>2, <1>3, <1>5, <1>6, <2>1, <2>2, EventFacts
       DEF Unraced, OneByOne, ConnectTimes, Serial, LookupTimes, FirstRequest
  <2> QED BY <2>4, <2>5 DEF Unraced
<1> QED BY <1>2, <1>6, <1>9, <1>10, <1>11, <1>12, EventFacts DEF PhaseInv

(* The phases of a response are intervals between timestamps that the      *)
(* invariant has put in order; only those of the connect hooks can be torn *)
(* by a hook that is still running.                                        *)
LEMMA OrderedPhases ==
  ASSUME ChainInv, PhaseInv, T!ReturnResponse
  PROVE  T!PhasesKeepApart'
<1>1. clock \in Nat /\ \A e \in T!Events : mark[e] \in Nat
  BY MarkNats
<1>2. stage = "returned" /\ Live /\ UNCHANGED <<mark, attempt>>
  BY DEF T!ReturnResponse, Live, T!request
<1>3. Serial /\ mark["firstByte"] > 0
  BY <1>2 DEF PhaseInv
<1>4. phases' = T!Spans \/ (T!InHook /\ phases' = T!Torn(T!Hooked))
  BY DEF T!ReturnResponse
<1>5. /\ phases'["DNS"] = T!Spans["DNS"] /\ phases'["TLS"] = T!Spans["TLS"]
      /\ mark["tlsDone"] > 0 => phases'["Server"] = T!Spans["Server"]
  BY <1>1, <1>4, EventFacts DEF T!Torn, T!Hooked, T!Phases
<1>6. /\ T!Spans["DNS"] = T!Span("dnsStart", "dnsDone") /\ T!Spans["TLS"] = T!Span("tlsStart", "tlsDone")
      /\ T!Spans["TCP"] = T!Span("connStart", "connDone") /\ T!Spans["Server"] = T!ServerSpan
  BY DEF T!Spans
<1>7. /\ mark["dnsStart"] > 0 => mark["dnsStart"] < mark["dnsDone"]
      /\ mark["tlsStart"] > 0 => mark["tlsStart"] < mark["tlsDone"]
      /\ mark["dnsDone"] > 0 => mark["dnsStart"] > 0
      /\ mark["tlsDone"] > 0 => mark["tlsStart"] > 0
  BY <1>1, <1>2, <1>3, EventFacts DEF Serial, LookupTimes, HandshakeTimes
<1>8. T!Apart({"DNS", "TLS"})'
  BY <1>1, <1>3, <1>5, <1>6, <1>7, EventFacts DEF T!Apart, T!Span, Serial, ServerTimes
<1>9. ASSUME ~T!Upgraded', mark'["tlsDone"] > 0 PROVE T!Apart({"DNS", "TLS", "Server"})'
  <2>1. mark["tlsDone"] > 0 /\ mark["tlsStart"] > 0 /\ mark["tlsDone"] < mark["firstByte"]
    BY <1>1, <1>2, <1>3, <1>7, <1>9, EventFacts DEF T!Upgraded, Serial, ServerTimes
  <2>2. phases'["Server"] = <<mark["tlsDone"], mark["firstByte"]>>
    BY <1>1, <1>3, <1>5, <1>6, <2>1, EventFacts DEF T!ServerSpan, T!Span
  <2>3. phases'["TLS"] = <<mark["tlsStart"], mark["tlsDone"]>> /\ mark["tlsStart"] < mark["tlsDone"]
    BY <1>1, <1>5, <1>6, <1>7, <2>1, EventFacts DEF T!Span
  <2>4. \/ phases'["DNS"] = <<>>
        \/ /\ phases'["DNS"] = <<mark["dnsStart"], mark["dnsDone"]>> /\ mark["dnsStart"] < mark["dnsDone"]
           /\ mark["dnsDone"] < mark["tlsStart"] \/ mark["firstByte"] < mark["dnsStart"]
    BY <1>1, <1>3, <1>5, <1>6, <1>7, <2>1, EventFacts DEF T!Span, Serial, ServerTimes
  <2> QED BY <1>1, <2>1, <2>2, <2>3, <2>4, EventFacts DEF T!Apart
<1>10. ASSUME ~T!Upgraded', ~T!Hedged' PROVE T!Apart(T!Phases)'
  <2>1. ~T!Hedged
    BY <1>2, <1>10 DEF T!Hedged, T!Hops
  <2>2. Unraced
    BY <1>2, <2>1 DEF PhaseInv
  <2>3. ~T!InHook
    <3>1. \A y \in T!Hops \X Attempts : attempt[y] \in {"unborn", "up"}
      BY <1>2, <2>2 DEF Unraced, OneByOne
    <3> QED BY <3>1 DEF T!InHook
  <2>4. phases' = T!Spans
    BY <1>4, <2>3
  <2>5. /\ 0 < mark["connStart"] /\ mark["connStart"] < mark["connDone"] /\ mark["connDone"] < mark["firstByte"]
        /\ mark["tlsStart"] > 0 => mark["connDone"] < mark["tlsStart"]
        /\ mark["dnsStart"] > 0 => mark["dnsDone"] < mark["connStart"] \/ mark["firstByte"] < mark["dnsStart"]
    BY <1>1, <1>3, <2>2, EventFacts DEF Unraced, ConnectTimes
  <2>6. phases'["TCP"] = <<mark["connStart"], mark["connDone"]>>
    BY <1>1, <1>6, <2>4, <2>5, EventFacts DEF T!Span
  <2>7. CASE mark["tlsDone"] > 0
    <3>1. mark["tlsStart"] > 0 /\ mark["tlsDone"] < mark["firstByte"]
      BY <1>1, <1>2, <1>3, <1>7, <1>10, <2>7, EventFacts DEF T!Upgraded, Serial, ServerTimes
    <3>2. phases'["Server"] = <<mark["tlsDone"], mark["firstByte"]>>
      BY <1>1, <1>3, <1>6, <2>4, <2>7, <3>1, EventFacts DEF T!ServerSpan, T!Span
    <3>3. phases'["TLS"] = <<mark["tlsStart"], mark["tlsDone"]>> /\ mark["tlsStart"] < mark["tlsDone"]
      BY <1>1, <1>5, <1>6, <1>7, <2>7, <3>1, EventFacts DEF T!Span
    <3>4. \/ phases'["DNS"] = <<>>
          \/ /\ phases'["DNS"] = <<mark["dnsStart"], mark["dnsDone"]>> /\ mark["dnsStart"] < mark["dnsDone"]
             /\ mark["dnsDone"] < mark["connStart"] \/ mark["firstByte"] < mark["dnsStart"]
      BY <1>1, <1>5, <1>6, <1>7, <2>5, EventFacts DEF T!Span
    <3> QED BY <1>1, <2>5, <2>6, <3>1, <3>2, <3>3, <3>4, EventFacts DEF T!Apart, T!Phases
  <2>8. CASE mark["tlsDone"] = 0
    <3>1. phases'["Server"] = <<mark["connDone"], mark["firstByte"]>>
      BY <1>1, <1>3, <1>6, <2>4, <2>5, <2>8, EventFacts DEF T!ServerSpan, T!Span
    <3>2. phases'["TLS"] = <<>>
      BY <1>6, <2>4, <2>8 DEF T!Span
    <3> QED BY <1>1, <1>3, <1>5, <1>6, <1>7, <2>5, <2>6, <3>1, <3>2, EventFacts
            DEF T!Apart, T!Span, T!Phases
  <2> QED BY <1>1, <2>7, <2>8, EventFacts
<1> QED BY <1>8, <1>9, <1>10 DEF T!PhasesKeepApart

LEMMA ReturnPhaseInv ==
  ASSUME ChainInv, PhaseInv, T!ReturnError \/ T!ReturnResponse PROVE PhaseInv'
<1>1. UNCHANGED <<hop, attempt>> /\ stage' = "end"
  BY DEF T!ReturnError, T!ReturnResponse, T!request
<1>2. T!PhasesKeepApart'
  <2>1. CASE T!ReturnError
    BY <2>1 DEF T!ReturnError, T!PhasesKeepApart
  <2> QED BY <2>1, OrderedPhases
<1> QED BY <1>1, <1>2 DEF PhaseInv, Live

LEMMA FreshPhaseInv == Fresh => PhaseInv
<1> SUFFICES ASSUME Fresh PROVE PhaseInv
  OBVIOUS
<1>1. \A e \in T!Events : mark[e] = 0
  BY DEF Fresh
<1>2. \A y \in T!Hops \X Attempts : attempt[y] = "unborn"
  BY DEF Fresh
<1>3. Serial
  BY <1>1, EventFacts DEF Fresh, Serial, LookupTimes, HandshakeTimes, ServerTimes, FirstRequest
<1>4. Unraced
  BY <1>1, <1>2, EventFacts, MaxRedirectsAssumption DEF Fresh, Unraced, OneByOne, ConnectTimes, T!Hops
<1> QED BY <1>2, <1>3, <1>4 DEF Fresh, PhaseInv, T!PhasesKeepApart

LEMMA RestartPhaseInv == Fresh' => PhaseInv'
  BY FreshPhaseInv, PTL

LEMMA StutterPhaseInv == PhaseInv /\ UNCHANGED transaction => PhaseInv'
<1> SUFFICES ASSUME PhaseInv, UNCHANGED transaction PROVE PhaseInv'
  OBVIOUS
<1> USE DEF transaction
<1>1. Serial' = Serial
  BY DEF Serial, LookupTimes, HandshakeTimes, ServerTimes, FirstRequest
<1>2. Unraced' = Unraced
  BY DEF Unraced, OneByOne, ConnectTimes
<1>3. T!Hedged' = T!Hedged /\ Live' = Live
  BY DEF T!Hedged, Live, T!Hops
<1>4. T!PhasesKeepApart' = T!PhasesKeepApart
  BY DEF T!PhasesKeepApart, T!Apart, T!Upgraded, T!Hedged, T!Hops, T!Phases
<1> QED BY <1>1, <1>2, <1>3, <1>4 DEF PhaseInv

LEMMA NextPhaseInv ==
  ChainInv /\ PhaseInv /\ [SessionNext]_<<vars, transaction>> => PhaseInv'
<1> SUFFICES ASSUME ChainInv, PhaseInv, [SessionNext]_<<vars, transaction>> PROVE PhaseInv'
  OBVIOUS
<1>1. Fresh' => PhaseInv'
  BY RestartPhaseInv
<1>2. Transport => PhaseInv'
  BY GetConnPhaseInv, DNSDonePhaseInv, DialledPhaseInv, TLSHandshakeDonePhaseInv,
     GotFirstResponseBytePhaseInv, RestPhaseInv DEF Transport
<1> QED BY <1>1, <1>2, TransactionSteps, RedirectPhaseInv, ReturnPhaseInv, ConnectPhaseInv, StutterPhaseInv

LEMMA SessionTransaction == SessionSpec => [](ChainInv /\ PhaseInv)
<1>1. SessionInit => ChainInv /\ PhaseInv
  BY FreshStarts, FreshChainInv, FreshPhaseInv
<1>2. ChainInv /\ PhaseInv /\ [SessionNext]_<<vars, transaction>> => (ChainInv /\ PhaseInv)'
  BY NextChainInv, NextPhaseInv
<1> QED BY <1>1, <1>2, PTL DEF SessionSpec

(* In every tick, whichever scheme the target has, however many connect    *)
(* goroutines its dials have and wherever it redirects: the chain is the   *)
(* list of URLs, and the phases keep apart as far as PhasesKeepApart says. *)
THEOREM TransactionIsFaithful == SessionSpec => []T!TransactionFaithful
<1>1. ChainInv /\ PhaseInv => T!TransactionFaithful
  BY DEF T!TransactionFaithful, ChainInv, PhaseInv
<1> QED BY <1>1, SessionTransaction, PTL

(* At every step of every transaction of every tick the rings, the cursor, *)
(* the phases and the redirect chain are what the report says.             *)
THEOREM SessionIsSafe == SessionSpec => []SessionSafe
<1>1. WatchInv /\ ChainInv /\ PhaseInv => SessionSafe
  BY WatchInvSafe DEF SessionSafe, T!TransactionFaithful, ChainInv, PhaseInv
<1> QED BY <1>1, SessionWatchInv, SessionTransaction, PTL
===============================================================================
