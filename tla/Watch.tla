--------------------------------- MODULE Watch ---------------------------------
(***************************************************************************)
(* --watch: runWatch re-runs the diagnosis until Ctrl+C, keeps the last    *)
(* maxSparkSamples readings of each metric in a ring, and leaves the       *)
(* terminal's cursor as it found it.  The signal may arrive at any moment, *)
(* during the checks or just as the timer of the tick fires.               *)
(***************************************************************************)
EXTENDS Integers, Sequences

CONSTANTS Metrics,          \* latency, ttfb and throughput, or some of them
          MaxSamples,       \* maxSparkSamples
          Readings,         \* what a report may say of a metric; none if not positive
          MaxReadings,      \* the readings of a metric in one run (bound)
          Options           \* the flags that configureDiagnosis writes to the diagnosis

ASSUME MaxSamplesAssumption == MaxSamples \in Nat \ {0}
ASSUME ReadingsAssumption == Readings \subseteq Int
ASSUME MaxReadingsAssumption == MaxReadings \in Nat

VARIABLES
  pc,         \* "start", "hide", "tick", "draw", "select", "exited" or "killed"
  given,      \* the options of the user, on the diagnosis of main
  used,       \* the options on the diagnosis of the current tick
  sigCh,      \* the signals buffered in the channel
  asked,      \* Ctrl+C was pressed while the handler was installed
  timer,      \* the timer of the tick: "off", "armed" or "fired"
  cursor,     \* "shown" or "hidden"
  ring,       \* [Metrics -> the ring of readings]
  log         \* [Metrics -> every reading recorded so far]

vars == <<pc, given, used, sigCh, asked, timer, cursor, ring, log>>

Init ==
  /\ pc = "start"
  /\ given \in SUBSET Options /\ used = {}
  /\ sigCh = 0 /\ asked = FALSE
  /\ timer = "off"
  /\ cursor = "shown"
  /\ ring = [m \in Metrics |-> <<>>]
  /\ log = [m \in Metrics |-> <<>>]

-------------------------------------------------------------------------------
(* Mutant: the cursor is hidden before the handler is installed.           *)
MutNotify ==
  /\ pc = "start"
  /\ cursor' = "hidden"
  /\ pc' \in {"start", "hide"}
  /\ UNCHANGED <<given, used, sigCh, asked, timer, ring, log>>

(* signal.Notify, then the cursor is hidden.                               *)
Notify ==
  /\ pc = "start"
  /\ pc' = "hide"
  /\ UNCHANGED <<given, used, sigCh, asked, timer, cursor, ring, log>>

Hide ==
  /\ pc = "hide"
  /\ cursor' = "hidden"
  /\ pc' = "tick"
  /\ UNCHANGED <<given, used, sigCh, asked, timer, ring, log>>

(* The fields that freshD takes over besides host, port, scheme, timeout.  *)
CopiedOptions == {"dns", "ports"}

(* Mutant: an entry too many stays in the ring.                            *)
MutAppendRing(xs, v, maxLen) ==
  LET ys == Append(xs, v)
  IN  IF Len(ys) > maxLen + 1 THEN SubSeq(ys, Len(ys) - maxLen, Len(ys)) ELSE ys

(* Mutant: the oldest entries are kept.                                    *)
MutKeepOldest(xs, v, maxLen) == IF Len(xs) < maxLen THEN Append(xs, v) ELSE xs

AppendRing(xs, v, maxLen) ==
  LET ys == Append(xs, v)
  IN  IF Len(ys) > maxLen THEN SubSeq(ys, Len(ys) - maxLen + 1, Len(ys)) ELSE ys

(* What a tick's report may say, within the bound on readings.             *)
Reports == {r \in [Metrics -> Readings \cup {0}] :
              \A m \in Metrics : Len(log[m]) >= MaxReadings => r[m] <= 0}

(* The end of runAllChecks on a fresh diagnosis, with the report r, and    *)
(* state.record: only a positive reading is kept.                          *)
Record(r) ==
  /\ pc = "tick"
  /\ used' = given \cap CopiedOptions
  /\ ring' = [m \in Metrics |-> IF r[m] > 0 THEN AppendRing(ring[m], r[m], MaxSamples)
                                            ELSE ring[m]]
  /\ log' = [m \in Metrics |-> IF r[m] > 0 THEN Append(log[m], r[m]) ELSE log[m]]
  /\ pc' = "draw"
  /\ UNCHANGED <<given, sigCh, asked, timer, cursor>>

Tick == \E r \in Reports : Record(r)

(* The redraw, and time.After for what is left of the interval.            *)
Draw ==
  /\ pc = "draw"
  /\ timer' = "armed"
  /\ pc' = "select"
  /\ UNCHANGED <<given, used, sigCh, asked, cursor, ring, log>>

TimerFires ==
  /\ pc = "select" /\ timer = "armed"
  /\ timer' = "fired"
  /\ UNCHANGED <<pc, given, used, sigCh, asked, cursor, ring, log>>

(* Mutant: the channel has no buffer, so that a signal is lost unless the  *)
(* loop waits for it.                                                      *)
MutInterrupt ==
  /\ pc \notin {"start", "exited", "killed"}
  /\ asked' = TRUE
  /\ sigCh' = IF pc = "select" THEN 1 ELSE sigCh
  /\ UNCHANGED <<pc, given, used, timer, cursor, ring, log>>

(* Ctrl+C.  os/signal drops what does not fit into the channel; before     *)
(* Notify the process just dies.                                           *)
Interrupt ==
  /\ pc \notin {"exited", "killed"}
  /\ IF pc = "start"
     THEN pc' = "killed" /\ UNCHANGED <<sigCh, asked>>
     ELSE asked' = TRUE /\ sigCh' = 1 /\ UNCHANGED pc
  /\ UNCHANGED <<given, used, timer, cursor, ring, log>>

SelectSignal ==
  /\ pc = "select" /\ sigCh > 0
  /\ sigCh' = 0
  /\ cursor' = "shown"
  /\ pc' = "exited"
  /\ UNCHANGED <<given, used, asked, timer, ring, log>>

SelectTimer ==
  /\ pc = "select" /\ timer = "fired"
  /\ timer' = "off"
  /\ pc' = "tick"
  /\ UNCHANGED <<given, used, sigCh, asked, cursor, ring, log>>

Loop == Notify \/ Hide \/ Tick \/ Draw \/ TimerFires \/ SelectTimer

Ended == pc \in {"exited", "killed"}

Next == Loop \/ Interrupt \/ SelectSignal \/ (Ended /\ UNCHANGED vars)

(* The loop and the timer go on.  When both cases of the select are ready  *)
(* Go picks one at random, so that the signal is not passed over for ever: *)
(* strong fairness.  Nothing is assumed of the user.                       *)
Spec == Init /\ [][Next]_vars /\ WF_vars(Loop) /\ SF_vars(SelectSignal)

-------------------------------------------------------------------------------
Positive == {r \in Readings : r > 0}

(* The loop, the channel and the rings keep their types; a ring has at     *)
(* most MaxSamples entries.                                                *)
TypeOK ==
  /\ pc \in {"start", "hide", "tick", "draw", "select", "exited", "killed"}
  /\ given \subseteq Options /\ used \subseteq Options
  /\ sigCh \in 0..1 /\ asked \in BOOLEAN
  /\ timer \in {"off", "armed", "fired"}
  /\ cursor \in {"shown", "hidden"}
  /\ ring \in [Metrics -> Seq(Positive)] /\ log \in [Metrics -> Seq(Positive)]
  /\ \A m \in Metrics : Len(ring[m]) <= MaxSamples

(* The sparkline of a metric shows its most recent readings, in order and  *)
(* without a gap, however many readings came before.                       *)
RingIsRecent ==
  \A m \in Metrics :
    LET k == IF Len(log[m]) > MaxSamples THEN MaxSamples ELSE Len(log[m])
    IN  ring[m] = SubSeq(log[m], Len(log[m]) - k + 1, Len(log[m]))

(* However it ends, the process leaves the terminal with a cursor.         *)
CursorRestored == Ended => cursor = "shown"

(* What a user of --watch sees: the latest readings while the loop runs,   *)
(* and a working terminal once it has ended.                               *)
WatchSafe == TypeOK /\ RingIsRecent /\ CursorRestored

(* Ctrl+C ends the loop, even when it is pressed during the checks or at   *)
(* the moment the timer fires.                                             *)
InterruptObeyed == asked ~> pc = "exited"
===============================================================================
