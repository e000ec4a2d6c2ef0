--------------------------------- MODULE Batch ---------------------------------
(***************************************************************************)
(* runBatch: the main goroutine starts one worker goroutine per target,    *)
(* throttled by the buffered channel sem, joins them with the WaitGroup    *)
(* wg, then appends the reports to the history file and prints them in     *)
(* input order.  The workers write their own cells of the shared results   *)
(* slice without a lock; only wg orders those writes before main's reads.  *)
(***************************************************************************)
EXTENDS Integers, Sequences, FiniteSets

CONSTANTS N,              \* the number of targets
          Concurrency,    \* --concurrency as given
          DefaultSlots    \* what replaces it when it is not positive: 8

ASSUME NAssumption == N \in Nat \ {0}
ASSUME ConcurrencyAssumption == Concurrency \in Int
ASSUME DefaultSlotsAssumption == DefaultSlots \in Nat \ {0}

Targets == 1..N

(* Mutant: --concurrency is taken as given.                                *)
MutSlots == Concurrency

Slots == IF Concurrency <= 0 THEN DefaultSlots ELSE Concurrency

VARIABLES
  noHistory,    \* --no-history
  main,         \* where the main goroutine is
  row,          \* the index its current loop is at
  wg,           \* the counter of the WaitGroup
  sem,          \* the number of tokens in the channel
  worker,       \* [Targets -> where the worker goroutine is]
  results,      \* [Targets -> the cell of the results slice]
  history,      \* the indices appended to the history file
  printed,      \* the indices printed
  unhealthy     \* the count runBatch returns

batchVars == <<noHistory, main, row, wg, sem, worker, results, history, printed, unhealthy>>

Verdicts == {"error", "healthy", "problems"}

BatchInit ==
  /\ noHistory \in BOOLEAN
  /\ main = "add" /\ row = 1
  /\ wg = 0 /\ sem = 0
  /\ worker = [i \in Targets |-> "unborn"]
  /\ results = [i \in Targets |-> "zero"]
  /\ history = <<>> /\ printed = <<>>
  /\ unhealthy = 0

-------------------------------------------------------------------------------
(***************************************************************************)
(* The main goroutine's first loop: wg.Add(1); sem <- token; go worker.    *)
(***************************************************************************)
(* Mutant: the WaitGroup is incremented by the worker itself, too late.    *)
MutAdd ==
  /\ main = "add" /\ row \in Targets
  /\ main' = "spawn"
  /\ UNCHANGED <<noHistory, row, wg, sem, worker, results, history, printed, unhealthy>>

Add ==
  /\ main = "add" /\ row \in Targets
  /\ wg' = wg + 1
  /\ main' = "spawn"
  /\ UNCHANGED <<noHistory, row, sem, worker, results, history, printed, unhealthy>>

(* Mutant: the send blocks one token too late.                             *)
MutSpawn ==
  /\ main = "spawn"
  /\ sem <= Slots
  /\ sem' = sem + 1
  /\ worker' = [worker EXCEPT ![row] = "scanning"]
  /\ row' = row + 1
  /\ main' = "add"
  /\ UNCHANGED <<noHistory, wg, results, history, printed, unhealthy>>

Spawn ==
  /\ main = "spawn"
  /\ sem < Slots
  /\ sem' = sem + 1
  /\ worker' = [worker EXCEPT ![row] = "scanning"]
  /\ row' = row + 1
  /\ main' = "add"
  /\ UNCHANGED <<noHistory, wg, results, history, printed, unhealthy>>

EndSpawning ==
  /\ main = "add" /\ row \notin Targets
  /\ main' = "wait"
  /\ UNCHANGED <<noHistory, row, wg, sem, worker, results, history, printed, unhealthy>>

-------------------------------------------------------------------------------
(***************************************************************************)
(* A worker: parseTarget may refuse the target; otherwise runAllChecks     *)
(* ends in a report.  Either way one cell of results is written, then the  *)
(* deferred calls run in reverse order: the token first, wg.Done last.     *)
(***************************************************************************)
Store(i) ==
  /\ worker[i] = "scanning"
  /\ \E v \in Verdicts : results' = [results EXCEPT ![i] = v]
  /\ worker' = [worker EXCEPT ![i] = "release"]
  /\ UNCHANGED <<noHistory, main, row, wg, sem, history, printed, unhealthy>>

(* Mutant: the early return on a bad target loses its slot.                *)
MutRelease(i) ==
  /\ worker[i] = "release"
  /\ sem' = IF results[i] = "error" THEN sem ELSE sem - 1
  /\ worker' = [worker EXCEPT ![i] = "done"]
  /\ UNCHANGED <<noHistory, main, row, wg, results, history, printed, unhealthy>>

Release(i) ==
  /\ worker[i] = "release"
  /\ sem > 0
  /\ sem' = sem - 1
  /\ worker' = [worker EXCEPT ![i] = "done"]
  /\ UNCHANGED <<noHistory, main, row, wg, results, history, printed, unhealthy>>

WgDone(i) ==
  /\ worker[i] = "done"
  /\ wg' = wg - 1
  /\ worker' = [worker EXCEPT ![i] = "gone"]
  /\ UNCHANGED <<noHistory, main, row, sem, results, history, printed, unhealthy>>

-------------------------------------------------------------------------------
(* Mutant: the join is forgotten.                                          *)
MutWait ==
  /\ main = "wait"
  /\ main' = IF noHistory THEN "print" ELSE "history"
  /\ row' = 1
  /\ UNCHANGED <<noHistory, wg, sem, worker, results, history, printed, unhealthy>>

Wait ==
  /\ main = "wait" /\ wg = 0
  /\ main' = IF noHistory THEN "print" ELSE "history"
  /\ row' = 1
  /\ UNCHANGED <<noHistory, wg, sem, worker, results, history, printed, unhealthy>>

(* Mutant: the error of a target does not keep it out of the history.      *)
MutAppendHistory ==
  /\ main = "history" /\ row \in Targets
  /\ history' \in {history, Append(history, row)}
  /\ row' = row + 1
  /\ UNCHANGED <<noHistory, main, wg, sem, worker, results, printed, unhealthy>>

(* appendHistory may fail; its error is dropped.                           *)
AppendHistory ==
  /\ main = "history" /\ row \in Targets
  /\ history' \in IF results[row] = "error" THEN {history}
                  ELSE {history, Append(history, row)}
  /\ row' = row + 1
  /\ UNCHANGED <<noHistory, main, wg, sem, worker, results, printed, unhealthy>>

EndHistory ==
  /\ main = "history" /\ row \notin Targets
  /\ main' = "print" /\ row' = 1
  /\ UNCHANGED <<noHistory, wg, sem, worker, results, history, printed, unhealthy>>

(* Mutant: a target that could not be parsed does not count.               *)
MutPrintRow ==
  /\ main = "print" /\ row \in Targets
  /\ printed' = Append(printed, row)
  /\ unhealthy' = IF results[row] \in {"healthy", "error"} THEN unhealthy ELSE unhealthy + 1
  /\ row' = row + 1
  /\ UNCHANGED <<noHistory, main, wg, sem, worker, results, history>>

(* One row of the table, or one line of JSONL.                             *)
PrintRow ==
  /\ main = "print" /\ row \in Targets
  /\ printed' = Append(printed, row)
  /\ unhealthy' = IF results[row] = "healthy" THEN unhealthy ELSE unhealthy + 1
  /\ row' = row + 1
  /\ UNCHANGED <<noHistory, main, wg, sem, worker, results, history>>

(* runBatch returns; main exits 1 when the count is not zero.              *)
Return ==
  /\ main = "print" /\ row \notin Targets
  /\ main' = IF unhealthy > 0 THEN "exit1" ELSE "exit0"
  /\ UNCHANGED <<noHistory, row, wg, sem, worker, results, history, printed, unhealthy>>

Ended == main \in {"exit0", "exit1", "killed"}

(* No handler is installed in batch mode: a signal ends the process, and   *)
(* its goroutines with it, between any two steps.                          *)
Kill ==
  /\ ~Ended
  /\ main' = "killed"
  /\ worker' = [i \in Targets |-> "gone"]
  /\ UNCHANGED <<noHistory, row, wg, sem, results, history, printed, unhealthy>>

Main == Add \/ Spawn \/ EndSpawning \/ Wait \/ AppendHistory \/ EndHistory \/ PrintRow \/ Return

Worker(i) == Store(i) \/ Release(i) \/ WgDone(i)

Terminated == Ended /\ UNCHANGED batchVars

BatchNext == Main \/ (\E i \in Targets : Worker(i)) \/ Kill \/ Terminated

(* The Go scheduler runs every runnable goroutine, and every scan is       *)
(* bounded by its timeouts.  Nothing is assumed of the signal.             *)
BatchSpec ==
  /\ BatchInit /\ [][BatchNext]_batchVars
  /\ WF_batchVars(Main)
  /\ \A i \in Targets : WF_batchVars(Worker(i))

-------------------------------------------------------------------------------
(* Channel, counter and slices keep within what Go gives them: the         *)
(* WaitGroup never goes negative, which would panic.                       *)
BatchTypeOK ==
  /\ noHistory \in BOOLEAN
  /\ main \in {"add", "spawn", "wait", "history", "print", "exit0", "exit1", "killed"}
  /\ row \in 1..N + 1
  /\ wg \in 0..N
  /\ sem \in 0..Slots
  /\ worker \in [Targets -> {"unborn", "scanning", "release", "done", "gone"}]
  /\ results \in [Targets -> Verdicts \cup {"zero"}]
  /\ history \in Seq(Targets) /\ printed \in Seq(Targets)
  /\ unhealthy \in 0..N

Scanning == {i \in Targets : worker[i] = "scanning"}

(* However the workers interleave, at most Slots targets are being scanned *)
(* at once (--concurrency is documented as the batch parallelism).         *)
BoundedParallelism == Cardinality(Scanning) <= Slots

(* Once main is past the join it reads no cell of results that a worker    *)
(* has yet to write: the zero result it would find has a nil error and     *)
(* would be reported and saved as a scan of the target.                    *)
JoinedBeforeRead ==
  main \in {"history", "print", "exit0", "exit1"} =>
    \A i \in Targets : results[i] # "zero" /\ worker[i] = "gone"

(* The history file never holds a target that was not scanned, nor the     *)
(* records of one batch out of input order, even if the process is killed  *)
(* in the middle.                                                          *)
HistoryFaithful ==
  /\ \A k \in 1..Len(history) : results[history[k]] \in {"healthy", "problems"}
  /\ \A k \in 1..Len(history) : \A l \in 1..Len(history) : k < l => history[k] < history[l]
  /\ noHistory => history = <<>>

(* A worker that has the token always gives it back, and main always gets  *)
(* past the join: the batch ends unless it is killed.                      *)
BatchEnds == <>Ended

Promise == INSTANCE BatchPromise
             WITH verdict <- results,
                  outcome <- IF Ended THEN main ELSE "running"

(* runBatch keeps BatchPromise: one verdict per target and an exit status  *)
(* that is 0 exactly when all of them are healthy.                         *)
KeepsPromise == Promise!Spec
===============================================================================
