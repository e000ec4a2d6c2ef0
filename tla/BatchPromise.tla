----------------------------- MODULE BatchPromise -----------------------------
(***************************************************************************)
(* What runBatch promises its caller, with no goroutine in sight: every    *)
(* target gets exactly one verdict, in any order, and the process then     *)
(* exits 0 if all of them are healthy and 1 otherwise.  A signal may kill  *)
(* the process at any moment before.                                       *)
(***************************************************************************)
CONSTANT Targets                  \* the indices of the targets

VARIABLES verdict,                \* [Targets -> "zero" or a verdict]
          outcome                 \* "running", "killed", "exit0" or "exit1"

pvars == <<verdict, outcome>>

Verdicts == {"error", "healthy", "problems"}

Init ==
  /\ verdict = [i \in Targets |-> "zero"]
  /\ outcome = "running"

Decide(i) ==
  /\ outcome = "running"
  /\ verdict[i] = "zero"
  /\ \E v \in Verdicts : verdict' = [verdict EXCEPT ![i] = v]
  /\ UNCHANGED outcome

Exit ==
  /\ outcome = "running"
  /\ \A i \in Targets : verdict[i] # "zero"
  /\ outcome' = IF \A i \in Targets : verdict[i] = "healthy" THEN "exit0" ELSE "exit1"
  /\ UNCHANGED verdict

Kill ==
  /\ outcome = "running"
  /\ outcome' = "killed"
  /\ UNCHANGED verdict

Next == (\E i \in Targets : Decide(i)) \/ Exit \/ Kill

Safety == Init /\ [][Next]_pvars

Spec == Safety /\ WF_pvars(Exit) /\ \A i \in Targets : WF_pvars(Decide(i))
===============================================================================
