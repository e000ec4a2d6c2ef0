------------------------------ MODULE MCRecords ------------------------------
(***************************************************************************)
(* Instances of Probes and History for TLC: what is read record by record, *)
(* from a server and from the history file.  The two share no state: every *)
(* behaviour is one of them, with the other at rest in an initial state.   *)
(***************************************************************************)
EXTENDS MCProbes, History, TLC

VARIABLE part       \* the component whose behaviour this is

MCInit ==
  \/ /\ part = "probes" /\ Init
     /\ HistoryInit /\ \A w \in Writers : rec[w].host = "a"
  \/ /\ part = "history" /\ HistoryInit
     /\ Init /\ probe = "crime" /\ srv = CHOOSE s \in Servers : TRUE

MCNext ==
  /\ UNCHANGED part
  /\ \/ part = "probes" /\ Next /\ UNCHANGED historyVars
     \/ part = "history" /\ HistoryNext /\ UNCHANGED vars

MCSpec == MCInit /\ [][MCNext]_<<part, vars, historyVars>>

(* The processes that append are interchangeable.                          *)
MCSymmetry == Permutations(Writers)
===============================================================================
