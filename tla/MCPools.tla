-------------------------------- MODULE MCPools --------------------------------
(***************************************************************************)
(* Instances of Batch, Rdap and Deliverability for TLC: the workers of a   *)
(* batch, the Domain checks that wait for one registry, and the pools of   *)
(* the mail checks.  The three share no state: every behaviour is one of   *)
(* them, with the others at rest: a batch that is killed before its first  *)
(* step, Domain checks whose registry could not be fetched, and the mail   *)
(* checks before theirs.                                                   *)
(***************************************************************************)
EXTENDS Batch, Rdap, MCDeliverability

(* One registration that is over and one that is about to be.              *)
MCHours == {-25, 719}

VARIABLE part       \* the component whose behaviour this is

BatchRests == BatchInit /\ ~noHistory

RdapRests ==
  /\ once = "done" /\ err = TRUE /\ fetches = 1
  /\ servers = [l \in Lookups |-> 0]
  /\ pc = [l \in Lookups |-> "end"]
  /\ next = [l \in Lookups |-> 1]
  /\ expires = [l \in Lookups |-> NoExpiry]
  /\ domain = [l \in Lookups |-> Skip("rdap_unavailable")]

MailRests == Init /\ world = Bare

MCInit ==
  \/ part = "batch" /\ BatchInit /\ RdapRests /\ MailRests
  \/ part = "rdap" /\ BatchRests /\ RdapInit /\ MailRests
  \/ part = "mail" /\ BatchRests /\ RdapRests /\ Init

KillFirst == part # "batch" /\ Kill /\ UNCHANGED <<rdapVars, vars>>

MCNext ==
  /\ UNCHANGED part
  /\ \/ part = "batch" /\ BatchNext /\ UNCHANGED <<rdapVars, vars>>
     \/ KillFirst
     \/ part = "rdap" /\ Ended /\ RdapNext /\ UNCHANGED <<batchVars, vars>>
     \/ part = "mail" /\ Ended /\ Next /\ UNCHANGED <<batchVars, rdapVars>>

(* The fairness is that of the three specifications.                       *)
MCSpec ==
  /\ MCInit /\ [][MCNext]_<<part, batchVars, rdapVars, vars>>
  /\ WF_batchVars(KillFirst)
  /\ WF_batchVars(Main) /\ \A i \in Targets : WF_batchVars(Worker(i))
  /\ \A l \in Lookups : WF_rdapVars(Lookup(l))
===============================================================================
