------------------------------- MODULE MCService -------------------------------
(***************************************************************************)
(* Instances of Ports and Starttls for TLC: what is found behind a port    *)
(* and the dialogue that leads to a handshake on one.  The two share no    *)
(* state: every behaviour is one of them, with the other at rest where it  *)
(* may end: a scan that found every port closed, a dialogue that was not   *)
(* dialled.                                                                *)
(***************************************************************************)
EXTENDS Ports, Starttls

VARIABLE part       \* the component whose behaviour this is

PortsRest ==
  /\ main = "done" /\ pass = "udp" /\ row = N + 1
  /\ wg = 0 /\ sem = 0 /\ openCount = 0
  /\ worker = [x \in Passes \X Requested |-> IF x[1] = "tcp" \/ x[2] \in UDP THEN "gone" ELSE "unborn"]
  /\ probeDone = [i \in Requested |-> IF i \in UDP THEN "none" ELSE "empty"]
  /\ classifyDone = [i \in Requested |-> IF i \in UDP THEN "" ELSE "empty"]
  /\ results = [i \in Requested |-> [Unwritten EXCEPT !.written = TRUE, !.service = IF i \in Known THEN "tcp" ELSE "?"]]

StarttlsRests ==
  /\ conv = <<"dial", "smtp">> /\ keeps = FALSE
  /\ outcome = "error" /\ pc = 1 /\ got = Nothing /\ wire = <<>>
  /\ owed = 1 /\ replies = 0 /\ sent = 0 /\ granted = FALSE /\ legible = TRUE
  /\ result = {}

MCInit ==
  \/ part = "ports" /\ PortsInit /\ StarttlsRests
  \/ part = "starttls" /\ PortsRest /\ Init

MCNext ==
  /\ UNCHANGED part
  /\ \/ part = "ports" /\ PortsNext /\ UNCHANGED vars
     \/ part = "starttls" /\ Next /\ UNCHANGED portsVars

(* The fairness is that of the two specifications.                         *)
MCSpec ==
  /\ MCInit /\ [][MCNext]_<<part, portsVars, vars>>
  /\ WF_portsVars(Main) /\ \A i \in Requested : WF_portsVars(Goroutine(i))
  /\ WF_vars(Dial) /\ WF_vars(Deadline) /\ WF_vars(Handshake) /\ WF_vars(ReadEncrypted)
===============================================================================
