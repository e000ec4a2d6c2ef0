--------------------------------- MODULE Ports ---------------------------------
(***************************************************************************)
(* checkPorts: a TCP pass over all requested ports, one goroutine per port *)
(* throttled by the channel sem, then a UDP pass over those of them that   *)
(* have a UDP probe, with the same channel and a WaitGroup of its own.     *)
(* Both passes write the same cells of results without a lock.  A worker   *)
(* of the UDP pass starts two more goroutines, the probe and the ICMP      *)
(* classifier, and merges what they send into the cell of its port.        *)
(***************************************************************************)
EXTENDS Integers, FiniteSets

CONSTANTS N,            \* the number of requested ports, numbered 1..N
          UDP,          \* those with an entry in udpServicePortMap
          Known,        \* those with a name in serviceName
          Slots         \* the 50 of sem

ASSUME NAssumption == N \in Nat
ASSUME PortsAssumption == UDP \subseteq 1..N /\ Known \subseteq 1..N
ASSUME SlotsAssumption == Slots \in Nat \ {0}

Requested == 1..N
Passes == {"tcp", "udp"}

VARIABLES
  main,        \* where checkPorts is: "add", "send", "wait" or "done"
  pass,        \* the pass it is in
  row,         \* the port its loop is at
  wg, sem,     \* the WaitGroup of the pass, the tokens in the channel
  worker,      \* [Passes \X Requested -> where the goroutine is]
  probeDone,   \* [Requested -> what is in the channel: "empty", or whether a product]
  classifyDone,\* [Requested -> what is in the channel: "empty" or a state]
  results,     \* [Requested -> portResult]
  openCount    \* open_count of the Detail

portsVars == <<main, pass, row, wg, sem, worker, probeDone, classifyDone, results, openCount>>

(* portResult: written says that the TCP pass has filled in the cell; the  *)
(* product and the service are told apart by the pass they come from.      *)
Unwritten == [written |-> FALSE, open |-> FALSE, product |-> "none", service |-> "?", udp |-> ""]

UDPStates == {"open", "closed", "filtered", "open|filtered"}

PortsInit ==
  /\ main = "add" /\ pass = "tcp" /\ row = 1
  /\ wg = 0 /\ sem = 0
  /\ worker = [x \in Passes \X Requested |-> "unborn"]
  /\ probeDone = [i \in Requested |-> "empty"]
  /\ classifyDone = [i \in Requested |-> "empty"]
  /\ results = [i \in Requested |-> Unwritten]
  /\ openCount = 0

-------------------------------------------------------------------------------
(***************************************************************************)
(* The two loops of checkPorts.                                            *)
(***************************************************************************)
(* Mutant: a port without a UDP probe is passed over after wg.Add.         *)
MutAdd ==
  /\ main = "add" /\ row \in Requested
  /\ wg' = wg + 1
  /\ IF pass = "tcp" \/ row \in UDP THEN main' = "send" /\ UNCHANGED row
     ELSE row' = row + 1 /\ UNCHANGED main
  /\ UNCHANGED <<pass, sem, worker, probeDone, classifyDone, results, openCount>>

Add ==
  /\ main = "add" /\ row \in Requested
  /\ IF pass = "tcp" \/ row \in UDP
     THEN wg' = wg + 1 /\ main' = "send" /\ UNCHANGED row
     ELSE row' = row + 1 /\ UNCHANGED <<wg, main>>
  /\ UNCHANGED <<pass, sem, worker, probeDone, classifyDone, results, openCount>>

(* Mutant: the channel holds one token more than asked for.                *)
MutAcquire ==
  /\ main = "send" /\ sem <= Slots
  /\ sem' = sem + 1
  /\ worker' = [worker EXCEPT ![<<pass, row>>] = "scan"]
  /\ row' = row + 1 /\ main' = "add"
  /\ UNCHANGED <<pass, wg, probeDone, classifyDone, results, openCount>>

Acquire ==
  /\ main = "send" /\ sem < Slots
  /\ sem' = sem + 1
  /\ worker' = [worker EXCEPT ![<<pass, row>>] = "scan"]
  /\ row' = row + 1 /\ main' = "add"
  /\ UNCHANGED <<pass, wg, probeDone, classifyDone, results, openCount>>

EndLoop ==
  /\ main = "add" /\ row \notin Requested
  /\ main' = "wait"
  /\ UNCHANGED <<pass, row, wg, sem, worker, probeDone, classifyDone, results, openCount>>

(* Mutant: the UDP pass does not wait for the TCP pass.                    *)
MutJoinTCP ==
  /\ main = "wait" /\ pass = "tcp"
  /\ pass' = "udp" /\ row' = 1 /\ main' = "add"
  /\ UNCHANGED <<wg, sem, worker, probeDone, classifyDone, results, openCount>>

JoinTCP ==
  /\ main = "wait" /\ pass = "tcp" /\ wg = 0
  /\ pass' = "udp" /\ row' = 1 /\ main' = "add"
  /\ UNCHANGED <<wg, sem, worker, probeDone, classifyDone, results, openCount>>

(* The ports worth a line are counted as open.                             *)
Shown == {i \in Requested : results[i].open \/ results[i].udp # ""}

Report ==
  /\ main = "wait" /\ pass = "udp" /\ wg = 0
  /\ openCount' = Cardinality(Shown)
  /\ main' = "done"
  /\ UNCHANGED <<pass, row, wg, sem, worker, probeDone, classifyDone, results>>

-------------------------------------------------------------------------------
(***************************************************************************)
(* The goroutines.                                                         *)
(***************************************************************************)
Moves(p, i, from, to) ==
  worker[<<p, i>>] = from /\ worker' = [worker EXCEPT ![<<p, i>>] = to]

(* scanPort: the dial fails, or the port is open and may tell its product. *)
ScanPort(i) ==
  /\ Moves("tcp", i, "scan", "release")
  /\ \E open \in BOOLEAN, product \in {"none", "tcp"} :
       /\ product = "tcp" => open
       /\ results' = [results EXCEPT ![i] =
            [written |-> TRUE, open |-> open, product |-> product,
             service |-> IF i \in Known THEN "tcp" ELSE "?", udp |-> ""]]
  /\ UNCHANGED <<main, pass, row, wg, sem, probeDone, classifyDone, openCount>>

(* The probe of the UDP service sends whether it got a product.            *)
Probe(i) ==
  /\ worker[<<"udp", i>>] = "scan" /\ probeDone[i] = "empty"
  /\ \E info \in {"none", "product"} : probeDone' = [probeDone EXCEPT ![i] = info]
  /\ UNCHANGED <<main, pass, row, wg, sem, worker, classifyDone, results, openCount>>

Classify(i) ==
  /\ worker[<<"udp", i>>] = "scan" /\ classifyDone[i] = "empty"
  /\ \E cls \in UDPStates \cup {""} : classifyDone' = [classifyDone EXCEPT ![i] = cls]
  /\ UNCHANGED <<main, pass, row, wg, sem, worker, probeDone, results, openCount>>

(* Mutant: the product of the UDP service replaces the one found over TCP. *)
MutMerged(r, info, cls) ==
  IF info = "product" THEN [r EXCEPT !.udp = "open", !.product = "udp"]
  ELSE IF cls # "" THEN [r EXCEPT !.udp = cls, !.service = "udp"] ELSE r

(* scanUDPPort, on the cell the TCP pass left.                             *)
Merged(r, info, cls) ==
  IF info = "product"
  THEN [r EXCEPT !.udp = "open",
                 !.product = IF @ = "none" THEN "udp" ELSE @,
                 !.service = IF @ = "?" THEN "udp" ELSE @]
  ELSE IF cls # "" THEN [r EXCEPT !.udp = cls, !.service = "udp"] ELSE r

ScanUDPPort(i) ==
  /\ Moves("udp", i, "scan", "release")
  /\ probeDone[i] # "empty" /\ classifyDone[i] # "empty"
  /\ results' = [results EXCEPT ![i] = Merged(@, probeDone[i], classifyDone[i])]
  /\ UNCHANGED <<main, pass, row, wg, sem, probeDone, classifyDone, openCount>>

(* The deferred calls, in reverse order.                                   *)
Release(p, i) ==
  /\ Moves(p, i, "release", "leave") /\ sem > 0
  /\ sem' = sem - 1
  /\ UNCHANGED <<main, pass, row, wg, probeDone, classifyDone, results, openCount>>

Leave(p, i) ==
  /\ Moves(p, i, "leave", "gone")
  /\ wg' = wg - 1
  /\ UNCHANGED <<main, pass, row, sem, probeDone, classifyDone, results, openCount>>

Main == Add \/ Acquire \/ EndLoop \/ JoinTCP \/ Report

Goroutine(i) ==
  \/ ScanPort(i) \/ Probe(i) \/ Classify(i) \/ ScanUDPPort(i)
  \/ \E p \in Passes : Release(p, i) \/ Leave(p, i)

PortsEnded == main = "done" /\ UNCHANGED portsVars

PortsNext == Main \/ (\E i \in Requested : Goroutine(i)) \/ PortsEnded

(* Every probe has a timeout, and the scheduler runs every goroutine.      *)
PortsSpec == PortsInit /\ [][PortsNext]_portsVars /\ WF_portsVars(Main) /\ \A i \in Requested : WF_portsVars(Goroutine(i))

-------------------------------------------------------------------------------
(* The channels, the counter and the cells keep their types; the counter   *)
(* never goes negative, which would panic.                                 *)
PortsTypeOK ==
  /\ main \in {"add", "send", "wait", "done"} /\ pass \in Passes /\ row \in 1..N + 1
  /\ wg \in 0..N /\ sem \in 0..Slots
  /\ worker \in [Passes \X Requested -> {"unborn", "scan", "release", "leave", "gone"}]
  /\ probeDone \in [Requested -> {"empty", "none", "product"}]
  /\ classifyDone \in [Requested -> UDPStates \cup {"", "empty"}]
  /\ results \in [Requested -> [written : BOOLEAN, open : BOOLEAN, product : {"none", "tcp", "udp"},
                                service : {"?", "tcp", "udp"}, udp : UDPStates \cup {""}]]
  /\ openCount \in 0..N

(* The UDP pass finds every cell written: no goroutine of it shares a cell *)
(* with one of the TCP pass, and none loses what the TCP pass found.       *)
PassesDoNotOverlap ==
  pass = "udp" => \A i \in Requested : results[i].written /\ worker[<<"tcp", i>>] = "gone"

(* Both passes together never probe more than Slots ports at once.         *)
BoundedProbes ==
  Cardinality({x \in Passes \X Requested : worker[x] = "scan"}) <= Slots

(* What a port told over TCP survives the UDP pass, whatever order the     *)
(* probe and the classifier answer in.                                     *)
TCPFindingsSurvive ==
  [][\A i \in Requested : results[i].written =>
       /\ results'[i].open = results[i].open
       /\ results[i].product = "tcp" => results'[i].product = "tcp"]_portsVars

(* The scan of every port list ends.                                       *)
ScanEnds == <>(main = "done")
===============================================================================
