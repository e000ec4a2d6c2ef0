----------------------------- MODULE ServiceProofs -----------------------------
(***************************************************************************)
(* Proofs about the two parts that talk to a service port by port: Ports   *)
(* and Starttls.                                                           *)
(*                                                                         *)
(* Ports: for any list of ports, any choice of the ports with a UDP probe  *)
(* and any positive number of slots.  Both passes use one channel and      *)
(* write one slice.  The argument is that of a join made twice: while a    *)
(* pass runs, sem and the WaitGroup count its goroutines exactly           *)
(* (Counting), and the goroutines of the other pass are all gone or not    *)
(* yet born (Lifecycle).                                                   *)
(*                                                                         *)
(* Starttls: for every conversation, any patience of the read loops and    *)
(* any number of pieces on the wire.  HandoverSafe is not inductive: that  *)
(* nothing is left on the wire when tls.Client takes over follows from     *)
(* what was true at every earlier step of the script.  The argument is     *)
(* that client and server go in lock-step: at a write nothing is owed and  *)
(* nothing in flight, and at a read exactly one reply is, whose pieces are *)
(* on the wire or already collected.                                       *)
(***************************************************************************)
EXTENDS Ports, Starttls, FiniteSetTheorems, SequenceTheorems, TLAPS

-------------------------------------------------------------------------------
(* The two passes of checkPorts.                                           *)

(* The goroutines of the pass under way, by port.                          *)
Holding == {i \in Requested : worker[<<pass, i>>] \in {"scan", "release"}}
Live    == {i \in Requested : worker[<<pass, i>>] \in {"scan", "release", "leave"}}

Pending == IF main = "send" THEN 1 ELSE 0

Counting ==
  /\ sem = Cardinality(Holding)
  /\ wg = Cardinality(Live) + Pending

(* Which goroutines are born, by where checkPorts is.                      *)
Lifecycle ==
  /\ pass = "tcp" => \A i \in Requested : worker[<<"udp", i>>] = "unborn"
  /\ pass = "udp" => \A i \in Requested : worker[<<"tcp", i>>] = "gone"
  /\ pass = "tcp" => \A i \in Requested : i < row => worker[<<"tcp", i>>] # "unborn"
  /\ \A i \in Requested : worker[<<pass, i>>] # "unborn" => i < row
  /\ main = "send" => row \in Requested
  /\ main = "wait" => row \notin Requested

(* A goroutine of the TCP pass that is past its scan has written its cell. *)
Written ==
  \A i \in Requested :
    worker[<<"tcp", i>>] \in {"release", "leave", "gone"} <=> results[i].written

Cells == [written : BOOLEAN, open : BOOLEAN, product : {"none", "tcp", "udp"},
          service : {"?", "tcp", "udp"}, udp : UDPStates \cup {""}]

(* The type invariant in three parts.                                      *)
Counters ==
  /\ main \in {"add", "send", "wait", "done"} /\ pass \in Passes /\ row \in 1..N + 1
  /\ wg \in 0..N /\ sem \in 0..Slots /\ openCount \in 0..N

Goroutines == worker \in [Passes \X Requested -> {"unborn", "scan", "release", "leave", "gone"}]

Data ==
  /\ probeDone \in [Requested -> {"empty", "none", "product"}]
  /\ classifyDone \in [Requested -> UDPStates \cup {"", "empty"}]
  /\ results \in [Requested -> Cells]

PortsIInv == Counters /\ Goroutines /\ Data /\ Counting /\ Lifecycle /\ Written

-------------------------------------------------------------------------------
(* A set of requested ports is finite and no larger than the list.         *)
LEMMA FinitePorts ==
  \A S \in SUBSET Requested : IsFiniteSet(S) /\ Cardinality(S) \in 0..N
<1>1. IsFiniteSet(Requested) /\ Cardinality(Requested) = N
  BY FS_Interval, NAssumption DEF Requested
<1> TAKE S \in SUBSET Requested
<1>2. IsFiniteSet(S) /\ Cardinality(S) <= N
  BY <1>1, FS_Subset
<1>3. Cardinality(S) \in Nat
  BY <1>2, FS_CardinalityType
<1> QED BY <1>2, <1>3, NAssumption

LEMMA HoldingLive == Holding \in SUBSET Requested /\ Live \in SUBSET Requested
  BY DEF Holding, Live

LEMMA PortsInitIInv == PortsInit => PortsIInv
<1> SUFFICES ASSUME PortsInit PROVE PortsIInv
  OBVIOUS
<1>1. Unwritten \in Cells /\ ~Unwritten.written
  BY DEF Unwritten, Cells
<1>2. Counters /\ Goroutines /\ Data
  BY <1>1, NAssumption, SlotsAssumption DEF PortsInit, Counters, Goroutines, Data, Passes
<1>3. Holding = {} /\ Live = {}
  BY DEF PortsInit, Holding, Live, Passes
<1>4. Counting
  BY <1>3, FS_EmptySet DEF PortsInit, Counting, Pending
<1>5. Lifecycle
  BY NAssumption DEF PortsInit, Lifecycle, Passes, Requested
<1>6. Written
  BY <1>1 DEF PortsInit, Written, Passes
<1> QED BY <1>2, <1>4, <1>5, <1>6 DEF PortsIInv

(* wg.Add, for a port that gets a goroutine; the others are passed over.   *)
LEMMA AddIInv == PortsIInv /\ Add => PortsIInv'
<1> SUFFICES ASSUME PortsIInv, Add PROVE PortsIInv'
  OBVIOUS
<1>1. Holding' = Holding /\ Live' = Live
  BY DEF Add, Holding, Live
<1>2. row \notin Live /\ row \in Requested
  BY NAssumption DEF PortsIInv, Add, Lifecycle, Live, Counters, Requested
<1>3. Cardinality(Live) + 1 <= N /\ Cardinality(Live) \in Nat
  <2>1. Live \cup {row} \in SUBSET Requested
    BY <1>2, HoldingLive
  <2>2. Cardinality(Live \cup {row}) = Cardinality(Live) + 1
    BY <1>2, HoldingLive, FinitePorts, FS_AddElement
  <2> QED BY <2>1, <2>2, HoldingLive, FinitePorts, NAssumption
<1>4. wg = Cardinality(Live)
  BY <1>3 DEF PortsIInv, Counting, Pending, Add
<1>5. Counters' /\ Goroutines' /\ Data'
  <2>1. Counters'
    BY <1>2, <1>3, <1>4, NAssumption DEF PortsIInv, Counters, Add, Requested
  <2> QED BY <2>1 DEF PortsIInv, Goroutines, Data, Add
<1>6. Counting'
  BY <1>1, <1>3, <1>4 DEF PortsIInv, Counting, Pending, Add
<1>7. Lifecycle'
  BY <1>2, NAssumption DEF PortsIInv, Counters, Lifecycle, Add, Requested
<1>8. Written'
  BY DEF PortsIInv, Written, Add
<1> QED BY <1>5, <1>6, <1>7, <1>8 DEF PortsIInv

LEMMA AcquireIInv == PortsIInv /\ Acquire => PortsIInv'
<1> SUFFICES ASSUME PortsIInv, Acquire PROVE PortsIInv'
  OBVIOUS
<1>1. row \in Requested /\ worker[<<pass, row>>] = "unborn" /\ pass \in Passes
  BY NAssumption DEF PortsIInv, Counters, Goroutines, Lifecycle, Acquire, Requested
<1>2. worker' = [worker EXCEPT ![<<pass, row>>] = "scan"] /\ pass' = pass /\ row' = row + 1
  BY DEF Acquire
<1>3. Counters' /\ Goroutines' /\ Data'
  <2>1. Counters'
    BY <1>1, NAssumption, SlotsAssumption DEF PortsIInv, Counters, Acquire, Requested
  <2>2. Goroutines'
    BY <1>1, <1>2 DEF PortsIInv, Goroutines
  <2> QED BY <2>1, <2>2 DEF PortsIInv, Data, Acquire
<1>4. Holding' = Holding \cup {row} /\ row \notin Holding
  BY <1>1, <1>2 DEF PortsIInv, Goroutines, Holding
<1>5. Live' = Live \cup {row} /\ row \notin Live
  BY <1>1, <1>2 DEF PortsIInv, Goroutines, Live
<1>6. Cardinality(Holding') = Cardinality(Holding) + 1 /\ Cardinality(Holding) \in Nat
  BY <1>4, HoldingLive, FinitePorts, FS_AddElement
<1>7. Cardinality(Live') = Cardinality(Live) + 1 /\ Cardinality(Live) \in Nat
  BY <1>5, HoldingLive, FinitePorts, FS_AddElement
<1>8. Counting'
  BY <1>6, <1>7 DEF PortsIInv, Counting, Pending, Acquire
<1>9. Lifecycle'
  BY <1>1, <1>2, NAssumption DEF PortsIInv, Counters, Goroutines, Lifecycle, Acquire, Requested, Passes
<1>10. Written'
  <2>1. \A q \in Passes, j \in Requested :
          worker'[<<q, j>>] = IF q = pass /\ j = row THEN "scan" ELSE worker[<<q, j>>]
    BY <1>1, <1>2 DEF PortsIInv, Goroutines
  <2>2. \A j \in Requested : worker'[<<"tcp", j>>] \in {"release", "leave", "gone"}
                              <=> worker[<<"tcp", j>>] \in {"release", "leave", "gone"}
    BY <1>1, <2>1 DEF Passes
  <2> QED BY <2>2 DEF PortsIInv, Written, Acquire
<1> QED BY <1>3, <1>8, <1>9, <1>10 DEF PortsIInv

LEMMA EndLoopIInv == PortsIInv /\ EndLoop => PortsIInv'
<1> SUFFICES ASSUME PortsIInv, EndLoop PROVE PortsIInv'
  OBVIOUS
<1>1. Counters' /\ Goroutines' /\ Data'
  BY DEF PortsIInv, Counters, Goroutines, Data, EndLoop
<1>2. Holding' = Holding /\ Live' = Live
  BY DEF EndLoop, Holding, Live
<1>3. Counting'
  BY <1>2 DEF PortsIInv, Counting, Pending, EndLoop
<1>4. Lifecycle' /\ Written'
  BY DEF PortsIInv, Lifecycle, Written, EndLoop
<1> QED BY <1>1, <1>3, <1>4 DEF PortsIInv

(* The join between the passes.                                            *)
LEMMA JoinTCPIInv == PortsIInv /\ JoinTCP => PortsIInv'
<1> SUFFICES ASSUME PortsIInv, JoinTCP PROVE PortsIInv'
  OBVIOUS
<1>1. Live = {}
  <2>1. Cardinality(Live) = 0
    BY HoldingLive, FinitePorts DEF PortsIInv, Counting, Pending, JoinTCP
  <2> QED BY <2>1, HoldingLive, FinitePorts, FS_EmptySet
<1>2. \A i \in Requested : worker[<<"tcp", i>>] = "gone"
  <2> TAKE i \in Requested
  <2>1. worker[<<"tcp", i>>] \in {"unborn", "scan", "release", "leave", "gone"}
    BY DEF PortsIInv, Goroutines, Passes
  <2>2. worker[<<"tcp", i>>] # "unborn"
    BY NAssumption DEF PortsIInv, Counters, Lifecycle, JoinTCP, Requested
  <2>3. worker[<<"tcp", i>>] \notin {"scan", "release", "leave"}
    BY <1>1 DEF Live, JoinTCP
  <2> QED BY <2>1, <2>2, <2>3
<1>3. \A i \in Requested : worker[<<"udp", i>>] = "unborn"
  BY DEF PortsIInv, Lifecycle, JoinTCP
<1>4. Holding = {}
  BY <1>1 DEF Holding, Live
<1>5. Holding' = {} /\ Live' = {}
  BY <1>3 DEF JoinTCP, Holding, Live
<1>6. Counters' /\ Goroutines' /\ Data'
  <2>1. Counters'
    BY NAssumption DEF PortsIInv, Counters, JoinTCP, Passes
  <2> QED BY <2>1 DEF PortsIInv, Goroutines, Data, JoinTCP
<1>7. Counting'
  BY <1>1, <1>4, <1>5, FS_EmptySet DEF PortsIInv, Counting, Pending, JoinTCP
<1>8. Lifecycle'
  BY <1>2, <1>3 DEF Lifecycle, JoinTCP
<1>9. Written'
  BY DEF PortsIInv, Written, JoinTCP
<1> QED BY <1>6, <1>7, <1>8, <1>9 DEF PortsIInv

LEMMA ReportIInv == PortsIInv /\ Report => PortsIInv'
<1> SUFFICES ASSUME PortsIInv, Report PROVE PortsIInv'
  OBVIOUS
<1>1. Cardinality(Shown) \in 0..N
  BY FinitePorts DEF Shown
<1>2. Holding' = Holding /\ Live' = Live
  BY DEF Report, Holding, Live
<1>3. Counters'
  BY <1>1 DEF PortsIInv, Counters, Report
<1>4. Goroutines' /\ Data'
  BY DEF PortsIInv, Goroutines, Data, Report
<1>5. Counting'
  BY <1>2 DEF PortsIInv, Counting, Pending, Report
<1>6. Lifecycle' /\ Written'
  BY DEF PortsIInv, Lifecycle, Written, Report
<1> QED BY <1>3, <1>4, <1>5, <1>6 DEF PortsIInv

-------------------------------------------------------------------------------
(* A goroutine that runs belongs to the pass under way.                    *)
LEMMA RunsInPass ==
  ASSUME PortsIInv, NEW p \in Passes, NEW i \in Requested, worker[<<p, i>>] \notin {"unborn", "gone"}
  PROVE  p = pass /\ i < row
  BY DEF PortsIInv, Counters, Lifecycle, Passes

(* What a step of a goroutine from one place to the next, none of them     *)
(* "unborn", needs for the invariant.                                      *)
LEMMA MoveLifecycle ==
  ASSUME PortsIInv, NEW p \in Passes, NEW i \in Requested, NEW to,
         worker[<<p, i>>] \notin {"unborn", "gone"}, to # "unborn",
         worker' = [worker EXCEPT ![<<p, i>>] = to],
         UNCHANGED <<main, pass, row>>
  PROVE  Lifecycle'
<1>1. p = pass /\ i < row
  BY RunsInPass
<1>2. \A q \in Passes, j \in Requested :
        worker'[<<q, j>>] = IF q = p /\ j = i THEN to ELSE worker[<<q, j>>]
  BY DEF PortsIInv, Goroutines
<1> QED BY <1>1, <1>2 DEF PortsIInv, Counters, Lifecycle, Passes

LEMMA ScanPortIInv == ASSUME NEW i \in Requested PROVE PortsIInv /\ ScanPort(i) => PortsIInv'
<1> SUFFICES ASSUME PortsIInv, ScanPort(i) PROVE PortsIInv'
  OBVIOUS
<1> "tcp" \in Passes
  BY DEF Passes
<1>1. worker[<<"tcp", i>>] = "scan" /\ worker' = [worker EXCEPT ![<<"tcp", i>>] = "release"]
  BY DEF ScanPort, Moves
<1>2. pass = "tcp"
  BY <1>1, RunsInPass
<1>3. PICK open \in BOOLEAN, product \in {"none", "tcp"} :
        results' = [results EXCEPT ![i] =
          [written |-> TRUE, open |-> open, product |-> product,
           service |-> IF i \in Known THEN "tcp" ELSE "?", udp |-> ""]]
  BY DEF ScanPort
<1>4. \A q \in Passes, j \in Requested :
        worker'[<<q, j>>] = IF q = "tcp" /\ j = i THEN "release" ELSE worker[<<q, j>>]
  BY <1>1 DEF PortsIInv, Goroutines
<1>5. Holding' = Holding /\ Live' = Live
  <2>1. pass' = pass /\ \A j \in Requested : j # i => worker'[<<pass, j>>] = worker[<<pass, j>>]
    BY <1>2, <1>4 DEF ScanPort
  <2>2. worker'[<<pass, i>>] = "release" /\ worker[<<pass, i>>] = "scan"
    BY <1>1, <1>2, <1>4
  <2> QED BY <2>1, <2>2 DEF Holding, Live
<1>6. Counters'
  BY DEF PortsIInv, Counters, ScanPort
<1>7. Goroutines'
  BY <1>1 DEF PortsIInv, Goroutines
<1>8. Data'
  BY <1>3 DEF PortsIInv, Data, Cells, ScanPort
<1>9. Counting'
  BY <1>5 DEF PortsIInv, Counting, Pending, ScanPort
<1>10. Lifecycle'
  BY <1>1, MoveLifecycle DEF ScanPort
<1>11. Written'
  <2>1. results'[i].written /\ \A j \in Requested : j # i => results'[j] = results[j]
    BY <1>3 DEF PortsIInv, Data
  <2>2. worker'[<<"tcp", i>>] = "release"
    BY <1>4
  <2>3. \A j \in Requested : j # i => worker'[<<"tcp", j>>] = worker[<<"tcp", j>>]
    BY <1>4
  <2> QED BY <2>1, <2>2, <2>3 DEF PortsIInv, Written
<1> QED BY <1>6, <1>7, <1>8, <1>9, <1>10, <1>11 DEF PortsIInv

(* The probe and the classifier only fill their channels.                  *)
LEMMA ChannelIInv ==
  ASSUME NEW i \in Requested PROVE PortsIInv /\ (Probe(i) \/ Classify(i)) => PortsIInv'
<1> SUFFICES ASSUME PortsIInv, Probe(i) \/ Classify(i) PROVE PortsIInv'
  OBVIOUS
<1>1. UNCHANGED <<main, pass, row, wg, sem, worker, results, openCount>>
  BY DEF Probe, Classify
<1>2. Data'
  BY DEF PortsIInv, Data, Probe, Classify
<1>3. Holding' = Holding /\ Live' = Live
  BY <1>1 DEF Holding, Live
<1>4. Counters' /\ Goroutines' /\ Counting'
  BY <1>1, <1>3 DEF PortsIInv, Counters, Goroutines, Counting, Pending
<1>5. Lifecycle' /\ Written'
  BY <1>1 DEF PortsIInv, Lifecycle, Written
<1> QED BY <1>2, <1>4, <1>5 DEF PortsIInv

(* The merge keeps a cell a cell, and keeps what the TCP pass wrote.       *)
LEMMA MergeKeeps ==
  ASSUME NEW r \in Cells, NEW info, NEW cls \in UDPStates \cup {""}
  PROVE  /\ Merged(r, info, cls) \in Cells
         /\ Merged(r, info, cls).written = r.written
         /\ Merged(r, info, cls).open = r.open
         /\ r.product = "tcp" => Merged(r, info, cls).product = "tcp"
<1>1. CASE info = "product"
  BY <1>1 DEF Merged, Cells, UDPStates
<1>2. CASE info # "product" /\ cls # ""
  BY <1>2 DEF Merged, Cells, UDPStates
<1>3. CASE info # "product" /\ cls = ""
  BY <1>3 DEF Merged
<1> QED BY <1>1, <1>2, <1>3

LEMMA ScanUDPPortIInv == ASSUME NEW i \in Requested PROVE PortsIInv /\ ScanUDPPort(i) => PortsIInv'
<1> SUFFICES ASSUME PortsIInv, ScanUDPPort(i) PROVE PortsIInv'
  OBVIOUS
<1> "udp" \in Passes
  BY DEF Passes
<1>1. worker[<<"udp", i>>] = "scan" /\ worker' = [worker EXCEPT ![<<"udp", i>>] = "release"]
  BY DEF ScanUDPPort, Moves
<1>2. pass = "udp"
  BY <1>1, RunsInPass
<1>3. /\ results' = [results EXCEPT ![i] = Merged(results[i], probeDone[i], classifyDone[i])]
      /\ classifyDone[i] \in UDPStates \cup {""}
      /\ results[i] \in Cells
  BY DEF PortsIInv, Data, ScanUDPPort
<1>4. \A q \in Passes, j \in Requested :
        worker'[<<q, j>>] = IF q = "udp" /\ j = i THEN "release" ELSE worker[<<q, j>>]
  BY <1>1 DEF PortsIInv, Goroutines
<1>5. Holding' = Holding /\ Live' = Live
  <2>1. pass' = pass /\ \A j \in Requested : j # i => worker'[<<pass, j>>] = worker[<<pass, j>>]
    BY <1>2, <1>4 DEF ScanUDPPort
  <2>2. worker'[<<pass, i>>] = "release" /\ worker[<<pass, i>>] = "scan"
    BY <1>1, <1>2, <1>4
  <2> QED BY <2>1, <2>2 DEF Holding, Live
<1>6. Counters'
  BY DEF PortsIInv, Counters, ScanUDPPort
<1>7. Goroutines'
  BY <1>1 DEF PortsIInv, Goroutines
<1>8. Data' /\ results'[i].written = results[i].written
            /\ \A j \in Requested : j # i => results'[j] = results[j]
  <2>1. LET c == Merged(results[i], probeDone[i], classifyDone[i])
        IN  c \in Cells /\ c.written = results[i].written
    BY <1>3, MergeKeeps
  <2> QED BY <1>3, <2>1 DEF PortsIInv, Data, ScanUDPPort
<1>9. Counting'
  BY <1>5 DEF PortsIInv, Counting, Pending, ScanUDPPort
<1>10. Lifecycle'
  BY <1>1, MoveLifecycle DEF ScanUDPPort
<1>11. Written'
  <2>1. \A j \in Requested : worker'[<<"tcp", j>>] = worker[<<"tcp", j>>]
    BY <1>4 DEF Passes
  <2>2. \A j \in Requested : results'[j].written = results[j].written
    BY <1>8
  <2> QED BY <2>1, <2>2 DEF PortsIInv, Written
<1> QED BY <1>6, <1>7, <1>8, <1>9, <1>10, <1>11 DEF PortsIInv

LEMMA ReleaseIInv ==
  ASSUME NEW p \in Passes, NEW i \in Requested PROVE PortsIInv /\ Release(p, i) => PortsIInv'
<1> SUFFICES ASSUME PortsIInv, Release(p, i) PROVE PortsIInv'
  OBVIOUS
<1>1. /\ worker[<<p, i>>] = "release" /\ worker' = [worker EXCEPT ![<<p, i>>] = "leave"]
      /\ sem > 0 /\ sem' = sem - 1 /\ pass' = pass
  BY DEF Release, Moves
<1>2. pass = p
  BY <1>1, RunsInPass
<1>3. \A q \in Passes, j \in Requested :
        worker'[<<q, j>>] = IF q = p /\ j = i THEN "leave" ELSE worker[<<q, j>>]
  BY <1>1 DEF PortsIInv, Goroutines
<1>4. Holding' = Holding \ {i} /\ i \in Holding /\ Live' = Live
  <2>1. \A j \in Requested : j # i => worker'[<<pass, j>>] = worker[<<pass, j>>]
    BY <1>2, <1>3
  <2>2. worker'[<<pass, i>>] = "leave" /\ worker[<<pass, i>>] = "release"
    BY <1>1, <1>2, <1>3
  <2> QED BY <1>1, <2>1, <2>2 DEF Holding, Live
<1>5. Cardinality(Holding') = Cardinality(Holding) - 1
  BY <1>4, HoldingLive, FinitePorts, FS_RemoveElement
<1>6. Counters'
  BY <1>1, SlotsAssumption DEF PortsIInv, Counters, Release
<1>7. Goroutines' /\ Data'
  BY <1>1 DEF PortsIInv, Goroutines, Data, Release
<1>8. Counting'
  BY <1>1, <1>4, <1>5 DEF PortsIInv, Counting, Pending, Release
<1>9. Lifecycle'
  BY <1>1, MoveLifecycle DEF Release
<1>10. Written'
  <2>1. \A j \in Requested : worker'[<<"tcp", j>>] \in {"release", "leave", "gone"}
                              <=> worker[<<"tcp", j>>] \in {"release", "leave", "gone"}
    BY <1>1, <1>3 DEF Passes
  <2> QED BY <2>1 DEF PortsIInv, Written, Release
<1> QED BY <1>6, <1>7, <1>8, <1>9, <1>10 DEF PortsIInv

LEMMA LeaveIInv ==
  ASSUME NEW p \in Passes, NEW i \in Requested PROVE PortsIInv /\ Leave(p, i) => PortsIInv'
<1> SUFFICES ASSUME PortsIInv, Leave(p, i) PROVE PortsIInv'
  OBVIOUS
<1>1. /\ worker[<<p, i>>] = "leave" /\ worker' = [worker EXCEPT ![<<p, i>>] = "gone"]
      /\ wg' = wg - 1 /\ pass' = pass /\ main' = main
  BY DEF Leave, Moves
<1>2. pass = p
  BY <1>1, RunsInPass
<1>3. \A q \in Passes, j \in Requested :
        worker'[<<q, j>>] = IF q = p /\ j = i THEN "gone" ELSE worker[<<q, j>>]
  BY <1>1 DEF PortsIInv, Goroutines
<1>4. Live' = Live \ {i} /\ i \in Live /\ Holding' = Holding
  <2>1. \A j \in Requested : j # i => worker'[<<pass, j>>] = worker[<<pass, j>>]
    BY <1>2, <1>3
  <2>2. worker'[<<pass, i>>] = "gone" /\ worker[<<pass, i>>] = "leave"
    BY <1>1, <1>2, <1>3
  <2> QED BY <1>1, <2>1, <2>2 DEF Holding, Live
<1>5. /\ Cardinality(Live') = Cardinality(Live) - 1
      /\ Cardinality(Live) \in 0..N /\ Cardinality(Live') \in 0..N
  BY <1>4, HoldingLive, FinitePorts, FS_RemoveElement
<1>6. wg = Cardinality(Live) + Pending /\ Pending \in {0, 1}
  BY DEF PortsIInv, Counting, Pending
<1>7. Counters'
  BY <1>1, <1>5, <1>6, NAssumption DEF PortsIInv, Counters, Leave
<1>8. Goroutines' /\ Data'
  BY <1>1 DEF PortsIInv, Goroutines, Data, Leave
<1>9. Counting'
  BY <1>1, <1>4, <1>5, <1>6 DEF PortsIInv, Counting, Pending, Leave
<1>10. Lifecycle'
  BY <1>1, MoveLifecycle DEF Leave
<1>11. Written'
  <2>1. \A j \in Requested : worker'[<<"tcp", j>>] \in {"release", "leave", "gone"}
                              <=> worker[<<"tcp", j>>] \in {"release", "leave", "gone"}
    BY <1>1, <1>3 DEF Passes
  <2> QED BY <2>1 DEF PortsIInv, Written, Leave
<1> QED BY <1>7, <1>8, <1>9, <1>10, <1>11 DEF PortsIInv

LEMMA PortsStutterIInv == PortsIInv /\ UNCHANGED portsVars => PortsIInv'
<1> SUFFICES ASSUME PortsIInv, UNCHANGED portsVars PROVE PortsIInv'
  OBVIOUS
<1>1. Counters' /\ Goroutines' /\ Data'
  BY DEF PortsIInv, Counters, Goroutines, Data, portsVars
<1>2. Counting'
  BY DEF PortsIInv, Counting, Holding, Live, Pending, portsVars
<1>3. Lifecycle' /\ Written'
  BY DEF PortsIInv, Lifecycle, Written, portsVars
<1> QED BY <1>1, <1>2, <1>3 DEF PortsIInv

LEMMA StepIInv == PortsIInv /\ [PortsNext]_portsVars => PortsIInv'
<1> SUFFICES ASSUME PortsIInv, [PortsNext]_portsVars PROVE PortsIInv'
  OBVIOUS
<1>1. CASE Main
  BY <1>1, AddIInv, AcquireIInv, EndLoopIInv, JoinTCPIInv, ReportIInv DEF Main
<1>2. ASSUME NEW i \in Requested, Goroutine(i) PROVE PortsIInv'
  BY <1>2, ScanPortIInv, ChannelIInv, ScanUDPPortIInv, ReleaseIInv, LeaveIInv DEF Goroutine
<1>3. CASE UNCHANGED portsVars
  BY <1>3, PortsStutterIInv
<1> QED BY <1>1, <1>2, <1>3 DEF PortsNext, PortsEnded

-------------------------------------------------------------------------------
(* The invariant holds throughout every scan.                              *)
THEOREM PortsInvariance == PortsSpec => []PortsIInv
<1>1. PortsInit => PortsIInv
  BY PortsInitIInv
<1>2. PortsIInv /\ [PortsNext]_portsVars => PortsIInv'
  BY StepIInv
<1> QED BY <1>1, <1>2, PTL DEF PortsSpec

(* checkPorts' channel and WaitGroups stay within their types for any list *)
(* of ports: neither counter becomes negative.                             *)
THEOREM PortsTypeCorrectness == PortsSpec => []PortsTypeOK
<1>1. PortsIInv => PortsTypeOK
  BY DEF PortsIInv, Counters, Goroutines, Data, Cells, PortsTypeOK
<1> QED BY <1>1, PortsInvariance, PTL

(* The wait between the passes is enough: no goroutine of the UDP pass     *)
(* meets a cell that a goroutine of the TCP pass has still to write.       *)
THEOREM PassesAreApart == PortsSpec => []PassesDoNotOverlap
<1>1. PortsIInv => PassesDoNotOverlap
  BY DEF PortsIInv, Lifecycle, Written, PassesDoNotOverlap
<1> QED BY <1>1, PortsInvariance, PTL

(* However many ports are asked for, at most Slots of them are probed at   *)
(* once, over both passes.                                                 *)
THEOREM ProbesAreBounded == PortsSpec => []BoundedProbes
<1>1. PortsIInv => BoundedProbes
  <2> SUFFICES ASSUME PortsIInv PROVE BoundedProbes
    OBVIOUS
  <2> DEFINE S == {x \in Passes \X Requested : worker[x] = "scan"}
             f == [x \in S |-> x[2]]
  <2>1. \A x \in S : x = <<pass, x[2]>> /\ x[2] \in Holding
    <3> TAKE x \in S
    <3>1. PICK p \in Passes, i \in Requested : x = <<p, i>>
      OBVIOUS
    <3>2. p = pass
      BY <3>1, RunsInPass
    <3> QED BY <3>1, <3>2 DEF Holding
  <2>2. f \in Injection(S, Holding)
    <3>1. f \in [S -> Holding]
      BY <2>1
    <3>2. \A x, y \in S : f[x] = f[y] => x = y
      BY <2>1
    <3> QED BY <3>1, <3>2 DEF Injection, IsInjective
  <2>3. IsFiniteSet(Holding) /\ Cardinality(Holding) \in 0..N
    BY HoldingLive, FinitePorts
  <2>4. IsFiniteSet(S) /\ Cardinality(S) <= Cardinality(Holding)
    BY <2>2, <2>3, FS_Injection
  <2>5. Cardinality(Holding) <= Slots
    BY SlotsAssumption DEF PortsIInv, Counting, Counters
  <2>6. Cardinality(S) \in Nat
    BY <2>4, FS_CardinalityType
  <2> QED BY <2>3, <2>4, <2>5, <2>6, SlotsAssumption DEF BoundedProbes
<1> QED BY <1>1, PortsInvariance, PTL

(* scanUDPPort never takes back what the TCP pass wrote of a port.         *)
THEOREM FindingsSurvive == PortsSpec => TCPFindingsSurvive
<1> DEFINE Keeps(i) == results[i].written =>
             /\ results'[i].open = results[i].open
             /\ results[i].product = "tcp" => results'[i].product = "tcp"
<1>1. PortsIInv /\ [PortsNext]_portsVars => [\A i \in Requested : Keeps(i)]_portsVars
  <2> SUFFICES ASSUME PortsIInv, PortsNext PROVE \A i \in Requested : Keeps(i)
    OBVIOUS
  <2>1. CASE UNCHANGED results
    BY <2>1
  <2>2. ASSUME NEW j \in Requested, ScanPort(j) PROVE \A i \in Requested : Keeps(i)
    <3>1. ~results[j].written
      BY <2>2 DEF PortsIInv, Written, ScanPort, Moves
    <3>2. \A i \in Requested : i # j => results'[i] = results[i]
      BY <2>2 DEF PortsIInv, Data, ScanPort
    <3> QED BY <3>1, <3>2
  <2>3. ASSUME NEW j \in Requested, ScanUDPPort(j) PROVE \A i \in Requested : Keeps(i)
    <3>1. /\ results' = [results EXCEPT ![j] = Merged(results[j], probeDone[j], classifyDone[j])]
          /\ classifyDone[j] \in UDPStates \cup {""}
          /\ results[j] \in Cells
      BY <2>3 DEF PortsIInv, Data, ScanUDPPort
    <3>2. LET c == Merged(results[j], probeDone[j], classifyDone[j])
          IN  c.open = results[j].open /\ (results[j].product = "tcp" => c.product = "tcp")
      BY <3>1, MergeKeeps
    <3>3. \A i \in Requested : i # j => results'[i] = results[i]
      BY <3>1 DEF PortsIInv, Data
    <3>4. results'[j] = Merged(results[j], probeDone[j], classifyDone[j])
      BY <3>1 DEF PortsIInv, Data
    <3> QED BY <3>2, <3>3, <3>4
  <2> QED BY <2>1, <2>2, <2>3 DEF PortsNext, Main, Goroutine, PortsEnded, portsVars, Add, Acquire, EndLoop, JoinTCP,
             Report, Probe, Classify, Release, Leave
<1> QED BY <1>1, PortsInvariance, PTL DEF PortsSpec, TCPFindingsSurvive

-------------------------------------------------------------------------------
(* The dialogues before the upgrade.                                       *)

(* How many replies the server has been asked for when step i is due: its  *)
(* greeting, and one for each command before it.                           *)
Asks(s, i, j) == IF j < i /\ j <= Len(s) /\ s[j].op = "write" /\ s[j].answered THEN 1 ELSE 0
Greets(s)     == IF s[1].op = "read" THEN 1 ELSE 0
Asked(s, i)   == Greets(s) + Asks(s, i, 1) + Asks(s, i, 2) + Asks(s, i, 3) + Asks(s, i, 4)

FramedConv(c) == c[2] \in Framed /\ c \notin {<<"inject", "smtp">>, <<"inject", "ftp">>}

(* The client can follow the server: it reads in frames, and no piece has  *)
(* passed for the end of a reply it was not.                               *)
Followed == FramedConv(conv) /\ legible

(* The last read of a script is behind step i.                             *)
PastReads(s, i) == i = Len(s) + 1 \/ (i = Len(s) /\ s[i].op = "write")

-------------------------------------------------------------------------------
(* Where the script is, by the state of the connection.                    *)
Position ==
  /\ outcome = "dial" => pc = 1
  /\ outcome \in {"dial", "dialogue"} => pc <= Len(script)
  /\ outcome \in {"ready", "tls", "end"} => pc = Len(script) + 1

(* Every reply asked for is finished or still owed.                        *)
Accounts ==
  /\ owed \in Nat /\ replies \in Nat
  /\ owed + replies = Asked(script, pc)

Quiet == wire = <<>> /\ owed = 0

(* One reply is in flight: its pieces but the last are on the wire, or all *)
(* that the client has not collected are.  (A bare code ends a reply, not  *)
(* the read: it then waits for more until the deadline.)                   *)
OneReply ==
  \/ owed = 1 /\ \A i \in 1..Len(wire) : ~wire[i].last
  \/ owed = 0 /\ \A i \in 1..Len(wire) : wire[i].last <=> i = Len(wire)

(* A piece of that reply, as the read that is due expects it.              *)
AsExpected(step, piece) ==
  /\ step.stop = "first" => piece.last \/ (step.need = "first" /\ (piece.sig = "yes" => piece.last))
  /\ step.stop = "signal" => (piece.sig # "-" => piece.last)
  /\ step.stop = "line4" => (piece.mark # "more" => piece.last)
  /\ step.stop = "mark" => (piece.mark = "end" <=> piece.last)

InFormat(step) ==
  /\ \A i \in 1..Len(wire) : AsExpected(step, wire[i])
  /\ step.stop = "first" => got.n = 0

(* A yes that was sent in the reply counts as granted.                     *)
YesIsGranted ==
  /\ owed = 1 /\ (got.n > 0 \/ wire # <<>>) => sent > 0
  /\ got.first = "yes" \/ got.yes \/ (\E i \in 1..Len(wire) : wire[i].sig = "yes") => granted

(* A loop that judges what it has when it is spent has the whole reply.    *)
WithinPatience ==
  IF owed = 1 THEN got.n + Len(wire) = sent /\ sent < Patience
              ELSE got.n + Len(wire) <= Patience

LockStep ==
  Followed /\ outcome \in {"dial", "dialogue", "ready", "tls"} =>
    IF pc <= Len(script) /\ script[pc].op = "read"
    THEN /\ OneReply /\ InFormat(script[pc]) /\ YesIsGranted
         /\ script[pc].limit = "judge" => WithinPatience
    ELSE Quiet /\ got = Nothing

Granted ==
  Followed /\ outcome \in {"dialogue", "ready", "tls"} /\ PastReads(script, pc) => granted

Shapes ==
  /\ conv \in Conversations
  /\ outcome \in {"dial", "dialogue", "ready", "tls", "end", "error"}
  /\ pc \in 1..Len(script) + 1
  /\ got \in [n : 0..Patience, first : {"yes", "no", "-"}, yes : BOOLEAN]
  /\ got.n = 0 => got = Nothing
  /\ wire \in Seq(Pieces) /\ Len(wire) <= InFlight
  /\ sent \in 0..Patience
  /\ granted \in BOOLEAN /\ legible \in BOOLEAN /\ keeps \in BOOLEAN
  /\ result \subseteq {"reachable", "advertised", "upgraded", "probed", "vulnerable"}

IInv == Shapes /\ Position /\ Accounts /\ LockStep /\ Granted

-------------------------------------------------------------------------------
(* What the proofs need of a script: its steps are writes and reads, and   *)
(* it asks for at most three replies.                                      *)
Scripted(s) ==
  /\ Len(s) \in 1..5
  /\ \A i \in 1..Len(s) :
       /\ s[i].op \in {"read", "write"}
       /\ s[i].op = "read" => /\ s[i].stop \in {"first", "line4", "mark", "signal", "offer"}
                             /\ s[i].limit \in {"none", "fail", "judge"}
                             /\ s[i].need \in {"nothing", "first", "any", "notSole"}
       /\ Asked(s, i + 1) = IF s[i].op = "write" /\ s[i].answered
                            THEN Asked(s, i) + 1 ELSE Asked(s, i)
  /\ Asked(s, 1) = Greets(s)
  /\ \A i \in 1..Len(s) + 1 : Asked(s, i) \in 0..3

(* What they need of a script whose client reads in frames, held in the    *)
(* protocol p: writes and reads alternate, each read stops where a reply   *)
(* of p ends, and the last one wants a yes.                                *)
FrameRead(p, s, i) ==
  /\ i < Len(s) => s[i + 1].op = "write"
  /\ s[i].stop # "offer"
  /\ s[i].stop = "first" => p \in OneLine \/ (p = "imap" /\ (Asked(s, i) = 1 \/ s[i].need = "first"))
                                        \/ (p = "sieve" /\ Asked(s, i) = 2)
  /\ s[i].stop = "signal" => p = "irc" \/ (p = "imap" /\ Asked(s, i) = 2)
  /\ s[i].stop = "mark" => p = "sieve"
  /\ s[i].limit = "judge" => p = "sieve" /\ i = 1 /\ s[i].stop = "mark"
  /\ PastReads(s, i + 1) => s[i].need \in {"first", "any"}

ScriptedFramed(p, s) ==
  /\ \A i \in 1..Len(s) :
       /\ s[i].op = "read" => FrameRead(p, s, i)
       /\ s[i].op = "write" /\ s[i].answered => i < Len(s) /\ s[i + 1].op = "read"
       /\ s[i].op = "write" /\ ~s[i].answered => i = Len(s)
  /\ ~PastReads(s, 1)

(* The scripts of upgradeToTLS, read step by step.                         *)
LEMMA SMTPScripted == Scripted(SMTPScript) /\ \A p \in {"smtp", "lmtp"} : ScriptedFramed(p, SMTPScript)
  BY DEF Scripted, ScriptedFramed, FrameRead, PastReads, Asked, Asks, Greets, OneLine,
         SMTPScript, Reply, Line, Read, Write, WriteLast

LEMMA POP3Scripted == Scripted(POP3Script) /\ \A p \in {"pop3", "imap"} : ScriptedFramed(p, POP3Script)
  BY DEF Scripted, ScriptedFramed, FrameRead, PastReads, Asked, Asks, Greets, OneLine,
         POP3Script, Reply, Line, Read, Write, WriteLast

LEMMA IMAPScripted == Scripted(IMAPScript) /\ ScriptedFramed("imap", IMAPScript)
  BY DEF Scripted, ScriptedFramed, FrameRead, PastReads, Asked, Asks, Greets, OneLine,
         IMAPScript, Reply, Line, Read, Write, WriteLast

LEMMA FTPScripted == Scripted(FTPScript) /\ ScriptedFramed("ftp", FTPScript)
  BY DEF Scripted, ScriptedFramed, FrameRead, PastReads, Asked, Asks, Greets, OneLine,
         FTPScript, Reply, Line, Read, Write, WriteLast

LEMMA NNTPScripted == Scripted(NNTPScript) /\ ScriptedFramed("nntp", NNTPScript)
  BY DEF Scripted, ScriptedFramed, FrameRead, PastReads, Asked, Asks, Greets, OneLine,
         NNTPScript, Reply, Line, Read, Write, WriteLast

LEMMA XMPPScripted == Scripted(XMPPScript)
  BY DEF Scripted, ScriptedFramed, FrameRead, PastReads, Asked, Asks, Greets, OneLine,
         XMPPScript, Reply, Line, Read, Write, WriteLast

LEMMA SieveScripted == Scripted(SieveScript) /\ ScriptedFramed("sieve", SieveScript)
  BY DEF Scripted, ScriptedFramed, FrameRead, PastReads, Asked, Asks, Greets, OneLine,
         SieveScript, Reply, Line, Read, Write, WriteLast

LEMMA TelnetScripted == Scripted(TelnetScript)
  BY DEF Scripted, ScriptedFramed, FrameRead, PastReads, Asked, Asks, Greets, OneLine,
         TelnetScript, Reply, Line, Read, Write, WriteLast

LEMMA LDAPScripted == Scripted(LDAPScript)
  BY DEF Scripted, ScriptedFramed, FrameRead, PastReads, Asked, Asks, Greets, OneLine,
         LDAPScript, Reply, Line, Read, Write, WriteLast

LEMMA IRCScripted == Scripted(IRCScript) /\ ScriptedFramed("irc", IRCScript)
  BY DEF Scripted, ScriptedFramed, FrameRead, PastReads, Asked, Asks, Greets, OneLine,
         IRCScript, Reply, Line, Read, Write, WriteLast

LEMMA MySQLScripted == Scripted(MySQLScript) /\ ScriptedFramed("mysql", MySQLScript)
  BY DEF Scripted, ScriptedFramed, FrameRead, PastReads, Asked, Asks, Greets, OneLine,
         MySQLScript, Reply, Line, Read, Write, WriteLast

LEMMA PostgresScripted == Scripted(PostgresScript) /\ ScriptedFramed("postgres", PostgresScript)
  BY DEF Scripted, ScriptedFramed, FrameRead, PastReads, Asked, Asks, Greets, OneLine,
         PostgresScript, Reply, Line, Read, Write, WriteLast

(* Joining two steps to a preamble of one or of three.                     *)
LEMMA OneAndTwo == ASSUME NEW a, NEW b, NEW c PROVE <<a>> \o <<b, c>> = <<a, b, c>>
<1> DEFINE S == {a, b, c}
           j == <<a>> \o <<b, c>>
<1>1. <<a>> \in Seq(S) /\ <<b, c>> \in Seq(S) /\ <<a, b, c>> \in Seq(S)
  OBVIOUS
<1>2. /\ j \in Seq(S) /\ Len(j) = 3
      /\ \A i \in 1..3 : j[i] = IF i <= 1 THEN <<a>>[i] ELSE <<b, c>>[i - 1]
  BY <1>1, ConcatProperties
<1>3. \A i \in 1..3 : j[i] = <<a, b, c>>[i]
  BY <1>2
<1> HIDE DEF j, S
<1>4. j = <<a, b, c>>
  BY <1>1, <1>2, <1>3, SeqEqual
<1> QED BY <1>4 DEF j

LEMMA ThreeAndTwo == ASSUME NEW a, NEW b, NEW c, NEW d, NEW e PROVE <<a, b, c>> \o <<d, e>> = <<a, b, c, d, e>>
<1> DEFINE S == {a, b, c, d, e}
           j == <<a, b, c>> \o <<d, e>>
<1>1. <<a, b, c>> \in Seq(S) /\ <<d, e>> \in Seq(S) /\ <<a, b, c, d, e>> \in Seq(S)
  OBVIOUS
<1>2. /\ j \in Seq(S) /\ Len(j) = 5
      /\ \A i \in 1..5 : j[i] = IF i <= 3 THEN <<a, b, c>>[i] ELSE <<d, e>>[i - 3]
  BY <1>1, ConcatProperties
<1>3. \A i \in 1..5 : j[i] = <<a, b, c, d, e>>[i]
  BY <1>2
<1> HIDE DEF j, S
<1>4. j = <<a, b, c, d, e>>
  BY <1>1, <1>2, <1>3, SeqEqual
<1> QED BY <1>4 DEF j

(* The scripts of probeSTARTTLSInjection.                                  *)
LEMMA InjectionScripted ==
  \A p \in InjectionPlans : /\ Scripted(InjectionScript(p))
                            /\ p \notin {"smtp", "ftp"} => ScriptedFramed(p, InjectionScript(p))
<1>1. Scripted(InjectionScript("smtp"))
  <2>1. InjectionScript("smtp") =
          <<Line("nothing"), Write, Read("mark", "fail", "notSole"), Write, Line("first")>>
    BY ThreeAndTwo DEF InjectionScript, Preamble
  <2> QED BY <2>1 DEF Scripted, Asked, Asks, Greets, Line, Read, Write
<1>2. Scripted(InjectionScript("ftp"))
  <2>1. InjectionScript("ftp") = <<Read("mark", "fail", "nothing"), Write, Line("first")>>
    BY OneAndTwo DEF InjectionScript, Preamble
  <2> QED BY <2>1 DEF Scripted, Asked, Asks, Greets, Line, Read, Write
<1>3. \A p \in {"imap", "pop3"} : InjectionScript(p) = POP3Script
  BY OneAndTwo DEF InjectionScript, Preamble, POP3Script
<1>4. InjectionScript("nntp") = NNTPScript
  BY OneAndTwo DEF InjectionScript, Preamble, NNTPScript
<1> QED BY <1>1, <1>2, <1>3, <1>4, POP3Scripted, NNTPScripted DEF InjectionPlans

(* Every conversation follows a script of that kind.                       *)
LEMMA ScriptFacts ==
  ASSUME NEW c \in Conversations
  PROVE  /\ Scripted(ScriptOf(c))
         /\ FramedConv(c) => ScriptedFramed(c[2], ScriptOf(c))
<1>1. CASE c \in {"dial"} \X Protocols
  <2>1. c[1] = "dial" /\ c[2] \in Protocols /\ ScriptOf(c) = UpgradeScript(c[2])
    BY <1>1 DEF ScriptOf
  <2>2. /\ Scripted(UpgradeScript(c[2]))
        /\ c[2] \in Framed => ScriptedFramed(c[2], UpgradeScript(c[2]))
    BY <2>1, SMTPScripted, POP3Scripted, IMAPScripted, FTPScripted, NNTPScripted, XMPPScripted,
       SieveScripted, TelnetScripted, LDAPScripted, IRCScripted, MySQLScripted, PostgresScripted
       DEF UpgradeScript, Protocols, Framed
  <2> QED BY <2>1, <2>2 DEF FramedConv
<1>2. CASE c = <<"mx", "smtp">>
  <2>1. ScriptOf(c) = SMTPScript /\ c[2] = "smtp"
    BY <1>2 DEF ScriptOf, MXScript, SMTPScript
  <2> QED BY <2>1, SMTPScripted
<1>3. CASE c \in {"inject"} \X InjectionPlans
  <2>1. c[1] = "inject" /\ c[2] \in InjectionPlans /\ ScriptOf(c) = InjectionScript(c[2])
    BY <1>3 DEF ScriptOf
  <2>2. c = <<c[1], c[2]>>
    BY <1>3
  <2> QED BY <2>1, <2>2, InjectionScripted DEF FramedConv
<1> QED BY <1>1, <1>2, <1>3 DEF Conversations

-------------------------------------------------------------------------------
LEMMA InitIInv == Init => IInv
<1> SUFFICES ASSUME Init PROVE IInv
  OBVIOUS
<1>1. Scripted(script) /\ (FramedConv(conv) => ScriptedFramed(conv[2], script))
  BY ScriptFacts DEF Init, script
<1>2. Len(script) \in 1..5 /\ Asked(script, 1) = Greets(script)
  BY <1>1 DEF Scripted
<1>3. Len(wire) = 0 /\ wire \in Seq(Pieces)
  BY DEF Init
<1>4. Shapes
  <2>1. got = Nothing /\ Nothing \in [n : 0..Patience, first : {"yes", "no", "-"}, yes : BOOLEAN]
    BY PatienceAssumption DEF Init, Nothing
  <2>2. granted \in BOOLEAN /\ legible \in BOOLEAN /\ keeps \in BOOLEAN
    BY Zenon DEF Init
  <2> QED BY <1>2, <1>3, <2>1, <2>2, PatienceAssumption DEF Init, Shapes
<1>5. Position
  BY <1>2 DEF Init, Position
<1>6. Accounts
  BY <1>2, <1>3 DEF Init, Accounts, Greets
<1>7. LockStep
  <2>1. got.n = 0 /\ got.first = "-" /\ ~got.yes
    BY DEF Init, Nothing
  <2>2. InFormat(script[pc]) /\ YesIsGranted
    BY <1>3, <2>1 DEF Init, InFormat, YesIsGranted
  <2>3. CASE script[1].op = "read"
    <3>1. OneReply /\ WithinPatience
      BY <1>3, <2>1, <2>3, PatienceAssumption DEF Init, OneReply, WithinPatience
    <3> QED BY <2>2, <2>3, <3>1, <1>2 DEF LockStep, Init
  <2>4. CASE script[1].op # "read"
    BY <2>4 DEF LockStep, Init, Quiet
  <2> QED BY <2>3, <2>4
<1>8. Granted
  BY DEF Init, Granted
<1> QED BY <1>4, <1>5, <1>6, <1>7, <1>8 DEF IInv

(* Steps that leave the dialogue, or come before it, touch neither the     *)
(* script's position nor what the server has sent.                         *)
LEMMA AsideIInv ==
  ASSUME IInv, UNCHANGED <<conv, pc, got, wire, server, keeps>>,
         \/ outcome = "dial" /\ outcome' = "dialogue"
         \/ outcome' = "error"
         \/ outcome = "ready" /\ outcome' = "tls"
         \/ outcome = "tls" /\ outcome' = "end"
         \/ outcome' = outcome,
         result' \subseteq {"reachable", "advertised", "upgraded", "probed", "vulnerable"}
  PROVE  IInv'
<1>1. script' = script
  BY DEF script
<1>2. Scripted(script) /\ (FramedConv(conv) => ScriptedFramed(conv[2], script))
  BY ScriptFacts DEF IInv, Shapes, script
<1>3. Shapes'
  <2>1. outcome' \in {"dial", "dialogue", "ready", "tls", "end", "error"}
    BY DEF IInv, Shapes
  <2> QED BY <1>1, <2>1 DEF IInv, Shapes, server, Nothing
<1>4. Position'
  BY <1>1 DEF IInv, Position, Shapes
<1>5. Accounts'
  BY <1>1 DEF IInv, Accounts, server
<1>6. LockStep'
  <2>1. outcome' \in {"dial", "dialogue", "ready", "tls"} => outcome \in {"dial", "dialogue", "ready", "tls"}
    BY DEF IInv, Shapes
  <2>2. OneReply' = OneReply /\ YesIsGranted' = YesIsGranted /\ WithinPatience' = WithinPatience /\ Quiet' = Quiet
    BY DEF OneReply, YesIsGranted, WithinPatience, Quiet, server
  <2>3. InFormat(script[pc]) = InFormat(script[pc])'
    BY <1>1 DEF InFormat, AsExpected
  <2> QED BY <1>1, <2>1, <2>2, <2>3 DEF IInv, LockStep, Followed, FramedConv, Nothing, server
<1>7. Granted'
  BY <1>1, <1>2 DEF IInv, Granted, Followed, Position, ScriptedFramed, server
<1> QED BY <1>3, <1>4, <1>5, <1>6, <1>7 DEF IInv

LEMMA DialIInv == IInv /\ Dial => IInv'
  BY AsideIInv DEF Dial, IInv, Shapes

LEMMA DeadlineIInv == IInv /\ Deadline => IInv'
  BY AsideIInv DEF Deadline, IInv, Shapes

LEMMA HandshakeIInv == IInv /\ Handshake => IInv'
  BY AsideIInv DEF Handshake, IInv, Shapes

LEMMA ReadEncryptedIInv == IInv /\ ReadEncrypted => IInv'
  BY AsideIInv DEF ReadEncrypted, IInv, Shapes

LEMMA SendIInv == IInv /\ Send => IInv'
<1> SUFFICES ASSUME IInv, Send PROVE IInv'
  OBVIOUS
<1> DEFINE s == script
<1>1. s' = s /\ pc' = pc + 1 /\ pc \in 1..Len(s) /\ s[pc].op = "write" /\ outcome = "dialogue" /\ got' = Nothing
  BY DEF script, IInv, Shapes, Position, Send, Advance, InDialogue
<1>2. Scripted(s) /\ (FramedConv(conv) => ScriptedFramed(conv[2], s))
  BY ScriptFacts DEF IInv, Shapes, script
<1>3. outcome' = IF pc = Len(s) THEN "ready" ELSE "dialogue"
  BY <1>1 DEF Send, Advance
<1>4. UNCHANGED <<conv, wire, replies, sent, granted, legible, keeps, result>>
  BY DEF Send
<1> HIDE DEF s
<1>5. Shapes'
  <2>1. Nothing \in [n : 0..Patience, first : {"yes", "no", "-"}, yes : BOOLEAN]
    BY PatienceAssumption DEF Nothing
  <2>2. pc' \in 1..Len(s') + 1
    BY <1>1, <1>2 DEF Scripted
  <2> QED BY <1>1, <1>3, <1>4, <2>1, <2>2 DEF IInv, Shapes, s
<1>6. Position'
  BY <1>1, <1>3, <1>2 DEF Position, Scripted, s
<1>7. Accounts'
  <2>1. owed' = IF s[pc].answered THEN owed + 1 ELSE owed
    BY DEF Send, s
  <2>2. owed + replies = Asked(s, pc) /\ owed \in Nat /\ replies \in Nat
    BY DEF IInv, Accounts, s
  <2>3. Asked(s, pc + 1) = IF s[pc].answered THEN Asked(s, pc) + 1 ELSE Asked(s, pc)
    BY <1>1, <1>2 DEF Scripted
  <2>5. owed' \in Nat /\ owed' + replies = Asked(s, pc + 1)
    BY <2>1, <2>2, <2>3
  <2> QED BY <1>1, <1>4, <2>2, <2>5 DEF IInv, Accounts, s
<1>8. ASSUME Followed
      PROVE  Quiet /\ ScriptedFramed(conv[2], s)
  BY <1>1, <1>2, <1>8 DEF IInv, LockStep, Followed, s
<1>9. LockStep'
  <2> SUFFICES ASSUME Followed
               PROVE  LockStep'
    BY <1>4 DEF LockStep, Followed, FramedConv
  <2>1. CASE s[pc].answered
    <3>1. pc < Len(s) /\ s[pc + 1].op = "read" /\ s[pc + 1].limit # "judge"
      BY <1>1, <1>8, <2>1 DEF ScriptedFramed, FrameRead
    <3>2. owed' = 1 /\ wire' = <<>> /\ Len(wire') = 0
      BY <1>4, <1>8, <2>1 DEF Send, Quiet, s
    <3>3. OneReply' /\ InFormat(s[pc])' /\ YesIsGranted'
      BY <1>1, <3>2 DEF OneReply, InFormat, AsExpected, YesIsGranted, Nothing
    <3>4. s'[pc'].limit # "judge" /\ s'[pc'].op = "read" /\ pc' <= Len(s')
      BY <1>1, <1>2, <3>1 DEF Scripted
    <3> QED BY <3>3, <3>4 DEF LockStep, s
  <2>2. CASE ~s[pc].answered
    <3>1. pc = Len(s)
      BY <1>1, <1>8, <2>2 DEF ScriptedFramed
    <3>2. Quiet'
      BY <1>4, <1>8, <2>2 DEF Send, Quiet, s
    <3> QED BY <1>1, <1>2, <3>1, <3>2 DEF LockStep, s, Scripted, Nothing
  <2> QED BY <2>1, <2>2
<1>10. Granted'
  <2> SUFFICES ASSUME Followed, PastReads(s, pc + 1)
               PROVE  granted
    BY <1>1, <1>4 DEF Granted, Followed, FramedConv, s
  <2>1. pc = Len(s)
    BY <1>1, <1>2, <1>8 DEF PastReads, ScriptedFramed, Scripted
  <2>2. PastReads(s, pc)
    BY <1>1, <2>1 DEF PastReads
  <2> QED BY <1>1, <2>2 DEF IInv, Granted, s
<1> QED BY <1>5, <1>6, <1>7, <1>9, <1>10 DEF IInv

LEMMA SpeakIInv == IInv /\ Speak => IInv'
<1> SUFFICES ASSUME IInv, Speak PROVE IInv'
  OBVIOUS
<1> DEFINE s == script
<1>1. s' = s /\ UNCHANGED <<conv, outcome, pc, got, keeps, result>> /\ owed > 0 /\ outcome \in {"dialogue", "ready"}
  BY DEF script, Speak
<1>2. Scripted(s) /\ (FramedConv(conv) => ScriptedFramed(conv[2], s))
  BY ScriptFacts DEF IInv, Shapes, script
<1>3. PICK piece \in Pieces :
         /\ WellFramed(piece)
         /\ wire' = Append(wire, piece)
         /\ owed' = IF piece.last THEN owed - 1 ELSE owed
         /\ replies' = IF piece.last THEN replies + 1 ELSE replies
         /\ sent' = IF piece.last THEN 0 ELSE IF sent < Patience THEN sent + 1 ELSE sent
         /\ granted' = (piece.sig = "yes" \/ (granted /\ sent > 0))
         /\ legible' = (legible /\ Legible(piece))
  BY DEF Speak
<1>4. /\ wire \in Seq(Pieces) /\ Len(wire) \in Nat /\ Len(wire) < InFlight
      /\ sent \in 0..Patience /\ owed \in Nat /\ replies \in Nat
      /\ got.n \in Nat /\ pc \in 1..Len(s) + 1
  BY DEF IInv, Shapes, Accounts, Speak, s
<1>5. /\ wire' \in Seq(Pieces) /\ wire' # <<>>
      /\ Len(wire') = Len(wire) + 1
      /\ \A i \in 1..Len(wire) : wire'[i] = wire[i]
      /\ wire'[Len(wire) + 1] = piece
  BY <1>3, <1>4, AppendProperties
<1>6. piece.last \in BOOLEAN /\ piece.sig \in {"yes", "no", "-"} /\ piece.mark \in {"end", "short", "more"}
  BY DEF Pieces
<1> HIDE DEF s
<1>7. Shapes'
  <2>1. granted' \in BOOLEAN /\ legible' \in BOOLEAN
    BY <1>3, Zenon
  <2>2. sent' \in 0..Patience
    BY <1>3, <1>4, PatienceAssumption
  <2>3. Len(wire') <= InFlight
    BY <1>4, <1>5, PatienceAssumption
  <2> QED BY <1>1, <1>5, <2>1, <2>2, <2>3 DEF IInv, Shapes, s, Nothing
<1>8. Position'
  BY <1>1 DEF IInv, Position, s
<1>9. Accounts'
  <2>1. owed' \in Nat /\ replies' \in Nat /\ owed' + replies' = owed + replies
    BY <1>1, <1>3, <1>4
  <2> QED BY <1>1, <2>1 DEF IInv, Accounts, s
<1>10. LockStep'
  <2> SUFFICES ASSUME Followed'
               PROVE  LockStep'
    BY DEF LockStep
  <2>0. Followed /\ Legible(piece)
    BY <1>1, <1>3, Zenon DEF Followed, FramedConv
  <2>1. pc \in 1..Len(s) /\ s[pc].op = "read"
    BY <1>1, <1>4, <2>0 DEF IInv, LockStep, Quiet, s
  <2>2. OneReply /\ InFormat(s[pc]) /\ YesIsGranted /\ (s[pc].limit = "judge" => WithinPatience)
    BY <1>1, <2>0, <2>1 DEF IInv, LockStep, s
  <2>3. owed = 1 /\ \A i \in 1..Len(wire) : ~wire[i].last
    BY <1>1, <2>2 DEF OneReply
  <2>4. replies = Asked(s, pc) - 1 /\ FrameRead(conv[2], s, pc)
    <3>1. FrameRead(conv[2], s, pc)
      BY <1>2, <2>0, <2>1 DEF ScriptedFramed, Followed
    <3>2. owed + replies = Asked(s, pc)
      BY DEF IInv, Accounts, s
    <3> QED BY <1>4, <2>3, <3>1, <3>2
  <2>5. OneReply'
    <3>1. CASE piece.last
      BY <1>3, <1>4, <1>5, <2>3, <3>1 DEF OneReply
    <3>2. CASE ~piece.last
      BY <1>3, <1>4, <1>5, <2>3, <3>2 DEF OneReply
    <3> QED BY <3>1, <3>2
  <2>6. InFormat(s[pc])'
    <3>1. AsExpected(s[pc], piece)
      <4>1. CASE s[pc].stop = "first"
        BY <1>3, <2>4, <4>1 DEF FrameRead, WellFramed, AsExpected
      <4>2. CASE s[pc].stop = "signal"
        BY <1>3, <2>4, <4>2 DEF FrameRead, WellFramed, AsExpected
      <4>3. CASE s[pc].stop = "line4"
        BY <2>0, <4>3 DEF Legible, AsExpected
      <4>4. CASE s[pc].stop = "mark"
        BY <1>3, <1>6, <2>4, <4>4 DEF FrameRead, WellFramed, AsExpected
      <4> QED BY <4>1, <4>2, <4>3, <4>4 DEF AsExpected
    <3>2. s[pc].stop = "first" => got.n = 0
      BY <2>2 DEF InFormat
    <3>3. \A i \in 1..Len(wire') : AsExpected(s[pc], wire'[i])
      BY <1>4, <1>5, <2>2, <3>1 DEF InFormat
    <3> QED BY <1>1, <3>2, <3>3 DEF InFormat, AsExpected
  <2>7. YesIsGranted'
    <3>1. owed' = 1 => sent' > 0
      BY <1>3, <1>4, <2>3, PatienceAssumption
    <3>2. ASSUME got.first = "yes" \/ got.yes PROVE granted'
      <4>1. got.n # 0
        BY <3>2 DEF IInv, Shapes, Nothing
      <4>2. sent > 0
        BY <1>4, <2>2, <2>3, <4>1 DEF YesIsGranted
      <4>3. granted
        BY <2>2, <3>2, Zenon DEF YesIsGranted
      <4> QED BY <1>3, <4>2, <4>3
    <3>3. ASSUME NEW i \in 1..Len(wire'), wire'[i].sig = "yes" PROVE granted'
      <4>1. CASE i = Len(wire) + 1
        BY <1>3, <1>5, <3>3, <4>1
      <4>2. CASE i # Len(wire) + 1
        <5>1. i \in 1..Len(wire) /\ wire[i].sig = "yes" /\ wire # <<>>
          BY <1>4, <1>5, <3>3, <4>2
        <5> QED BY <1>3, <2>2, <2>3, <5>1 DEF YesIsGranted
      <4> QED BY <4>1, <4>2
    <3> QED BY <1>1, <3>1, <3>2, <3>3 DEF YesIsGranted
  <2>8. s[pc].limit = "judge" => WithinPatience'
    <3> SUFFICES ASSUME s[pc].limit = "judge" PROVE WithinPatience'
      OBVIOUS
    <3>1. got.n + Len(wire) = sent /\ sent < Patience
      BY <2>2, <2>3 DEF WithinPatience
    <3>2. sent + 1 = Patience => piece.last
      BY <1>4, <2>0, <2>4, PatienceAssumption DEF FrameRead, Legible
    <3> QED BY <1>1, <1>3, <1>4, <1>5, <2>3, <3>1, <3>2, PatienceAssumption DEF WithinPatience
  <2> QED BY <1>1, <2>1, <2>5, <2>6, <2>7, <2>8 DEF LockStep, s
<1>11. Granted'
  <2> SUFFICES ASSUME Followed, PastReads(s, pc) PROVE FALSE
    BY <1>1, <1>3, Zenon DEF Granted, Followed, FramedConv, s
  <2>1. ~Quiet
    BY <1>1 DEF Quiet
  <2>2. pc \in 1..Len(s) /\ s[pc].op = "read"
    BY <1>1, <1>4, <2>1 DEF IInv, LockStep, s
  <2> QED BY <2>2, <1>2 DEF PastReads, Scripted
<1> QED BY <1>7, <1>8, <1>9, <1>10, <1>11 DEF IInv

(* What a read has collected stays a record of its type, and it says yes   *)
(* only if a piece did.                                                    *)
LEMMA CollectFacts ==
  ASSUME got \in [n : 0..Patience, first : {"yes", "no", "-"}, yes : BOOLEAN], NEW piece \in Pieces
  PROVE  /\ Collect(piece) \in [n : 0..Patience, first : {"yes", "no", "-"}, yes : BOOLEAN]
         /\ Collect(piece).n > 0
         /\ got.n < Patience => Collect(piece).n = got.n + 1
         /\ got.n = Patience => Collect(piece).n = Patience
         /\ Collect(piece).first = "yes" \/ Collect(piece).yes =>
              got.first = "yes" \/ got.yes \/ piece.sig = "yes"
<1>1. piece.sig \in {"yes", "no", "-"} /\ got.n \in 0..Patience /\ got.first \in {"yes", "no", "-"} /\ got.yes \in BOOLEAN
  BY DEF Pieces
<1> QED BY <1>1, PatienceAssumption DEF Collect

LEMMA ReceiveIInv == IInv /\ Receive => IInv'
<1> SUFFICES ASSUME IInv, Receive PROVE IInv'
  OBVIOUS
<1> DEFINE s     == script
           step  == s[pc]
           piece == Head(wire)
           g     == Collect(piece)
           spent == step.limit # "none" /\ g.n = Patience
           More  == /\ ~Stops(step, piece) /\ ~spent
                    /\ got' = g
                    /\ UNCHANGED <<pc, outcome, result>>
           Pass  == /\ Stops(step, piece) \/ (spent /\ step.limit = "judge")
                    /\ Judges(step, g)
                    /\ Advance
                    /\ result' = result \cup Advertises(g)
           Fail  == outcome' = "error" /\ UNCHANGED <<pc, got, result>>
<1>1. s' = s /\ UNCHANGED <<conv, server, keeps>> /\ outcome = "dialogue" /\ step.op = "read" /\ wire # <<>>
  BY DEF script, Receive, InDialogue
<1>2. Scripted(s) /\ (FramedConv(conv) => ScriptedFramed(conv[2], s))
  BY ScriptFacts DEF IInv, Shapes, script
<1>3. More \/ Pass \/ Fail
  BY DEF Receive
<1>4. /\ wire \in Seq(Pieces) /\ Len(wire) \in Nat /\ Len(wire) <= InFlight
      /\ got \in [n : 0..Patience, first : {"yes", "no", "-"}, yes : BOOLEAN]
      /\ pc \in 1..Len(s)
  BY <1>1 DEF IInv, Shapes, Position, s
<1>5. /\ piece \in Pieces /\ piece = wire[1] /\ Len(wire) >= 1
      /\ wire' \in Seq(Pieces) /\ Len(wire') = Len(wire) - 1
      /\ \A i \in 1..Len(wire') : wire'[i] = wire[i + 1]
  <2>1. wire' = Tail(wire)
    BY DEF Receive
  <2>2. Len(wire) # 0 /\ Head(wire) = wire[1]
    BY <1>1, <1>4, EmptySeq
  <2> QED BY <1>1, <1>4, <2>1, <2>2, HeadTailProperties
<1>6. /\ g \in [n : 0..Patience, first : {"yes", "no", "-"}, yes : BOOLEAN] /\ g.n > 0
      /\ got.n < Patience => g.n = got.n + 1
      /\ got.n = Patience => g.n = Patience
      /\ g.first = "yes" \/ g.yes => got.first = "yes" \/ got.yes \/ piece.sig = "yes"
  BY <1>4, <1>5, CollectFacts
<1>7. ASSUME Pass
      PROVE  /\ pc' = pc + 1 /\ got' = Nothing
             /\ outcome' = IF pc = Len(s) THEN "ready" ELSE "dialogue"
  BY <1>1, <1>7 DEF Advance
<1> HIDE DEF s, step, piece, g, spent
<1>8. Shapes'
  <2>1. Len(wire') <= InFlight
    BY <1>4, <1>5, PatienceAssumption
  <2>2. UNCHANGED <<sent, granted, legible, keeps>>
    BY <1>1 DEF server
  <2>3. CASE More
    BY <1>1, <1>5, <1>6, <2>1, <2>2, <2>3 DEF IInv, Shapes, s
  <2>4. CASE Pass
    <3>1. Nothing \in [n : 0..Patience, first : {"yes", "no", "-"}, yes : BOOLEAN]
      BY PatienceAssumption DEF Nothing
    <3>2. pc' \in 1..Len(s') + 1
      BY <1>1, <1>2, <1>4, <1>7, <2>4 DEF Scripted
    <3>3. result' \subseteq {"reachable", "advertised", "upgraded", "probed", "vulnerable"}
      BY <2>4 DEF Advertises, IInv, Shapes
    <3> QED BY <1>1, <1>5, <1>7, <2>1, <2>2, <2>4, <3>1, <3>2, <3>3 DEF IInv, Shapes, s
  <2>5. CASE Fail
    BY <1>1, <1>5, <2>1, <2>2, <2>5 DEF IInv, Shapes, s, Nothing
  <2> QED BY <1>3, <2>3, <2>4, <2>5
<1>9. Position'
  <2>1. CASE Pass
    BY <1>1, <1>2, <1>4, <1>7, <2>1 DEF Position, Scripted, s
  <2>2. CASE More \/ Fail
    BY <1>1, <2>2 DEF IInv, Position, s
  <2> QED BY <1>3, <2>1, <2>2
<1>10. Accounts'
  <2>1. owed' = owed /\ replies' = replies
    BY <1>1 DEF server
  <2>3. CASE Pass
    <3>1. Asked(s, pc + 1) = Asked(s, pc)
      BY <1>1, <1>2, <1>4 DEF Scripted, step
    <3> QED BY <1>1, <1>7, <2>1, <2>3, <3>1 DEF IInv, Accounts, s
  <2>4. CASE More \/ Fail
    BY <1>1, <2>1, <2>4 DEF IInv, Accounts, s
  <2> QED BY <1>3, <2>3, <2>4
<1>11. ASSUME Followed
       PROVE  /\ OneReply /\ InFormat(step) /\ YesIsGranted /\ (step.limit = "judge" => WithinPatience)
              /\ FrameRead(conv[2], s, pc)
              /\ step.stop \in {"first", "line4", "mark", "signal"} /\ step.limit \in {"none", "fail", "judge"}
  <2>1. OneReply /\ InFormat(step) /\ YesIsGranted /\ (step.limit = "judge" => WithinPatience)
    BY <1>1, <1>4, <1>11 DEF IInv, LockStep, s, step
  <2>2. FrameRead(conv[2], s, pc)
    BY <1>1, <1>2, <1>4, <1>11 DEF ScriptedFramed, Followed, step
  <2> QED BY <1>1, <1>2, <1>4, <2>1, <2>2 DEF Scripted, FrameRead, step
<1>12. ASSUME Followed
       PROVE  /\ Stops(step, piece) /\ Judges(step, g) => piece.last
              /\ step.limit = "judge" => (Stops(step, piece) <=> piece.last)
  <2>1. AsExpected(step, piece) /\ (step.stop = "first" => got.n = 0)
    BY <1>4, <1>5, <1>11, <1>12 DEF InFormat
  <2>2. step.limit = "judge" => step.stop = "mark"
    BY <1>11, <1>12 DEF FrameRead, step
  <2>3. step.stop = "first" /\ step.need = "first" /\ Judges(step, g) => piece.sig = "yes"
    BY <2>1 DEF Judges, g, Collect
  <2> QED BY <1>11, <1>12, <2>1, <2>2, <2>3 DEF Stops, AsExpected
<1>13. ASSUME Followed, ~piece.last
       PROVE  /\ wire' # <<>> \/ owed = 1
              /\ step.limit = "judge" => g.n = got.n + 1 /\ g.n < Patience
  <2>1. owed = 0 => Len(wire) >= 2
    BY <1>4, <1>5, <1>11, <1>13 DEF OneReply
  <2>2. owed \in {0, 1}
    BY <1>11, <1>13 DEF OneReply
  <2>3. wire' # <<>> \/ owed = 1
    BY <1>4, <1>5, <2>1, <2>2, EmptySeq
  <2>4. step.limit = "judge" => got.n + 1 < Patience
    BY <1>4, <1>5, <1>11, <1>13, <2>1, <2>2, PatienceAssumption DEF WithinPatience
  <2> QED BY <1>4, <1>6, <2>3, <2>4, PatienceAssumption
<1>14. ASSUME Followed, Pass
       PROVE  Quiet' /\ (PastReads(s, pc + 1) => granted)
  <2>1. piece.last
    BY <1>4, <1>12, <1>13, <1>14, PatienceAssumption DEF spent
  <2>2. owed = 0 /\ Len(wire) = 1
    BY <1>4, <1>5, <1>11, <1>14, <2>1 DEF OneReply
  <2>3. Quiet'
    BY <1>1, <1>5, <2>2, EmptySeq DEF Quiet, server
  <2>4. PastReads(s, pc + 1) => g.first = "yes" \/ g.yes
    BY <1>11, <1>14 DEF FrameRead, Judges, step
  <2>5. g.first = "yes" \/ g.yes => granted
    <3>1. piece.sig = "yes" => granted
      BY <1>4, <1>5, <1>11, <1>14 DEF YesIsGranted
    <3>2. got.first = "yes" \/ got.yes => granted
      BY <1>11, <1>14, Zenon DEF YesIsGranted
    <3> QED BY <1>6, <3>1, <3>2, Zenon
  <2> QED BY <2>3, <2>4, <2>5
<1>15. LockStep'
  <2> SUFFICES ASSUME Followed
               PROVE  LockStep'
    BY <1>1 DEF LockStep, Followed, FramedConv, server
  <2>1. CASE Pass
    <3>1. pc' <= Len(s) => s[pc'].op = "write"
      BY <1>2, <1>4, <1>7, <1>11, <2>1 DEF FrameRead, Scripted
    <3> QED BY <1>1, <1>7, <1>14, <2>1, <3>1 DEF LockStep, s, Nothing
  <2>2. CASE Fail
    BY <2>2 DEF LockStep
  <2>3. CASE More
    <3>1. step.limit = "judge" => ~piece.last
      BY <1>12, <2>3
    <3>2. OneReply'
      <4>1. CASE owed = 1
        BY <1>1, <1>4, <1>5, <1>11, <4>1 DEF OneReply, server
      <4>2. CASE owed = 0
        <5>2. \A i \in 1..Len(wire') : wire'[i].last <=> i = Len(wire')
          BY <1>4, <1>5, <1>11, <4>2 DEF OneReply
        <5> QED BY <1>1, <4>2, <5>2 DEF OneReply, server
      <4> QED BY <1>11, <4>1, <4>2 DEF OneReply
    <3>3. InFormat(step)'
      <4>1. step' = step
        BY <1>1, <2>3 DEF step
      <4>2. \A i \in 1..Len(wire') : i + 1 \in 1..Len(wire) /\ wire'[i] = wire[i + 1]
        BY <1>4, <1>5
      <4>3. \A i \in 1..Len(wire') : AsExpected(step, wire'[i])
        BY <1>11, <4>2 DEF InFormat
      <4>4. step.stop # "first"
        BY <2>3 DEF Stops
      <4> QED BY <4>1, <4>3, <4>4 DEF InFormat, AsExpected
    <3>4. YesIsGranted'
      <4>1. owed' = 1 => sent' > 0
        BY <1>1, <1>11 DEF YesIsGranted, server
      <4>2. got.first = "yes" \/ got.yes => granted
        BY <1>11, Zenon DEF YesIsGranted
      <4>3. \A i \in 1..Len(wire) : wire[i].sig = "yes" => granted
        BY <1>11 DEF YesIsGranted
      <4>4. g.first = "yes" \/ g.yes => granted
        <5>1. piece.sig = "yes" => granted
          BY <1>4, <1>5, <4>3
        <5> QED BY <1>6, <4>2, <5>1, Zenon
      <4>5. \A i \in 1..Len(wire') : wire'[i].sig = "yes" => granted
        BY <1>4, <1>5, <4>3
      <4>6. granted' = granted /\ got' = g
        BY <1>1, <2>3 DEF server
      <4> QED BY <4>1, <4>4, <4>5, <4>6 DEF YesIsGranted
    <3>5. step.limit = "judge" => WithinPatience'
      <4> SUFFICES ASSUME step.limit = "judge" PROVE WithinPatience'
        OBVIOUS
      <4>1. g.n = got.n + 1 /\ got' = g
        BY <1>13, <2>3, <3>1
      <4>2. WithinPatience /\ got.n \in Nat
        BY <1>4, <1>11
      <4> QED BY <1>1, <1>4, <1>5, <4>1, <4>2 DEF WithinPatience, server
    <3>6. step' = step /\ pc' = pc
      BY <1>1, <2>3 DEF step
    <3> QED BY <1>1, <1>4, <3>2, <3>3, <3>4, <3>5, <3>6 DEF LockStep, s, step
  <2> QED BY <1>3, <2>1, <2>2, <2>3
<1>16. Granted'
  <2> SUFFICES ASSUME Followed, outcome' # "error", PastReads(s, pc')
               PROVE  granted
    BY <1>1 DEF Granted, Followed, FramedConv, s, server
  <2>1. CASE Pass
    BY <1>7, <1>14, <2>1
  <2>2. CASE More
    BY <1>1, <1>2, <1>4, <2>2 DEF PastReads, Scripted, step
  <2> QED BY <1>3, <2>1, <2>2
<1> QED BY <1>8, <1>9, <1>10, <1>15, <1>16 DEF IInv

LEMMA StutterIInv == IInv /\ UNCHANGED vars => IInv'
  BY AsideIInv DEF vars, server, IInv, Shapes

LEMMA NextIInv == IInv /\ [Next]_vars => IInv'
  BY DialIInv, SendIInv, ReceiveIInv, DeadlineIInv, HandshakeIInv, ReadEncryptedIInv, SpeakIInv,
     StutterIInv DEF Next, Client, Ended

LEMMA IInvInvariant == Spec => []IInv
  BY InitIInv, NextIInv, PTL DEF Spec

-------------------------------------------------------------------------------
LEMMA IInvHandoverSafe == IInv => HandoverSafe
<1> SUFFICES ASSUME IInv PROVE HandoverSafe
  OBVIOUS
<1>1. Scripted(script)
  BY ScriptFacts DEF IInv, Shapes, script
<1>2. TypeOK
  <2>1. Asked(script, pc) \in 0..3
    BY <1>1 DEF IInv, Shapes, Accounts, Scripted
  <2>2. owed \in 0..3 /\ replies \in 0..3
    BY <2>1 DEF IInv, Accounts
  <2> QED BY <2>2 DEF IInv, Shapes, TypeOK
<1>3. UpgradeWasGranted
  <2> SUFFICES ASSUME InFrames, legible, outcome \in {"ready", "tls"} PROVE granted /\ wire = <<>> /\ owed = 0
    BY DEF UpgradeWasGranted
  <2>1. Followed /\ pc = Len(script) + 1 /\ Len(script) \in 1..5
    BY <1>1 DEF InFrames, Followed, FramedConv, IInv, Position, Scripted
  <2>2. PastReads(script, pc) /\ ~(pc <= Len(script))
    BY <2>1 DEF PastReads
  <2> QED BY <2>1, <2>2 DEF IInv, Granted, LockStep, Quiet
<1> QED BY <1>2, <1>3 DEF HandoverSafe

(* At the end of every conversation that is read in frames the server has  *)
(* granted the upgrade and no plaintext is left, unless a line of its      *)
(* passed for the end of a reply it was not: upgradeToTLS, probeSTARTTLS   *)
(* and the injection probes then hand tls.Client a connection whose next   *)
(* byte is the handshake's.                                                *)
THEOREM HandoverIsSafe == Spec => []HandoverSafe
  BY IInvInvariant, IInvHandoverSafe, PTL

(* In the same conversations, with the same servers, no command is sent    *)
(* before the whole reply to the last one is read, whatever the pieces the *)
(* replies arrive in.                                                      *)
THEOREM StaysInStep == Spec => InStep
<1>1. IInv /\ [Next]_vars =>
        [InFrames /\ legible /\ pc' > pc /\ script[pc].op = "write" => wire = <<>> /\ owed = 0]_vars
  <2> SUFFICES ASSUME IInv, Next, InFrames, legible, pc' > pc, script[pc].op = "write"
               PROVE  wire = <<>> /\ owed = 0
    OBVIOUS
  <2>1. pc \in Nat
    BY DEF IInv, Shapes
  <2>2. outcome = "dialogue"
    <3>1. Send \/ Receive \/ pc' = pc
      BY DEF Next, Client, Dial, Deadline, Handshake, ReadEncrypted, Speak, Ended, vars
    <3>2. pc' # pc
      BY <2>1
    <3> QED BY <3>1, <3>2, Zenon DEF Send, Receive, InDialogue
  <2>3. Followed
    BY DEF InFrames, Followed, FramedConv
  <2> QED BY <2>2, <2>3 DEF IInv, LockStep, Quiet
<1> QED BY <1>1, IInvInvariant, PTL DEF Spec, InStep
===============================================================================
