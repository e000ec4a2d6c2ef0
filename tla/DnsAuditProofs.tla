---------------------------- MODULE DnsAuditProofs ----------------------------
(***************************************************************************)
(* Proofs about DnsAudit, for every world: any zones, keys, name servers,  *)
(* resolvers and caps, any number of lost exchanges.                       *)
(*                                                                         *)
(* The properties compare a verdict with the world when it is out.  The    *)
(* invariant says what each of the goroutines and probes knows while it is *)
(* at work: how far trust has come (Chain), what an audit has of each      *)
(* server (Audited), which resolvers have been heard (Heard), and that     *)
(* whatever is missing was lost (Resolving, Fetched, NameServers).         *)
(***************************************************************************)
EXTENDS DnsAudit, FiniteSetTheorems, FunctionTheorems, SequenceTheorems, TLAPS

AfterPool2 == {"cookies", "walk", "rpki", "propagation", "nsec3", "ecs", "rollover", "done"}
AfterPool1 == AfterPool2 \cup {"pool2"}
AfterViews == {"nsec3", "ecs", "rollover", "done"}

(* A goroutine of the first pool has returned.                             *)
Returned(task) == phase \in AfterPool1 \/ (phase = "pool1" /\ task \notin running)

(* The shape of the state that the other parts rely on.                    *)
Shapes ==
  /\ world \in Worlds /\ phase \in Phases
  /\ DOMAIN addrs = Families /\ \A f \in Families : IsFiniteSet(addrs[f])
  /\ DOMAIN rec = Lookups \cup {"asn"}
  /\ DOMAIN after = {"cookies", "rpki", "nsec3", "ecs", "families"}
  /\ DOMAIN after.nsec3 = {"status", "hash", "records"}

(* No more exchanges are lost than the world loses.                        *)
Losses == IsFiniteSet(lost) /\ Cardinality(lost) <= world.faults

(* An address that exists was found, or its lookup was lost.               *)
Excused(f) == (\E k \in 1..2 : <<f, k>> \in lost) \/ {<<"ip", 1>>, <<"ip", 2>>} \subseteq lost
Resolving ==
  /\ \A f \in Families : (phase # "resolve" \/ running \cap {<<f, 1>>, <<"ip", 1>>} = {})
                            => addrs[f] = world.addr[f] \/ Excused(f)
  /\ phase = "failed" => \A f \in Families : addrs[f] = {}

(* The records fetched are records that exist, all of them unless lost.    *)
Fetched ==
  \A l \in Lookups :
    /\ rec[l] \subseteq world.rec[l]
    /\ Returned(<<l, 1>>) => rec[l] = world.rec[l] \/ \E k \in 1..2 : <<l, k>> \in lost

NameServers ==
  /\ ns \in {<< >>, world.ns}
  /\ Returned(<<"ns", 1>>) => ns = world.ns \/ <<"ns", 1>> \in lost

(* Trust reaches from an anchor down to zone z.                            *)
Trusted(z) ==
  /\ Anchors \cap Zone(1).ksk # {}
  /\ \A y \in 2..z : GoodLink(y)

(* What validateDNSSECChain knows before each of its exchanges, and in the *)
(* end; gone is what has been lost.  It may miss something only because an *)
(* exchange was lost or an answer truncated.                               *)
Excuse(s, gone) == s.cut = TRUE \/ <<"dnssec", 1>> \in gone

Ended(s, gone) ==
  /\ s.chain = TRUE => GoodChain /\ Len(s.levels) = ZoneCount
  /\ GoodChain => s.chain = TRUE \/ Excuse(s, gone)
  /\ \A i \in 1..Len(s.levels) - 1 : s.levels[i] = TRUE

Validating(s) ==
  /\ world.registrable /\ s.chain = FALSE
  /\ Len(s.levels) = s.zone - 1 /\ \A i \in 1..Len(s.levels) : s.levels[i] = TRUE
  /\ s.zone > 1 => /\ Trusted(s.zone - 1)
                   /\ s.keys \subseteq Keys(s.zone - 1)
                   /\ s.keys = Keys(s.zone - 1) \/ s.cut = TRUE

SecFields == {"step", "zone", "signed", "ad", "keys", "levels", "leaf", "chain", "cut"}

ChainAt(s, gone) ==
  /\ DOMAIN s = SecFields
  /\ s.step \in {"status", "keys", "ds", "leaf", "end"} /\ s.zone \in 1..ZoneCount + 1
  /\ s.levels \in Seq(BOOLEAN) /\ s.chain \in BOOLEAN /\ s.cut \in BOOLEAN
  /\ s.step # "status" /\ AnswerSigned => s.signed = TRUE \/ Excuse(s, gone)
  /\ s.step = "status" => s.zone = 1 /\ s.levels = << >> /\ s.chain = FALSE
  /\ s.step \in {"keys", "ds", "leaf"} => Validating(s)
  /\ s.step = "keys" => s.zone <= ZoneCount /\ (s.zone > 1 => Zone(s.zone).dsSig \in Keys(s.zone - 1))
  /\ s.step = "ds" => s.zone \in 2..ZoneCount
  /\ s.step = "leaf" => s.zone = ZoneCount + 1
  /\ s.step = "end" => Ended(s, gone)

Chain ==
  /\ ChainAt(sec, lost)
  /\ Returned(<<"dnssec", 1>>) => sec.step = "end"
  /\ phase = "resolve" => sec.step = "status"
  /\ phase = "pool1" /\ <<"dnssec", 1>> \in running => sec.step # "end"

LameReports == [up : BOOLEAN, aa : BOOLEAN, serial : Nat, lame : BOOLEAN]

(* An audit of the second pool is still at work.                           *)
Pending(task) == phase = "pool2" /\ task \in running

Pool2Tasks == ({"chaos", "axfr", "lame"} \X Capped) \cup {<<"parent", 1>>} \cup ({"glue"} \X (1..Len(ns)))

(* Results are at the index of their server, and there are none before the *)
(* second pool.                                                            *)
Indexed ==
  /\ DOMAIN audits = Audits
  /\ phase \notin AfterPool1 => \A a \in Audits : DOMAIN audits[a] = {}
  /\ \A a \in Audits \ {"glue"} : DOMAIN audits[a] \subseteq Capped
  /\ DOMAIN audits["glue"] \subseteq 1..Len(ns)
  /\ phase = "pool2" => running \subseteq Pool2Tasks

(* Every audit has a result for every server it takes, or is at work on it. *)
Complete ==
  phase \in AfterPool1 =>
    /\ \A a \in {"axfr", "lame"} : \A i \in Capped : Pending(<<a, i>>) \/ i \in DOMAIN audits[a]
    /\ \/ Pending(<<"parent", 1>>) \/ <<"parent", 1>> \in lost \/ ~world.parent
       \/ \A i \in 1..Len(ns) : Pending(<<"glue", i>>) \/ i \in DOMAIN audits["glue"]

(* What was not lost is what the server has.                               *)
LameProbed(i, r, gone) ==
  /\ r \in LameReports
  /\ r.aa => r.up
  /\ <<"lame", i>> \notin gone => r.up = world.server[world.ns[i]].up
Probed ==
  /\ \A i \in DOMAIN audits["lame"] : LameProbed(i, audits["lame"][i], lost)
  /\ \A i \in DOMAIN audits["glue"] :
       <<"glue", i>> \notin lost => audits["glue"][i] = CheckOneGlue(world.server[world.ns[i]], TRUE)

(* The flags are those of one of the serials the vote can end on.          *)
Judged ==
  phase \in AfterPool2 =>
    \E c \in Consensus(audits["lame"]) : \A i \in DOMAIN audits["lame"] :
      audits["lame"][i].lame = IsLame(audits["lame"][i], c)

Audited == Indexed /\ Complete /\ Probed /\ Judged

(* A resolver's view is the one it has, or none when it was lost.          *)
Heard ==
  /\ DOMAIN views \subseteq Resolvers
  /\ \A r \in Resolvers : <<"view", r>> \in lost => r \in DOMAIN views
  /\ \A r \in DOMAIN views : views[r] = IF <<"view", r>> \in lost THEN None ELSE world.view[r]
  /\ phase \notin AfterViews \cup {"propagation"} => DOMAIN views = {}
  /\ phase = "propagation" => \A r \in Resolvers : <<"view", r>> \in running <=> r \notin DOMAIN views
  /\ phase \in AfterViews => DOMAIN views = Resolvers

Walking ==
  /\ DOMAIN walk = {"uses", "names", "hops", "inside"}
  /\ walk.names \subseteq world.names
  /\ walk.hops \in 0..WalkCap
  /\ phase \in {"resolve", "failed", "pool1", "pool2", "cookies"} => walk.hops = 0
  /\ phase = "walk" => walk.hops < WalkCap

(* The verdict on the NSEC3 proof is the one on what was received.         *)
Denied ==
  after.nsec3.status \in {"proven", "unproven"} =>
    /\ after.nsec3.hash \in 0..RingSize - 1
    /\ \A n \in after.nsec3.records : {n.owner, n.next} \subseteq 0..RingSize - 1
    /\ after.nsec3.status = "proven" <=>
         \E n \in after.nsec3.records : Nsec3Covers(n.owner, n.next, after.nsec3.hash)

IInv ==
  /\ Shapes /\ Losses /\ Resolving /\ Fetched /\ NameServers /\ Chain /\ Audited /\ Heard /\ Walking /\ Denied
  /\ LossIsLocal

-------------------------------------------------------------------------------
(***************************************************************************)
(* The exchanges.                                                          *)
(***************************************************************************)

(* queryDNS returns all there is, or loses one exchange and returns a part *)
(* (of a truncated answer) or nothing.                                     *)
LEMMA QueryFacts ==
  ASSUME NEW name, NEW full, NEW o \in QueryDNS(name, full)
  PROVE  \/ o.rrs = full /\ o.gone = {} /\ ~o.err
         \/ MayLose /\ o.rrs \subseteq full /\ \E k \in 1..2 : o.gone = {<<name, k>>}
<1>1. \/ o = [err |-> FALSE, rrs |-> full, gone |-> {}]
      \/ MayLose /\ o = [err |-> TRUE, rrs |-> {}, gone |-> {<<name, 1>>}]
      \/ MayLose /\ \E p \in SUBSET full : o = [err |-> FALSE, rrs |-> p, gone |-> {<<name, 2>>}]
  BY DEF QueryDNS
<1>2. 1 \in 1..2 /\ 2 \in 1..2
  OBVIOUS
<1>3. CASE o = [err |-> FALSE, rrs |-> full, gone |-> {}]
  <2>1. o.err = FALSE /\ o.rrs = full /\ o.gone = {}
    BY <1>3
  <2> QED BY <2>1
<1>4. CASE MayLose /\ o = [err |-> TRUE, rrs |-> {}, gone |-> {<<name, 1>>}]
  BY <1>2, <1>4
<1>5. CASE MayLose /\ \E p \in SUBSET full : o = [err |-> FALSE, rrs |-> p, gone |-> {<<name, 2>>}]
  BY <1>2, <1>5
<1> QED BY <1>1, <1>3, <1>4, <1>5

(* Any other lookup returns all there is, or an error.                     *)
LEMMA LookupFacts ==
  ASSUME NEW name, NEW full, NEW o \in Lookup(name, full)
  PROVE  \/ o.rrs = full /\ o.gone = {} /\ ~o.err
         \/ MayLose /\ o.rrs \subseteq full /\ o.gone = {<<name, 1>>}
<1>1. o \in QueryDNS(name, full) /\ \A g \in o.gone : g[2] = 1
  BY DEF Lookup
<1>2. \/ o.rrs = full /\ o.gone = {} /\ ~o.err
      \/ MayLose /\ o.rrs \subseteq full /\ \E k \in 1..2 : o.gone = {<<name, k>>}
  BY <1>1, QueryFacts
<1>3. ASSUME NEW k \in 1..2, o.gone = {<<name, k>>} PROVE k = 1
  <2>1. <<name, k>>[2] = 1
    BY <1>1, <1>3
  <2> QED BY <2>1
<1> QED BY <1>2, <1>3

(* The world does not change, and what is lost stays lost.                 *)
LEMMA StepFacts ==
  ASSUME [Next]_vars
  PROVE  world' = world /\ lost \subseteq lost'
<1>1. CASE ResolveViaTransport \/ LookupIP \/ Resolved \/ LookupRecord \/ LookupASN \/ LookupNS \/ Dnssec \/ JoinPool1
  BY <1>1 DEF ResolveViaTransport, LookupIP, Resolved, LookupRecord, LookupASN, LookupNS, Dnssec, JoinPool1
<1>2. CASE FindParentNS \/ AuditOne \/ JoinPool2 \/ ProbeDNSCookies \/ WalkZoneNSEC \/ ProbeRPKIAll
  BY <1>2 DEF FindParentNS, AuditOne, JoinPool2, ProbeDNSCookies, WalkZoneNSEC, ProbeRPKIAll
<1>3. CASE QueryOneResolver \/ JoinPropagation \/ ProbeNSEC3Proof \/ ProbeECSMultiple \/ Report
  BY <1>3 DEF QueryOneResolver, JoinPropagation, ProbeNSEC3Proof, ProbeECSMultiple, Report
<1>4. CASE UNCHANGED vars
  BY <1>4 DEF vars
<1> QED BY <1>1, <1>2, <1>3, <1>4 DEF Next

(* The order of the phases.                                                *)
LEMMA PhaseFacts ==
  ASSUME Next
  PROVE  \/ phase = "resolve" /\ phase' \in {"resolve", "failed", "pool1"}
         \/ phase = "pool1" /\ phase' \in {"pool1", "pool2", "cookies"}
         \/ phase = "pool2" /\ phase' \in {"pool2", "cookies"}
         \/ phase = "cookies" /\ phase' \in {"walk", "rpki"}
         \/ phase = "walk" /\ phase' \in {"walk", "rpki"}
         \/ phase = "rpki" /\ phase' = "propagation"
         \/ phase = "propagation" /\ phase' \in {"propagation", "nsec3", "ecs"}
         \/ phase = "nsec3" /\ phase' = "ecs"
         \/ phase = "ecs" /\ phase' = "rollover"
         \/ phase = "rollover" /\ phase' = "done"
<1>1. CASE ResolveViaTransport \/ LookupIP \/ Resolved \/ LookupRecord \/ LookupASN \/ LookupNS \/ Dnssec \/ JoinPool1
  BY <1>1 DEF ResolveViaTransport, LookupIP, Resolved, LookupRecord, LookupASN, LookupNS, Dnssec, JoinPool1
<1>2. CASE FindParentNS \/ AuditOne \/ JoinPool2 \/ ProbeDNSCookies \/ WalkZoneNSEC \/ ProbeRPKIAll
  BY <1>2 DEF FindParentNS, AuditOne, JoinPool2, ProbeDNSCookies, WalkZoneNSEC, ProbeRPKIAll
<1>3. CASE QueryOneResolver \/ JoinPropagation \/ ProbeNSEC3Proof \/ ProbeECSMultiple \/ Report
  BY <1>3 DEF QueryOneResolver, JoinPropagation, ProbeNSEC3Proof, ProbeECSMultiple, Report
<1> QED BY <1>1, <1>2, <1>3 DEF Next

-------------------------------------------------------------------------------
(***************************************************************************)
(* Losses.                                                                 *)
(***************************************************************************)
(* An exchange that may be lost leaves the losses within bounds.           *)
LEMMA LoseOne ==
  ASSUME Losses, world.faults \in Nat, MayLose, NEW x
  PROVE  IsFiniteSet(lost \cup {x}) /\ Cardinality(lost \cup {x}) <= world.faults
<1>1. Cardinality(lost) \in Nat
  BY FS_CardinalityType DEF Losses
<1>2. /\ IsFiniteSet(lost \cup {x})
      /\ Cardinality(lost \cup {x}) = IF x \in lost THEN Cardinality(lost) ELSE Cardinality(lost) + 1
  BY FS_AddElement DEF Losses
<1> QED BY <1>1, <1>2 DEF MayLose

(* So do the exchanges that a step loses together.                         *)
LEMMA LoseSome ==
  ASSUME Losses, world.faults \in Nat, NEW name, NEW gone, IsFiniteSet(gone),
         Cardinality(lost) + Cardinality(gone) <= world.faults
  PROVE  LET more == lost \cup {<<name, x>> : x \in gone}
         IN  IsFiniteSet(more) /\ Cardinality(more) <= world.faults
<1> DEFINE tags == {<<name, x>> : x \in gone}
           f == [x \in gone |-> <<name, x>>]
<1>1. f \in Surjection(gone, tags)
  BY DEF Surjection
<1>2. IsFiniteSet(tags) /\ Cardinality(tags) <= Cardinality(gone)
  BY <1>1, FS_Surjection
<1>3. Cardinality(lost) \in Nat /\ Cardinality(gone) \in Nat /\ Cardinality(tags) \in Nat /\ IsFiniteSet(lost)
  BY <1>2, FS_CardinalityType DEF Losses
<1> HIDE DEF tags, f
<1>4. /\ IsFiniteSet(lost \cup tags)
      /\ Cardinality(lost \cup tags) = Cardinality(lost) + Cardinality(tags) - Cardinality(lost \cap tags)
  BY <1>2, <1>3, FS_Union
<1>5. Cardinality(lost \cap tags) \in Nat
  BY <1>3, FS_Intersection, FS_CardinalityType
<1>6. Cardinality(lost \cup tags) <= world.faults
  BY <1>2, <1>3, <1>4, <1>5
<1> QED BY <1>4, <1>6 DEF tags

LEMMA LossesKept ==
  ASSUME Shapes, Losses, [Next]_vars
  PROVE  Losses'
<1>1. world.faults \in Nat /\ world' = world
  BY WorldsAssumption, StepFacts DEF Shapes
<1>2. CASE lost' = lost
  BY <1>1, <1>2 DEF Losses
<1>3. ASSUME NEW x, MayLose, lost' = lost \cup {x} PROVE Losses'
  BY <1>1, <1>3, LoseOne DEF Losses
<1>4. ASSUME NEW o, o.gone = {} \/ (MayLose /\ \E x : o.gone = {x}), lost' = lost \cup o.gone PROVE Losses'
  BY <1>2, <1>3, <1>4
<1>5. CASE ResolveViaTransport \/ LookupRecord \/ LookupNS \/ Report
  <2>1. ASSUME NEW name, NEW full, NEW o \in QueryDNS(name, full), lost' = lost \cup o.gone PROVE Losses'
    <3>1. o.gone = {} \/ (MayLose /\ \E x : o.gone = {x})
      BY <2>1, QueryFacts
    <3> QED BY <1>4, <2>1, <3>1
  <2>2. ASSUME NEW name, NEW full, NEW o \in Lookup(name, full), lost' = lost \cup o.gone PROVE Losses'
    BY <2>1, <2>2 DEF Lookup
  <2>3. ASSUME NEW o \in {[rrs |-> {}, gone |-> {}]}, lost' = lost \cup o.gone PROVE Losses'
    BY <1>2, <2>3
  <2>4. CASE ResolveViaTransport
    BY <2>1, <2>4 DEF ResolveViaTransport
  <2>5. CASE LookupRecord
    BY <2>1, <2>2, <2>5 DEF LookupRecord
  <2>6. CASE LookupNS
    BY <2>2, <2>6 DEF LookupNS
  <2>7. CASE Report
    BY <2>1, <2>3, <2>7 DEF Report
  <2> QED BY <1>5, <2>4, <2>5, <2>6, <2>7
<1>6. CASE LookupIP
  <2>1. PICK gone \in {{}, {<<"ip", 1>>}, {<<"ip", 1>>, <<"ip", 2>>}} :
           Cardinality(lost \cup gone) <= world.faults /\ lost' = lost \cup gone
    BY <1>6 DEF LookupIP
  <2>2. IsFiniteSet(lost \cup {<<"ip", 1>>})
    BY FS_AddElement DEF Losses
  <2>3. IsFiniteSet(lost \cup {<<"ip", 1>>} \cup {<<"ip", 2>>})
    BY <2>2, FS_AddElement
  <2>4. lost \cup gone = lost \/ lost \cup gone = lost \cup {<<"ip", 1>>} \/ lost \cup gone = lost \cup {<<"ip", 1>>} \cup {<<"ip", 2>>}
    OBVIOUS
  <2>5. IsFiniteSet(lost \cup gone)
    BY <2>2, <2>3, <2>4 DEF Losses
  <2> QED BY <1>1, <2>1, <2>5 DEF Losses
<1>7. CASE ProbeRPKIAll
  <2>1. PICK gone \in SUBSET (rec["asn"] \cap addrs["A"]) :
           /\ Cardinality(lost) + Cardinality(gone) <= world.faults
           /\ lost' = lost \cup {<<"rpki", ip>> : ip \in gone}
    BY <1>7 DEF ProbeRPKIAll
  <2>2. IsFiniteSet(addrs["A"]) /\ gone \in SUBSET addrs["A"]
    BY DEF Shapes, Families
  <2>3. IsFiniteSet(gone)
    BY <2>2, FS_Subset
  <2> QED BY <1>1, <2>1, <2>3, LoseSome DEF Losses
<1>8. CASE ProbeECSMultiple
  <2>1. PICK gone \in SUBSET DOMAIN world.ecs :
           /\ Cardinality(lost) + Cardinality(gone) <= world.faults
           /\ lost' = lost \cup {<<"ecs", e>> : e \in gone}
    BY <1>8 DEF ProbeECSMultiple
  <2>2. IsFiniteSet(gone)
    BY WorldsAssumption, FS_Subset DEF Shapes
  <2> QED BY <1>1, <2>1, <2>2, LoseSome DEF Losses
<1>9. CASE LookupASN \/ Dnssec \/ FindParentNS \/ AuditOne \/ ProbeDNSCookies \/ WalkZoneNSEC \/ QueryOneResolver \/ ProbeNSEC3Proof
  <2>1. lost' = lost \/ (MayLose /\ \E x : lost' = lost \cup {x})
    BY <1>9 DEF LookupASN, Dnssec, FindParentNS, AuditOne, ProbeDNSCookies, WalkZoneNSEC, QueryOneResolver, ProbeNSEC3Proof
  <2> QED BY <1>2, <1>3, <2>1
<1>10. CASE Resolved \/ JoinPool1 \/ JoinPool2 \/ JoinPropagation
  BY <1>2, <1>10 DEF Resolved, JoinPool1, JoinPool2, JoinPropagation
<1>11. CASE UNCHANGED vars
  BY <1>2, <1>11 DEF vars
<1> QED BY <1>5, <1>6, <1>7, <1>8, <1>9, <1>10, <1>11 DEF Next

-------------------------------------------------------------------------------
(***************************************************************************)
(* Shapes, addresses, records and name servers.                            *)
(***************************************************************************)

LEMMA ShapesKept ==
  ASSUME Shapes, [Next]_vars
  PROVE  Shapes'
<1>1. world' = world /\ phase' \in Phases
  BY StepFacts, PhaseFacts DEF Shapes, Phases, vars
<1>2. \A f \in Families : IsFiniteSet(world.addr[f])
  BY WorldsAssumption DEF Shapes
<1>3. DOMAIN addrs' = Families /\ \A f \in Families : IsFiniteSet(addrs'[f])
  <2>1. CASE ResolveViaTransport
    <3>1. PICK f \in Families : \E o \in QueryDNS(f, world.addr[f]) : addrs' = [addrs EXCEPT ![f] = o.rrs]
      BY <2>1 DEF ResolveViaTransport
    <3>2. PICK o \in QueryDNS(f, world.addr[f]) : addrs' = [addrs EXCEPT ![f] = o.rrs]
      BY <3>1
    <3>3. o.rrs \in SUBSET world.addr[f]
      BY QueryFacts
    <3>4. IsFiniteSet(o.rrs)
      BY <1>2, <3>3, FS_Subset
    <3> QED BY <3>2, <3>4 DEF Shapes
  <2>2. CASE LookupIP
    BY <1>2, <2>2, WorldsAssumption DEF LookupIP, Shapes
  <2>3. CASE addrs' = addrs
    BY <2>3 DEF Shapes
  <2>4. CASE Resolved \/ LookupRecord \/ LookupASN \/ LookupNS \/ Dnssec \/ JoinPool1
    BY <2>3, <2>4 DEF Resolved, LookupRecord, LookupASN, LookupNS, Dnssec, JoinPool1
  <2>5. CASE FindParentNS \/ AuditOne \/ JoinPool2 \/ ProbeDNSCookies \/ WalkZoneNSEC \/ ProbeRPKIAll
    BY <2>3, <2>5 DEF FindParentNS, AuditOne, JoinPool2, ProbeDNSCookies, WalkZoneNSEC, ProbeRPKIAll
  <2>6. CASE QueryOneResolver \/ JoinPropagation \/ ProbeNSEC3Proof \/ ProbeECSMultiple \/ Report
    BY <2>3, <2>6 DEF QueryOneResolver, JoinPropagation, ProbeNSEC3Proof, ProbeECSMultiple, Report
  <2>7. CASE UNCHANGED vars
    BY <2>3, <2>7 DEF vars
  <2> QED BY <2>1, <2>2, <2>4, <2>5, <2>6, <2>7 DEF Next
<1>4. DOMAIN rec' = Lookups \cup {"asn"}
  <2>1. CASE LookupRecord \/ LookupASN
    BY <2>1 DEF LookupRecord, LookupASN, Shapes
  <2>2. CASE ResolveViaTransport \/ LookupIP \/ Resolved \/ LookupNS \/ Dnssec \/ JoinPool1
    BY <2>2 DEF ResolveViaTransport, LookupIP, Resolved, LookupNS, Dnssec, JoinPool1, Shapes
  <2>3. CASE FindParentNS \/ AuditOne \/ JoinPool2 \/ ProbeDNSCookies \/ WalkZoneNSEC \/ ProbeRPKIAll
    BY <2>3 DEF FindParentNS, AuditOne, JoinPool2, ProbeDNSCookies, WalkZoneNSEC, ProbeRPKIAll, Shapes
  <2>4. CASE QueryOneResolver \/ JoinPropagation \/ ProbeNSEC3Proof \/ ProbeECSMultiple \/ Report
    BY <2>4 DEF QueryOneResolver, JoinPropagation, ProbeNSEC3Proof, ProbeECSMultiple, Report, Shapes
  <2>5. CASE UNCHANGED vars
    BY <2>5 DEF vars, Shapes
  <2> QED BY <2>1, <2>2, <2>3, <2>4, <2>5 DEF Next
<1>5. /\ DOMAIN after' = {"cookies", "rpki", "nsec3", "ecs", "families"}
      /\ DOMAIN after'.nsec3 = {"status", "hash", "records"}
  <2>1. CASE after' = after
    BY <2>1 DEF Shapes
  <2>2. CASE ProbeDNSCookies
    BY <2>2 DEF ProbeDNSCookies, Shapes
  <2>3. CASE ProbeRPKIAll
    <3>1. PICK v : after' = [after EXCEPT !.rpki = v]
      BY <2>3 DEF ProbeRPKIAll
    <3> QED BY <3>1 DEF Shapes
  <2>4. CASE ProbeECSMultiple
    <3>1. PICK v : after' = [after EXCEPT !.ecs = v]
      BY <2>4 DEF ProbeECSMultiple
    <3> QED BY <3>1 DEF Shapes
  <2>5. CASE Report
    <3>1. PICK v : after' = [after EXCEPT !.families = v]
      BY <2>5 DEF Report
    <3> QED BY <3>1 DEF Shapes
  <2>6. CASE ProbeNSEC3Proof
    <3>1. \/ \E a, b, c : after' = [after EXCEPT !.nsec3 = [status |-> a, hash |-> b, records |-> c]]
          \/ after' = [after EXCEPT !.nsec3.status = "no_nxdomain"]
      BY <2>6 DEF ProbeNSEC3Proof
    <3> QED BY <3>1 DEF Shapes
  <2>7. CASE ResolveViaTransport \/ LookupIP \/ Resolved \/ LookupRecord \/ LookupASN \/ LookupNS \/ Dnssec \/ JoinPool1
    BY <2>1, <2>7 DEF ResolveViaTransport, LookupIP, Resolved, LookupRecord, LookupASN, LookupNS, Dnssec, JoinPool1
  <2>8. CASE FindParentNS \/ AuditOne \/ JoinPool2 \/ WalkZoneNSEC \/ QueryOneResolver \/ JoinPropagation
    BY <2>1, <2>8 DEF FindParentNS, AuditOne, JoinPool2, WalkZoneNSEC, QueryOneResolver, JoinPropagation
  <2>9. CASE UNCHANGED vars
    BY <2>1, <2>9 DEF vars
  <2> QED BY <2>2, <2>3, <2>4, <2>5, <2>6, <2>7, <2>8, <2>9 DEF Next
<1> QED BY <1>1, <1>3, <1>4, <1>5 DEF Shapes

(* Excuses last.                                                           *)
LEMMA ResolvingKept ==
  ASSUME Shapes, Resolving, [Next]_vars
  PROVE  Resolving'
<1>1. world' = world /\ lost \subseteq lost' /\ DOMAIN addrs = Families
  BY StepFacts DEF Shapes
<1>2. \A f : Excused(f) => Excused(f)'
  BY <1>1 DEF Excused
<1>3. CASE ResolveViaTransport
  <2>1. PICK f \in Families :
          /\ <<f, 1>> \in running /\ running' = running \ {<<f, 1>>}
          /\ \E o \in QueryDNS(f, world.addr[f]) : addrs' = [addrs EXCEPT ![f] = o.rrs] /\ lost' = lost \cup o.gone
    BY <1>3 DEF ResolveViaTransport
  <2>2. PICK o \in QueryDNS(f, world.addr[f]) : addrs' = [addrs EXCEPT ![f] = o.rrs] /\ lost' = lost \cup o.gone
    BY <2>1
  <2>3. phase = "resolve" /\ phase' = "resolve"
    BY <1>3 DEF ResolveViaTransport
  <2>4. addrs'[f] = world.addr[f] \/ Excused(f)'
    <3>1. CASE o.rrs = world.addr[f]
      BY <1>1, <2>2, <3>1
    <3>2. ASSUME NEW k \in 1..2, o.gone = {<<f, k>>} PROVE Excused(f)'
      BY <2>2, <3>2 DEF Excused
    <3> QED BY <3>1, <3>2, QueryFacts
  <2>5. ASSUME NEW g \in Families, g # f, running' \cap {<<g, 1>>, <<"ip", 1>>} = {}
        PROVE  addrs'[g] = world.addr[g] \/ Excused(g)'
    <3>1. f # "ip"
      BY DEF Families
    <3>2. running \cap {<<g, 1>>, <<"ip", 1>>} = {}
      BY <2>1, <2>5, <3>1
    <3>3. addrs'[g] = addrs[g]
      BY <1>1, <2>2, <2>5
    <3> QED BY <1>2, <2>3, <3>2, <3>3 DEF Resolving
  <2> QED BY <1>1, <2>3, <2>4, <2>5 DEF Resolving
<1>4. CASE LookupIP
  <2>1. PICK gone \in {{}, {<<"ip", 1>>}, {<<"ip", 1>>, <<"ip", 2>>}} :
           lost' = lost \cup gone /\ addrs' = IF Cardinality(gone) = 2 THEN addrs ELSE world.addr
    BY <1>4 DEF LookupIP
  <2>2. phase' = "resolve"
    BY <1>4 DEF LookupIP
  <2>3. CASE gone = {<<"ip", 1>>, <<"ip", 2>>}
    <3>1. {<<"ip", 1>>, <<"ip", 2>>} \subseteq lost'
      BY <2>1, <2>3
    <3> QED BY <2>2, <3>1 DEF Resolving, Excused
  <2>4. CASE gone # {<<"ip", 1>>, <<"ip", 2>>}
    <3>1. Cardinality({}) = 0 /\ Cardinality({<<"ip", 1>>}) = 1
      BY FS_EmptySet, FS_Singleton
    <3>2. Cardinality(gone) # 2
      BY <2>4, <3>1
    <3> QED BY <1>1, <2>1, <2>2, <3>2 DEF Resolving
  <2> QED BY <2>3, <2>4
<1>5. CASE Resolved
  <2>1. /\ phase = "resolve" /\ running = {} /\ addrs' = addrs /\ lost' = lost
        /\ phase' = "failed" => NoAddress
    BY <1>5 DEF Resolved
  <2>2. NoAddress => \A f \in Families : addrs[f] = {}
    BY DEF NoAddress, Addresses
  <2> QED BY <1>1, <1>2, <2>1, <2>2 DEF Resolving
<1>6. CASE addrs' = addrs /\ phase # "resolve" /\ phase' \notin {"resolve", "failed"}
  BY <1>1, <1>2, <1>6 DEF Resolving
<1>7. CASE LookupRecord \/ LookupASN \/ LookupNS \/ Dnssec \/ JoinPool1
  BY <1>6, <1>7 DEF LookupRecord, LookupASN, LookupNS, Dnssec, JoinPool1
<1>8. CASE FindParentNS \/ AuditOne \/ JoinPool2 \/ ProbeDNSCookies \/ WalkZoneNSEC \/ ProbeRPKIAll
  BY <1>6, <1>8 DEF FindParentNS, AuditOne, JoinPool2, ProbeDNSCookies, WalkZoneNSEC, ProbeRPKIAll
<1>9. CASE QueryOneResolver \/ JoinPropagation \/ ProbeNSEC3Proof \/ ProbeECSMultiple \/ Report
  BY <1>6, <1>9 DEF QueryOneResolver, JoinPropagation, ProbeNSEC3Proof, ProbeECSMultiple, Report
<1>10. CASE UNCHANGED vars
  BY <1>10 DEF vars, Resolving, Excused
<1> QED BY <1>3, <1>4, <1>5, <1>7, <1>8, <1>9, <1>10 DEF Next

(* A goroutine of the first pool returns by its own step only.             *)
LEMMA ReturnFacts ==
  ASSUME [Next]_vars, NEW l \in Lookups \cup {"ns", "dnssec"}, Returned(<<l, 1>>)', ~Returned(<<l, 1>>)
  PROVE  /\ <<l, 1>> \in running /\ <<l, 1>> \notin running'
         /\ (l \in Lookups /\ LookupRecord) \/ (l = "ns" /\ LookupNS) \/ (l = "dnssec" /\ Dnssec)
<1>1. l # "asn" /\ \A m \in Lookups : m \notin {"ns", "dnssec"}
  BY LookupsAssumption
<1>2. CASE ResolveViaTransport \/ LookupIP
  BY <1>2 DEF ResolveViaTransport, LookupIP, Returned, AfterPool1, AfterPool2
<1>3. CASE Resolved
  <2>1. phase' = "failed" \/ (phase' = "pool1" /\ <<l, 1>> \in running')
    BY <1>3 DEF Resolved, Pool1
  <2> QED BY <2>1 DEF Returned, AfterPool1, AfterPool2
<1>4. CASE LookupRecord \/ LookupNS \/ Dnssec
  <2>1. phase = "pool1" /\ phase' = "pool1"
    BY <1>4 DEF LookupRecord, LookupNS, Dnssec
  <2>2. <<l, 1>> \in running /\ <<l, 1>> \notin running'
    BY <2>1 DEF Returned, AfterPool1, AfterPool2
  <2>3. CASE LookupRecord
    <3>1. PICK m \in Lookups : running' = running \ {<<m, 1>>}
      BY <2>3 DEF LookupRecord
    <3>2. <<l, 1>> = <<m, 1>>
      BY <2>2, <3>1
    <3> QED BY <2>2, <2>3, <3>2
  <2>4. CASE LookupNS
    <3>1. <<l, 1>> = <<"ns", 1>>
      BY <2>2, <2>4 DEF LookupNS
    <3> QED BY <2>2, <2>4, <3>1
  <2>5. CASE Dnssec
    <3>1. <<l, 1>> = <<"dnssec", 1>>
      BY <2>2, <2>5 DEF Dnssec
    <3> QED BY <2>2, <2>5, <3>1
  <2> QED BY <1>4, <2>3, <2>4, <2>5
<1>5. CASE LookupASN
  <2>1. phase = "pool1" /\ phase' = "pool1" /\ \E ip : running' = running \ {<<"asn", ip>>}
    BY <1>5 DEF LookupASN
  <2>2. \A ip : <<l, 1>> # <<"asn", ip>>
    BY <1>1
  <2> QED BY <2>1, <2>2 DEF Returned, AfterPool1, AfterPool2
<1>6. CASE JoinPool1
  BY <1>6 DEF JoinPool1, Waited, Returned
<1>7. CASE FindParentNS \/ AuditOne \/ JoinPool2 \/ ProbeDNSCookies \/ WalkZoneNSEC \/ ProbeRPKIAll
  BY <1>7 DEF FindParentNS, AuditOne, JoinPool2, ProbeDNSCookies, WalkZoneNSEC, ProbeRPKIAll, Returned, AfterPool1, AfterPool2
<1>8. CASE QueryOneResolver \/ JoinPropagation \/ ProbeNSEC3Proof \/ ProbeECSMultiple \/ Report
  BY <1>8 DEF QueryOneResolver, JoinPropagation, ProbeNSEC3Proof, ProbeECSMultiple, Report, Returned, AfterPool1, AfterPool2
<1>9. CASE UNCHANGED vars
  BY <1>9 DEF vars, Returned
<1> QED BY <1>2, <1>3, <1>4, <1>5, <1>6, <1>7, <1>8, <1>9 DEF Next

(* In the first pool no goroutine is started.                              *)
LEMMA RunningFacts ==
  ASSUME [Next]_vars, phase = "pool1", phase' = "pool1"
  PROVE  running' \subseteq running
<1>1. CASE LookupRecord \/ LookupASN \/ LookupNS \/ Dnssec \/ JoinPool1
  BY <1>1 DEF LookupRecord, LookupASN, LookupNS, Dnssec, JoinPool1
<1>2. CASE ResolveViaTransport \/ LookupIP \/ Resolved
  BY <1>2 DEF ResolveViaTransport, LookupIP, Resolved
<1>3. CASE FindParentNS \/ AuditOne \/ JoinPool2 \/ ProbeDNSCookies \/ WalkZoneNSEC \/ ProbeRPKIAll
  BY <1>3 DEF FindParentNS, AuditOne, JoinPool2, ProbeDNSCookies, WalkZoneNSEC, ProbeRPKIAll
<1>4. CASE QueryOneResolver \/ JoinPropagation \/ ProbeNSEC3Proof \/ ProbeECSMultiple \/ Report
  BY <1>4 DEF QueryOneResolver, JoinPropagation, ProbeNSEC3Proof, ProbeECSMultiple, Report
<1>5. CASE UNCHANGED vars
  BY <1>5 DEF vars
<1> QED BY <1>1, <1>2, <1>3, <1>4, <1>5 DEF Next

LEMMA FetchedKept ==
  ASSUME Shapes, Fetched, [Next]_vars
  PROVE  Fetched'
<1>1. world' = world /\ lost \subseteq lost' /\ DOMAIN rec = Lookups \cup {"asn"}
  BY StepFacts DEF Shapes
<1>2. \A l \in Lookups : l \notin {"asn", "ns", "dnssec"}
  BY LookupsAssumption
<1>3. CASE LookupRecord
  <2>1. PICK l \in Lookups :
          /\ <<l, 1>> \in running /\ running' = running \ {<<l, 1>>}
          /\ \E o \in IF l \in Direct THEN QueryDNS(l, world.rec[l]) ELSE Lookup(l, world.rec[l]) :
               rec' = [rec EXCEPT ![l] = o.rrs] /\ lost' = lost \cup o.gone
    BY <1>3 DEF LookupRecord
  <2>2. PICK o \in IF l \in Direct THEN QueryDNS(l, world.rec[l]) ELSE Lookup(l, world.rec[l]) :
               rec' = [rec EXCEPT ![l] = o.rrs] /\ lost' = lost \cup o.gone
    BY <2>1
  <2>3. o \in QueryDNS(l, world.rec[l])
    BY DEF Lookup
  <2>4. o.rrs \subseteq world.rec[l] /\ (o.rrs = world.rec[l] \/ \E k \in 1..2 : <<l, k>> \in o.gone)
    BY <2>3, QueryFacts
  <2>5. rec'[l] \subseteq world.rec[l] /\ (rec'[l] = world.rec[l] \/ \E k \in 1..2 : <<l, k>> \in lost')
    BY <1>1, <2>2, <2>4
  <2>6. ASSUME NEW m \in Lookups, m # l
        PROVE  /\ rec'[m] = rec[m]
               /\ Returned(<<m, 1>>)' => Returned(<<m, 1>>)
    <3>1. <<m, 1>> \in running => <<m, 1>> \in running'
      BY <2>1, <2>6
    <3> QED BY <1>1, <2>2, <2>6, <3>1, ReturnFacts
  <2> QED BY <1>1, <2>5, <2>6 DEF Fetched
<1>4. ASSUME ~LookupRecord, \A l \in Lookups : rec'[l] = rec[l] PROVE Fetched'
  <2>1. ASSUME NEW l \in Lookups, Returned(<<l, 1>>)' PROVE Returned(<<l, 1>>)
    BY <1>2, <1>4, <2>1, ReturnFacts
  <2> QED BY <1>1, <1>4, <2>1 DEF Fetched
<1>6. CASE LookupASN
  BY <1>1, <1>2, <1>3, <1>4, <1>6 DEF LookupASN
<1>7. CASE ResolveViaTransport \/ LookupIP \/ Resolved \/ LookupNS \/ Dnssec \/ JoinPool1
  BY <1>3, <1>4, <1>7 DEF ResolveViaTransport, LookupIP, Resolved, LookupNS, Dnssec, JoinPool1
<1>8. CASE FindParentNS \/ AuditOne \/ JoinPool2 \/ ProbeDNSCookies \/ WalkZoneNSEC \/ ProbeRPKIAll
  BY <1>3, <1>4, <1>8 DEF FindParentNS, AuditOne, JoinPool2, ProbeDNSCookies, WalkZoneNSEC, ProbeRPKIAll
<1>9. CASE QueryOneResolver \/ JoinPropagation \/ ProbeNSEC3Proof \/ ProbeECSMultiple \/ Report
  BY <1>3, <1>4, <1>9 DEF QueryOneResolver, JoinPropagation, ProbeNSEC3Proof, ProbeECSMultiple, Report
<1>10. CASE UNCHANGED vars
  BY <1>3, <1>4, <1>10 DEF vars
<1> QED BY <1>3, <1>6, <1>7, <1>8, <1>9, <1>10 DEF Next

LEMMA NameServersKept ==
  ASSUME NameServers, [Next]_vars
  PROVE  NameServers'
<1>1. world' = world /\ lost \subseteq lost'
  BY StepFacts
<1>2. CASE LookupNS
  <2>1. PICK o \in Lookup("ns", {}) : ns' = (IF o.err THEN << >> ELSE world.ns) /\ lost' = lost \cup o.gone
    BY <1>2 DEF LookupNS
  <2>2. ~o.err \/ o.gone = {<<"ns", 1>>}
    BY LookupFacts
  <2> QED BY <1>1, <2>1, <2>2 DEF NameServers
<1>3. ASSUME ~LookupNS, ns' = ns PROVE NameServers'
  <2>1. "ns" \notin Lookups
    BY LookupsAssumption
  <2>2. Returned(<<"ns", 1>>)' => Returned(<<"ns", 1>>)
    BY <1>3, <2>1, ReturnFacts
  <2> QED BY <1>1, <1>3, <2>2 DEF NameServers
<1>4. CASE ResolveViaTransport \/ LookupIP \/ Resolved \/ LookupRecord \/ LookupASN \/ Dnssec \/ JoinPool1
  BY <1>2, <1>3, <1>4 DEF ResolveViaTransport, LookupIP, Resolved, LookupRecord, LookupASN, Dnssec, JoinPool1
<1>5. CASE FindParentNS \/ AuditOne \/ JoinPool2 \/ ProbeDNSCookies \/ WalkZoneNSEC \/ ProbeRPKIAll
  BY <1>2, <1>3, <1>5 DEF FindParentNS, AuditOne, JoinPool2, ProbeDNSCookies, WalkZoneNSEC, ProbeRPKIAll
<1>6. CASE QueryOneResolver \/ JoinPropagation \/ ProbeNSEC3Proof \/ ProbeECSMultiple \/ Report
  BY <1>2, <1>3, <1>6 DEF QueryOneResolver, JoinPropagation, ProbeNSEC3Proof, ProbeECSMultiple, Report
<1>7. CASE UNCHANGED vars
  BY <1>2, <1>3, <1>7 DEF vars
<1> QED BY <1>2, <1>4, <1>5, <1>6, <1>7 DEF Next

-------------------------------------------------------------------------------
(***************************************************************************)
(* The chain of trust.                                                     *)
(***************************************************************************)

(* Trust is handed down one zone at a time.                                *)
LEMMA TrustDown ==
  ASSUME NEW z \in 2..ZoneCount, Trusted(z - 1), GoodLink(z)
  PROVE  Trusted(z)
<1>1. \A y \in 2..z : y = z \/ y \in 2..z - 1
  BY DEF ZoneCount
<1> QED BY <1>1 DEF Trusted

(* All of it is the chain.                                                 *)
LEMMA TrustAll ==
  GoodChain <=> world.registrable /\ world.aSig # None /\ world.aSig \in Keys(ZoneCount) /\ Trusted(ZoneCount)
BY DEF GoodChain, Trusted

(* What the steps of the validation do to the record.                      *)
LEMMA EndFacts ==
  ASSUME NEW s, NEW gone, ChainAt(s, gone)
  PROVE  /\ DOMAIN End(s) = SecFields
         /\ End(s).step = "end" /\ End(s).zone = s.zone /\ End(s).signed = s.signed
         /\ End(s).levels = s.levels /\ End(s).chain = s.chain /\ End(s).cut = s.cut
BY DEF ChainAt, End, SecFields

LEMMA AppendLevel ==
  ASSUME NEW levels \in Seq(BOOLEAN), \A i \in 1..Len(levels) : levels[i] = TRUE, NEW b \in BOOLEAN
  PROVE  /\ Append(levels, b) \in Seq(BOOLEAN) /\ Len(Append(levels, b)) = Len(levels) + 1
         /\ \A i \in 1..Len(Append(levels, b)) - 1 : Append(levels, b)[i] = TRUE
         /\ b = TRUE => \A i \in 1..Len(Append(levels, b)) : Append(levels, b)[i] = TRUE
<1> DEFINE more == Append(levels, b)
<1>1. more \in Seq(BOOLEAN) /\ Len(more) = Len(levels) + 1
  OBVIOUS
<1>2. \A i \in 1..Len(levels) : more[i] = levels[i]
  OBVIOUS
<1>3. more[Len(levels) + 1] = b
  OBVIOUS
<1>4. Len(levels) \in Nat
  OBVIOUS
<1> HIDE DEF more
<1>5. \A i \in 1..Len(more) - 1 : i \in 1..Len(levels)
  BY <1>1, <1>4
<1>6. \A i \in 1..Len(more) : i \in 1..Len(levels) \/ i = Len(levels) + 1
  BY <1>1, <1>4
<1> QED BY <1>1, <1>2, <1>3, <1>5, <1>6 DEF more

(* An end with the levels trusted so far, when the chain is not good or    *)
(* there is an excuse.                                                     *)
LEMMA EndsWell ==
  ASSUME NEW s, NEW gone, ChainAt(s, gone), s.chain = FALSE, s.step # "end",
         \A i \in 1..Len(s.levels) : s.levels[i] = TRUE,
         AnswerSigned => s.signed = TRUE \/ Excuse(s, gone),
         GoodChain => Excuse(s, gone)
  PROVE  ChainAt(End(s), gone)
<1>1. /\ DOMAIN End(s) = SecFields /\ End(s).step = "end" /\ End(s).zone = s.zone /\ End(s).cut = s.cut
      /\ End(s).signed = s.signed /\ End(s).levels = s.levels /\ End(s).chain = FALSE
  BY EndFacts
<1>2. \A i \in 1..Len(s.levels) - 1 : s.levels[i] = TRUE
  <2>1. Len(s.levels) \in Nat
    BY DEF ChainAt
  <2>2. \A i \in 1..Len(s.levels) - 1 : i \in 1..Len(s.levels)
    BY <2>1
  <2> QED BY <2>2
<1>3. Ended(End(s), gone)
  BY <1>1, <1>2 DEF Ended, Excuse
<1>4. AnswerSigned => End(s).signed = TRUE \/ Excuse(End(s), gone)
  BY <1>1 DEF Excuse
<1> QED BY <1>1, <1>3, <1>4 DEF ChainAt

LEMMA RefusesWell ==
  ASSUME NEW s, NEW gone, ChainAt(s, gone), Validating(s), s.step \in {"keys", "ds"},
         GoodChain => Excuse(s, gone)
  PROVE  ChainAt(Refuse(s), gone)
<1> DEFINE r == Refuse(s)
           more == Append(s.levels, FALSE)
<1>1. /\ DOMAIN r = SecFields /\ r.step = "end" /\ r.zone = s.zone /\ r.signed = s.signed
      /\ r.levels = more /\ r.chain = FALSE /\ r.cut = s.cut
  BY DEF ChainAt, Refuse, End, Validating, SecFields
<1>2. more \in Seq(BOOLEAN) /\ \A i \in 1..Len(more) - 1 : more[i] = TRUE
  BY AppendLevel DEF ChainAt, Validating
<1>3. AnswerSigned => s.signed = TRUE \/ Excuse(s, gone)
  BY DEF ChainAt
<1> HIDE DEF r, more
<1>4. Ended(r, gone)
  BY <1>1, <1>2 DEF Ended, Excuse
<1>5. AnswerSigned => r.signed = TRUE \/ Excuse(r, gone)
  BY <1>1, <1>3 DEF Excuse
<1>6. s.zone \in 1..ZoneCount + 1 /\ s.cut \in BOOLEAN
  BY DEF ChainAt
<1>7. ChainAt(r, gone)
  BY <1>1, <1>2, <1>4, <1>5, <1>6 DEF ChainAt
<1> QED BY <1>7 DEF r

LEMMA TrustsWell ==
  ASSUME NEW s, NEW gone, ChainAt(s, gone), Validating(s), s.step = "keys",
         NEW keys \in SUBSET Keys(s.zone), keys = Keys(s.zone) \/ s.cut = TRUE,
         Matches(IF s.zone = 1 THEN Anchors ELSE Zone(s.zone).ds, keys, s.zone)
  PROVE  ChainAt(Trust(s, keys), gone)
<1> DEFINE t == Trust(s, keys)
           more == Append(s.levels, TRUE)
           z == s.zone
<1>1. z \in 1..3 /\ ZoneCount = 3
  BY DEF ChainAt, ZoneCount
<1>2. /\ DOMAIN t = SecFields /\ t.step = (IF z = ZoneCount THEN "leaf" ELSE "ds") /\ t.zone = z + 1
      /\ t.signed = s.signed /\ t.levels = more /\ t.chain = FALSE /\ t.keys = keys /\ t.cut = s.cut
  BY DEF ChainAt, Trust, Validating, SecFields
<1>3. /\ more \in Seq(BOOLEAN) /\ Len(more) = Len(s.levels) + 1
      /\ \A i \in 1..Len(more) : more[i] = TRUE
  BY AppendLevel DEF ChainAt, Validating
<1>4. Len(s.levels) = z - 1
  BY DEF Validating
<1>5. Trusted(z)
  <2>1. CASE z = 1
    BY <2>1 DEF Trusted, Matches
  <2>2. CASE z # 1
    <3>1. z \in 2..ZoneCount /\ z > 1
      BY <1>1, <2>2
    <3>2. Trusted(z - 1) /\ Zone(z).dsSig \in Keys(z - 1)
      BY <3>1 DEF Validating, ChainAt
    <3>3. GoodLink(z)
      BY <2>2, <3>2 DEF Matches, GoodLink
    <3> QED BY <3>1, <3>2, <3>3, TrustDown
  <2> QED BY <2>1, <2>2
<1>6. world.registrable
  BY DEF Validating
<1>7. AnswerSigned => t.signed = TRUE \/ Excuse(t, gone)
  BY <1>2 DEF ChainAt, Excuse
<1>8. keys \subseteq Keys(z) /\ (keys = Keys(z) \/ s.cut = TRUE) /\ s.cut \in BOOLEAN
  BY DEF ChainAt
<1> HIDE DEF t, more, z
<1>9. (z + 1) - 1 = z /\ Len(more) = (z + 1) - 1 /\ z + 1 \in 1..ZoneCount + 1
  BY <1>1, <1>3, <1>4
<1>10. Validating(t)
  BY <1>2, <1>3, <1>5, <1>6, <1>8, <1>9 DEF Validating
<1>11. CASE z = ZoneCount
  BY <1>2, <1>3, <1>7, <1>8, <1>9, <1>10, <1>11 DEF ChainAt, t
<1>12. CASE z # ZoneCount
  <2>1. z + 1 \in 2..ZoneCount
    BY <1>1, <1>12
  <2> QED BY <1>2, <1>3, <1>7, <1>8, <1>9, <1>10, <1>12, <2>1 DEF ChainAt, t
<1> QED BY <1>11, <1>12

(* The first answer: signed, or not signed with an excuse if it should be. *)
LEMMA StatusWell ==
  ASSUME NEW s, NEW gone, ChainAt(s, gone), s.step = "status",
         NEW signed \in BOOLEAN, AnswerSigned => signed = TRUE \/ Excuse(s, gone)
  PROVE  ChainAt(CheckDNSSECStatus(s, signed), gone)
<1> DEFINE c == CheckDNSSECStatus(s, signed)
<1>1. s.zone = 1 /\ s.levels = << >> /\ s.chain = FALSE /\ s.cut \in BOOLEAN
  BY DEF ChainAt
<1>2. /\ DOMAIN c = SecFields /\ c.step = (IF signed /\ world.registrable THEN "keys" ELSE "end")
      /\ c.zone = 1 /\ c.signed = signed /\ c.levels = << >> /\ c.chain = FALSE /\ c.cut = s.cut
  BY <1>1 DEF CheckDNSSECStatus, ChainAt, SecFields
<1> HIDE DEF c
<1>3. c.levels \in Seq(BOOLEAN) /\ Len(c.levels) = 0
  BY <1>2
<1>4. 1 \in 1..ZoneCount + 1 /\ 1 <= ZoneCount /\ 1 - 1 = 0
  BY DEF ZoneCount
<1>5. AnswerSigned => c.signed = TRUE \/ Excuse(c, gone)
  BY <1>2 DEF Excuse
<1>6. CASE signed /\ world.registrable
  <2>1. Validating(c)
    BY <1>2, <1>3, <1>4, <1>6 DEF Validating
  <2>2. c.step = "keys"
    BY <1>2, <1>6
  <2>3. c.zone \in 1..ZoneCount + 1 /\ c.zone <= ZoneCount /\ ~(c.zone > 1)
    BY <1>2, <1>4
  <2>4. ChainAt(c, gone)
    BY <1>1, <1>2, <1>3, <1>5, <2>1, <2>2, <2>3 DEF ChainAt
  <2> QED BY <2>4 DEF c
<1>7. CASE ~(signed /\ world.registrable)
  <2>1. GoodChain => Excuse(c, gone)
    BY <1>2, <1>7 DEF GoodChain, AnswerSigned, Excuse
  <2>2. Ended(c, gone)
    BY <1>2, <1>3, <2>1 DEF Ended
  <2>3. c.step = "end"
    BY <1>2, <1>7
  <2>4. ChainAt(c, gone)
    BY <1>1, <1>2, <1>3, <1>4, <1>5, <2>2, <2>3 DEF ChainAt
  <2> QED BY <2>4 DEF c
<1> QED BY <1>6, <1>7

(* A key set: all of it, or a part of it that was cut.                     *)
LEMMA KeysWell ==
  ASSUME NEW s, NEW gone, ChainAt(s, gone), s.step = "keys",
         NEW keys \in SUBSET Keys(s.zone), keys = Keys(s.zone) \/ s.cut = TRUE
  PROVE  ChainAt(FetchDNSKEYs(s, keys), gone)
<1> DEFINE digests == IF s.zone = 1 THEN Anchors ELSE Zone(s.zone).ds
<1>1. Validating(s) /\ s.zone \in 1..ZoneCount
  BY DEF ChainAt, ZoneCount
<1>2. GoodChain => Excuse(s, gone) \/ (keys # {} /\ Matches(digests, keys, s.zone))
  <2>1. CASE s.cut = TRUE
    BY <2>1 DEF Excuse
  <2>2. CASE keys = Keys(s.zone) /\ s.zone = 1
    BY <2>2 DEF GoodChain, Keys, Matches
  <2>3. CASE keys = Keys(s.zone) /\ s.zone # 1
    <3>1. s.zone \in 2..ZoneCount
      BY <1>1, <2>3 DEF ZoneCount
    <3>2. GoodChain => GoodLink(s.zone)
      BY <3>1 DEF GoodChain
    <3> QED BY <2>3, <3>2 DEF GoodLink, Keys, Matches
  <2> QED BY <2>1, <2>2, <2>3
<1>3. CASE keys = {}
  <2>1. GoodChain => Excuse(s, gone)
    BY <1>2, <1>3
  <2>2. CASE s.zone = 1
    <3>1. FetchDNSKEYs(s, keys) = End(s)
      BY <1>3, <2>2 DEF FetchDNSKEYs
    <3>2. /\ s.chain = FALSE /\ \A i \in 1..Len(s.levels) : s.levels[i] = TRUE
          /\ AnswerSigned => s.signed = TRUE \/ Excuse(s, gone)
      BY <1>1 DEF Validating, ChainAt
    <3> QED BY <2>1, <3>1, <3>2, EndsWell
  <2>3. CASE s.zone # 1
    <3>1. FetchDNSKEYs(s, keys) = Refuse(s)
      BY <1>3, <2>3 DEF FetchDNSKEYs
    <3> QED BY <1>1, <2>1, <3>1, RefusesWell
  <2> QED BY <2>2, <2>3
<1>4. CASE keys # {} /\ Matches(digests, keys, s.zone)
  <2>1. FetchDNSKEYs(s, keys) = Trust(s, keys)
    BY <1>4 DEF FetchDNSKEYs
  <2> QED BY <1>1, <1>4, <2>1, TrustsWell
<1>5. CASE keys # {} /\ ~Matches(digests, keys, s.zone)
  <2>1. FetchDNSKEYs(s, keys) = Refuse(s)
    BY <1>5 DEF FetchDNSKEYs
  <2> QED BY <1>1, <1>2, <1>5, <2>1, RefusesWell
<1> QED BY <1>3, <1>4, <1>5

(* A zone asked about is one of the chain.                                 *)
LEMMA NoNoneKey ==
  ASSUME world \in Worlds, NEW z \in 1..ZoneCount
  PROVE  None \notin Keys(z)
<1> DEFINE suffix == world.suffix
           last == Len(world.zones)
<1>1. suffix \in 2..last - 1
  BY WorldsAssumption
<1>2. \A y \in 1..last : None \notin world.zones[y].ksk \cup world.zones[y].zsk
  BY WorldsAssumption
<1>3. z \in 1..3
  BY DEF ZoneCount
<1>4. Keys(z) = world.zones[IF z = 1 THEN 1 ELSE suffix + z - 2].ksk \cup world.zones[IF z = 1 THEN 1 ELSE suffix + z - 2].zsk
  BY DEF Keys, Zone
<1> HIDE DEF suffix, last
<1>5. CASE last \in Int
  <2>1. (IF z = 1 THEN 1 ELSE suffix + z - 2) \in 1..last
    BY <1>1, <1>3, <1>5
  <2> QED BY <1>2, <1>4, <2>1
<1> QED BY <1>5, WorldsAssumption DEF last

(* An exchange whose answer arrives whole.                                 *)
LEMMA WholeWell ==
  ASSUME world \in Worlds, NEW s, NEW gone, ChainAt(s, gone), s.step # "end"
  PROVE  ChainAt(Whole(s), gone)
<1>1. CASE s.step = "status"
  <2>1. AnswerSigned \in BOOLEAN
    BY DEF AnswerSigned
  <2>2. Whole(s) = CheckDNSSECStatus(s, AnswerSigned)
    BY <1>1 DEF Whole
  <2> QED BY <1>1, <2>1, <2>2, StatusWell
<1>2. CASE s.step = "keys"
  <2>1. Whole(s) = FetchDNSKEYs(s, Keys(s.zone))
    BY <1>2 DEF Whole
  <2> QED BY <1>2, <2>1, KeysWell
<1>3. CASE s.step = "ds"
  <2>1. Validating(s) /\ s.zone \in 2..ZoneCount
    BY <1>3 DEF ChainAt
  <2>2. /\ s.zone > 1 /\ s.zone - 1 \in 1..ZoneCount
        /\ s.keys \subseteq Keys(s.zone - 1) /\ (s.keys = Keys(s.zone - 1) \/ s.cut = TRUE)
    BY <2>1 DEF Validating, ZoneCount
  <2> DEFINE zone == Zone(s.zone)
  <2>3. CASE zone.ds # {} /\ VerifyRRSIG(zone.dsSig, s.keys)
    <3> DEFINE k == [s EXCEPT !.step = "keys"]
    <3>1. Whole(s) = k
      BY <1>3, <2>3 DEF Whole, FetchSignedDS
    <3>2. /\ DOMAIN k = SecFields /\ k.step = "keys" /\ k.zone = s.zone /\ k.signed = s.signed
          /\ k.levels = s.levels /\ k.chain = s.chain /\ k.keys = s.keys /\ k.cut = s.cut
      BY DEF ChainAt, SecFields
    <3> HIDE DEF k
    <3>3. Validating(k)
      BY <2>1, <3>2 DEF Validating
    <3>4. zone.dsSig \in Keys(s.zone - 1)
      BY <2>2, <2>3 DEF VerifyRRSIG
    <3>5. AnswerSigned => k.signed = TRUE \/ Excuse(k, gone)
      BY <1>3, <3>2 DEF ChainAt, Excuse
    <3> HIDE DEF zone
    <3> QED BY <1>3, <2>1, <3>1, <3>2, <3>3, <3>4, <3>5 DEF ChainAt, zone
  <2>4. CASE ~(zone.ds # {} /\ VerifyRRSIG(zone.dsSig, s.keys))
    <3>1. Whole(s) = Refuse(s)
      BY <1>3, <2>4 DEF Whole, FetchSignedDS
    <3>2. ASSUME GoodChain, s.cut # TRUE PROVE FALSE
      <4>1. GoodLink(s.zone)
        BY <2>1, <3>2 DEF GoodChain
      <4>2. zone.dsSig \in Keys(s.zone - 1) /\ zone.ds # {}
        BY <4>1 DEF GoodLink
      <4>3. None \notin Keys(s.zone - 1)
        BY <2>2, NoNoneKey
      <4>4. VerifyRRSIG(zone.dsSig, s.keys)
        BY <2>2, <3>2, <4>2, <4>3 DEF VerifyRRSIG
      <4> QED BY <2>4, <4>2, <4>4
    <3>3. GoodChain => Excuse(s, gone)
      BY <3>2 DEF Excuse
    <3> QED BY <1>3, <2>1, <3>1, <3>3, RefusesWell
  <2> QED BY <2>3, <2>4
<1>4. CASE s.step = "leaf"
  <2>1. Validating(s) /\ s.zone = ZoneCount + 1
    BY <1>4 DEF ChainAt
  <2>2. /\ Trusted(ZoneCount) /\ Len(s.levels) = ZoneCount
        /\ s.keys \subseteq Keys(ZoneCount) /\ (s.keys = Keys(ZoneCount) \/ s.cut = TRUE)
    BY <2>1 DEF Validating, ZoneCount
  <2>3. /\ s.chain = FALSE /\ \A i \in 1..Len(s.levels) : s.levels[i] = TRUE
        /\ AnswerSigned => s.signed = TRUE \/ Excuse(s, gone)
    BY <1>4, <2>1 DEF Validating, ChainAt
  <2> DEFINE good == VerifyRRSIG(world.aSig, s.keys)
             e == [End(s) EXCEPT !.leaf = IF good THEN "verified" ELSE "unverified", !.chain = good]
  <2>4. (good => GoodChain) /\ (GoodChain => good \/ s.cut = TRUE)
    BY <2>1, <2>2, TrustAll DEF VerifyRRSIG, Validating
  <2>5. CASE world.aSig = None
    <3>1. Whole(s) = End(s)
      BY <1>4, <2>5 DEF Whole, FetchSignedA
    <3>2. ~GoodChain
      BY <2>5 DEF GoodChain
    <3> QED BY <1>4, <2>3, <3>1, <3>2, EndsWell
  <2>6. CASE world.aSig # None
    <3>1. Whole(s) = e
      BY <1>4, <2>6 DEF Whole, FetchSignedA
    <3>2. good \in BOOLEAN
      BY DEF VerifyRRSIG
    <3>3. /\ DOMAIN e = SecFields /\ e.step = "end" /\ e.zone = s.zone /\ e.signed = s.signed
          /\ e.levels = s.levels /\ e.chain = good /\ e.cut = s.cut
      <4>1. /\ DOMAIN End(s) = SecFields
            /\ End(s).step = "end" /\ End(s).zone = s.zone /\ End(s).signed = s.signed
            /\ End(s).levels = s.levels /\ End(s).cut = s.cut
        BY EndFacts
      <4> HIDE DEF good
      <4> QED BY <4>1 DEF SecFields
    <3> HIDE DEF e, good
    <3>4. \A i \in 1..Len(s.levels) - 1 : s.levels[i] = TRUE
      <4>1. Len(s.levels) = 3
        BY <2>2 DEF ZoneCount
      <4> QED BY <2>3, <4>1
    <3>5. Ended(e, gone)
      BY <2>2, <2>4, <3>2, <3>3, <3>4 DEF Ended, Excuse
    <3>6. AnswerSigned => e.signed = TRUE \/ Excuse(e, gone)
      BY <2>3, <3>3 DEF Excuse
    <3> QED BY <1>4, <3>1, <3>2, <3>3, <3>5, <3>6 DEF ChainAt
  <2> QED BY <2>5, <2>6
<1> QED BY <1>1, <1>2, <1>3, <1>4 DEF ChainAt

(* An exchange that is lost.                                               *)
LEMMA SilenceWell ==
  ASSUME NEW s, NEW gone, ChainAt(s, gone), s.step # "end", <<"dnssec", 1>> \in gone
  PROVE  ChainAt(Silence(s), gone)
<1>1. Excuse(s, gone)
  BY DEF Excuse
<1>2. s.chain = FALSE /\ \A i \in 1..Len(s.levels) : s.levels[i] = TRUE
  BY DEF ChainAt, Validating
<1>3. CASE s.step \in {"status", "leaf"} \/ s.zone = 1
  <2>1. Silence(s) = End(s)
    BY <1>3 DEF Silence
  <2> QED BY <1>1, <1>2, <2>1, EndsWell
<1>4. CASE ~(s.step \in {"status", "leaf"} \/ s.zone = 1)
  <2>1. Silence(s) = Refuse(s)
    BY <1>4 DEF Silence
  <2>2. s.step \in {"keys", "ds"} /\ Validating(s)
    BY <1>4 DEF ChainAt
  <2> QED BY <1>1, <2>1, <2>2, RefusesWell
<1> QED BY <1>3, <1>4

(* An answer that is truncated.                                            *)
LEMMA CutWell ==
  ASSUME NEW s, NEW gone, ChainAt(s, gone), s.step # "end"
  PROVE  ChainAt(Cut(s), gone) /\ Cut(s).step = s.step /\ Cut(s).cut = TRUE
<1> DEFINE t == Cut(s)
<1>1. /\ DOMAIN t = SecFields /\ t.step = s.step /\ t.zone = s.zone /\ t.signed = s.signed
      /\ t.levels = s.levels /\ t.chain = s.chain /\ t.keys = s.keys /\ t.cut = TRUE
  BY DEF ChainAt, SecFields, Cut
<1> HIDE DEF t
<1>2. Validating(s) => Validating(t)
  BY <1>1 DEF Validating
<1>3. Excuse(t, gone)
  BY <1>1 DEF Excuse
<1>4. ChainAt(t, gone)
  BY <1>1, <1>2, <1>3 DEF ChainAt
<1> QED BY <1>1, <1>4 DEF t

LEMMA PartsWell ==
  ASSUME NEW s, NEW gone, ChainAt(s, gone), s.step # "end", s.cut = TRUE, NEW p \in Parts(s)
  PROVE  ChainAt(p, gone)
<1>1. Excuse(s, gone)
  BY DEF Excuse
<1>2. s.chain = FALSE /\ \A i \in 1..Len(s.levels) : s.levels[i] = TRUE
  BY DEF ChainAt, Validating
<1>3. CASE s.step = "status"
  <2>1. p = CheckDNSSECStatus(s, FALSE)
    BY <1>3 DEF Parts
  <2> QED BY <1>1, <1>3, <2>1, StatusWell
<1>4. CASE s.step = "keys"
  <2>1. PICK keys \in SUBSET Keys(s.zone) : p = FetchDNSKEYs(s, keys)
    BY <1>4 DEF Parts
  <2> QED BY <1>4, <2>1, KeysWell
<1>5. CASE s.step = "ds"
  <2>1. p = Refuse(s)
    BY <1>5 DEF Parts
  <2>2. Validating(s)
    BY <1>5 DEF ChainAt
  <2> QED BY <1>1, <1>5, <2>1, <2>2, RefusesWell
<1>6. CASE s.step = "leaf"
  <2>1. p = End(s) \/ p = [End(s) EXCEPT !.leaf = "unverified"]
    BY <1>6 DEF Parts
  <2>2. ChainAt(End(s), gone)
    BY <1>1, <1>2, <1>6, EndsWell
  <2> DEFINE e == [End(s) EXCEPT !.leaf = "unverified"]
  <2>3. /\ DOMAIN e = SecFields /\ e.step = End(s).step /\ e.zone = End(s).zone /\ e.signed = End(s).signed
        /\ e.levels = End(s).levels /\ e.chain = End(s).chain /\ e.keys = End(s).keys /\ e.cut = End(s).cut
    BY <2>2 DEF ChainAt, SecFields
  <2>4. End(s).step = "end"
    BY EndFacts
  <2> HIDE DEF e
  <2>5. Ended(e, gone)
    BY <2>2, <2>3, <2>4 DEF ChainAt, Ended, Excuse
  <2>6. AnswerSigned => e.signed = TRUE \/ Excuse(e, gone)
    BY <2>2, <2>3, <2>4 DEF ChainAt, Excuse
  <2>7. ChainAt(e, gone)
    BY <2>2, <2>3, <2>4, <2>5, <2>6 DEF ChainAt
  <2> QED BY <2>1, <2>2, <2>7 DEF e
<1> QED BY <1>3, <1>4, <1>5, <1>6 DEF ChainAt

LEMMA ChainKept ==
  ASSUME Shapes, Chain, [Next]_vars
  PROVE  Chain'
<1>1. world' = world /\ lost \subseteq lost' /\ world \in Worlds
  BY StepFacts DEF Shapes
<1>2. ASSUME NEW s, NEW gone, ChainAt(s, gone) PROVE \A more : gone \subseteq more => ChainAt(s, more)
  BY <1>2 DEF ChainAt, Ended, Excuse
<1>3. ASSUME ChainAt(sec', lost') PROVE ChainAt(sec, lost)'
  <2>1. \A z : Keys(z)' = Keys(z)
    BY <1>1 DEF Keys, Zone
  <2>2. \A z : GoodLink(z)' <=> GoodLink(z)
    BY <1>1, <2>1 DEF GoodLink, Zone
  <2>3. GoodChain' <=> GoodChain
    BY <1>1, <2>1, <2>2 DEF GoodChain, Zone
  <2>4. \A z : Trusted(z)' <=> Trusted(z)
    BY <1>1, <2>2 DEF Trusted, Zone
  <2>5. Validating(sec)' <=> Validating(sec')
    BY <1>1, <2>1, <2>4 DEF Validating
  <2>6. Ended(sec, lost)' <=> Ended(sec', lost')
    BY <1>1, <2>3 DEF Ended, Excuse
  <2>7. \A z : Zone(z)' = Zone(z)
    BY <1>1 DEF Zone
  <2>8. AnswerSigned' <=> AnswerSigned
    BY <1>1 DEF AnswerSigned
  <2>9. Excuse(sec, lost)' <=> Excuse(sec', lost')
    BY DEF Excuse
  <2> QED BY <1>1, <1>3, <2>1, <2>5, <2>6, <2>7, <2>8, <2>9 DEF ChainAt
<1>4. CASE Dnssec
  <2>1. \/ sec' = Whole(sec)
        \/ sec' \in Parts(Cut(sec))
        \/ sec' = Silence(sec) /\ <<"dnssec", 1>> \in lost'
    BY <1>4 DEF Dnssec
  <2>2. /\ phase = "pool1" /\ phase' = "pool1" /\ <<"dnssec", 1>> \in running
        /\ running' = IF sec'.step = "end" THEN running \ {<<"dnssec", 1>>} ELSE running
    BY <1>4 DEF Dnssec
  <2>3. sec.step # "end"
    BY <2>2 DEF Chain
  <2>4. ChainAt(sec, lost')
    BY <1>1, <1>2 DEF Chain
  <2>5. ChainAt(sec', lost')
    <3>1. CASE sec' = Whole(sec)
      BY <1>1, <2>3, <2>4, <3>1, WholeWell
    <3>2. CASE sec' \in Parts(Cut(sec))
      <4>1. ChainAt(Cut(sec), lost') /\ Cut(sec).step # "end" /\ Cut(sec).cut = TRUE
        BY <2>3, <2>4, CutWell
      <4> QED BY <3>2, <4>1, PartsWell
    <3>3. CASE sec' = Silence(sec) /\ <<"dnssec", 1>> \in lost'
      BY <2>3, <2>4, <3>3, SilenceWell
    <3> QED BY <2>1, <3>1, <3>2, <3>3
  <2>6. Returned(<<"dnssec", 1>>)' => sec'.step = "end"
    BY <2>2 DEF Returned, AfterPool1, AfterPool2
  <2> QED BY <1>3, <2>2, <2>5, <2>6 DEF Chain
<1>5. ASSUME ~Dnssec, sec' = sec PROVE Chain'
  <2>1. "dnssec" \notin Lookups
    BY LookupsAssumption
  <2>2. Returned(<<"dnssec", 1>>)' => Returned(<<"dnssec", 1>>)
    BY <1>5, <2>1, ReturnFacts
  <2>3. ChainAt(sec, lost)'
    BY <1>1, <1>2, <1>3, <1>5 DEF Chain
  <2>4. phase' = "resolve" => phase = "resolve"
    BY PhaseFacts DEF vars
  <2>5. ASSUME phase' = "pool1", <<"dnssec", 1>> \in running' PROVE sec.step # "end"
    <3>1. phase = "resolve" \/ phase = "pool1"
      BY <2>5, PhaseFacts DEF vars
    <3>2. CASE phase = "resolve"
      BY <3>2 DEF Chain
    <3>3. CASE phase = "pool1"
      <4>1. <<"dnssec", 1>> \in running
        BY <1>5, <2>5, <3>3, RunningFacts
      <4> QED BY <3>3, <4>1 DEF Chain
    <3> QED BY <3>1, <3>2, <3>3
  <2> QED BY <1>5, <2>2, <2>3, <2>4, <2>5 DEF Chain
<1>6. CASE ResolveViaTransport \/ LookupIP \/ Resolved \/ LookupRecord \/ LookupASN \/ LookupNS \/ JoinPool1
  BY <1>4, <1>5, <1>6 DEF ResolveViaTransport, LookupIP, Resolved, LookupRecord, LookupASN, LookupNS, JoinPool1
<1>7. CASE FindParentNS \/ AuditOne \/ JoinPool2 \/ ProbeDNSCookies \/ WalkZoneNSEC \/ ProbeRPKIAll
  BY <1>4, <1>5, <1>7 DEF FindParentNS, AuditOne, JoinPool2, ProbeDNSCookies, WalkZoneNSEC, ProbeRPKIAll
<1>8. CASE QueryOneResolver \/ JoinPropagation \/ ProbeNSEC3Proof \/ ProbeECSMultiple \/ Report
  BY <1>4, <1>5, <1>8 DEF QueryOneResolver, JoinPropagation, ProbeNSEC3Proof, ProbeECSMultiple, Report
<1>9. CASE UNCHANGED vars
  BY <1>4, <1>5, <1>9 DEF vars
<1> QED BY <1>4, <1>6, <1>7, <1>8, <1>9 DEF Next

-------------------------------------------------------------------------------
(***************************************************************************)
(* The NSEC walk and the NSEC3 proof.                                      *)
(***************************************************************************)
LEMMA WalkingKept ==
  ASSUME Shapes, Walking, [Next]_vars
  PROVE  Walking'
<1>1. world' = world /\ WalkCap \in Nat \ {0}
  BY StepFacts, BoundsAssumption
<1>2. CASE WalkZoneNSEC
  <2> DEFINE link == QueryNSECNext
  <2>1. /\ phase = "walk"
        /\ \/ phase' = "rpki" /\ walk' = walk
           \/ /\ link # NoLink
              /\ walk' = [uses |-> TRUE, names |-> walk.names \cup NamedOwner(link),
                          hops |-> walk.hops + (IF AtApex(link) THEN 0 ELSE 1),
                          inside |-> walk.inside /\ AtApex(link)]
              /\ phase' = IF AtApex(link) \/ LastHop THEN "rpki" ELSE "walk"
    BY <1>2 DEF WalkZoneNSEC
  <2>2. link # NoLink => NamedOwner(link) \subseteq world.names
    <3>1. CASE link = world.link
      BY <3>1, WorldsAssumption DEF NamedOwner, Shapes
    <3>2. CASE link = RootLink
      BY <3>2 DEF NamedOwner, RootLink
    <3> QED BY <3>1, <3>2 DEF QueryNSECNext
  <2>3. walk.hops \in 0..WalkCap /\ walk.hops < WalkCap
    BY <2>1 DEF Walking
  <2> HIDE DEF link
  <2>4. CASE phase' = "rpki" /\ walk' = walk
    BY <1>1, <2>4 DEF Walking
  <2>5. CASE ~(phase' = "rpki" /\ walk' = walk)
    <3>1. /\ DOMAIN walk' = {"uses", "names", "hops", "inside"}
          /\ walk'.names = walk.names \cup NamedOwner(link)
          /\ walk'.hops = walk.hops + (IF AtApex(link) THEN 0 ELSE 1)
      BY <2>1, <2>5
    <3>2. walk'.names \subseteq world.names
      BY <2>1, <2>2, <2>5, <3>1 DEF Walking
    <3>3. walk'.hops \in 0..WalkCap
      BY <1>1, <2>3, <3>1
    <3>4. phase' \in {"rpki", "walk"} /\ (phase' = "walk" => ~AtApex(link) /\ walk.hops + 1 # WalkCap)
      BY <2>1, <2>5 DEF LastHop
    <3>5. phase' = "walk" => walk'.hops < WalkCap
      BY <1>1, <2>3, <3>1, <3>4
    <3> QED BY <1>1, <3>1, <3>2, <3>3, <3>4, <3>5 DEF Walking
  <2> QED BY <2>4, <2>5
<1>3. ASSUME ~WalkZoneNSEC, walk' = walk PROVE Walking'
  <2>1. phase' = "walk" => phase = "cookies" \/ phase = "walk"
    BY PhaseFacts DEF vars
  <2>2. phase' \in {"resolve", "failed", "pool1", "pool2", "cookies"} => phase \in {"resolve", "failed", "pool1", "pool2", "cookies"}
    BY PhaseFacts DEF vars
  <2>3. phase' = "walk" => walk.hops < WalkCap
    BY <1>1, <2>1 DEF Walking
  <2> QED BY <1>1, <1>3, <2>2, <2>3 DEF Walking
<1>4. CASE ResolveViaTransport \/ LookupIP \/ Resolved \/ LookupRecord \/ LookupASN \/ LookupNS \/ Dnssec \/ JoinPool1
  BY <1>2, <1>3, <1>4 DEF ResolveViaTransport, LookupIP, Resolved, LookupRecord, LookupASN, LookupNS, Dnssec, JoinPool1
<1>5. CASE FindParentNS \/ AuditOne \/ JoinPool2 \/ ProbeDNSCookies \/ ProbeRPKIAll
  BY <1>2, <1>3, <1>5 DEF FindParentNS, AuditOne, JoinPool2, ProbeDNSCookies, ProbeRPKIAll
<1>6. CASE QueryOneResolver \/ JoinPropagation \/ ProbeNSEC3Proof \/ ProbeECSMultiple \/ Report
  BY <1>2, <1>3, <1>6 DEF QueryOneResolver, JoinPropagation, ProbeNSEC3Proof, ProbeECSMultiple, Report
<1>7. CASE UNCHANGED vars
  BY <1>2, <1>3, <1>7 DEF vars
<1> QED BY <1>2, <1>4, <1>5, <1>6, <1>7 DEF Next

LEMMA DeniedKept ==
  ASSUME Shapes, Denied, [Next]_vars
  PROVE  Denied'
<1>1. DOMAIN after = {"cookies", "rpki", "nsec3", "ecs", "families"} /\ DOMAIN after.nsec3 = {"status", "hash", "records"}
  BY DEF Shapes
<1>2. ASSUME after'.nsec3 = after.nsec3 PROVE Denied'
  BY <1>2 DEF Denied, Nsec3Covers
<1>3. CASE ProbeNSEC3Proof
  <2>1. ASSUME NEW d \in world.denials,
               after' = [after EXCEPT !.nsec3 = [status |-> Nsec3Status(d), hash |-> d.hash, records |-> d.nsec3]]
        PROVE  Denied'
    <3>1. /\ d.hash \in 0..RingSize - 1
          /\ \A n \in d.nsec3 : {n.owner, n.next} \subseteq 0..RingSize - 1
      BY WorldsAssumption DEF Shapes
    <3>2. after'.nsec3.status = Nsec3Status(d) /\ after'.nsec3.hash = d.hash /\ after'.nsec3.records = d.nsec3
      BY <1>1, <2>1
    <3>3. Nsec3Status(d) \in {"proven", "unproven"} =>
            (Nsec3Status(d) = "proven" <=> \E n \in d.nsec3 : Nsec3Covers(n.owner, n.next, d.hash))
      BY DEF Nsec3Status
    <3> QED BY <3>1, <3>2, <3>3 DEF Denied, Nsec3Covers
  <2>2. ASSUME after' = [after EXCEPT !.nsec3.status = "no_nxdomain"] PROVE Denied'
    <3>1. after'.nsec3.status = "no_nxdomain"
      BY <1>1, <2>2
    <3> QED BY <3>1 DEF Denied
  <2> QED BY <1>3, <2>1, <2>2 DEF ProbeNSEC3Proof
<1>4. CASE ProbeDNSCookies
  BY <1>1, <1>2, <1>4 DEF ProbeDNSCookies
<1>5. CASE ProbeRPKIAll
  <2>1. PICK v : after' = [after EXCEPT !.rpki = v]
    BY <1>5 DEF ProbeRPKIAll
  <2> QED BY <1>1, <1>2, <2>1
<1>6. CASE ProbeECSMultiple
  <2>1. PICK v : after' = [after EXCEPT !.ecs = v]
    BY <1>6 DEF ProbeECSMultiple
  <2> QED BY <1>1, <1>2, <2>1
<1>7. CASE Report
  <2>1. PICK v : after' = [after EXCEPT !.families = v]
    BY <1>7 DEF Report
  <2> QED BY <1>1, <1>2, <2>1
<1>8. CASE ResolveViaTransport \/ LookupIP \/ Resolved \/ LookupRecord \/ LookupASN \/ LookupNS \/ Dnssec \/ JoinPool1
  BY <1>2, <1>8 DEF ResolveViaTransport, LookupIP, Resolved, LookupRecord, LookupASN, LookupNS, Dnssec, JoinPool1
<1>9. CASE FindParentNS \/ AuditOne \/ JoinPool2 \/ WalkZoneNSEC \/ QueryOneResolver \/ JoinPropagation
  BY <1>2, <1>9 DEF FindParentNS, AuditOne, JoinPool2, WalkZoneNSEC, QueryOneResolver, JoinPropagation
<1>10. CASE UNCHANGED vars
  BY <1>2, <1>10 DEF vars
<1> QED BY <1>3, <1>4, <1>5, <1>6, <1>7, <1>8, <1>9, <1>10 DEF Next

-------------------------------------------------------------------------------
(***************************************************************************)
(* The public resolvers.                                                   *)
(***************************************************************************)

(* Only queryOneResolver loses the answer of a resolver.                   *)
LEMMA ViewLosses ==
  ASSUME [Next]_vars, ~QueryOneResolver, NEW r, <<"view", r>> \in lost'
  PROVE  <<"view", r>> \in lost
<1>1. "view" \notin Lookups /\ "view" \notin Families /\ "view" \notin Audits
  BY LookupsAssumption DEF Families, Audits
<1>2. ASSUME NEW name, name # "view", NEW full, NEW o \in QueryDNS(name, full), lost' = lost \cup o.gone
      PROVE  <<"view", r>> \in lost
  <2>1. o.gone = {} \/ \E k \in 1..2 : o.gone = {<<name, k>>}
    BY QueryFacts
  <2> QED BY <1>2, <2>1
<1>3. \A name, full : \A o \in Lookup(name, full) : o \in QueryDNS(name, full)
  BY DEF Lookup
<1>4. CASE ResolveViaTransport
  BY <1>1, <1>2, <1>4 DEF ResolveViaTransport
<1>5. CASE LookupRecord
  BY <1>1, <1>2, <1>3, <1>5 DEF LookupRecord
<1>6. CASE LookupNS
  BY <1>2, <1>3, <1>6 DEF LookupNS
<1>7. CASE Report
  <2>1. PICK o \in IF sec.signed THEN QueryDNS("dnskey", world.algorithms) ELSE {[rrs |-> {}, gone |-> {}]} :
           lost' = lost \cup o.gone
    BY <1>7 DEF Report
  <2> QED BY <1>2, <2>1
<1>8. CASE LookupIP \/ Resolved \/ LookupASN \/ Dnssec \/ JoinPool1
  <2>1. CASE LookupIP
    <3>1. PICK gone \in {{}, {<<"ip", 1>>}, {<<"ip", 1>>, <<"ip", 2>>}} : lost' = lost \cup gone
      BY <2>1 DEF LookupIP
    <3>2. <<"view", r>> \notin gone
      OBVIOUS
    <3> QED BY <3>1, <3>2
  <2>2. CASE LookupASN
    BY <2>2 DEF LookupASN
  <2>3. CASE Resolved \/ Dnssec \/ JoinPool1
    BY <2>3 DEF Resolved, Dnssec, JoinPool1
  <2> QED BY <1>8, <2>1, <2>2, <2>3
<1>9. CASE FindParentNS \/ JoinPool2 \/ ProbeDNSCookies \/ WalkZoneNSEC
  BY <1>9 DEF FindParentNS, JoinPool2, ProbeDNSCookies, WalkZoneNSEC
<1>10. CASE AuditOne
  BY <1>1, <1>10 DEF AuditOne
<1>11. CASE JoinPropagation \/ ProbeNSEC3Proof \/ ProbeECSMultiple \/ ProbeRPKIAll
  <2>1. ASSUME NEW name, NEW gone, name # "view", lost' = lost \cup {<<name, x>> : x \in gone}
        PROVE  <<"view", r>> \in lost
    BY <2>1
  <2>2. CASE JoinPropagation \/ ProbeNSEC3Proof
    BY <2>2 DEF JoinPropagation, ProbeNSEC3Proof
  <2>3. CASE ProbeECSMultiple
    BY <2>1, <2>3 DEF ProbeECSMultiple
  <2>4. CASE ProbeRPKIAll
    <3>1. PICK gone \in SUBSET (rec["asn"] \cap addrs["A"]) : lost' = lost \cup {<<"rpki", ip>> : ip \in gone}
      BY <2>4 DEF ProbeRPKIAll
    <3> QED BY <2>1, <3>1
  <2> QED BY <1>11, <2>2, <2>3, <2>4
<1>12. CASE UNCHANGED vars
  BY <1>12 DEF vars
<1> QED BY <1>4, <1>5, <1>6, <1>7, <1>8, <1>9, <1>10, <1>11, <1>12 DEF Next

LEMMA HeardKept ==
  ASSUME Heard, [Next]_vars
  PROVE  Heard'
<1>1. world' = world /\ lost \subseteq lost'
  BY StepFacts
<1>2. CASE QueryOneResolver
  <2>1. PICK r \in Resolvers, heard \in BOOLEAN :
          /\ <<"view", r>> \in running
          /\ views' = Put(views, r, IF heard THEN world.view[r] ELSE None)
          /\ running' = running \ {<<"view", r>>}
          /\ lost' = IF heard THEN lost ELSE lost \cup {<<"view", r>>}
    BY <1>2 DEF QueryOneResolver, Finished
  <2>2. phase = "propagation" /\ phase' = "propagation"
    BY <1>2 DEF QueryOneResolver
  <2>3. r \notin DOMAIN views /\ <<"view", r>> \notin lost
    BY <2>1, <2>2 DEF Heard
  <2>4. /\ DOMAIN views' = DOMAIN views \cup {r}
        /\ views'[r] = (IF heard THEN world.view[r] ELSE None)
        /\ \A q \in DOMAIN views : views'[q] = views[q]
    BY <2>1, <2>3 DEF Put
  <2>5. \A q : q # r => /\ <<"view", q>> \in lost' <=> <<"view", q>> \in lost
                        /\ <<"view", q>> \in running' <=> <<"view", q>> \in running
    BY <2>1
  <2>6. <<"view", r>> \in lost' <=> ~heard
    BY <2>1, <2>3
  <2>7. <<"view", r>> \notin running'
    BY <2>1
  <2>8. \A q \in Resolvers : <<"view", q>> \in running' <=> q \notin DOMAIN views'
    BY <2>2, <2>4, <2>5, <2>7 DEF Heard
  <2>9. \A q \in Resolvers : <<"view", q>> \in lost' => q \in DOMAIN views'
    BY <2>4, <2>5 DEF Heard
  <2>10. \A q \in DOMAIN views' : views'[q] = IF <<"view", q>> \in lost' THEN None ELSE world.view[q]
    BY <2>1, <2>3, <2>4, <2>5, <2>6 DEF Heard
  <2>11. DOMAIN views' \subseteq Resolvers
    BY <2>1, <2>4 DEF Heard
  <2> QED BY <1>1, <2>2, <2>8, <2>9, <2>10, <2>11 DEF Heard, AfterViews
<1>3. ASSUME ~QueryOneResolver, views' = views,
             phase' \notin AfterViews \cup {"propagation"} => phase \notin AfterViews \cup {"propagation"},
             phase' = "propagation" => \A r \in Resolvers : <<"view", r>> \in running' <=> r \notin DOMAIN views,
             phase' \in AfterViews => DOMAIN views = Resolvers
      PROVE  Heard'
  <2>1. \A r : <<"view", r>> \in lost' <=> <<"view", r>> \in lost
    BY <1>1, <1>3, ViewLosses
  <2> QED BY <1>1, <1>3, <2>1 DEF Heard
<1>4. CASE ProbeRPKIAll
  <2>1. phase = "rpki" /\ phase' = "propagation" /\ running' = {"view"} \X Resolvers /\ views' = views
    BY <1>4 DEF ProbeRPKIAll
  <2>2. ~QueryOneResolver /\ DOMAIN views = {}
    BY <2>1 DEF QueryOneResolver, Heard, AfterViews
  <2> QED BY <1>3, <2>1, <2>2 DEF AfterViews
<1>5. CASE JoinPropagation
  <2>1. phase = "propagation" /\ phase' \in AfterViews /\ running = {} /\ views' = views /\ phase' # phase
    BY <1>5 DEF JoinPropagation, AfterViews
  <2>2. ~QueryOneResolver
    BY <2>1 DEF QueryOneResolver
  <2>3. DOMAIN views = Resolvers
    BY <2>1 DEF Heard
  <2> QED BY <1>3, <2>1, <2>2, <2>3 DEF AfterViews
<1>6. ASSUME views' = views, phase # "propagation", phase' # "propagation", phase \in AfterViews <=> phase' \in AfterViews
      PROVE  Heard'
  <2>1. ~QueryOneResolver
    BY <1>6 DEF QueryOneResolver
  <2> QED BY <1>3, <1>6, <2>1 DEF Heard
<1>7. CASE ResolveViaTransport \/ LookupIP \/ Resolved \/ LookupRecord \/ LookupASN \/ LookupNS \/ Dnssec \/ JoinPool1
  BY <1>6, <1>7 DEF ResolveViaTransport, LookupIP, Resolved, LookupRecord, LookupASN, LookupNS, Dnssec, JoinPool1, AfterViews
<1>8. CASE FindParentNS \/ AuditOne \/ JoinPool2 \/ ProbeDNSCookies \/ WalkZoneNSEC
  BY <1>6, <1>8 DEF FindParentNS, AuditOne, JoinPool2, ProbeDNSCookies, WalkZoneNSEC, AfterViews
<1>9. CASE ProbeNSEC3Proof \/ ProbeECSMultiple \/ Report
  BY <1>6, <1>9 DEF ProbeNSEC3Proof, ProbeECSMultiple, Report, AfterViews
<1>10. CASE UNCHANGED vars
  BY <1>10 DEF vars, Heard
<1> QED BY <1>2, <1>4, <1>5, <1>7, <1>8, <1>9, <1>10 DEF Next

-------------------------------------------------------------------------------
(***************************************************************************)
(* The audits of the name servers.                                         *)
(***************************************************************************)

(* What a step that is none of the second pool's leaves alone.             *)
LEMMA AuditFrame ==
  ASSUME [Next]_vars, ~JoinPool1, ~FindParentNS, ~AuditOne, ~JoinPool2
  PROVE  /\ audits' = audits
         /\ phase \in AfterPool1 <=> phase' \in AfterPool1
         /\ phase \in AfterPool2 <=> phase' \in AfterPool2
         /\ phase = "pool2" <=> phase' = "pool2"
         /\ phase = "pool2" => running' = running
         /\ ns' = ns \/ (phase = "pool1" /\ phase' = "pool1")
<1>1. CASE ResolveViaTransport \/ LookupIP \/ Resolved \/ LookupRecord \/ LookupASN \/ LookupNS \/ Dnssec
  BY <1>1 DEF ResolveViaTransport, LookupIP, Resolved, LookupRecord, LookupASN, LookupNS, Dnssec, AfterPool1, AfterPool2
<1>2. CASE ProbeDNSCookies \/ WalkZoneNSEC \/ ProbeRPKIAll \/ QueryOneResolver
  BY <1>2 DEF ProbeDNSCookies, WalkZoneNSEC, ProbeRPKIAll, QueryOneResolver, AfterPool1, AfterPool2
<1>3. CASE JoinPropagation \/ ProbeNSEC3Proof \/ ProbeECSMultiple \/ Report
  BY <1>3 DEF JoinPropagation, ProbeNSEC3Proof, ProbeECSMultiple, Report, AfterPool1, AfterPool2
<1>4. CASE UNCHANGED vars
  BY <1>4 DEF vars
<1> QED BY <1>1, <1>2, <1>3, <1>4 DEF Next

(* One audit stores one result.                                            *)
LEMMA AuditOneFacts ==
  ASSUME Indexed, NameServers, AuditOne
  PROVE  /\ phase = "pool2" /\ phase' = "pool2" /\ ns' = ns /\ ns = world.ns /\ world' = world
         /\ \E a \in Audits, i \in 1..Len(ns), heard \in BOOLEAN :
              \E r \in Reports(a, world.server[world.ns[i]], heard) :
                /\ <<a, i>> \in running /\ running' = running \ {<<a, i>>}
                /\ ~heard => <<a, i>> \in lost'
                /\ DOMAIN audits' = Audits
                /\ DOMAIN audits'[a] = DOMAIN audits[a] \cup {i}
                /\ audits'[a][i] = r
                /\ \A j \in DOMAIN audits[a] : j # i => audits'[a][j] = audits[a][j]
                /\ \A b \in Audits : b # a => audits'[b] = audits[b]
<1>1. phase = "pool2" /\ phase' = "pool2" /\ ns' = ns /\ world' = world
  BY DEF AuditOne
<1>2. PICK a \in Audits, i \in 1..Len(ns), heard \in BOOLEAN :
         /\ <<a, i>> \in running
         /\ \E r \in Reports(a, world.server[ns[i]], heard) : audits' = [audits EXCEPT ![a] = Put(@, i, r)]
         /\ running' = running \ {<<a, i>>}
         /\ lost' = IF heard THEN lost ELSE lost \cup {<<a, i>>}
  BY DEF AuditOne, Finished
<1>3. ns = world.ns
  BY <1>2 DEF NameServers
<1>4. PICK r \in Reports(a, world.server[ns[i]], heard) : audits' = [audits EXCEPT ![a] = Put(audits[a], i, r)]
  BY <1>2
<1>5. DOMAIN audits = Audits
  BY DEF Indexed
<1>6. audits'[a] = Put(audits[a], i, r) /\ DOMAIN audits' = Audits /\ \A b \in Audits : b # a => audits'[b] = audits[b]
  BY <1>4, <1>5
<1>7. /\ DOMAIN audits'[a] = DOMAIN audits[a] \cup {i}
      /\ audits'[a][i] = r
      /\ \A j \in DOMAIN audits[a] : j # i => audits'[a][j] = audits[a][j]
  BY <1>6 DEF Put
<1>8. ~heard => <<a, i>> \in lost'
  BY <1>2
<1> QED BY <1>1, <1>2, <1>3, <1>4, <1>6, <1>7, <1>8

(* Joining the second pool sets the flags and drops silent servers.        *)
LEMMA JoinPool2Facts ==
  ASSUME Indexed, JoinPool2
  PROVE  /\ phase = "pool2" /\ phase' = "cookies" /\ ns' = ns /\ world' = world /\ running = {} /\ lost' = lost
         /\ DOMAIN audits' = Audits
         /\ DOMAIN audits'["lame"] = DOMAIN audits["lame"]
         /\ DOMAIN audits'["chaos"] \subseteq DOMAIN audits["chaos"]
         /\ audits'["axfr"] = audits["axfr"] /\ audits'["glue"] = audits["glue"]
         /\ \E c \in Consensus(audits["lame"]) : \A i \in DOMAIN audits["lame"] :
              audits'["lame"][i] = Flagged(audits["lame"][i], c)
<1>1. phase = "pool2" /\ phase' = "cookies" /\ ns' = ns /\ world' = world /\ running = {} /\ lost' = lost
  BY DEF JoinPool2, Waited
<1>2. PICK c \in Consensus(audits["lame"]) :
        audits' = [audits EXCEPT
          !["lame"]  = [i \in DOMAIN audits["lame"] |-> Flagged(audits["lame"][i], c)],
          !["chaos"] = [i \in {j \in DOMAIN audits["chaos"] : audits["chaos"][j]} |-> TRUE]]
  BY DEF JoinPool2
<1>3. DOMAIN audits = Audits /\ {"lame", "chaos", "axfr", "glue"} \subseteq Audits
  BY DEF Indexed, Audits
<1>4. /\ DOMAIN audits' = Audits
      /\ audits'["lame"] = [i \in DOMAIN audits["lame"] |-> Flagged(audits["lame"][i], c)]
      /\ audits'["chaos"] = [i \in {j \in DOMAIN audits["chaos"] : audits["chaos"][j]} |-> TRUE]
      /\ audits'["axfr"] = audits["axfr"] /\ audits'["glue"] = audits["glue"]
  BY <1>2, <1>3
<1> QED BY <1>1, <1>4

LEMMA IndexedKept ==
  ASSUME Indexed, NameServers, [Next]_vars
  PROVE  Indexed'
<1>1. CASE AuditOne
  <2>1. phase = "pool2" /\ phase' = "pool2" /\ ns' = ns
    BY <1>1, AuditOneFacts
  <2>2. PICK a \in Audits, i \in 1..Len(ns) :
          /\ <<a, i>> \in running /\ running' = running \ {<<a, i>>}
          /\ DOMAIN audits' = Audits
          /\ DOMAIN audits'[a] = DOMAIN audits[a] \cup {i}
          /\ \A b \in Audits : b # a => audits'[b] = audits[b]
    BY <1>1, AuditOneFacts
  <2>3. a # "glue" => i \in Capped
    BY <2>1, <2>2 DEF Indexed, Pool2Tasks, Audits
  <2>4. Capped' = Capped /\ Pool2Tasks' = Pool2Tasks
    BY <2>1 DEF Capped, Pool2Tasks
  <2>5. \A b \in Audits \ {"glue"} : DOMAIN audits'[b] \subseteq Capped
    BY <2>2, <2>3 DEF Indexed
  <2>6. DOMAIN audits'["glue"] \subseteq 1..Len(ns)
    BY <2>2 DEF Indexed, Audits
  <2> QED BY <2>1, <2>2, <2>4, <2>5, <2>6 DEF Indexed, AfterPool1
<1>2. CASE JoinPool2
  <2>1. /\ phase = "pool2" /\ phase' = "cookies" /\ ns' = ns
        /\ DOMAIN audits' = Audits
        /\ DOMAIN audits'["lame"] = DOMAIN audits["lame"]
        /\ DOMAIN audits'["chaos"] \subseteq DOMAIN audits["chaos"]
        /\ audits'["axfr"] = audits["axfr"] /\ audits'["glue"] = audits["glue"]
    BY <1>2, JoinPool2Facts
  <2>2. Capped' = Capped
    BY <2>1 DEF Capped
  <2> QED BY <2>1, <2>2 DEF Indexed, Audits, AfterPool1, AfterPool2
<1>3. CASE JoinPool1
  <2>1. audits' = audits /\ ns' = ns /\ phase = "pool1" /\ phase' \in AfterPool1
    BY <1>3 DEF JoinPool1, AfterPool1, AfterPool2
  <2>2. Capped' = Capped /\ Pool2Tasks' = Pool2Tasks
    BY <2>1 DEF Capped, Pool2Tasks
  <2>3. phase' = "pool2" => running' \subseteq Pool2Tasks
    BY <1>3 DEF JoinPool1, Pool2Tasks
  <2> QED BY <2>1, <2>2, <2>3 DEF Indexed
<1>4. CASE FindParentNS
  <2>1. audits' = audits /\ ns' = ns /\ phase = "pool2" /\ phase' = "pool2"
    BY <1>4 DEF FindParentNS
  <2>2. Capped' = Capped /\ Pool2Tasks' = Pool2Tasks
    BY <2>1 DEF Capped, Pool2Tasks
  <2>3. PICK heard \in BOOLEAN : running' = Finished(<<"parent", 1>>) \cup GlueTasks(heard)
    BY <1>4 DEF FindParentNS
  <2>4. GlueTasks(heard) \subseteq Pool2Tasks
    BY DEF GlueTasks, Pool2Tasks
  <2>5. running' \subseteq Pool2Tasks
    BY <2>1, <2>3, <2>4 DEF Indexed, Finished
  <2> QED BY <2>1, <2>2, <2>5 DEF Indexed
<1>5. CASE ~JoinPool1 /\ ~FindParentNS /\ ~AuditOne /\ ~JoinPool2
  <2>1. /\ audits' = audits
        /\ phase \in AfterPool1 <=> phase' \in AfterPool1
        /\ phase = "pool2" <=> phase' = "pool2"
        /\ phase = "pool2" => running' = running
        /\ ns' = ns \/ (phase = "pool1" /\ phase' = "pool1")
    BY <1>5, AuditFrame
  <2>2. CASE ns' = ns
    <3>1. Capped' = Capped /\ Pool2Tasks' = Pool2Tasks
      BY <2>2 DEF Capped, Pool2Tasks
    <3> QED BY <2>1, <2>2, <3>1 DEF Indexed
  <2>3. CASE phase = "pool1" /\ phase' = "pool1"
    <3>1. \A a \in Audits : DOMAIN audits[a] = {}
      BY <2>3 DEF Indexed, AfterPool1, AfterPool2
    <3> QED BY <2>1, <2>3, <3>1 DEF Indexed, Audits
  <2> QED BY <2>1, <2>2, <2>3
<1> QED BY <1>1, <1>2, <1>3, <1>4, <1>5

LEMMA CompleteKept ==
  ASSUME Indexed, NameServers, Complete, [Next]_vars
  PROVE  Complete'
<1>1. world' = world /\ lost \subseteq lost'
  BY StepFacts
<1>2. CASE AuditOne
  <2>1. phase = "pool2" /\ phase' = "pool2" /\ ns' = ns
    BY <1>2, AuditOneFacts
  <2>2. PICK a \in Audits, i \in 1..Len(ns) :
          /\ <<a, i>> \in running /\ running' = running \ {<<a, i>>}
          /\ DOMAIN audits'[a] = DOMAIN audits[a] \cup {i}
          /\ \A b \in Audits : b # a => audits'[b] = audits[b]
    BY <1>2, AuditOneFacts
  <2>3. Capped' = Capped
    BY <2>1 DEF Capped
  <2>4. \A b \in Audits : \A j : (<<b, j>> \in running \/ j \in DOMAIN audits[b])
                               => (<<b, j>> \in running' \/ j \in DOMAIN audits'[b])
    BY <2>2
  <2>5. <<"parent", 1>> \in running => <<"parent", 1>> \in running'
    BY <2>2 DEF Audits
  <2>6. "axfr" \in Audits /\ "lame" \in Audits /\ "glue" \in Audits
    BY DEF Audits
  <2> QED BY <1>1, <2>1, <2>3, <2>4, <2>5, <2>6 DEF Complete, Pending
<1>3. CASE JoinPool2
  <2>1. /\ phase = "pool2" /\ phase' = "cookies" /\ ns' = ns /\ running = {}
        /\ DOMAIN audits'["lame"] = DOMAIN audits["lame"]
        /\ audits'["axfr"] = audits["axfr"] /\ audits'["glue"] = audits["glue"]
    BY <1>3, JoinPool2Facts
  <2>2. Capped' = Capped
    BY <2>1 DEF Capped
  <2>3. phase \in AfterPool1
    BY <2>1 DEF AfterPool1
  <2>4. \A a \in {"axfr", "lame"} : \A i \in Capped : i \in DOMAIN audits[a]
    BY <2>1, <2>3 DEF Complete, Pending
  <2>5. <<"parent", 1>> \in lost \/ ~world.parent \/ \A i \in 1..Len(ns) : i \in DOMAIN audits["glue"]
    BY <2>1, <2>3 DEF Complete, Pending
  <2> QED BY <1>1, <2>1, <2>2, <2>4, <2>5 DEF Complete
<1>4. CASE JoinPool1
  <2>1. ns' = ns
    BY <1>4 DEF JoinPool1
  <2>2. Capped' = Capped
    BY <2>1 DEF Capped
  <2>3. CASE ns = << >>
    <3>1. Capped = {} /\ 1..Len(ns) = {}
      BY <2>3, BoundsAssumption DEF Capped
    <3> QED BY <2>1, <2>2, <3>1 DEF Complete
  <2>4. CASE ns # << >>
    <3>1. phase' = "pool2" /\ running' = ({"chaos", "axfr", "lame"} \X Capped) \cup {<<"parent", 1>>}
      BY <1>4, <2>4 DEF JoinPool1
    <3> QED BY <2>2, <3>1 DEF Complete, Pending
  <2> QED BY <2>3, <2>4
<1>5. CASE FindParentNS
  <2>1. audits' = audits /\ ns' = ns /\ phase = "pool2" /\ phase' = "pool2"
    BY <1>5 DEF FindParentNS
  <2>2. Capped' = Capped
    BY <2>1 DEF Capped
  <2>3. PICK heard \in BOOLEAN :
           /\ running' = (running \ {<<"parent", 1>>}) \cup GlueTasks(heard)
           /\ lost' = IF heard THEN lost ELSE lost \cup {<<"parent", 1>>}
    BY <1>5 DEF FindParentNS, Finished
  <2>4. \A a \in {"axfr", "lame"} : \A i : <<a, i>> \in running => <<a, i>> \in running'
    BY <2>3
  <2>5. \/ <<"parent", 1>> \in lost' \/ ~world.parent
        \/ \A i \in 1..Len(ns) : <<"glue", i>> \in running'
    BY <2>3 DEF GlueTasks
  <2>6. phase \in AfterPool1
    BY <2>1 DEF AfterPool1
  <2>7. \A a \in {"axfr", "lame"} : \A i \in Capped : <<a, i>> \in running' \/ i \in DOMAIN audits[a]
    BY <2>1, <2>4, <2>6 DEF Complete, Pending
  <2> QED BY <1>1, <2>1, <2>2, <2>5, <2>7 DEF Complete, Pending
<1>6. CASE ~JoinPool1 /\ ~FindParentNS /\ ~AuditOne /\ ~JoinPool2
  <2>1. /\ audits' = audits
        /\ phase \in AfterPool1 <=> phase' \in AfterPool1
        /\ phase = "pool2" <=> phase' = "pool2"
        /\ phase = "pool2" => running' = running
        /\ ns' = ns \/ (phase = "pool1" /\ phase' = "pool1")
    BY <1>6, AuditFrame
  <2>2. CASE phase' \in AfterPool1
    <3>1. ns' = ns
      BY <2>1, <2>2 DEF AfterPool1, AfterPool2
    <3>2. Capped' = Capped
      BY <3>1 DEF Capped
    <3>3. \A t : Pending(t) => Pending(t)'
      BY <2>1 DEF Pending
    <3> QED BY <1>1, <2>1, <2>2, <3>1, <3>2, <3>3 DEF Complete
  <2>3. CASE phase' \notin AfterPool1
    BY <2>3 DEF Complete
  <2> QED BY <2>2, <2>3
<1> QED BY <1>2, <1>3, <1>4, <1>5, <1>6

(* What probeOneLameNS reports of a server.                                *)
LEMMA ProbeFacts ==
  ASSUME Shapes, NEW n \in DOMAIN world.server, NEW heard \in BOOLEAN, NEW r, r = ProbeOneLameNS(world.server[n], heard)
  PROVE  /\ r \in LameReports
         /\ r.aa => r.up
         /\ heard => r.up = world.server[n].up
<1> DEFINE s == world.server[n]
<1>1. s.up \in BOOLEAN /\ s.aa \in BOOLEAN /\ s.serial \in Nat
  BY WorldsAssumption DEF Shapes
<1> HIDE DEF s
<1>2. r = [up |-> s.up /\ heard, aa |-> s.up /\ heard /\ s.aa, serial |-> IF s.up /\ heard THEN s.serial ELSE 0, lame |-> FALSE]
  BY DEF ProbeOneLameNS, s
<1>3. (s.up /\ heard) \in BOOLEAN /\ (s.up /\ heard /\ s.aa) \in BOOLEAN
      /\ (IF s.up /\ heard THEN s.serial ELSE 0) \in Nat
  BY <1>1
<1>4. r \in LameReports
  BY <1>2, <1>3 DEF LameReports
<1>5. r.up = (s.up /\ heard) /\ r.aa = (s.up /\ heard /\ s.aa)
  BY <1>2
<1>6. r.aa => r.up
  BY <1>5
<1>7. heard => r.up = s.up
  BY <1>1, <1>5
<1> QED BY <1>4, <1>6, <1>7 DEF s

LEMMA ProbedKept ==
  ASSUME Shapes, Indexed, NameServers, Probed, [Next]_vars
  PROVE  Probed'
<1>1. world' = world /\ lost \subseteq lost'
  BY StepFacts
<1>2. \A i, r : LameProbed(i, r, lost) => LameProbed(i, r, lost')
  BY <1>1 DEF LameProbed
<1>3. ASSUME \A i \in DOMAIN audits'["lame"] : LameProbed(i, audits'["lame"][i], lost'),
             \A i \in DOMAIN audits'["glue"] :
               <<"glue", i>> \notin lost' => audits'["glue"][i] = CheckOneGlue(world.server[world.ns[i]], TRUE)
      PROVE  Probed'
  <2>1. (\A i \in DOMAIN audits["lame"] : LameProbed(i, audits["lame"][i], lost))'
    BY <1>1, <1>3 DEF LameProbed
  <2>2. (\A i \in DOMAIN audits["glue"] :
           <<"glue", i>> \notin lost => audits["glue"][i] = CheckOneGlue(world.server[world.ns[i]], TRUE))'
    BY <1>1, <1>3 DEF CheckOneGlue, InBailiwick
  <2> QED BY <2>1, <2>2 DEF Probed
<1>4. \A i \in DOMAIN audits["glue"] :
        <<"glue", i>> \notin lost' => audits["glue"][i] = CheckOneGlue(world.server[world.ns[i]], TRUE)
  BY <1>1 DEF Probed
<1>5. CASE AuditOne
  <2>1. ns = world.ns /\ ns' = ns
    BY <1>5, AuditOneFacts
  <2>2. PICK a \in Audits, i \in 1..Len(ns), heard \in BOOLEAN :
          \E r \in Reports(a, world.server[world.ns[i]], heard) :
            /\ ~heard => <<a, i>> \in lost'
            /\ DOMAIN audits'[a] = DOMAIN audits[a] \cup {i}
            /\ audits'[a][i] = r
            /\ \A j \in DOMAIN audits[a] : j # i => audits'[a][j] = audits[a][j]
            /\ \A b \in Audits : b # a => audits'[b] = audits[b]
    BY <1>5, AuditOneFacts
  <2>3. PICK r \in Reports(a, world.server[world.ns[i]], heard) :
            /\ ~heard => <<a, i>> \in lost'
            /\ DOMAIN audits'[a] = DOMAIN audits[a] \cup {i}
            /\ audits'[a][i] = r
            /\ \A j \in DOMAIN audits[a] : j # i => audits'[a][j] = audits[a][j]
            /\ \A b \in Audits : b # a => audits'[b] = audits[b]
    BY <2>2
  <2>4. world.ns[i] \in DOMAIN world.server
    BY <2>1, WorldsAssumption DEF Shapes
  <2>5. \A j \in DOMAIN audits'["lame"] : LameProbed(j, audits'["lame"][j], lost')
    <3>1. ASSUME a = "lame" PROVE LameProbed(i, r, lost')
      <4>1. r = ProbeOneLameNS(world.server[world.ns[i]], heard)
        BY <3>1 DEF Reports
      <4>2. r \in LameReports /\ (r.aa => r.up) /\ (heard => r.up = world.server[world.ns[i]].up)
        BY <2>4, <4>1, ProbeFacts
      <4> QED BY <2>3, <3>1, <4>2 DEF LameProbed
    <3>2. \A j \in DOMAIN audits["lame"] : LameProbed(j, audits["lame"][j], lost')
      BY <1>2 DEF Probed
    <3> QED BY <2>3, <3>1, <3>2 DEF Audits
  <2>6. \A j \in DOMAIN audits'["glue"] :
          <<"glue", j>> \notin lost' => audits'["glue"][j] = CheckOneGlue(world.server[world.ns[j]], TRUE)
    <3>1. ASSUME a = "glue", <<"glue", i>> \notin lost' PROVE r = CheckOneGlue(world.server[world.ns[i]], TRUE)
      <4>1. heard = TRUE
        BY <2>3, <3>1
      <4>2. Reports("glue", world.server[world.ns[i]], TRUE) = {CheckOneGlue(world.server[world.ns[i]], TRUE)}
        BY DEF Reports
      <4> QED BY <2>3, <3>1, <4>1, <4>2
    <3>2. CASE a = "glue"
      <4>1. SUFFICES ASSUME NEW j \in DOMAIN audits'["glue"], <<"glue", j>> \notin lost'
                     PROVE  audits'["glue"][j] = CheckOneGlue(world.server[world.ns[j]], TRUE)
        OBVIOUS
      <4>2. CASE j = i
        BY <2>3, <3>1, <3>2, <4>1, <4>2
      <4>3. CASE j # i
        <5>1. j \in DOMAIN audits["glue"] /\ audits'["glue"][j] = audits["glue"][j]
          BY <2>3, <3>2, <4>3
        <5> QED BY <1>4, <4>1, <5>1
      <4> QED BY <4>2, <4>3
    <3>3. CASE a # "glue"
      <4>1. audits'["glue"] = audits["glue"]
        BY <2>3, <3>3 DEF Audits
      <4> QED BY <1>4, <4>1
    <3> QED BY <3>2, <3>3
  <2> QED BY <1>3, <2>5, <2>6
<1>6. CASE JoinPool2
  <2>1. /\ DOMAIN audits'["lame"] = DOMAIN audits["lame"] /\ audits'["glue"] = audits["glue"] /\ lost' = lost
        /\ \E c : \A i \in DOMAIN audits["lame"] : audits'["lame"][i] = Flagged(audits["lame"][i], c)
    BY <1>6, JoinPool2Facts
  <2>2. PICK c : \A i \in DOMAIN audits["lame"] : audits'["lame"][i] = Flagged(audits["lame"][i], c)
    BY <2>1
  <2>3. ASSUME NEW i, NEW r, LameProbed(i, r, lost) PROVE LameProbed(i, Flagged(r, c), lost)
    <3>1. r \in [up : BOOLEAN, aa : BOOLEAN, serial : Nat, lame : BOOLEAN]
      BY <2>3 DEF LameProbed, LameReports
    <3>2. IsLame(r, c) \in BOOLEAN
      BY DEF IsLame
    <3>3. /\ Flagged(r, c) \in [up : BOOLEAN, aa : BOOLEAN, serial : Nat, lame : BOOLEAN]
          /\ Flagged(r, c).up = r.up /\ Flagged(r, c).aa = r.aa
      BY <3>1, <3>2 DEF Flagged
    <3> QED BY <2>3, <3>3 DEF LameProbed, LameReports
  <2>4. \A i \in DOMAIN audits'["lame"] : LameProbed(i, audits'["lame"][i], lost')
    BY <2>1, <2>2, <2>3 DEF Probed
  <2> QED BY <1>3, <1>4, <2>1, <2>4
<1>7. CASE audits' = audits
  <2>1. \A i \in DOMAIN audits'["lame"] : LameProbed(i, audits'["lame"][i], lost')
    BY <1>2, <1>7 DEF Probed
  <2> QED BY <1>3, <1>4, <1>7, <2>1
<1>8. CASE JoinPool1 \/ FindParentNS
  BY <1>7, <1>8 DEF JoinPool1, FindParentNS
<1> QED BY <1>5, <1>6, <1>7, <1>8, AuditFrame

(* The vote is on authority and serials only.                              *)
LEMMA SameConsensus ==
  ASSUME NEW A, NEW B, DOMAIN A = DOMAIN B,
         \A i \in DOMAIN A : A[i].aa = B[i].aa /\ A[i].serial = B[i].serial
  PROVE  Consensus(A) = Consensus(B)
<1>1. Voters(A) = Voters(B) /\ \A i \in Voters(A) : i \in DOMAIN A
  BY DEF Voters
<1>2. \A s : Votes(A, s) = Votes(B, s)
  BY <1>1 DEF Votes
<1>3. {A[i].serial : i \in Voters(A)} = {B[i].serial : i \in Voters(B)}
  BY <1>1
<1> DEFINE serials == {A[i].serial : i \in Voters(A)}
           top(X) == {s \in serials : \A t \in serials : Cardinality(Votes(X, t)) <= Cardinality(Votes(X, s))}
<1>4. top(A) = top(B)
  BY <1>2
<1>5. Consensus(A) = IF serials = {} THEN {0} ELSE top(A)
  BY DEF Consensus
<1>6. Consensus(B) = IF serials = {} THEN {0} ELSE top(B)
  BY <1>3 DEF Consensus
<1> QED BY <1>4, <1>5, <1>6

LEMMA JudgedKept ==
  ASSUME Indexed, NameServers, Probed, Judged, [Next]_vars
  PROVE  Judged'
<1>1. \A A : Consensus(A)' = Consensus(A)
  BY DEF Consensus, Votes, Voters
<1>2. \A r, c : IsLame(r, c)' = IsLame(r, c)
  BY DEF IsLame
<1>3. CASE AuditOne
  <2>1. phase' = "pool2"
    BY <1>3 DEF AuditOne
  <2> QED BY <2>1 DEF Judged, AfterPool2
<1>4. CASE JoinPool2
  <2>1. /\ DOMAIN audits'["lame"] = DOMAIN audits["lame"]
        /\ \E c \in Consensus(audits["lame"]) : \A i \in DOMAIN audits["lame"] :
              audits'["lame"][i] = Flagged(audits["lame"][i], c)
    BY <1>4, JoinPool2Facts
  <2>2. PICK c \in Consensus(audits["lame"]) : \A i \in DOMAIN audits["lame"] :
              audits'["lame"][i] = Flagged(audits["lame"][i], c)
    BY <2>1
  <2>3. ASSUME NEW i \in DOMAIN audits["lame"]
        PROVE  /\ audits'["lame"][i].aa = audits["lame"][i].aa
               /\ audits'["lame"][i].serial = audits["lame"][i].serial
               /\ audits'["lame"][i].lame = IsLame(audits'["lame"][i], c)
    <3> DEFINE r == audits["lame"][i]
               q == audits'["lame"][i]
    <3>1. r \in [up : BOOLEAN, aa : BOOLEAN, serial : Nat, lame : BOOLEAN]
      BY DEF Probed, LameProbed, LameReports
    <3>2. q = [r EXCEPT !.lame = IsLame(r, c)]
      BY <2>2 DEF Flagged
    <3> HIDE DEF r, q
    <3>3. q.up = r.up /\ q.aa = r.aa /\ q.serial = r.serial /\ q.lame = IsLame(r, c)
      BY <3>1, <3>2
    <3>4. IsLame(q, c) = IsLame(r, c)
      BY <3>3 DEF IsLame
    <3> QED BY <3>3, <3>4 DEF r, q
  <2>4. Consensus(audits'["lame"]) = Consensus(audits["lame"])
    BY <2>1, <2>3, SameConsensus
  <2> QED BY <1>1, <1>2, <2>1, <2>2, <2>3, <2>4 DEF Judged
<1>5. CASE JoinPool1
  <2>1. audits' = audits /\ phase = "pool1"
    BY <1>5 DEF JoinPool1
  <2>2. DOMAIN audits["lame"] = {}
    BY <2>1 DEF Indexed, Audits, AfterPool1, AfterPool2
  <2>3. Voters(audits["lame"]) = {}
    BY <2>2 DEF Voters
  <2>4. Consensus(audits["lame"]) = {0}
    BY <2>3 DEF Consensus
  <2> QED BY <1>1, <2>1, <2>2, <2>4 DEF Judged
<1>6. CASE FindParentNS
  <2>1. phase' = "pool2"
    BY <1>6 DEF FindParentNS
  <2> QED BY <2>1 DEF Judged, AfterPool2
<1>7. CASE ~JoinPool1 /\ ~FindParentNS /\ ~AuditOne /\ ~JoinPool2
  <2>1. audits' = audits /\ (phase \in AfterPool2 <=> phase' \in AfterPool2)
    BY <1>7, AuditFrame
  <2> QED BY <1>1, <1>2, <2>1 DEF Judged
<1> QED BY <1>3, <1>4, <1>5, <1>6, <1>7

LEMMA AuditedKept ==
  ASSUME Shapes, NameServers, Audited, [Next]_vars
  PROVE  Audited'
BY IndexedKept, CompleteKept, ProbedKept, JudgedKept DEF Audited

-------------------------------------------------------------------------------
(***************************************************************************)
(* The report.                                                             *)
(***************************************************************************)

(* Which of the keys that matter here are in Detail.                       *)
LEMMA PublishedFacts ==
  ASSUME Shapes, NEW families
  PROVE  /\ \A l \in Lookups : l \in Published(families) <=> rec[l] # {}
         /\ sec.signed => "dnssec" \in Published(families)
         /\ audits["glue"] # << >> => "glue" \in Published(families)
<1>1. SUFFICES ASSUME NEW l \in Lookups, l \in Published(families) PROVE rec[l] # {}
  BY DEF Published, Shapes, Audits
<1>2. l \notin Audits /\ l \notin {"ns", "propagation", "cookies", "nsec_walk", "rpki", "nsec3", "ecs", "dnssec", "algorithm_rollover"}
  BY LookupsAssumption
<1> QED BY <1>1, <1>2 DEF Published

LEMMA LossIsLocalKept ==
  ASSUME Shapes, Fetched, NameServers, Chain, Audited, Heard, LossIsLocal, [Next]_vars
  PROVE  LossIsLocal'
<1>1. world' = world /\ lost \subseteq lost'
  BY StepFacts
<1>2. CASE UNCHANGED vars
  <2>1. Capped' = Capped /\ (AnswerSigned' <=> AnswerSigned)
    BY <1>2 DEF vars, Capped, AnswerSigned
  <2> QED BY <1>2, <2>1 DEF vars, LossIsLocal
<1>3. CASE Next /\ phase' # "done"
  BY <1>3 DEF LossIsLocal
<1>4. CASE Next /\ phase' = "done"
  <2>1. phase = "rollover"
    BY <1>4, PhaseFacts
  <2>2. Report
    BY <1>4, <2>1 DEF Next, ResolveViaTransport, LookupIP, Resolved, LookupRecord, LookupASN, LookupNS, Dnssec, JoinPool1,
            FindParentNS, AuditOne, JoinPool2, ProbeDNSCookies, WalkZoneNSEC, ProbeRPKIAll, QueryOneResolver,
            JoinPropagation, ProbeNSEC3Proof, ProbeECSMultiple
  <2>3. /\ UNCHANGED <<rec, ns, sec, audits, views>>
        /\ \E families : detail' = Published(families)
    BY <2>2 DEF Report
  <2>4. /\ \A l \in Lookups : l \in detail' <=> rec[l] # {}
        /\ sec.signed => "dnssec" \in detail'
        /\ audits["glue"] # << >> => "glue" \in detail'
    BY <2>3, PublishedFacts
  <2>5. phase \in AfterPool1 /\ phase \in AfterViews /\ phase # "pool2"
    BY <2>1 DEF AfterPool1, AfterPool2, AfterViews
  <2>6. \A l \in Lookups : l \in detail' => world.rec[l] # {}
    BY <2>4 DEF Fetched
  <2>7. \A l \in Lookups : world.rec[l] # {} /\ l \notin detail' => \E k \in 1..2 : <<l, k>> \in lost'
    BY <1>1, <2>4, <2>5 DEF Fetched, Returned
  <2>8. AnswerSigned /\ "dnssec" \notin detail' => sec.cut \/ <<"dnssec", 1>> \in lost'
    <3>1. sec.step = "end" /\ ChainAt(sec, lost)
      BY <2>5 DEF Chain, Returned
    <3> QED BY <1>1, <2>4, <3>1 DEF ChainAt, Excuse
  <2>9. ns = world.ns \/ <<"ns", 1>> \in lost'
    BY <1>1, <2>5 DEF NameServers, Returned
  <2>10. \A a \in {"axfr", "lame"} : DOMAIN audits[a] = Capped
    BY <2>5 DEF Audited, Indexed, Complete, Pending, Audits
  <2>11. \A i \in Capped : <<"lame", i>> \notin lost' => audits["lame"][i].up = world.server[ns[i]].up
    <3>1. SUFFICES ASSUME NEW i \in Capped, <<"lame", i>> \notin lost
                   PROVE  audits["lame"][i].up = world.server[ns[i]].up
      BY <1>1
    <3>2. audits["lame"][i].up = world.server[world.ns[i]].up
      BY <2>10, <3>1 DEF Audited, Probed, LameProbed
    <3>3. ns = world.ns
      BY BoundsAssumption DEF NameServers, Capped
    <3> QED BY <3>2, <3>3
  <2>12. ns # << >> /\ world.parent /\ "glue" \notin detail' => <<"parent", 1>> \in lost'
    <3>1. SUFFICES ASSUME ns # << >>, world.parent, "glue" \notin detail' PROVE <<"parent", 1>> \in lost
      BY <1>1
    <3>2. DOMAIN audits["glue"] = {}
      BY <2>4, <3>1
    <3>3. world.ns \in Seq(DOMAIN world.server)
      BY WorldsAssumption DEF Shapes
    <3>4. 1 \in 1..Len(ns)
      BY <3>1, <3>3 DEF NameServers
    <3> QED BY <2>5, <3>1, <3>2, <3>4 DEF Audited, Complete, Pending
  <2>13. DOMAIN views = Resolvers
    BY <2>5 DEF Heard
  <2>14. Capped' = Capped /\ (AnswerSigned' <=> AnswerSigned)
    BY <1>1, <2>3 DEF Capped, AnswerSigned
  <2> QED BY <1>1, <2>3, <2>6, <2>7, <2>8, <2>9, <2>10, <2>11, <2>12, <2>13, <2>14 DEF LossIsLocal
<1> QED BY <1>2, <1>3, <1>4

-------------------------------------------------------------------------------
(***************************************************************************)
(* The invariant.                                                          *)
(***************************************************************************)

LEMMA InitIInv == Init => IInv
<1> SUFFICES ASSUME Init PROVE IInv
  OBVIOUS
<1>1. /\ world \in Worlds /\ phase = "resolve" /\ lost = {} /\ ns = << >>
      /\ addrs = [f \in Families |-> {}]
      /\ rec = [l \in Lookups \cup {"asn"} |-> {}]
      /\ audits = [a \in Audits |-> << >>]
      /\ views = << >>
  BY DEF Init
<1>2. world.faults \in Nat
  BY <1>1, WorldsAssumption
<1>3. phase \notin AfterPool1 /\ phase \notin AfterPool2 /\ phase \notin AfterViews
  BY <1>1 DEF AfterPool1, AfterPool2, AfterViews
<1>4. Shapes
  <2>1. \A f \in Families : IsFiniteSet(addrs[f])
    BY <1>1, FS_EmptySet
  <2>2. DOMAIN after = {"cookies", "rpki", "nsec3", "ecs", "families"} /\ DOMAIN after.nsec3 = {"status", "hash", "records"}
    BY DEF Init
  <2> QED BY <1>1, <2>1, <2>2 DEF Shapes, Phases
<1>5. Losses
  BY <1>1, <1>2, FS_EmptySet DEF Losses
<1>6. Resolving
  <2>1. \A f \in Families : running \cap {<<f, 1>>, <<"ip", 1>>} # {}
    BY DEF Init
  <2> QED BY <1>1, <2>1 DEF Resolving
<1>7. Fetched
  BY <1>1, <1>3 DEF Fetched, Returned
<1>8. NameServers
  BY <1>1, <1>3 DEF NameServers, Returned
<1>9. Chain
  <2>1. sec = [step |-> "status", zone |-> 1, signed |-> FALSE, ad |-> FALSE, keys |-> {},
            levels |-> << >>, leaf |-> None, chain |-> FALSE, cut |-> FALSE]
    BY DEF Init
  <2>2. ChainAt(sec, lost)
    BY <2>1 DEF ChainAt, ZoneCount, SecFields
  <2> QED BY <1>1, <1>3, <2>1, <2>2 DEF Chain, Returned
<1>10. Audited
  <2>1. \A a \in Audits : DOMAIN audits[a] = {}
    BY <1>1
  <2>2. Indexed
    BY <1>1, <2>1 DEF Indexed, Audits
  <2>3. Complete /\ Judged
    BY <1>3 DEF Complete, Judged
  <2>4. Probed
    BY <2>1 DEF Probed, Audits
  <2> QED BY <2>2, <2>3, <2>4 DEF Audited
<1>11. Heard
  BY <1>1, <1>3 DEF Heard
<1>12. Walking
  <2>1. walk = [uses |-> FALSE, names |-> {}, hops |-> 0, inside |-> TRUE]
    BY DEF Init
  <2> QED BY <1>1, <2>1, BoundsAssumption DEF Walking
<1>13. Denied
  <2>1. after.nsec3.status = None
    BY DEF Init
  <2> QED BY <2>1 DEF Denied, None
<1>14. LossIsLocal
  BY <1>1 DEF LossIsLocal
<1> QED BY <1>4, <1>5, <1>6, <1>7, <1>8, <1>9, <1>10, <1>11, <1>12, <1>13, <1>14 DEF IInv

LEMMA NextIInv == IInv /\ [Next]_vars => IInv'
<1> SUFFICES ASSUME IInv, [Next]_vars PROVE IInv'
  OBVIOUS
<1>1. Shapes /\ Losses /\ Resolving /\ Fetched /\ NameServers /\ Chain /\ Audited /\ Heard /\ Walking /\ Denied /\ LossIsLocal
  BY DEF IInv
<1>2. Shapes' /\ Losses' /\ Resolving' /\ Fetched' /\ NameServers'
  BY <1>1, ShapesKept, LossesKept, ResolvingKept, FetchedKept, NameServersKept
<1>3. Chain' /\ Audited' /\ Heard' /\ Walking' /\ Denied' /\ LossIsLocal'
  BY <1>1, ChainKept, AuditedKept, HeardKept, WalkingKept, DeniedKept, LossIsLocalKept
<1> QED BY <1>2, <1>3 DEF IInv

(* What each goroutine and probe of checkDNS knows, it always knows.       *)
THEOREM Inductive == Spec => []IInv
BY InitIInv, NextIInv, PTL DEF Spec

-------------------------------------------------------------------------------
(***************************************************************************)
(* The verdicts on DNSSEC.                                                 *)
(***************************************************************************)

LEMMA ModFacts ==
  ASSUME NEW x \in Int
  PROVE  /\ x \in 0..RingSize - 1 => x % RingSize = x
         /\ x \in RingSize..2 * RingSize - 1 => x % RingSize = x - RingSize
         /\ x \in 1 - RingSize..-1 => x % RingSize = x + RingSize
BY BoundsAssumption

(* The comparison that nsec3Covers makes is membership of the arc.         *)
LEMMA ArcFacts ==
  ASSUME NEW owner \in 0..RingSize - 1, NEW next \in 0..RingSize - 1, NEW hash \in 0..RingSize - 1
  PROVE  Nsec3Covers(owner, next, hash) <=> hash \in Arc(owner, next)
<1>1. RingSize \in Nat \ {0}
  BY BoundsAssumption
<1> DEFINE span == IF next = owner THEN RingSize ELSE (next - owner) % RingSize
<1>2. span = IF owner < next THEN next - owner ELSE next - owner + RingSize
  BY <1>1, ModFacts
<1>3. Arc(owner, next) = {(owner + k) % RingSize : k \in 1..span - 1}
  BY DEF Arc
<1> HIDE DEF span
<1>4. span \in 1..RingSize
  BY <1>1, <1>2
<1>5. \A k \in 1..span - 1 : (owner + k) % RingSize = IF owner + k < RingSize THEN owner + k ELSE owner + k - RingSize
  BY <1>1, <1>4, ModFacts
<1>6. hash \in Arc(owner, next) <=>
        \E k \in 1..span - 1 : hash = IF owner + k < RingSize THEN owner + k ELSE owner + k - RingSize
  BY <1>3, <1>5
<1>7. ASSUME NEW k \in 1..span - 1, hash = IF owner + k < RingSize THEN owner + k ELSE owner + k - RingSize
      PROVE  Nsec3Covers(owner, next, hash)
  BY <1>1, <1>2, <1>4, <1>7 DEF Nsec3Covers
<1>8. ASSUME Nsec3Covers(owner, next, hash)
      PROVE  \E k \in 1..span - 1 : hash = IF owner + k < RingSize THEN owner + k ELSE owner + k - RingSize
  <2>1. CASE hash > owner
    <3>1. hash - owner \in 1..span - 1 /\ hash = owner + (hash - owner)
      BY <1>1, <1>2, <1>8, <2>1 DEF Nsec3Covers
    <3> QED BY <1>1, <3>1
  <2>2. CASE ~(hash > owner)
    <3>1. hash - owner + RingSize \in 1..span - 1
      BY <1>1, <1>2, <1>8, <2>2 DEF Nsec3Covers
    <3>2. ~(owner + (hash - owner + RingSize) < RingSize) /\ hash = owner + (hash - owner + RingSize) - RingSize
      BY <1>1
    <3> QED BY <3>1, <3>2
  <2> QED BY <2>1, <2>2
<1> QED BY <1>6, <1>7, <1>8

LEMMA DnssecFollows == IInv => DnssecSound
<1> SUFFICES ASSUME IInv PROVE DnssecSound
  OBVIOUS
<1>1. ChainSound
  <2>1. SUFFICES ASSUME sec.step = "end"
                 PROVE  /\ sec.chain => GoodChain /\ Len(sec.levels) = ZoneCount
                        /\ GoodChain => sec.chain \/ sec.cut \/ <<"dnssec", 1>> \in lost
                        /\ \A i \in 1..Len(sec.levels) - 1 : sec.levels[i]
    BY DEF ChainSound
  <2>2. sec.chain \in BOOLEAN /\ Ended(sec, lost)
    BY <2>1 DEF IInv, Chain, ChainAt
  <2>3. sec.chain => sec.chain = TRUE
    BY <2>2
  <2>4. /\ sec.chain => GoodChain /\ Len(sec.levels) = ZoneCount
        /\ GoodChain => sec.chain \/ sec.cut \/ <<"dnssec", 1>> \in lost
    BY <2>2, <2>3 DEF Ended, Excuse
  <2>5. \A i \in 1..Len(sec.levels) - 1 : sec.levels[i]
    BY <2>2 DEF Ended
  <2> QED BY <2>4, <2>5
<1>2. Nsec3Sound
  <2>1. SUFFICES ASSUME after.nsec3.status \in {"proven", "unproven"}
                 PROVE  after.nsec3.status = "proven" <=>
                          \E n \in after.nsec3.records : after.nsec3.hash \in Arc(n.owner, n.next)
    BY DEF Nsec3Sound
  <2>2. /\ after.nsec3.hash \in 0..RingSize - 1
        /\ \A n \in after.nsec3.records : n.owner \in 0..RingSize - 1 /\ n.next \in 0..RingSize - 1
        /\ after.nsec3.status = "proven" <=>
             \E n \in after.nsec3.records : Nsec3Covers(n.owner, n.next, after.nsec3.hash)
    BY <2>1 DEF IInv, Denied
  <2>3. \A n \in after.nsec3.records :
          Nsec3Covers(n.owner, n.next, after.nsec3.hash) <=> after.nsec3.hash \in Arc(n.owner, n.next)
    BY <2>2, ArcFacts
  <2> QED BY <2>2, <2>3
<1> QED BY <1>1, <1>2 DEF DnssecSound

(* In every world, however its answers are lost or truncated,              *)
(* validateDNSSECChain reports a validated chain only when the DS digests, *)
(* the signatures over them and the one over the address lead from a root  *)
(* anchor through the zones it asks about, and it misses no such chain     *)
(* unless an exchange was lost or truncated; probeNSEC3Proof says proven   *)
(* exactly when the hash is on the arc of a record, the arc through zero   *)
(* included.                                                               *)
THEOREM DnssecIsSound == Spec => []DnssecSound
BY Inductive, DnssecFollows, PTL

-------------------------------------------------------------------------------
(***************************************************************************)
(* The verdicts on servers and resolvers.                                  *)
(***************************************************************************)

LEMMA MajorityFollows == IInv => MajorityNeverLame
<1> DEFINE answers == audits["lame"]
           usable  == {i \in DOMAIN answers : answers[i].aa /\ answers[i].serial > 0}
           agree(i) == {j \in usable : answers[j].serial = answers[i].serial}
<1> SUFFICES ASSUME IInv, phase \notin {"resolve", "pool1", "pool2"},
                    NEW i \in usable, 2 * Cardinality(agree(i)) > Cardinality(usable)
             PROVE  \A j \in DOMAIN answers : answers[j].lame <=> j \notin agree(i)
  BY DEF MajorityNeverLame
<1>1. usable = Voters(answers) /\ \A k : agree(k) = Votes(answers, answers[k].serial)
  BY DEF Voters, Votes
<1>2. \A j \in DOMAIN answers : answers[j] \in LameReports /\ (answers[j].aa => answers[j].up)
  BY DEF IInv, Audited, Probed, LameProbed
<1>3. i \in DOMAIN answers
  OBVIOUS
<1>4. phase \in AfterPool2
  BY <1>3 DEF IInv, Shapes, Phases, Audited, Indexed, Audits, AfterPool1, AfterPool2
<1>5. PICK c \in Consensus(answers) : \A j \in DOMAIN answers : answers[j].lame = IsLame(answers[j], c)
  BY <1>4 DEF IInv, Audited, Judged
<1>6. IsFiniteSet(usable)
  <2>1. world.ns \in Seq(DOMAIN world.server)
    BY WorldsAssumption DEF IInv, Shapes
  <2>2. Len(ns) \in Nat
    BY <2>1 DEF IInv, NameServers
  <2>3. usable \in SUBSET (1..NsCap)
    BY <2>2, BoundsAssumption DEF IInv, Audited, Indexed, Audits, Capped
  <2>4. IsFiniteSet(1..NsCap)
    BY BoundsAssumption, FS_Interval
  <2> QED BY <2>3, <2>4, FS_Subset
<1> HIDE DEF answers, usable, agree
<1>7. c = answers[i].serial
  <2> DEFINE mine == Votes(answers, answers[i].serial)
             theirs == Votes(answers, c)
  <2>1. c \in {answers[k].serial : k \in Voters(answers)} /\ Cardinality(mine) <= Cardinality(theirs)
    BY <1>1, <1>5 DEF Consensus
  <2>2. mine \in SUBSET usable /\ theirs \in SUBSET usable
    BY <1>1 DEF Votes
  <2>3. IsFiniteSet(mine) /\ IsFiniteSet(theirs)
    BY <1>6, <2>2, FS_Subset
  <2>4. Cardinality(mine) \in Nat /\ Cardinality(theirs) \in Nat /\ Cardinality(usable) \in Nat
    BY <1>6, <2>3, FS_CardinalityType
  <2>5. 2 * Cardinality(mine) > Cardinality(usable)
    BY <1>1
  <2>6. Cardinality(mine) + Cardinality(theirs) > Cardinality(usable)
    BY <2>1, <2>4, <2>5
  <2>7. mine \cap theirs # {}
    BY <1>6, <2>2, <2>6, FS_MajoritiesIntersect
  <2> QED BY <2>7 DEF Votes
<1>8. SUFFICES ASSUME NEW j \in DOMAIN answers PROVE answers[j].lame <=> j \notin agree(i)
  OBVIOUS
<1>9. j \in agree(i) <=> answers[j].aa /\ answers[j].serial > 0 /\ answers[j].serial = c
  BY <1>7 DEF agree, usable
<1>10. c > 0 /\ c \in Nat
  BY <1>2, <1>3, <1>7 DEF usable, LameReports
<1>11. answers[j].lame = IsLame(answers[j], c) /\ answers[j].serial \in Nat /\ (answers[j].aa => answers[j].up)
  BY <1>2, <1>5 DEF LameReports
<1>12. IsLame(answers[j], c) <=> ~(answers[j].aa /\ answers[j].serial > 0 /\ answers[j].serial = c)
  BY <1>10, <1>11 DEF IsLame
<1> QED BY <1>9, <1>11, <1>12

LEMMA GlueFollows == IInv => GlueAlarmEarned
<1> SUFFICES ASSUME IInv, NEW i \in DOMAIN audits["glue"], <<"glue", i>> \notin lost
             PROVE  LET s == world.server[world.ns[i]]
                    IN  (audits["glue"][i].inside /\ ~audits["glue"][i].glue) <=> (s.inside /\ ~s.glue)
  BY DEF GlueAlarmEarned
<1> DEFINE s == world.server[world.ns[i]]
           g == audits["glue"][i]
<1>1. g = CheckOneGlue(s, TRUE)
  BY DEF IInv, Audited, Probed
<1> HIDE DEF s, g
<1>2. g = [inside |-> s.inside, glue |-> ~s.inside \/ (TRUE /\ s.glue)]
  BY <1>1 DEF CheckOneGlue, InBailiwick
<1>3. g.inside = s.inside /\ g.glue = (~s.inside \/ (TRUE /\ s.glue))
  BY <1>2
<1>4. (g.inside /\ ~g.glue) <=> (s.inside /\ ~s.glue)
  BY <1>3
<1> QED BY <1>4 DEF s, g

(* A finite set has more than one element when two of them differ.         *)
LEMMA TwoApart ==
  ASSUME NEW S, IsFiniteSet(S)
  PROVE  Cardinality(S) > 1 <=> \E x, y \in S : x # y
<1>1. Cardinality(S) \in Nat
  BY FS_CardinalityType
<1>2. (Cardinality(S) = 0 <=> S = {}) /\ (Cardinality(S) = 1 <=> \E x : S = {x})
  BY FS_EmptySet, FS_Singleton
<1> QED BY <1>1, <1>2

LEMMA PropagationFollows == IInv => PropagationSound
<1> DEFINE heard(r) == <<"view", r>> \notin lost
           gives(r) == heard(r) /\ world.view[r] # "NXDOMAIN"
<1> SUFFICES ASSUME IInv, phase \in AfterViews
             PROVE  /\ AggregatePropagation = "consistent" => \A r, q \in Resolvers : gives(r) /\ world.view[r] = world.view[q]
                    /\ AggregatePropagation = "split" => \E r, q \in Resolvers : heard(r) /\ heard(q) /\ world.view[r] # world.view[q]
                    /\ (\E r, q \in Resolvers : gives(r) /\ gives(q) /\ world.view[r] # world.view[q]) => AggregatePropagation = "split"
                    /\ AggregatePropagation = "failed" => \A r \in Resolvers : ~gives(r)
                    /\ (\A r \in Resolvers : ~heard(r)) => AggregatePropagation = "failed"
  BY DEF PropagationSound, AfterViews
<1>1. DOMAIN views = Resolvers /\ \A r \in Resolvers : views[r] = IF <<"view", r>> \in lost THEN None ELSE world.view[r]
  BY DEF IInv, Heard
<1>2. \A r \in Resolvers : world.view[r] # None
  BY WorldsAssumption DEF IInv, Shapes
<1>3. Answered = {r \in Resolvers : gives(r)} /\ \A r \in Answered : views[r] = world.view[r]
  BY <1>1, <1>2 DEF Answered, None
<1>4. IsFiniteSet(Answered)
  BY <1>3, BoundsAssumption, FS_Subset
<1>5. IsFiniteSet(Buckets)
  <2>1. [r \in Answered |-> views[r]] \in Surjection(Answered, Buckets)
    BY DEF Surjection, Buckets
  <2> QED BY <1>4, <2>1, FS_Surjection
<1>6. Cardinality(Buckets) > 1 <=> \E r, q \in Answered : world.view[r] # world.view[q]
  <2>1. Cardinality(Buckets) > 1 <=> \E x, y \in Buckets : x # y
    BY <1>5, TwoApart
  <2>2. \A r \in Answered : views[r] = world.view[r]
    BY <1>3
  <2>3. Buckets = {world.view[r] : r \in Answered}
    BY <2>2 DEF Buckets
  <2> QED BY <2>1, <2>3
<1>10. \A r : gives(r) => heard(r)
  OBVIOUS
<1> HIDE DEF gives, heard
<1>7. AggregatePropagation = "failed" <=> Answered = {}
  BY DEF AggregatePropagation
<1>8. AggregatePropagation = "split" <=> Cardinality(Buckets) > 1
  <2>1. Answered = {} => ~(Cardinality(Buckets) > 1)
    BY <1>6
  <2> QED BY <2>1 DEF AggregatePropagation
<1>9. AggregatePropagation = "consistent" => ~(Cardinality(Buckets) > 1) /\ Answered = Resolvers
  BY <1>1 DEF AggregatePropagation
<1> QED BY <1>3, <1>6, <1>7, <1>8, <1>9, <1>10

(* In every world: the serial that most authoritative answers carry is the *)
(* consensus of checkLameDelegation whatever the order of the counts, and  *)
(* its flags follow; glueHeadline's alarm and aggregatePropagation's       *)
(* verdict are those of the servers and resolvers heard from.              *)
THEOREM ServersAreJudged == Spec => []ServersJudged
<1>1. IInv => ServersJudged
  BY MajorityFollows, GlueFollows, PropagationFollows DEF ServersJudged
<1> QED BY <1>1, Inductive, PTL

-------------------------------------------------------------------------------
(***************************************************************************)
(* The check under loss.                                                   *)
(***************************************************************************)

LEMMA TypesFollow == IInv => TypeOK
<1> SUFFICES ASSUME IInv PROVE TypeOK
  OBVIOUS
<1>1. world \in Worlds /\ phase \in Phases /\ DOMAIN addrs = Families /\ DOMAIN rec = Lookups \cup {"asn"}
  BY DEF IInv, Shapes
<1>2. ns \in {<< >>, world.ns}
  BY DEF IInv, NameServers
<1>3. sec.step \in {"status", "keys", "ds", "leaf", "end"} /\ sec.zone \in 1..(ZoneCount + 1)
  BY DEF IInv, Chain, ChainAt
<1>4. DOMAIN audits = Audits /\ \A a \in Audits \ {"glue"} : DOMAIN audits[a] \subseteq Capped
  BY DEF IInv, Audited, Indexed
<1>5. world.ns \in Seq(DOMAIN world.server)
  BY <1>1, WorldsAssumption
<1>6. Len(ns) \in Nat
  BY <1>2, <1>5
<1>7. Capped \subseteq 1..NsCap
  BY <1>6, BoundsAssumption DEF Capped
<1>8. walk.hops \in 0..WalkCap /\ DOMAIN views \subseteq Resolvers /\ Cardinality(lost) <= world.faults
  BY DEF IInv, Walking, Heard, Losses
<1> QED BY <1>1, <1>2, <1>3, <1>4, <1>7, <1>8 DEF TypeOK

(* In every world, whatever enrichDNS loses is missing from the report and *)
(* nothing else is: one family of addresses is enough to go on, a record   *)
(* type is absent only if its own lookup was lost, every audited server    *)
(* and every public resolver has its entry, and the NSEC walk names only   *)
(* names of the zone within its cap.                                       *)
THEOREM BestEffortHolds == Spec => []BestEffort
<1>1. IInv => OneFamilyIsEnough
  BY DEF IInv, Resolving, Excused, OneFamilyIsEnough
<1>2. IInv => LossIsLocal /\ WalkNamesReal
  BY DEF IInv, Walking, WalkNamesReal
<1>3. IInv => BestEffort
  BY <1>1, <1>2, TypesFollow DEF BestEffort
<1> QED BY <1>3, Inductive, PTL
===============================================================================
