---------------------------- MODULE RegistryProofs ----------------------------
(***************************************************************************)
(* Proofs about the checks that ask registries and zones of the Internet   *)
(* about the target: checkDomain, which asks the RDAP servers (Rdap), and  *)
(* checkReputation and checkMail, which ask blocklists, reverse zones and  *)
(* the zone of the domain itself (Deliverability).                         *)
(*                                                                         *)
(* Rdap: for any number of concurrent Domain checks, any server lists and  *)
(* any expiry dates.  Deliverability: for any worlds, blocklists and       *)
(* losses.  ReputationSound and MailSound are about entries that are       *)
(* written when every goroutine is gone, so the invariants say of each     *)
(* goroutine that it is at work and has left no trace, or is gone and has  *)
(* left the one it should; and, of the mail check, that what stood when a  *)
(* pool was joined still stands when the entry is written.                 *)
(***************************************************************************)
EXTENDS Rdap, Deliverability, FiniteSetTheorems, SequenceTheorems, WellFoundedInduction, TLAPS

-------------------------------------------------------------------------------
(***************************************************************************)
(* The Domain checks.                                                      *)
(***************************************************************************)

(* The state of the once and where the calls may be.                       *)
Gate ==
  /\ once = "new" => fetches = 0 /\ \A l \in Lookups : pc[l] = "load"
  /\ once # "new" => fetches = 1
  /\ \A l \in Lookups : pc[l] = "fetch" => once = "running"
  /\ \A l, m \in Lookups : pc[l] = "fetch" /\ pc[m] = "fetch" => l = m
  /\ \A l \in Lookups : pc[l] \in {"loaded", "ask", "end"} => once = "done"
  /\ err => once = "done"

(* How far a call has come in its list of servers, by where it is.         *)
Progress ==
  \A l \in Lookups :
    /\ pc[l] \in {"load", "fetch", "loaded"} => next[l] = 1
    /\ pc[l] = "ask" => ~err /\ next[l] <= servers[l]
    /\ pc[l] # "end" => domain[l] = NotRun
    /\ err => domain[l].summary \in {"not_run", "rdap_unavailable"}

IInv == RdapTypeOK /\ Gate /\ Progress /\ FallsThrough

(* Every verdict on a registration has the type of an entry.               *)
LEMMA DomainVerdictType ==
  ASSUME NEW d
  PROVE  /\ DomainVerdict(d) \in [status : Statuses \cup {"none"}, summary : Summaries]
         /\ DomainVerdict(d).summary # "rdap_unavailable"
<1>1. DomainVerdict(d) \in {Check("fail", "expired"), Verdict("warn"), Verdict("ok")}
  BY DEF DomainVerdict
<1> QED BY <1>1 DEF Verdict, Check, Statuses, Summaries

(* The entries a call can hold without an answer.                          *)
LEMMA UnansweredType ==
  /\ NotRun \in [status : Statuses \cup {"none"}, summary : Summaries]
  /\ NotRun.summary = "not_run"
  /\ Skip("rdap_unavailable") \in [status : Statuses \cup {"none"}, summary : Summaries]
  /\ Skip("rdap_unavailable").summary = "rdap_unavailable"
  BY DEF NotRun, Skip, Check, Statuses, Summaries

LEMMA InitIInv == RdapInit => IInv
<1> SUFFICES ASSUME RdapInit PROVE IInv
  OBVIOUS
<1>1. RdapTypeOK
  <2>1. 0 \in 0..MaxServers /\ 1 \in 1..MaxServers + 1
    BY MaxServersAssumption
  <2>2. domain \in [Lookups -> [status : Statuses \cup {"none"}, summary : Summaries]]
    BY UnansweredType DEF RdapInit
  <2>3. servers \in [Lookups -> 0..MaxServers] /\ next \in [Lookups -> 1..MaxServers + 1]
    BY <2>1 DEF RdapInit
  <2>4. err \in BOOLEAN
    BY Zenon DEF RdapInit
  <2>5. fetches \in 0..1
    BY DEF RdapInit
  <2>6. /\ once \in {"new", "running", "done"}
        /\ pc \in [Lookups -> {"load", "fetch", "loaded", "ask", "end"}]
        /\ expires \in [Lookups -> Expiries]
    BY DEF RdapInit
  <2> QED BY <2>2, <2>3, <2>4, <2>5, <2>6 DEF RdapTypeOK
<1>2. Gate
  BY DEF RdapInit, Gate
<1>3. Progress /\ FallsThrough
  BY UnansweredType DEF RdapInit, Progress, FallsThrough
<1> QED BY <1>1, <1>2, <1>3 DEF IInv

LEMMA StartLoadIInv == ASSUME NEW l \in Lookups PROVE IInv /\ StartLoad(l) => IInv'
<1> SUFFICES ASSUME IInv, StartLoad(l) PROVE IInv'
  OBVIOUS
<1>1. RdapTypeOK'
  BY DEF IInv, RdapTypeOK, Gate, StartLoad, Goto
<1>2. Gate'
  BY DEF IInv, RdapTypeOK, Gate, StartLoad, Goto
<1>3. Progress' /\ FallsThrough'
  BY DEF IInv, RdapTypeOK, Progress, FallsThrough, StartLoad, Goto
<1> QED BY <1>1, <1>2, <1>3 DEF IInv

LEMMA EndLoadIInv == ASSUME NEW l \in Lookups PROVE IInv /\ EndLoad(l) => IInv'
<1> SUFFICES ASSUME IInv, EndLoad(l) PROVE IInv'
  OBVIOUS
<1>1. once = "running" /\ ~err /\ \A m \in Lookups : pc[m] \in {"load", "fetch"}
  BY DEF IInv, RdapTypeOK, Gate, EndLoad
<1>2. \A m \in Lookups : domain[m] = NotRun
  BY <1>1 DEF IInv, Progress
<1>3. RdapTypeOK'
  BY DEF IInv, RdapTypeOK, EndLoad, Goto
<1>4. Gate'
  BY <1>1 DEF IInv, RdapTypeOK, Gate, EndLoad, Goto
<1>5. Progress' /\ FallsThrough'
  BY <1>1, <1>2 DEF IInv, RdapTypeOK, Progress, FallsThrough, EndLoad, Goto, NotRun
<1> QED BY <1>3, <1>4, <1>5 DEF IInv

LEMMA PassLoadIInv == ASSUME NEW l \in Lookups PROVE IInv /\ PassLoad(l) => IInv'
<1> SUFFICES ASSUME IInv, PassLoad(l) PROVE IInv'
  OBVIOUS
<1>1. RdapTypeOK'
  BY DEF IInv, RdapTypeOK, PassLoad, Goto
<1>2. Gate'
  BY DEF IInv, RdapTypeOK, Gate, PassLoad, Goto
<1>3. Progress' /\ FallsThrough'
  BY DEF IInv, RdapTypeOK, Progress, FallsThrough, PassLoad, Goto
<1> QED BY <1>1, <1>2, <1>3 DEF IInv

LEMMA ChooseIInv == ASSUME NEW l \in Lookups PROVE IInv /\ Choose(l) => IInv'
<1> SUFFICES ASSUME IInv, Choose(l) PROVE IInv'
  OBVIOUS
<1>1. CASE err \/ servers[l] = 0
  <2>1. /\ pc[l] = "loaded" /\ pc' = [pc EXCEPT ![l] = "end"]
        /\ domain' = [domain EXCEPT ![l] = Skip("rdap_unavailable")]
        /\ UNCHANGED <<once, err, fetches, servers, next, expires>>
    BY <1>1 DEF Choose, Give, Goto
  <2>2. RdapTypeOK'
    BY <2>1, UnansweredType DEF IInv, RdapTypeOK
  <2>3. Gate'
    BY <2>1 DEF IInv, RdapTypeOK, Gate
  <2>4. Progress' /\ FallsThrough'
    BY <1>1, <2>1, UnansweredType DEF IInv, RdapTypeOK, Progress, FallsThrough
  <2> QED BY <2>2, <2>3, <2>4 DEF IInv
<1>2. CASE ~(err \/ servers[l] = 0)
  <2>1. /\ pc[l] = "loaded" /\ pc' = [pc EXCEPT ![l] = "ask"]
        /\ UNCHANGED <<once, err, fetches, servers, next, expires, domain>>
    BY <1>2 DEF Choose, Goto
  <2>2. RdapTypeOK'
    BY <2>1 DEF IInv, RdapTypeOK
  <2>3. Gate'
    BY <2>1 DEF IInv, RdapTypeOK, Gate
  <2>4. next[l] = 1 /\ servers[l] \in Nat /\ servers[l] >= 1
    BY <1>2, <2>1, MaxServersAssumption DEF IInv, RdapTypeOK, Progress
  <2>5. Progress' /\ FallsThrough'
    BY <1>2, <2>1, <2>4 DEF IInv, RdapTypeOK, Progress, FallsThrough
  <2> QED BY <2>2, <2>3, <2>5 DEF IInv
<1> QED BY <1>1, <1>2

LEMMA FailIInv == ASSUME NEW l \in Lookups PROVE IInv /\ Fail(l) => IInv'
<1> SUFFICES ASSUME IInv, Fail(l) PROVE IInv'
  OBVIOUS
<1>1. ~err /\ next[l] <= servers[l] /\ servers[l] \in 0..MaxServers /\ next[l] \in Nat
  BY MaxServersAssumption DEF IInv, RdapTypeOK, Progress, Fail
<1>2. CASE next[l] < servers[l]
  <2>1. /\ next' = [next EXCEPT ![l] = @ + 1]
        /\ UNCHANGED <<once, err, fetches, servers, pc, expires, domain>>
    BY <1>2 DEF Fail
  <2>2. next[l] + 1 \in 1..MaxServers + 1 /\ next[l] + 1 <= servers[l]
    BY <1>1, <1>2, MaxServersAssumption
  <2>3. RdapTypeOK'
    BY <2>1, <2>2 DEF IInv, RdapTypeOK
  <2>4. Gate'
    BY <2>1 DEF IInv, Gate
  <2>5. pc[l] = "ask" /\ domain[l] = NotRun
    BY DEF IInv, Progress, Fail
  <2>6. Progress'
    BY <2>1, <2>2, <2>5 DEF IInv, RdapTypeOK, Progress
  <2>7. FallsThrough'
    BY <2>1, <2>5, UnansweredType DEF IInv, RdapTypeOK, FallsThrough
  <2> QED BY <2>3, <2>4, <2>6, <2>7 DEF IInv
<1>3. CASE ~(next[l] < servers[l])
  <2>1. /\ pc[l] = "ask" /\ pc' = [pc EXCEPT ![l] = "end"]
        /\ next' = [next EXCEPT ![l] = @ + 1]
        /\ domain' = [domain EXCEPT ![l] = Skip("rdap_unavailable")]
        /\ UNCHANGED <<once, err, fetches, servers, expires>>
    BY <1>3 DEF Fail, Give, Goto
  <2>2. next[l] + 1 \in 1..MaxServers + 1 /\ next[l] + 1 = servers[l] + 1
    BY <1>1, <1>3, MaxServersAssumption
  <2>3. RdapTypeOK'
    BY <2>1, <2>2, UnansweredType DEF IInv, RdapTypeOK
  <2>4. Gate'
    BY <2>1 DEF IInv, RdapTypeOK, Gate
  <2>5. Progress'
    BY <1>1, <2>1, UnansweredType DEF IInv, RdapTypeOK, Progress
  <2>6. FallsThrough'
    BY <2>1, <2>2, UnansweredType DEF IInv, RdapTypeOK, FallsThrough
  <2> QED BY <2>3, <2>4, <2>5, <2>6 DEF IInv
<1> QED BY <1>2, <1>3

LEMMA SucceedIInv == ASSUME NEW l \in Lookups PROVE IInv /\ Succeed(l) => IInv'
<1> SUFFICES ASSUME IInv, Succeed(l) PROVE IInv'
  OBVIOUS
<1> DEFINE v == DomainVerdict(DaysLeft(expires[l]))
<1>1. /\ v \in [status : Statuses \cup {"none"}, summary : Summaries]
      /\ v.summary # "rdap_unavailable"
  BY DomainVerdictType
<1>2. domain' = [domain EXCEPT ![l] = v]
  BY DEF Succeed, Give
<1>3. /\ pc[l] = "ask" /\ pc' = [pc EXCEPT ![l] = "end"]
      /\ UNCHANGED <<once, err, fetches, servers, next, expires>>
  BY DEF Succeed, Give, Goto
<1> HIDE DEF v
<1>4. RdapTypeOK'
  BY <1>1, <1>2, <1>3 DEF IInv, RdapTypeOK
<1>5. Gate'
  BY <1>3 DEF IInv, RdapTypeOK, Gate
<1>6. ~err
  BY <1>3 DEF IInv, Progress
<1>7. Progress' /\ FallsThrough'
  BY <1>1, <1>2, <1>3, <1>6 DEF IInv, RdapTypeOK, Progress, FallsThrough
<1> QED BY <1>4, <1>5, <1>7 DEF IInv

LEMMA StutterIInv == IInv /\ UNCHANGED rdapVars => IInv'
  BY DEF IInv, RdapTypeOK, Gate, Progress, FallsThrough, rdapVars

LEMMA StepIInv == IInv /\ [RdapNext]_rdapVars => IInv'
  BY StartLoadIInv, EndLoadIInv, PassLoadIInv, ChooseIInv, FailIInv, SucceedIInv, StutterIInv
     DEF RdapNext, Lookup

-------------------------------------------------------------------------------
(* The invariant holds for any number of Domain checks.                    *)
THEOREM Invariance == RdapSpec => []IInv
<1>1. RdapInit => IInv
  BY InitIInv
<1>2. IInv /\ [RdapNext]_rdapVars => IInv'
  BY StepIInv
<1> QED BY <1>1, <1>2, PTL DEF RdapSpec

(* The bootstrap, the lookups and their results keep their types, for any  *)
(* number of Domain checks of any number of servers.                       *)
THEOREM TypeCorrectness == RdapSpec => []RdapTypeOK
<1>1. IInv => RdapTypeOK
  BY DEF IInv
<1> QED BY <1>1, Invariance, PTL

(* No Domain check reads the server map before its only fetch has ended.   *)
THEOREM RegistryIsShared == RdapSpec => []OneRegistry
<1>1. IInv => OneRegistry
  BY DEF IInv, Gate, OneRegistry
<1> QED BY <1>1, Invariance, PTL

(* A lookup gives up on a covered TLD only after its last server failed.   *)
THEOREM EveryServerAsked == RdapSpec => []FallsThrough
<1>1. IInv => FallsThrough
  BY DEF IInv
<1> QED BY <1>1, Invariance, PTL

(* A bootstrap that failed stays failed, for every later Domain check.     *)
THEOREM StickyFailure == RdapSpec => FailureIsSticky
<1>1. IInv /\ IInv' /\ [RdapNext]_rdapVars =>
        [err => err' /\ \A l \in Lookups :
                          domain'[l].summary \in {"not_run", "rdap_unavailable"}]_rdapVars
  <2> SUFFICES ASSUME IInv, IInv', [RdapNext]_rdapVars, err PROVE err'
    BY DEF IInv, Progress
  <2>1. \A l \in Lookups : ~EndLoad(l)
    BY DEF IInv, Gate, EndLoad
  <2> QED BY <2>1 DEF RdapNext, Lookup, StartLoad, PassLoad, Choose, Fail, Succeed, rdapVars
<1> QED BY <1>1, Invariance, PTL DEF RdapSpec, FailureIsSticky

-------------------------------------------------------------------------------
(***************************************************************************)
(* The reputation check.                                                   *)
(***************************************************************************)

Early == {"mx", "probes", "keys", "score", "endpoints", "lists"}

(* Before its pool is started the check has left nothing and lost nothing. *)
Untouched ==
  phase \in Early =>
    /\ hits = << >> /\ DOMAIN fcrdns = {} /\ declined = FALSE
    /\ \A e \in lost : e[1] \notin {"list", "txt"}

Shape ==
  /\ world \in Worlds
  /\ phase \in Early \cup {"reputation", "done"}
  /\ DOMAIN checks = {"Mail", "Reputation"}
  /\ phase # "done" => checks.Reputation = NotRun

(* An address and a list: the goroutine is at work and nothing came of it, *)
(* or it is gone and what came of it is what the world holds.              *)
AskedPair(a, z) ==
  IF <<"list", a, z>> \in running
  THEN /\ ~IsHit(a, z)
       /\ <<"list", a, z.name>> \notin lost /\ <<"txt", a, z.name>> \notin lost
  ELSE Listed(a, z) <=> IsHit(a, z)

HitsPlaced ==
  /\ hits \in Seq(Addresses \X Zones)
  /\ \A i, j \in DOMAIN hits : hits[i] = hits[j] => i = j

DeclinedRightly ==
  declined = (\E a \in Addresses, z \in Zones : <<"list", a, z>> \notin running /\ Declines(a, z))

Confirmations ==
  /\ DOMAIN fcrdns \subseteq Addresses
  /\ \A a \in Addresses : a \in DOMAIN fcrdns \/ <<"fcrdns", a>> \in running
  /\ \A a \in DOMAIN fcrdns : fcrdns[a] = "pass" => Confirmed(a)

Pool ==
  phase = "reputation" =>
    /\ \A a \in Addresses, z \in Zones : AskedPair(a, z)
    /\ HitsPlaced /\ DeclinedRightly /\ Confirmations

RepInv == Shape /\ Untouched /\ Pool /\ ReputationSound

(* The exchanges of a probe of checkMail carry the name of its result.     *)
LEMMA ExchangeNames ==
  ASSUME NEW r, NEW e \in Exchanges(r)
  PROVE  e[1] = r
BY DEF Exchanges

(* A verdict on the hits and the reverse names, by what was found.         *)
LEMMA ReputationVerdictFacts ==
  ASSUME NEW b \in Nat, NEW o \in Nat, NEW f \in Nat
  PROVE  LET v == ReputationVerdict(b, o, f).status
         IN  /\ v = "fail" <=> b # 0
             /\ v = "ok" <=> b = 0 /\ o = 0 /\ f = 0
BY DEF ReputationVerdict, Verdict, Check

LEMMA InitRepInv == Init => RepInv
<1> SUFFICES ASSUME Init PROVE RepInv
  OBVIOUS
<1> USE DEF Init
<1>1. Shape
  BY DEF Shape, Early, NotRun
<1>2. Untouched
  BY DEF Untouched
<1>3. Pool
  BY DEF Pool
<1>4. ReputationSound
  BY DEF ReputationSound, NotRun
<1> QED BY <1>1, <1>2, <1>3, <1>4 DEF RepInv

(* checkMail touches nothing of the reputation check.                      *)
LEMMA MailStep ==
  ASSUME RepInv, phase \in Early, phase' \in Early,
         UNCHANGED <<world, hits, fcrdns, declined>>,
         \A e \in lost' \ lost : e[1] \notin {"list", "txt"},
         DOMAIN checks' = DOMAIN checks, checks'.Reputation = checks.Reputation
  PROVE  RepInv'
<1>1. phase # "reputation" /\ phase # "done" /\ phase' # "reputation" /\ phase' # "done"
  BY DEF Early
<1>2. Shape'
  BY <1>1 DEF RepInv, Shape
<1>3. Untouched'
  BY DEF RepInv, Untouched
<1>4. Pool'
  BY <1>1 DEF Pool
<1>5. ReputationSound'
  BY <1>1 DEF RepInv, Shape, NotRun, ReputationSound
<1> QED BY <1>2, <1>3, <1>4, <1>5 DEF RepInv

LEMMA MailSteps ==
  ASSUME RepInv,
         \/ LookupMX \/ ProbeRecord \/ ProbeDKIMSelector \/ JoinProbes \/ ProbeDKIMKeyStrength
         \/ Score \/ CheckDMARCExternalAuth \/ ReportMail
  PROVE  RepInv'
<1>0. DOMAIN checks = {"Mail", "Reputation"}
  BY DEF RepInv, Shape
<1>m. ASSUME NEW c, checks' = [checks EXCEPT !.Mail = c]
      PROVE  DOMAIN checks' = DOMAIN checks /\ checks'.Reputation = checks.Reputation
  BY <1>0, <1>m
<1>1. CASE LookupMX
  <2>1. phase \in Early /\ phase' \in Early
    BY <1>1 DEF LookupMX, SkipMail, Early
  <2>2. \A e \in lost' \ lost : e[1] \notin {"list", "txt"}
    BY <1>1 DEF LookupMX, Losses
  <2>3. DOMAIN checks' = DOMAIN checks /\ checks'.Reputation = checks.Reputation
    BY <1>1, <1>m DEF LookupMX, SkipMail
  <2> QED BY <1>1, <2>1, <2>2, <2>3, MailStep DEF LookupMX
<1>2. CASE ProbeRecord
  <2>1. PICK r \in Results \ {"dkim"} : \E gone \in Losses(Exchanges(r)) : lost' = lost \cup gone
    BY <1>2 DEF ProbeRecord
  <2>2. \A e \in lost' \ lost : e[1] = r
    BY <2>1, ExchangeNames DEF Losses
  <2>3. \A e \in lost' \ lost : e[1] \notin {"list", "txt"}
    BY <2>2 DEF Results
  <2> QED BY <1>2, <2>3, MailStep DEF ProbeRecord, Early
<1>3. CASE ProbeDKIMSelector
  <2>1. \A e \in lost' \ lost : e[1] \notin {"list", "txt"}
    BY <1>3 DEF ProbeDKIMSelector, Losses
  <2> QED BY <1>3, <2>1, MailStep DEF ProbeDKIMSelector, Early
<1>4. CASE JoinProbes
  BY <1>4, MailStep DEF JoinProbes, Early
<1>5. CASE ProbeDKIMKeyStrength
  <2>1. \A e \in lost' \ lost : e[1] \notin {"list", "txt"}
    BY <1>5 DEF ProbeDKIMKeyStrength, Losses
  <2> QED BY <1>5, <2>1, MailStep DEF ProbeDKIMKeyStrength, Early
<1>6. CASE Score
  BY <1>6, MailStep DEF Score, Early
<1>7. CASE CheckDMARCExternalAuth
  <2>1. \A e \in lost' \ lost : e[1] \notin {"list", "txt"}
    BY <1>7 DEF CheckDMARCExternalAuth, Losses
  <2> QED BY <1>7, <2>1, MailStep DEF CheckDMARCExternalAuth, Early
<1>8. CASE ReportMail
  <2>1. DOMAIN checks' = DOMAIN checks /\ checks'.Reputation = checks.Reputation
    BY <1>8, <1>m DEF ReportMail
  <2> QED BY <1>8, <2>1, MailStep DEF ReportMail, Early
<1> QED BY <1>1, <1>2, <1>3, <1>4, <1>5, <1>6, <1>7, <1>8

(* The pool is started on a check that has left nothing.                   *)
LEMMA StartStep ==
  ASSUME RepInv, StartLists
  PROVE  RepInv'
<1> USE DEF StartLists
<1>1. /\ hits' = << >> /\ DOMAIN fcrdns' = {} /\ declined' = FALSE
      /\ \A e \in lost' : e[1] \notin {"list", "txt"}
  BY DEF RepInv, Untouched, Early
<1>2. DOMAIN checks = {"Mail", "Reputation"} /\ checks.Reputation = NotRun /\ world \in Worlds
  BY DEF RepInv, Shape
<1>3. CASE world.resolved /\ Addresses # {}
  <2>1. /\ phase' = "reputation" /\ checks' = checks /\ world' = world
        /\ running' = ({"fcrdns"} \X Addresses) \cup ({"list"} \X Addresses \X Zones)
    BY <1>3
  <2>2. Shape'
    BY <1>2, <2>1 DEF Shape
  <2>3. Untouched'
    BY <2>1 DEF Untouched, Early
  <2>4. Addresses' = Addresses
    BY <2>1 DEF Addresses
  <2>5. ASSUME NEW a \in Addresses, NEW z \in Zones
        PROVE  <<"list", a, z>> \in running' /\ AskedPair(a, z)'
    <3>1. <<"list", a, z>> \in running'
      BY <2>1
    <3>2. <<"list", a, z.name>> \notin lost' /\ <<"txt", a, z.name>> \notin lost'
      BY <1>1
    <3>3. ~IsHit(a, z)'
      BY <1>1 DEF IsHit
    <3> QED BY <3>1, <3>2, <3>3 DEF AskedPair
  <2>6. HitsPlaced'
    BY <1>1 DEF HitsPlaced
  <2>7. DeclinedRightly'
    BY <1>1, <2>4, <2>5 DEF DeclinedRightly
  <2>8. Confirmations'
    BY <1>1, <2>1, <2>4 DEF Confirmations
  <2>9. Pool'
    BY <2>4, <2>5, <2>6, <2>7, <2>8 DEF Pool
  <2>10. ReputationSound'
    BY <1>2, <2>1 DEF ReputationSound, NotRun
  <2> QED BY <2>2, <2>3, <2>9, <2>10 DEF RepInv
<1>4. CASE ~(world.resolved /\ Addresses # {})
  <2>1. phase' = "done" /\ checks' = [checks EXCEPT !.Reputation = Skip("no_v4")] /\ world' = world
    BY <1>4
  <2>2. DOMAIN checks' = {"Mail", "Reputation"} /\ checks'.Reputation.status = "skip"
    BY <1>2, <2>1 DEF Skip, Check
  <2>3. Shape' /\ Untouched' /\ Pool'
    BY <1>2, <2>1, <2>2 DEF Shape, Untouched, Pool, Early
  <2>4. ReputationSound'
    BY <2>2 DEF ReputationSound
  <2> QED BY <2>3, <2>4 DEF RepInv
<1> QED BY <1>3, <1>4

(* What an append makes of the hits.                                       *)
LEMMA AppendHit ==
  ASSUME HitsPlaced, NEW a \in Addresses, NEW z \in Zones, ~IsHit(a, z),
         world' = world, hits' = Append(hits, <<a, z>>)
  PROVE  /\ HitsPlaced'
         /\ \A b \in Addresses, y \in Zones : IsHit(b, y)' <=> IsHit(b, y) \/ <<b, y>> = <<a, z>>
<1> DEFINE Pairs == Addresses \X Zones
<1>1. hits \in Seq(Pairs) /\ <<a, z>> \in Pairs /\ Addresses' = Addresses
  BY DEF HitsPlaced, Addresses
<1>2. /\ hits' \in Seq(Pairs) /\ Len(hits') = Len(hits) + 1 /\ Len(hits) \in Nat
      /\ DOMAIN hits = 1..Len(hits) /\ DOMAIN hits' = 1..Len(hits) + 1
      /\ hits'[Len(hits) + 1] = <<a, z>>
      /\ \A i \in 1..Len(hits) : hits'[i] = hits[i]
  <2> HIDE DEF Pairs
  <2> QED BY <1>1
<1>3. \A b \in Addresses, y \in Zones : IsHit(b, y)' <=> IsHit(b, y) \/ <<b, y>> = <<a, z>>
  <2> SUFFICES ASSUME NEW b \in Addresses, NEW y \in Zones
               PROVE  (\E i \in DOMAIN hits' : hits'[i] = <<b, y>>)
                        <=> (\E i \in DOMAIN hits : hits[i] = <<b, y>>) \/ <<b, y>> = <<a, z>>
    BY DEF IsHit
  <2> DEFINE n == Len(hits) + 1
  <2>1. n \in DOMAIN hits' /\ \A i \in DOMAIN hits' : i = n \/ i \in DOMAIN hits
    BY <1>2
  <2>2. hits'[n] = <<a, z>> /\ \A i \in DOMAIN hits : i \in DOMAIN hits' /\ hits'[i] = hits[i]
    BY <1>2
  <2> HIDE DEF n
  <2> QED BY <2>1, <2>2, Zenon
<1>4. \A i \in DOMAIN hits : hits[i] # <<a, z>>
  BY DEF IsHit
<1>5. ASSUME NEW i \in DOMAIN hits', NEW j \in DOMAIN hits', hits'[i] = hits'[j]
      PROVE  i = j
  BY <1>2, <1>4, <1>5 DEF HitsPlaced
<1>6. HitsPlaced'
  BY <1>1, <1>2, <1>5 DEF HitsPlaced
<1> QED BY <1>3, <1>6

(* One address asked of one list.                                          *)
LEMMA ListStep ==
  ASSUME RepInv, ProbeReputation
  PROVE  RepInv'
<1>p. phase = "reputation" /\ phase' = phase /\ UNCHANGED <<world, fcrdns, checks>>
  BY DEF ProbeReputation
<1>q. /\ \A b \in Addresses, y \in Zones : AskedPair(b, y)
      /\ HitsPlaced /\ DeclinedRightly /\ Confirmations /\ world \in Worlds
      /\ checks.Reputation = NotRun
  BY <1>p DEF RepInv, Pool, Shape
<1>1. PICK a \in Addresses, z \in Zones :
        /\ <<"list", a, z>> \in running
        /\ running' = running \ {<<"list", a, z>>}
        /\ \E gone \in Losses({<<"list", a, z.name>>, <<"txt", a, z.name>>}) :
             LET answer  == world.listing[a][z.name]
                 heard   == answer # "none" /\ <<"list", a, z.name>> \notin gone
                 refused == \/ ~ValidAnswer(answer)
                            \/ answer = "refused" /\ <<"txt", a, z.name>> \notin gone
             IN  /\ declined' = (declined \/ (heard /\ refused))
                 /\ hits' = IF heard /\ ~refused THEN Append(hits, <<a, z>>) ELSE hits
                 /\ lost' = lost \cup gone
  BY Zenon DEF ProbeReputation
<1> DEFINE answer == world.listing[a][z.name]
<1>2. PICK gone : 
        /\ gone \subseteq {<<"list", a, z.name>>, <<"txt", a, z.name>>}
        /\ LET heard   == answer # "none" /\ <<"list", a, z.name>> \notin gone
               refused == \/ ~ValidAnswer(answer)
                          \/ answer = "refused" /\ <<"txt", a, z.name>> \notin gone
           IN  /\ declined' = (declined \/ (heard /\ refused))
               /\ hits' = IF heard /\ ~refused THEN Append(hits, <<a, z>>) ELSE hits
               /\ lost' = lost \cup gone
  BY <1>1 DEF Losses
<1> DEFINE heard   == answer # "none" /\ <<"list", a, z.name>> \notin gone
           refused == ~ValidAnswer(answer) \/ (answer = "refused" /\ <<"txt", a, z.name>> \notin gone)
<1>3. /\ declined' = (declined \/ (heard /\ refused))
      /\ hits' = IF heard /\ ~refused THEN Append(hits, <<a, z>>) ELSE hits
      /\ lost' = lost \cup gone
  BY <1>2, Zenon
<1>4. answer \in {"none", "listed", "sentinel", "parked", "refused"}
  BY <1>q, ListsAssumption DEF Addresses
<1>5. ~IsHit(a, z) /\ <<"list", a, z.name>> \notin lost /\ <<"txt", a, z.name>> \notin lost
  BY <1>1, <1>q DEF AskedPair
<1>6. /\ <<"list", a, z.name>> \in lost' <=> <<"list", a, z.name>> \in gone
      /\ <<"txt", a, z.name>> \in lost' <=> <<"txt", a, z.name>> \in gone
  BY <1>3, <1>5
<1>7. Listed(a, z)' <=> heard /\ ~refused
  BY <1>4, <1>6, <1>p DEF Listed, Heard, ValidAnswer
<1>8. Declines(a, z)' <=> heard /\ refused
  BY <1>4, <1>6, <1>p DEF Declines, Listed, Heard, ValidAnswer
<1> HIDE DEF heard, refused, answer
<1>9. /\ HitsPlaced'
      /\ \A b \in Addresses, y \in Zones :
           IsHit(b, y)' <=> IsHit(b, y) \/ (<<b, y>> = <<a, z>> /\ heard /\ ~refused)
  <2>1. CASE heard /\ ~refused
    BY <1>3, <1>5, <1>p, <1>q, <2>1, AppendHit
  <2>2. CASE ~(heard /\ ~refused)
    <3>1. hits' = hits /\ world' = world
      BY <1>3, <1>p, <2>2
    <3> QED BY <1>q, <2>2, <3>1 DEF HitsPlaced, IsHit, Addresses
  <2> QED BY <2>1, <2>2
<1>10. Addresses' = Addresses
  BY <1>p DEF Addresses
<1>11. ASSUME NEW b \in Addresses, NEW y \in Zones, <<b, y>> # <<a, z>>
       PROVE  /\ <<"list", b, y.name>> \in lost' <=> <<"list", b, y.name>> \in lost
              /\ <<"txt", b, y.name>> \in lost' <=> <<"txt", b, y.name>> \in lost
              /\ <<"list", b, y>> \in running' <=> <<"list", b, y>> \in running
  <2>1. b # a \/ y.name # z.name
    BY <1>11, ListsAssumption
  <2> QED BY <1>1, <1>2, <1>3, <1>11, <2>1
<1>12. ASSUME NEW b \in Addresses, NEW y \in Zones, <<b, y>> # <<a, z>>
       PROVE  /\ Listed(b, y)' <=> Listed(b, y)
              /\ Declines(b, y)' <=> Declines(b, y)
  BY <1>11, <1>12, <1>p DEF Listed, Declines, Heard
<1>13. <<"list", a, z>> \notin running'
  BY <1>1
<1>14. ASSUME NEW b \in Addresses, NEW y \in Zones
       PROVE  AskedPair(b, y)'
  <2>1. CASE <<b, y>> = <<a, z>>
    <3>1. b = a /\ y = z
      BY <2>1
    <3>2. IsHit(a, z)' <=> heard /\ ~refused
      BY <1>5, <1>9
    <3> QED BY <1>7, <1>13, <3>1, <3>2 DEF AskedPair
  <2>2. CASE <<b, y>> # <<a, z>>
    <3>1. IsHit(b, y)' <=> IsHit(b, y)
      BY <1>9, <2>2
    <3>2. AskedPair(b, y)
      BY <1>q
    <3> QED BY <1>11, <1>12, <2>2, <3>1, <3>2 DEF AskedPair
  <2> QED BY <2>1, <2>2
<1>15. DeclinedRightly'
  <2> DEFINE Some == \E b \in Addresses, y \in Zones : <<"list", b, y>> \notin running /\ Declines(b, y)
             Now  == \E b \in Addresses, y \in Zones : (<<"list", b, y>> \notin running /\ Declines(b, y))'
  <2>1. declined = Some
    BY <1>q DEF DeclinedRightly
  <2>2. ASSUME Some PROVE Now
    <3>1. PICK b \in Addresses, y \in Zones : <<"list", b, y>> \notin running /\ Declines(b, y)
      BY <2>2
    <3>2. <<b, y>> # <<a, z>>
      BY <1>1, <3>1
    <3> QED BY <1>11, <1>12, <3>1, <3>2
  <2>3. ASSUME heard, refused PROVE Now
    BY <1>8, <1>13, <2>3
  <2>4. ASSUME Now PROVE Some \/ (heard /\ refused)
    <3>1. PICK b \in Addresses, y \in Zones : (<<"list", b, y>> \notin running /\ Declines(b, y))'
      BY <2>4
    <3>2. CASE <<b, y>> = <<a, z>>
      <4>1. b = a /\ y = z
        BY <3>2
      <4> QED BY <1>8, <3>1, <4>1
    <3>3. CASE <<b, y>> # <<a, z>>
      BY <1>11, <1>12, <3>1, <3>3
    <3> QED BY <3>2, <3>3
  <2>5. Now \in BOOLEAN /\ Some \in BOOLEAN
    OBVIOUS
  <2> HIDE DEF Some
  <2>6. declined' = Now
    <3> HIDE DEF Now
    <3> QED BY <1>3, <2>1, <2>2, <2>3, <2>4, <2>5, Zenon
  <2> QED BY <1>10, <2>6 DEF DeclinedRightly
<1>16. Confirmations'
  <2>1. <<"fcrdns", a>> # <<"list", a, z>>
    OBVIOUS
  <2>2. \A b \in Addresses : <<"fcrdns", b>> \in running => <<"fcrdns", b>> \in running'
    BY <1>1
  <2>3. \A b : Confirmed(b)' <=> Confirmed(b)
    BY <1>p DEF Confirmed
  <2> QED BY <1>p, <1>q, <1>10, <2>2, <2>3 DEF Confirmations
<1>17. Pool'
  BY <1>9, <1>10, <1>14, <1>15, <1>16 DEF Pool
<1>18. Shape' /\ Untouched'
  BY <1>p DEF RepInv, Shape, Untouched, Early
<1>19. ReputationSound'
  BY <1>p, <1>q DEF ReputationSound, NotRun
<1> QED BY <1>17, <1>18, <1>19 DEF RepInv

(* The order of the naturals is well-founded.                              *)
LEMMA LessThan == \E R : IsWellFoundedOn(R, Nat) /\ \A x, y \in Nat : <<y, x>> \in R <=> y < x
<1>1. \A x, y \in Nat : <<y, x>> \in OpToRel(<, Nat) <=> y < x
  BY Zenon DEF OpToRel
<1> WITNESS OpToRel(<, Nat)
<1> QED BY <1>1, NatLessThanWellFounded, Zenon

(* A set of positions has a first one, and it is one of them.              *)
LEMMA MinIsMember ==
  ASSUME NEW S \in SUBSET Nat, S # {}
  PROVE  Min(S) \in S
<1>1. PICK R : IsWellFoundedOn(R, Nat) /\ \A x, y \in Nat : <<y, x>> \in R <=> y < x
  BY LessThan
<1>2. PICK n \in S : \A y \in S : ~(<<y, n>> \in R)
  BY <1>1, WFMin
<1>3. \A y \in S : ~(y < n)
  BY <1>1, <1>2
<1>4. \E x \in S : \A y \in S : x <= y
  <2>1. \A y \in S : n <= y
    BY <1>3
  <2> QED BY <2>1
<1> QED BY <1>4 DEF Min

(* An address passes only if a name of its own leads back to it.           *)
LEMMA PassIsConfirmed ==
  ASSUME world \in Worlds, NEW a \in Addresses, NEW gone, FCrDNS(a, gone) = "pass"
  PROVE  Confirmed(a)
<1> DEFINE ptrs       == IF <<"ptr", a, 0>> \in gone THEN << >> ELSE world.ip[a]
           Forward(i) == IF <<"fwd", a, i>> \in gone THEN "none" ELSE ptrs[i].forward
           confirmed  == {i \in DOMAIN ptrs : Forward(i) = "own"}
           answered   == {i \in DOMAIN ptrs : Forward(i) # "none"}
<1>1. FCrDNS(a, gone) =
        IF confirmed # {} THEN (IF ptrs[Min(confirmed)].generic THEN "generic_ptr" ELSE "pass")
        ELSE IF answered = {} THEN "no_ptr"
        ELSE IF Forward(Max(answered)) = "alias" THEN "no_forward" ELSE "mismatch"
  BY Zenon DEF FCrDNS
<1>2. confirmed # {} /\ ~ptrs[Min(confirmed)].generic
  <2> HIDE DEF ptrs, Forward, confirmed, answered
  <2> QED BY <1>1
<1>3. world.ip[a] \in Seq([forward : {"own", "others", "alias", "none"}, generic : BOOLEAN])
  BY ListsAssumption DEF Addresses
<1>4. confirmed \in SUBSET Nat
  BY <1>3
<1>5. PICK i \in confirmed : ~ptrs[i].generic
  <2> HIDE DEF ptrs, Forward, confirmed, answered
  <2> QED BY <1>2, <1>4, MinIsMember
<1>6. ptrs = world.ip[a] /\ i \in DOMAIN world.ip[a]
  BY <1>5
<1>7. world.ip[a][i].forward = "own" /\ ~world.ip[a][i].generic
  BY <1>5, <1>6
<1>8. world.ip[a][i] = [forward |-> "own", generic |-> FALSE]
  <2> DEFINE Names == [forward : {"own", "others", "alias", "none"}, generic : BOOLEAN]
             names == world.ip[a]
  <2>1. world.ip[a][i] \in Names
    <3>1. names \in Seq(Names) /\ i \in DOMAIN names
      BY <1>3, <1>6
    <3> HIDE DEF Names, names
    <3>2. names[i] \in Names
      BY <3>1
    <3> QED BY <3>2 DEF names
  <2> QED BY <1>7, <2>1
<1> QED BY <1>6, <1>8 DEF Confirmed

(* The reverse name of one address.                                        *)
LEMMA NameStep ==
  ASSUME RepInv, ProbeFCrDNS
  PROVE  RepInv'
<1>p. phase = "reputation" /\ phase' = phase /\ UNCHANGED <<world, hits, declined, checks>>
  BY DEF ProbeFCrDNS
<1>q. /\ \A b \in Addresses, y \in Zones : AskedPair(b, y)
      /\ HitsPlaced /\ DeclinedRightly /\ Confirmations /\ world \in Worlds
      /\ checks.Reputation = NotRun
  BY <1>p DEF RepInv, Pool, Shape
<1>1. PICK a \in Addresses :
        /\ running' = running \ {<<"fcrdns", a>>}
        /\ \E gone \in Losses({<<"ptr", a, 0>>} \cup {<<"fwd", a, i>> : i \in DOMAIN world.ip[a]}) :
             /\ fcrdns' = [b \in DOMAIN fcrdns \cup {a} |-> IF b = a THEN FCrDNS(a, gone) ELSE fcrdns[b]]
             /\ lost' = lost \cup gone
  BY Zenon DEF ProbeFCrDNS
<1>2. PICK gone \in SUBSET ({<<"ptr", a, 0>>} \cup {<<"fwd", a, i>> : i \in DOMAIN world.ip[a]}) :
        /\ fcrdns' = [b \in DOMAIN fcrdns \cup {a} |-> IF b = a THEN FCrDNS(a, gone) ELSE fcrdns[b]]
        /\ lost' = lost \cup gone
  BY <1>1 DEF Losses
<1>3. Addresses' = Addresses
  BY <1>p DEF Addresses
<1>4. \A e \in gone : e[1] \in {"ptr", "fwd"}
  BY <1>2
<1>5. ASSUME NEW b \in Addresses, NEW y \in Zones
      PROVE  /\ <<"list", b, y.name>> \in lost' <=> <<"list", b, y.name>> \in lost
             /\ <<"txt", b, y.name>> \in lost' <=> <<"txt", b, y.name>> \in lost
             /\ <<"list", b, y>> \in running' <=> <<"list", b, y>> \in running
  <2>1. <<"list", b, y.name>>[1] = "list" /\ <<"txt", b, y.name>>[1] = "txt"
    OBVIOUS
  <2>2. <<"list", b, y.name>> \notin gone /\ <<"txt", b, y.name>> \notin gone
    BY <1>4, <2>1
  <2> QED BY <1>1, <1>2, <2>2
<1>6. ASSUME NEW b \in Addresses, NEW y \in Zones
      PROVE  /\ Listed(b, y)' <=> Listed(b, y)
             /\ Declines(b, y)' <=> Declines(b, y)
             /\ IsHit(b, y)' <=> IsHit(b, y)
  BY <1>5, <1>p DEF Listed, Declines, Heard, IsHit
<1>7. ASSUME NEW b \in Addresses, NEW y \in Zones
      PROVE  AskedPair(b, y)'
  BY <1>5, <1>6, <1>q DEF AskedPair
<1>8. HitsPlaced'
  BY <1>3, <1>p, <1>q DEF HitsPlaced
<1>9. DeclinedRightly'
  <2>1. (\E b \in Addresses, y \in Zones : <<"list", b, y>> \notin running /\ Declines(b, y))
          = (\E b \in Addresses, y \in Zones : (<<"list", b, y>> \notin running /\ Declines(b, y))')
    BY <1>5, <1>6
  <2> QED BY <1>3, <1>p, <1>q, <2>1 DEF DeclinedRightly
<1>10. Confirmations'
  <2>1. \A b : Confirmed(b)' <=> Confirmed(b)
    BY <1>p DEF Confirmed
  <2>2. FCrDNS(a, gone) = "pass" => Confirmed(a)
    BY <1>q, PassIsConfirmed
  <2>3. \A b \in Addresses : b = a \/ (<<"fcrdns", b>> \in running => <<"fcrdns", b>> \in running')
    BY <1>1
  <2> QED BY <1>2, <1>3, <1>q, <2>1, <2>2, <2>3 DEF Confirmations
<1>11. Pool'
  BY <1>3, <1>7, <1>8, <1>9, <1>10 DEF Pool
<1>12. Shape' /\ Untouched'
  BY <1>p DEF RepInv, Shape, Untouched, Early
<1>13. ReputationSound'
  BY <1>p, <1>q DEF ReputationSound, NotRun
<1> QED BY <1>11, <1>12, <1>13 DEF RepInv

(* With every goroutine gone the verdict is on all there is.               *)
LEMMA JudgeStep ==
  ASSUME RepInv, JudgeReputation
  PROVE  RepInv'
<1>p. /\ phase = "reputation" /\ phase' = "done" /\ running = {}
      /\ UNCHANGED <<world, hits, fcrdns, declined, lost>>
  BY DEF JudgeReputation
<1>q. /\ \A b \in Addresses, y \in Zones : AskedPair(b, y)
      /\ HitsPlaced /\ DeclinedRightly /\ Confirmations /\ world \in Worlds
      /\ DOMAIN checks = {"Mail", "Reputation"}
  BY <1>p DEF RepInv, Pool, Shape
<1> DEFINE blockers == HitsOf("blocker")
           other    == HitsOf("other")
           bad      == Unconfirmed
           status   == checks'.Reputation.status
<1>1. checks' = [checks EXCEPT !.Reputation =
        ReputationVerdict(Cardinality(blockers), Cardinality(other), Cardinality(bad))]
  BY DEF JudgeReputation
<1>2. IsFiniteSet(blockers) /\ IsFiniteSet(other)
  <2>1. DOMAIN hits = 1..Len(hits) /\ Len(hits) \in Nat
    BY <1>q DEF HitsPlaced
  <2>2. IsFiniteSet(DOMAIN hits)
    BY <2>1, FS_Interval
  <2>3. blockers \subseteq DOMAIN hits /\ other \subseteq DOMAIN hits
    BY DEF HitsOf
  <2> QED BY <2>2, <2>3, FS_Subset
<1>3. IsFiniteSet(bad)
  <2>1. IsFiniteSet(Addresses)
    BY <1>q, ListsAssumption DEF Addresses
  <2>2. bad \subseteq Addresses
    BY <1>q DEF Unconfirmed, Confirmations
  <2> QED BY <2>1, <2>2, FS_Subset
<1>4. /\ Cardinality(blockers) \in Nat /\ Cardinality(other) \in Nat /\ Cardinality(bad) \in Nat
      /\ Cardinality(blockers) = 0 <=> blockers = {}
      /\ Cardinality(other) = 0 <=> other = {}
      /\ Cardinality(bad) = 0 <=> bad = {}
  BY <1>2, <1>3, FS_CardinalityType, FS_EmptySet
<1> HIDE DEF blockers, other, bad
<1>5. /\ status = "fail" <=> blockers # {}
      /\ status = "ok" <=> blockers = {} /\ other = {} /\ bad = {}
  BY <1>1, <1>4, <1>q, ReputationVerdictFacts
<1> HIDE DEF status
<1>6. \A a \in Addresses, z \in Zones : Listed(a, z) <=> IsHit(a, z)
  BY <1>p, <1>q DEF AskedPair
<1>7. \A i \in DOMAIN hits : \E a \in Addresses, z \in Zones : hits[i] = <<a, z>> /\ hits[i][2] = z
  BY <1>q DEF HitsPlaced
<1>8. \A z \in Zones : Side(z) = "blocker" <=> Rejects(z)
  BY ListsAssumption DEF Side, BlockerHit, Rejects
<1>9. \A z \in Zones : z.tier # "allowlist" => Side(z) \in {"blocker", "other"}
  BY DEF Side
<1>10. blockers # {} <=> \E a \in Addresses, z \in Zones : Listed(a, z) /\ Rejects(z)
  <2>1. ASSUME NEW i \in blockers PROVE \E a \in Addresses, z \in Zones : Listed(a, z) /\ Rejects(z)
    <3>1. i \in DOMAIN hits /\ Side(hits[i][2]) = "blocker"
      BY DEF HitsOf, blockers
    <3>2. PICK a \in Addresses, z \in Zones : hits[i] = <<a, z>> /\ hits[i][2] = z
      BY <1>7, <3>1
    <3>3. Listed(a, z) /\ Rejects(z)
      BY <1>6, <1>8, <3>1, <3>2 DEF IsHit
    <3> QED BY <3>3
  <2>2. ASSUME NEW a \in Addresses, NEW z \in Zones, Listed(a, z), Rejects(z) PROVE blockers # {}
    <3>1. PICK i \in DOMAIN hits : hits[i] = <<a, z>>
      BY <1>6, <2>2 DEF IsHit
    <3>2. hits[i][2] = z
      BY <3>1
    <3> QED BY <1>8, <2>2, <3>1, <3>2 DEF HitsOf, blockers
  <2> QED BY <2>1, <2>2
<1>11. ASSUME blockers = {}, other = {}, NEW a \in Addresses, NEW z \in Zones, z.tier # "allowlist"
       PROVE  ~Listed(a, z)
  <2> SUFFICES ASSUME Listed(a, z) PROVE FALSE
    OBVIOUS
  <2>1. PICK i \in DOMAIN hits : hits[i] = <<a, z>>
    BY <1>6 DEF IsHit
  <2>2. hits[i][2] = z
    BY <2>1
  <2> QED BY <1>9, <1>11, <2>1, <2>2 DEF HitsOf, blockers, other
<1>12. ASSUME bad = {}, NEW a \in Addresses
       PROVE  Confirmed(a)
  BY <1>p, <1>q, <1>12 DEF Confirmations, Unconfirmed, bad
<1>13. declined = \E a \in Addresses, z \in Zones : Declines(a, z)
  BY <1>p, <1>q DEF DeclinedRightly
<1>14. /\ Addresses' = Addresses
       /\ \A a, z : (Listed(a, z)' <=> Listed(a, z)) /\ (Declines(a, z)' <=> Declines(a, z))
       /\ \A a, z : (IsHit(a, z)' <=> IsHit(a, z)) /\ (Confirmed(a)' <=> Confirmed(a))
  BY <1>p DEF Addresses, Listed, Declines, Heard, IsHit, Confirmed
<1>15. ReputationSound'
  <2>1. (\A i, j \in DOMAIN hits : hits[i] = hits[j] => i = j)'
    BY <1>p, <1>q DEF HitsPlaced
  <2>2. (\A a \in Addresses, z \in Zones : Listed(a, z) <=> IsHit(a, z))'
    BY <1>6, <1>14
  <2>3. (checks.Reputation.status = "fail" <=> \E a \in Addresses, z \in Zones : Listed(a, z) /\ Rejects(z))'
    BY <1>5, <1>10, <1>14 DEF status
  <2>4. (checks.Reputation.status = "ok" =>
           \A a \in Addresses : Confirmed(a) /\ \A z \in Zones : z.tier # "allowlist" => ~Listed(a, z))'
    BY <1>5, <1>11, <1>12, <1>14 DEF status
  <2>5. (declined <=> \E a \in Addresses, z \in Zones : Declines(a, z))'
    BY <1>13, <1>14, <1>p
  <2> QED BY <2>1, <2>2, <2>3, <2>4, <2>5 DEF ReputationSound
<1>16. Shape'
  BY <1>1, <1>p, <1>q DEF Shape
<1>17. Untouched' /\ Pool'
  BY <1>p DEF Untouched, Pool, Early
<1> QED BY <1>15, <1>16, <1>17 DEF RepInv

LEMMA StutterRepInv ==
  ASSUME RepInv, UNCHANGED vars
  PROVE  RepInv'
<1> USE DEF vars
<1>1. Shape' /\ Untouched'
  BY DEF RepInv, Shape, Untouched
<1>2. /\ Addresses' = Addresses
      /\ \A a, z : (Listed(a, z)' <=> Listed(a, z)) /\ (Declines(a, z)' <=> Declines(a, z))
      /\ \A a, z : (IsHit(a, z)' <=> IsHit(a, z)) /\ (Confirmed(a)' <=> Confirmed(a))
  BY DEF Addresses, Listed, Declines, Heard, IsHit, Confirmed
<1>3. Pool'
  <2> SUFFICES ASSUME phase = "reputation"
               PROVE  (/\ \A a \in Addresses, z \in Zones : AskedPair(a, z)
                       /\ HitsPlaced /\ DeclinedRightly /\ Confirmations)'
    BY DEF Pool
  <2>1. /\ \A a \in Addresses, z \in Zones : AskedPair(a, z)
        /\ HitsPlaced /\ DeclinedRightly /\ Confirmations
    BY DEF RepInv, Pool
  <2>2. \A a \in Addresses, z \in Zones : AskedPair(a, z)'
    BY <1>2, <2>1 DEF AskedPair
  <2>3. HitsPlaced'
    BY <1>2, <2>1 DEF HitsPlaced
  <2>4. DeclinedRightly'
    BY <1>2, <2>1 DEF DeclinedRightly
  <2>5. Confirmations'
    BY <1>2, <2>1 DEF Confirmations
  <2> QED BY <1>2, <2>2, <2>3, <2>4, <2>5
<1>4. ReputationSound'
  BY <1>2 DEF RepInv, ReputationSound
<1> QED BY <1>1, <1>3, <1>4 DEF RepInv

LEMMA NextRepInv ==
  ASSUME RepInv, [Next]_vars
  PROVE  RepInv'
<1>1. CASE StartLists
  BY <1>1, StartStep
<1>2. CASE ProbeReputation
  BY <1>2, ListStep
<1>3. CASE ProbeFCrDNS
  BY <1>3, NameStep
<1>4. CASE JudgeReputation
  BY <1>4, JudgeStep
<1>5. CASE Done \/ UNCHANGED vars
  BY <1>5, StutterRepInv DEF Done
<1> QED BY <1>1, <1>2, <1>3, <1>4, <1>5, MailSteps DEF Next

(* What checkReputation reports is sound for any addresses, any blocklists *)
(* whose zones differ, whatever they answer and whatever is lost: the hits *)
(* are the listings heard, each once, a receiver's list fails the check    *)
(* and no other does, and a clean bill is earned (probeReputation,         *)
(* checkReputation).                                                       *)
THEOREM ReputationIsSound == Spec => []ReputationSound
<1>1. Init => RepInv
  BY InitRepInv
<1>2. RepInv /\ [Next]_vars => RepInv'
  BY NextRepInv
<1>3. RepInv => ReputationSound
  BY DEF RepInv
<1> QED BY <1>1, <1>2, <1>3, PTL DEF Spec

-------------------------------------------------------------------------------
(***************************************************************************)
(* The mail check.                                                         *)
(***************************************************************************)

(* What was lost of the exchanges of a step.                               *)
LostOf(r) == {e \in lost : e[1] = r}

(* A probe with a result of its own is at work and has lost nothing, or is *)
(* gone and has left what the world and its losses make of it.             *)
Probed(r) == IF <<r, 1>> \in running THEN LostOf(r) = {} ELSE mail[r] = Answer(r, LostOf(r))

(* The same of a selector.                                                 *)
Selected(s) ==
  IF <<"dkim", s>> \in running THEN s \notin Found /\ <<"dkim", s>> \notin lost
  ELSE s \in Found <=> Advertised(s) /\ <<"dkim", s>> \notin lost

(* The selectors are listed once each.                                     *)
ListedOnce ==
  /\ mail.dkim \in Seq(Selectors)
  /\ \A i, j \in DOMAIN mail.dkim : mail.dkim[i] = mail.dkim[j] => i = j

(* The same of the destination of a report.                                *)
Asked(i) ==
  IF <<"auth", i>> \in running THEN <<"auth", i>> \notin lost
  ELSE auths[i] = CheckOneDMARCAuth(Endpoints[i], <<"auth", i>> \notin lost)

Probing ==
  /\ phase = "mx" => mail.dkim = << >>
  /\ phase = "probes" => (\A r \in Results \ {"dkim"} : Probed(r)) /\ \A s \in Selectors : Selected(s)

(* The check is over and its entry is not that of an early return.         *)
Past == phase \in {"lists", "reputation", "done"} /\ checks.Mail.status # "skip"

(* What stands when the pool is joined.                                    *)
ResultsStand ==
  /\ \A r \in Results \ {"dkim"} : mail[r] = Answer(r, LostOf(r))
  /\ \A s \in Selectors : s \in Found <=> Advertised(s) /\ <<"dkim", s>> \notin lost

Gathered == phase \in {"keys", "score", "endpoints"} \/ Past => ResultsStand

(* What stands when the keys are known.                                    *)
KeysStand ==
  /\ DOMAIN keys = {s \in Found : <<"key", s>> \notin lost /\ world.dkim[s][1].p # "blank"}
  /\ \A s \in DOMAIN keys : keys[s] = ParseDKIMKey(world.dkim[s][1])

KeysHeard == phase \in {"score", "endpoints"} \/ Past => KeysStand

Added == phase = "endpoints" \/ Past => score = Total

(* What stands when the destinations were asked.                           *)
AuthsStand ==
  \A i \in DOMAIN Endpoints : auths[i] = CheckOneDMARCAuth(Endpoints[i], <<"auth", i>> \notin lost)

Authorizing ==
  /\ phase = "endpoints" => DOMAIN auths = DOMAIN Endpoints /\ \A i \in DOMAIN Endpoints : Asked(i)
  /\ Past => AuthsStand

(* Nothing is lost of a step to come.                                      *)
LossesInTurn ==
  /\ phase = "mx" => lost = {}
  /\ phase \in {"mx", "probes", "keys"} => LostOf("key") = {}
  /\ phase \in {"mx", "probes", "keys", "score"} => LostOf("auth") = {}

(* The entry of the check.                                                 *)
Entered ==
  /\ DOMAIN checks = {"Mail", "Reputation"}
  /\ phase \in {"mx", "probes", "keys", "score", "endpoints"} => checks.Mail = NotRun
  /\ phase \in {"lists", "reputation", "done"} =>
       \/ checks.Mail \in {Skip("no_dns"), Skip("verdict")}
       \/ checks.Mail = Skip("no_mx") /\ (world.mx = << >> \/ <<"mx", 1>> \in lost)
       \/ checks.Mail = ScoreVerdict(score)

Types == TypeOK /\ hits \in Seq(Addresses \X Zones) /\ ListedOnce

MailInv ==
  /\ Types /\ Probing /\ Gathered /\ KeysHeard /\ Added /\ Authorizing /\ LossesInTurn /\ Entered

(* The last of the positions of a sequence that are in a set.              *)
LEMMA MaxIsLast ==
  ASSUME NEW n \in Nat, NEW S \in SUBSET (1..n), S # {}
  PROVE  Max(S) \in S /\ \A m \in S : m <= Max(S)
<1> DEFINE T == {n - m : m \in S}
<1>1. T \in SUBSET Nat /\ T # {}
  OBVIOUS
<1>2. PICK R : IsWellFoundedOn(R, Nat) /\ \A x, y \in Nat : <<y, x>> \in R <=> y < x
  BY LessThan
<1>3. PICK k \in T : \A y \in T : ~(<<y, k>> \in R)
  BY <1>1, <1>2, WFMin
<1>4. \A y \in T : ~(y < k)
  BY <1>1, <1>2, <1>3
<1>5. PICK l \in S : k = n - l
  BY <1>3
<1>6. \A m \in S : m <= l
  BY <1>4, <1>5
<1>7. \E x \in S : \A y \in S : x >= y
  BY <1>5, <1>6
<1>8. Max(S) \in S /\ \A y \in S : Max(S) >= y
  BY <1>7 DEF Max
<1> QED BY <1>8

(* Each dimension is worth what the code adds for it at most.              *)
LEMMA PointsBounds ==
  /\ Points("spf") \in 0..20 /\ Points("dmarc") \in 0..20 /\ Points("dkim") \in 0..15 /\ Points("sts") \in 0..15
  /\ Points("rpt") \in 0..10 /\ Points("dane") \in 0..10 /\ Points("v6") \in 0..10
<1>1. Points("spf") \in 0..20
  BY DEF Points
<1>2. Points("dmarc") \in 0..20
  BY DEF Points
<1>3. Points("dkim") \in 0..15
  BY DEF Points
<1>4. Points("sts") \in 0..15
  BY DEF Points
<1>5. Points("rpt") \in 0..10
  BY DEF Points
<1>6. Points("dane") \in 0..10
  BY DEF Points
<1>7. Points("v6") \in 0..10
  BY DEF Points
<1> QED BY <1>1, <1>2, <1>3, <1>4, <1>5, <1>6, <1>7

LEMMA TotalBounds == Total \in 0..100
BY PointsBounds DEF Total

LEMMA InitMailInv == Init => MailInv
<1> SUFFICES ASSUME Init PROVE MailInv
  OBVIOUS
<1>1. world \in Worlds /\ phase = "mx" /\ lost = {} /\ score = 0 /\ declined = FALSE
  BY DEF Init
<1>2. checks = [Mail |-> NotRun, Reputation |-> NotRun] /\ hits = << >> /\ fcrdns = << >> /\ keys = << >>
  BY DEF Init
<1>3. DOMAIN mail = Results /\ mail.dkim = << >>
  BY DEF Init, Results
<1>4. TypeOK
  <2>1. Cardinality(lost) <= world.faults
    BY <1>1, FS_EmptySet, DomainsAssumption
  <2>2. DOMAIN hits = {} /\ DOMAIN fcrdns = {} /\ DOMAIN keys = {}
    BY <1>2
  <2>3. \A c \in DOMAIN checks : checks[c].status \in Statuses \cup {"none"}
    BY <1>2 DEF NotRun
  <2>4. score \in 0..100
    BY <1>1
  <2>5. DOMAIN keys \subseteq Selectors /\ \A s \in DOMAIN keys : keys[s] \in BOOLEAN
    BY <2>2
  <2>6. (\A i \in DOMAIN hits : hits[i] \in Addresses \X Zones) /\ DOMAIN fcrdns \subseteq Addresses
    BY <2>2
  <2> QED BY <1>1, <1>3, <2>1, <2>3, <2>4, <2>5, <2>6, Zenon DEF TypeOK
<1>6. ListedOnce
  BY <1>3 DEF ListedOnce
<1>7. hits \in Seq(Addresses \X Zones)
  BY <1>2
<1>8. Probing /\ Gathered /\ KeysHeard /\ Added /\ Authorizing
  BY <1>1, <1>3 DEF Probing, Gathered, KeysHeard, Added, Authorizing, Past
<1>9. LossesInTurn
  BY <1>1 DEF LossesInTurn, LostOf
<1>10. Entered
  BY <1>1, <1>2 DEF Entered
<1> QED BY <1>4, <1>6, <1>7, <1>8, <1>9, <1>10 DEF MailInv, Types

(* What a probe makes of its losses depends on the world alone.            *)
LEMMA AnswerFrame ==
  ASSUME world' = world, NEW r \in Results \ {"dkim"}, NEW gone
  PROVE  Answer(r, gone)' = Answer(r, gone)
<1>1. ProbeSPF(gone)' = ProbeSPF(gone)
  BY DEF ProbeSPF, TheSPF, First, IsSPF
<1>2. ProbeDMARC(gone)' = ProbeDMARC(gone)
  BY DEF ProbeDMARC, TheDMARC, First, IsDMARC
<1>3. ProbeMTASTS(gone)' = ProbeMTASTS(gone)
  BY DEF ProbeMTASTS
<1>4. ProbeSTARTTLSForDomain(gone)' = ProbeSTARTTLSForDomain(gone)
  BY DEF ProbeSTARTTLSForDomain, Capped
<1>5. ProbeMXDANE(gone)' = ProbeMXDANE(gone)
  BY DEF ProbeMXDANE
<1>6. ProbeMXIPv6(gone)' = ProbeMXIPv6(gone)
  BY DEF ProbeMXIPv6
<1>7. ProbeTLSRPT(gone)' = ProbeTLSRPT(gone)
  BY DEF ProbeTLSRPT
<1>8. (world.bimi /\ gone = {})' = (world.bimi /\ gone = {})
  OBVIOUS
<1> QED BY <1>1, <1>2, <1>3, <1>4, <1>5, <1>6, <1>7, <1>8 DEF Answer, Results

(* What stands stays, whatever is lost of other steps.                     *)
LEMMA LostOfFrame ==
  ASSUME NEW r, lost \subseteq lost', \A e \in lost' \ lost : e[1] # r
  PROVE  LostOf(r)' = LostOf(r)
BY DEF LostOf

LEMMA ResultsFrame ==
  ASSUME UNCHANGED <<world, mail>>, lost \subseteq lost', \A e \in lost' \ lost : e[1] \notin Results,
         ResultsStand
  PROVE  ResultsStand'
<1>1. ASSUME NEW r \in Results \ {"dkim"}
      PROVE  mail'[r] = Answer(r, LostOf(r))'
  <2>1. LostOf(r)' = LostOf(r)
    BY LostOfFrame
  <2>2. PICK g : g = LostOf(r)
    OBVIOUS
  <2>3. Answer(r, g)' = Answer(r, g)
    BY AnswerFrame
  <2>4. mail[r] = Answer(r, g)
    BY <2>2 DEF ResultsStand
  <2>5. Answer(r, LostOf(r))' = Answer(r, g)'
    BY <2>1, <2>2
  <2> QED BY <2>3, <2>4, <2>5
<1>2. Found' = Found
  BY DEF Found
<1>3. \A s : <<"dkim", s>> \in lost' <=> <<"dkim", s>> \in lost
  BY DEF Results
<1>a. \A s \in Selectors : Advertised(s)' <=> Advertised(s)
  BY DEF Advertised
<1>4. \A s \in Selectors : s \in Found' <=> Advertised(s)' /\ <<"dkim", s>> \notin lost'
  BY <1>2, <1>3, <1>a DEF ResultsStand
<1> QED BY <1>1, <1>4 DEF ResultsStand

LEMMA KeysFrame ==
  ASSUME UNCHANGED <<world, mail, keys>>, lost \subseteq lost', \A e \in lost' \ lost : e[1] # "key",
         KeysStand
  PROVE  KeysStand'
<1>1. Found' = Found
  BY DEF Found
<1>2. \A s : <<"key", s>> \in lost' <=> <<"key", s>> \in lost
  OBVIOUS
<1> QED BY <1>1, <1>2 DEF KeysStand

LEMMA EndpointsFrame ==
  ASSUME mail' = mail
  PROVE  Endpoints' = Endpoints
BY DEF Endpoints

LEMMA PointsFrame ==
  ASSUME mail' = mail, keys' = keys
  PROVE  Total' = Total
<1>1. Points("spf")' = Points("spf")
  BY DEF Points
<1>2. Points("dmarc")' = Points("dmarc")
  BY DEF Points
<1>3. Points("dkim")' = Points("dkim")
  BY DEF Points
<1>4. Points("sts")' = Points("sts")
  BY DEF Points
<1>5. Points("rpt")' = Points("rpt")
  BY DEF Points
<1>6. Points("dane")' = Points("dane")
  BY DEF Points
<1>7. Points("v6")' = Points("v6")
  BY DEF Points
<1> QED BY <1>1, <1>2, <1>3, <1>4, <1>5, <1>6, <1>7 DEF Total

LEMMA AuthsFrame ==
  ASSUME UNCHANGED <<mail, auths>>, lost \subseteq lost', \A e \in lost' \ lost : e[1] # "auth",
         AuthsStand
  PROVE  AuthsStand'
<1>1. Endpoints' = Endpoints
  BY EndpointsFrame
<1>2. \A i : <<"auth", i>> \in lost' <=> <<"auth", i>> \in lost
  OBVIOUS
<1> QED BY <1>1, <1>2 DEF AuthsStand, CheckOneDMARCAuth

(* Losses stay within what the world allows.                               *)
LEMMA LossesBounded ==
  ASSUME NEW E, NEW gone \in Losses(E)
  PROVE  gone \subseteq E /\ Cardinality(lost \cup gone) <= world.faults
BY DEF Losses

(* The types, by what a step of the check may change.                      *)
LEMMA TypesStep ==
  ASSUME Types, UNCHANGED <<world, hits, fcrdns, declined>>,
         phase' \in {"mx", "probes", "keys", "score", "endpoints", "lists", "reputation", "done"},
         DOMAIN mail' = Results, score' \in 0..100, ListedOnce',
         DOMAIN keys' \subseteq Selectors, \A s \in DOMAIN keys' : keys'[s] \in BOOLEAN,
         \A c \in DOMAIN checks' : checks'[c].status \in Statuses \cup {"none"},
         Cardinality(lost') <= world.faults
  PROVE  Types'
<1>1. Addresses' = Addresses
  BY DEF Addresses
<1>2. TypeOK'
  <2>1. \A i \in DOMAIN hits' : hits'[i] \in Addresses' \X Zones
    BY <1>1 DEF Types, TypeOK
  <2>2. DOMAIN fcrdns' \subseteq Addresses'
    BY <1>1 DEF Types, TypeOK
  <2>3. world' \in Worlds /\ declined' \in BOOLEAN /\ Cardinality(lost') <= world'.faults
    BY DEF Types, TypeOK
  <2> QED BY <2>1, <2>2, <2>3, Zenon DEF TypeOK
<1>3. hits' \in Seq(Addresses' \X Zones)
  BY <1>1 DEF Types
<1> QED BY <1>2, <1>3 DEF Types

(* What the types say of the parts a step leaves alone.                    *)
LEMMA TypesGive ==
  ASSUME Types
  PROVE  /\ world \in Worlds /\ DOMAIN mail = Results /\ score \in 0..100 /\ ListedOnce
         /\ DOMAIN keys \subseteq Selectors /\ \A s \in DOMAIN keys : keys[s] \in BOOLEAN
         /\ \A c \in DOMAIN checks : checks[c].status \in Statuses \cup {"none"}
         /\ Cardinality(lost) <= world.faults
BY Zenon DEF Types, TypeOK

LEMMA LookupMXMailInv == MailInv /\ LookupMX => MailInv'
<1> SUFFICES ASSUME MailInv, LookupMX PROVE MailInv'
  OBVIOUS
<1>1. /\ phase = "mx" /\ lost = {} /\ checks.Mail = NotRun /\ DOMAIN checks = {"Mail", "Reputation"}
      /\ UNCHANGED <<world, mail, keys, score, auths, hits, fcrdns, declined>>
  BY DEF LookupMX, MailInv, LossesInTurn, Entered
<1>2. PICK gone \in Losses({<<"mx", 1>>}) :
        \/ /\ \E summary \in {"no_dns", "verdict"} : SkipMail(summary)
           /\ UNCHANGED lost
        \/ lost' = lost \cup gone /\ SkipMail("no_mx") /\ (world.mx = << >> \/ gone # {})
        \/ lost' = lost \cup gone /\ gone = {} /\ phase' = "probes" /\ running' = Tasks /\ UNCHANGED checks
  BY DEF LookupMX
<1>3. gone \subseteq {<<"mx", 1>>} /\ Cardinality(lost \cup gone) <= world.faults
  BY LossesBounded
<1>4. lost' \subseteq {<<"mx", 1>>}
  BY <1>1, <1>2, <1>3
<1>5. Cardinality(lost') <= world.faults
  BY <1>1, <1>2, <1>3, TypesGive DEF MailInv
<1>6. /\ phase' \in {"lists", "probes"}
      /\ checks' = checks \/ \E summary : checks' = [checks EXCEPT !.Mail = Skip(summary)]
  BY <1>2 DEF SkipMail
<1>7. \A c \in DOMAIN checks' : checks'[c].status \in Statuses \cup {"none"}
  BY <1>1, <1>6, TypesGive DEF MailInv, Skip, Check, Statuses
<1>8. ListedOnce'
  BY <1>1 DEF MailInv, Types, ListedOnce
<1>9. Types'
  BY <1>1, <1>5, <1>6, <1>7, <1>8, TypesStep, TypesGive DEF MailInv
<1>10. LossesInTurn'
  BY <1>4, <1>6 DEF LossesInTurn, LostOf
<1>11. CASE phase' = "lists"
  <2>1. \E summary \in {"no_dns", "verdict", "no_mx"} :
           /\ checks' = [checks EXCEPT !.Mail = Skip(summary)]
           /\ summary = "no_mx" => world.mx = << >> \/ <<"mx", 1>> \in lost'
    BY <1>2, <1>3, <1>11 DEF SkipMail
  <2>2. checks'.Mail.status = "skip"
    BY <1>1, <2>1 DEF Skip, Check
  <2>3. Entered'
    BY <1>1, <1>11, <2>1 DEF Entered
  <2>4. (Probing /\ Gathered /\ KeysHeard /\ Added /\ Authorizing)'
    BY <1>11, <2>2 DEF Probing, Gathered, KeysHeard, Added, Authorizing, Past
  <2> QED BY <1>9, <1>10, <2>3, <2>4 DEF MailInv
<1>12. CASE phase' = "probes"
  <2>1. lost' = {} /\ running' = Tasks /\ checks' = checks
    BY <1>1, <1>2, <1>12 DEF SkipMail
  <2>2. Entered'
    BY <1>1, <1>12, <2>1 DEF Entered
  <2>3. (Gathered /\ KeysHeard /\ Added /\ Authorizing)'
    BY <1>12 DEF Gathered, KeysHeard, Added, Authorizing, Past
  <2>4. \A r \in Results \ {"dkim"} : Probed(r)'
    <3> TAKE r \in Results \ {"dkim"}
    <3>1. <<r, 1>> \in running'
      BY <2>1 DEF Tasks
    <3>2. LostOf(r)' = {}
      BY <2>1 DEF LostOf
    <3> QED BY <3>1, <3>2 DEF Probed
  <2>5. \A s \in Selectors : Selected(s)'
    <3> TAKE s \in Selectors
    <3>1. <<"dkim", s>> \in running'
      BY <2>1 DEF Tasks
    <3>2. Found' = {}
      BY <1>1 DEF MailInv, Probing, Found
    <3> QED BY <2>1, <3>1, <3>2 DEF Selected
  <2>6. Probing'
    BY <1>12, <2>4, <2>5 DEF Probing
  <2> QED BY <1>9, <1>10, <2>2, <2>3, <2>6 DEF MailInv
<1> QED BY <1>6, <1>11, <1>12

LEMMA ProbeRecordMailInv == MailInv /\ ProbeRecord => MailInv'
<1> SUFFICES ASSUME MailInv, ProbeRecord PROVE MailInv'
  OBVIOUS
<1>1. /\ phase = "probes"
      /\ UNCHANGED <<world, phase, keys, score, auths, hits, fcrdns, declined, checks>>
  BY DEF ProbeRecord
<1>a. PICK r \in Results \ {"dkim"} :
        /\ <<r, 1>> \in running /\ running' = running \ {<<r, 1>>}
        /\ \E gone \in Losses(Exchanges(r)) : mail' = [mail EXCEPT ![r] = Answer(r, gone)] /\ lost' = lost \cup gone
  BY DEF ProbeRecord
<1>b. PICK gone \in Losses(Exchanges(r)) : mail' = [mail EXCEPT ![r] = Answer(r, gone)] /\ lost' = lost \cup gone
  BY <1>a
<1>2. /\ <<r, 1>> \in running /\ running' = running \ {<<r, 1>>}
      /\ mail' = [mail EXCEPT ![r] = Answer(r, gone)] /\ lost' = lost \cup gone
  BY <1>a, <1>b
<1>3. /\ \A e \in gone : e[1] = r
      /\ Cardinality(lost') <= world.faults
  BY <1>2, LossesBounded, ExchangeNames
<1>4. \A e \in lost' \ lost : e[1] = r
  BY <1>2, <1>3
<1>5. DOMAIN mail = Results
  BY TypesGive DEF MailInv
<1>6. DOMAIN mail' = Results /\ mail'.dkim = mail.dkim /\ mail'[r] = Answer(r, gone)
  BY <1>2, <1>5 DEF Results
<1>7. ListedOnce'
  BY <1>6 DEF MailInv, Types, ListedOnce
<1>8. Types'
  BY <1>1, <1>3, <1>6, <1>7, TypesStep, TypesGive DEF MailInv
<1>9. LossesInTurn'
  <2>1. LostOf("key")' = LostOf("key") /\ LostOf("auth")' = LostOf("auth")
    BY <1>2, <1>4, LostOfFrame DEF Results
  <2> QED BY <1>1, <2>1 DEF MailInv, LossesInTurn
<1>10. Entered'
  BY <1>1 DEF MailInv, Entered
<1>11. (Gathered /\ KeysHeard /\ Added /\ Authorizing)'
  BY <1>1 DEF Gathered, KeysHeard, Added, Authorizing, Past
<1>12. ASSUME NEW q \in Results \ {"dkim"}
       PROVE  Probed(q)'
  <2>1. Probed(q) /\ Probed(r)
    BY <1>1 DEF MailInv, Probing
  <2>2. CASE q = r
    <3>1. <<r, 1>> \notin running'
      BY <1>2
    <3>2. LostOf(r)' = gone
      BY <1>2, <1>3, <2>1 DEF Probed, LostOf
    <3>3. Answer(r, gone)' = Answer(r, gone)
      BY <1>1, AnswerFrame
    <3>4. Answer(r, LostOf(r))' = Answer(r, gone)'
      BY <3>2
    <3> QED BY <1>6, <2>2, <3>1, <3>3, <3>4 DEF Probed
  <2>3. CASE q # r
    <3>1. <<q, 1>> \in running' <=> <<q, 1>> \in running
      BY <1>2, <2>3
    <3>2. LostOf(q)' = LostOf(q)
      BY <1>2, <1>4, <2>3, LostOfFrame
    <3>3. mail'[q] = mail[q]
      BY <1>2, <1>5, <2>3
    <3>4. PICK g : g = LostOf(q)
      OBVIOUS
    <3>5. Answer(q, g)' = Answer(q, g)
      BY <1>1, AnswerFrame
    <3>6. Answer(q, LostOf(q))' = Answer(q, g)'
      BY <3>2, <3>4
    <3> QED BY <2>1, <3>1, <3>2, <3>3, <3>4, <3>5, <3>6 DEF Probed
  <2> QED BY <2>2, <2>3
<1>13. ASSUME NEW s \in Selectors
       PROVE  Selected(s)'
  <2>1. Selected(s)
    BY <1>1 DEF MailInv, Probing
  <2>2. Found' = Found
    BY <1>6 DEF Found
  <2>3. <<"dkim", s>> \in running' <=> <<"dkim", s>> \in running
    BY <1>2
  <2>4. <<"dkim", s>> \in lost' <=> <<"dkim", s>> \in lost
    BY <1>2, <1>4
  <2>5. Advertised(s)' <=> Advertised(s)
    BY <1>1 DEF Advertised
  <2> QED BY <2>1, <2>2, <2>3, <2>4, <2>5 DEF Selected
<1>14. Probing'
  BY <1>1, <1>12, <1>13 DEF Probing
<1> QED BY <1>8, <1>9, <1>10, <1>11, <1>14 DEF MailInv

LEMMA JoinProbesMailInv == MailInv /\ JoinProbes => MailInv'
<1> SUFFICES ASSUME MailInv, JoinProbes PROVE MailInv'
  OBVIOUS
<1>1. /\ phase = "probes" /\ running = {} /\ phase' = "keys"
      /\ UNCHANGED <<world, mail, keys, score, auths, hits, fcrdns, declined, checks, lost>>
  BY DEF JoinProbes, Waited
<1>2. ListedOnce'
  BY <1>1 DEF MailInv, Types, ListedOnce
<1>3. Types'
  BY <1>1, <1>2, TypesStep, TypesGive DEF MailInv
<1>4. ResultsStand
  <2>1. \A r \in Results \ {"dkim"} : mail[r] = Answer(r, LostOf(r))
    BY <1>1 DEF MailInv, Probing, Probed
  <2>2. \A s \in Selectors : s \in Found <=> Advertised(s) /\ <<"dkim", s>> \notin lost
    BY <1>1 DEF MailInv, Probing, Selected
  <2> QED BY <2>1, <2>2 DEF ResultsStand
<1>5. ResultsStand'
  BY <1>1, <1>4, ResultsFrame
<1>6. LostOf("key")' = {} /\ LostOf("auth")' = {}
  BY <1>1, LostOfFrame DEF MailInv, LossesInTurn
<1>7. (Probing /\ Gathered /\ KeysHeard /\ Added /\ Authorizing /\ LossesInTurn)'
  BY <1>1, <1>5, <1>6 DEF Probing, Gathered, KeysHeard, Added, Authorizing, LossesInTurn, Past
<1>8. Entered'
  BY <1>1 DEF MailInv, Entered
<1> QED BY <1>3, <1>7, <1>8 DEF MailInv

(* A list without repeats stays one when something new is appended.        *)
LEMMA ListedAnew ==
  ASSUME NEW S, NEW d \in Seq(S), NEW t \in S, NEW e, e = Append(d, t),
         \A i \in DOMAIN d : d[i] # t, \A i, j \in DOMAIN d : d[i] = d[j] => i = j
  PROVE  /\ e \in Seq(S) /\ \A i, j \in DOMAIN e : e[i] = e[j] => i = j
         /\ \A s : (\E i \in DOMAIN e : e[i] = s) <=> (\E i \in DOMAIN d : d[i] = s) \/ s = t
<1>1. e \in Seq(S) /\ Len(e) = Len(d) + 1 /\ (\A i \in 1..Len(d) : e[i] = d[i]) /\ e[Len(d) + 1] = t
  BY AppendProperties
<1>2. DOMAIN d = 1..Len(d) /\ DOMAIN e = 1..Len(d) + 1 /\ Len(d) \in Nat
  BY <1>1
<1>3. \A i \in DOMAIN e : i \in DOMAIN d \/ i = Len(d) + 1
  BY <1>2
<1>4. \A i, j \in DOMAIN e : e[i] = e[j] => i = j
  BY <1>1, <1>2, <1>3
<1>5. \A s : (\E i \in DOMAIN e : e[i] = s) <=> (\E i \in DOMAIN d : d[i] = s) \/ s = t
  BY <1>1, <1>2, <1>3
<1> QED BY <1>1, <1>4, <1>5

LEMMA ProbeDKIMSelectorMailInv == MailInv /\ ProbeDKIMSelector => MailInv'
<1> SUFFICES ASSUME MailInv, ProbeDKIMSelector PROVE MailInv'
  OBVIOUS
<1>1. /\ phase = "probes"
      /\ UNCHANGED <<world, phase, keys, score, auths, hits, fcrdns, declined, checks>>
  BY DEF ProbeDKIMSelector
<1>a. PICK t \in Selectors :
        /\ <<"dkim", t>> \in running /\ running' = running \ {<<"dkim", t>>}
        /\ \E gone \in Losses({<<"dkim", t>>}) :
             /\ mail' = [mail EXCEPT !.dkim = IF gone = {} /\ Advertised(t) THEN Append(@, t) ELSE @]
             /\ lost' = lost \cup gone
  BY DEF ProbeDKIMSelector
<1>b. PICK gone \in Losses({<<"dkim", t>>}) :
        /\ mail' = [mail EXCEPT !.dkim = IF gone = {} /\ Advertised(t) THEN Append(@, t) ELSE @]
        /\ lost' = lost \cup gone
  BY <1>a
<1>2. /\ <<"dkim", t>> \in running /\ running' = running \ {<<"dkim", t>>}
      /\ mail' = [mail EXCEPT !.dkim = IF gone = {} /\ Advertised(t) THEN Append(@, t) ELSE @]
      /\ lost' = lost \cup gone /\ Cardinality(lost') <= world.faults /\ gone \subseteq {<<"dkim", t>>}
  BY <1>a, <1>b, LossesBounded
<1>3. DOMAIN mail = Results /\ ListedOnce
  BY TypesGive DEF MailInv
<1>4. /\ DOMAIN mail' = Results /\ \A r \in Results \ {"dkim"} : mail'[r] = mail[r]
      /\ mail'.dkim = IF gone = {} /\ Advertised(t) THEN Append(mail.dkim, t) ELSE mail.dkim
  BY <1>2, <1>3 DEF Results
<1>5. \A e \in lost' \ lost : e[1] = "dkim"
  BY <1>2
<1>6. t \notin Found /\ <<"dkim", t>> \notin lost
  BY <1>1, <1>2 DEF MailInv, Probing, Selected
<1>7. /\ ListedOnce'
      /\ \A s : s \in Found' <=> s \in Found \/ (s = t /\ gone = {} /\ Advertised(t))
  <2>1. CASE gone = {} /\ Advertised(t)
    <3>1. mail'.dkim = Append(mail.dkim, t) /\ mail.dkim \in Seq(Selectors)
      BY <1>3, <1>4, <2>1 DEF ListedOnce
    <3>2. \A i \in DOMAIN mail.dkim : mail.dkim[i] # t
      BY <1>6 DEF Found
    <3>3. \A i, j \in DOMAIN mail.dkim : mail.dkim[i] = mail.dkim[j] => i = j
      BY <1>3 DEF ListedOnce
    <3>4. PICK d, e : d = mail.dkim /\ e = mail'.dkim
      OBVIOUS
    <3>5. /\ e \in Seq(Selectors) /\ \A i, j \in DOMAIN e : e[i] = e[j] => i = j
          /\ \A s : (\E i \in DOMAIN e : e[i] = s) <=> (\E i \in DOMAIN d : d[i] = s) \/ s = t
      BY <3>1, <3>2, <3>3, <3>4, ListedAnew
    <3>6. ListedOnce'
      BY <3>4, <3>5 DEF ListedOnce
    <3>7. \A s : s \in Found' <=> s \in Found \/ s = t
      BY <3>4, <3>5 DEF Found
    <3> QED BY <2>1, <3>6, <3>7
  <2>2. CASE ~(gone = {} /\ Advertised(t))
    <3>1. mail'.dkim = mail.dkim
      BY <1>4, <2>2
    <3> QED BY <1>3, <2>2, <3>1 DEF ListedOnce, Found
  <2> QED BY <2>1, <2>2
<1>8. Types'
  BY <1>1, <1>2, <1>4, <1>7, TypesStep, TypesGive DEF MailInv
<1>9. LossesInTurn'
  <2>1. LostOf("key")' = LostOf("key") /\ LostOf("auth")' = LostOf("auth")
    BY <1>2, <1>5, LostOfFrame
  <2> QED BY <1>1, <2>1 DEF MailInv, LossesInTurn
<1>10. Entered'
  BY <1>1 DEF MailInv, Entered
<1>11. (Gathered /\ KeysHeard /\ Added /\ Authorizing)'
  BY <1>1 DEF Gathered, KeysHeard, Added, Authorizing, Past
<1>12. ASSUME NEW q \in Results \ {"dkim"}
       PROVE  Probed(q)'
  <2>1. Probed(q) /\ q # "dkim"
    BY <1>1 DEF MailInv, Probing
  <2>2. <<q, 1>> \in running' <=> <<q, 1>> \in running
    BY <1>2, <2>1
  <2>3. LostOf(q)' = LostOf(q)
    BY <1>2, <1>5, <2>1, LostOfFrame
  <2>4. PICK g : g = LostOf(q)
    OBVIOUS
  <2>5. Answer(q, g)' = Answer(q, g)
    BY <1>1, AnswerFrame
  <2>6. Answer(q, LostOf(q))' = Answer(q, g)'
    BY <2>3, <2>4
  <2> QED BY <1>4, <2>1, <2>2, <2>3, <2>4, <2>5, <2>6 DEF Probed
<1>13. ASSUME NEW s \in Selectors
       PROVE  Selected(s)'
  <2>1. Selected(s)
    BY <1>1 DEF MailInv, Probing
  <2>4. Advertised(s)' <=> Advertised(s)
    BY <1>1 DEF Advertised
  <2>2. CASE s = t
    <3>1. <<"dkim", s>> \notin running'
      BY <1>2, <2>2
    <3>2. <<"dkim", s>> \in lost' <=> gone # {}
      BY <1>2, <1>6, <2>2
    <3> QED BY <1>6, <1>7, <2>2, <2>4, <3>1, <3>2 DEF Selected
  <2>3. CASE s # t
    <3>1. <<"dkim", s>> \in running' <=> <<"dkim", s>> \in running
      BY <1>2, <2>3
    <3>2. <<"dkim", s>> \in lost' <=> <<"dkim", s>> \in lost
      BY <1>2, <2>3
    <3> QED BY <1>7, <2>1, <2>3, <2>4, <3>1, <3>2 DEF Selected
  <2> QED BY <2>2, <2>3
<1>14. Probing'
  BY <1>1, <1>12, <1>13 DEF Probing
<1> QED BY <1>8, <1>9, <1>10, <1>11, <1>14 DEF MailInv

(* The selectors found are selectors.                                      *)
LEMMA FoundSelectors ==
  ASSUME ListedOnce
  PROVE  Found \subseteq Selectors
BY DEF ListedOnce, Found

LEMMA KeyStrengthMailInv == MailInv /\ ProbeDKIMKeyStrength => MailInv'
<1> SUFFICES ASSUME MailInv, ProbeDKIMKeyStrength PROVE MailInv'
  OBVIOUS
<1>1. /\ phase = "keys" /\ phase' = "score"
      /\ UNCHANGED <<world, running, mail, score, auths, hits, fcrdns, declined, checks>>
  BY DEF ProbeDKIMKeyStrength
<1>2. PICK gone \in Losses({"key"} \X Found) :
        /\ keys' = [s \in {s \in Found : <<"key", s>> \notin gone /\ world.dkim[s][1].p # "blank"} |-> ParseDKIMKey(world.dkim[s][1])]
        /\ lost' = lost \cup gone
  BY DEF ProbeDKIMKeyStrength
<1>3. gone \subseteq ({"key"} \X Found) /\ Cardinality(lost') <= world.faults
  BY <1>2, LossesBounded
<1>4. \A e \in lost' \ lost : e[1] = "key"
  BY <1>2, <1>3
<1>5. LostOf("key") = {} /\ LostOf("auth") = {}
  BY <1>1 DEF MailInv, LossesInTurn
<1>6. \A s : <<"key", s>> \in lost' <=> <<"key", s>> \in gone
  <2>1. \A s : <<"key", s>> \notin lost
    BY <1>5 DEF LostOf
  <2> QED BY <1>2, <2>1
<1>7. ListedOnce /\ ListedOnce' /\ Found' = Found
  BY <1>1 DEF MailInv, Types, ListedOnce, Found
<1>8. /\ DOMAIN keys' = {s \in Found : <<"key", s>> \notin lost' /\ world.dkim[s][1].p # "blank"}
      /\ \A s \in DOMAIN keys' : keys'[s] = ParseDKIMKey(world.dkim[s][1])
  BY <1>2, <1>6
<1>9. KeysStand'
  BY <1>1, <1>7, <1>8 DEF KeysStand
<1>10. DOMAIN keys' \subseteq Selectors
  BY <1>7, <1>8, FoundSelectors
<1>11. \A s \in DOMAIN keys' : keys'[s] \in BOOLEAN
  BY <1>8 DEF ParseDKIMKey
<1>12. Types'
  BY <1>1, <1>3, <1>7, <1>10, <1>11, TypesStep, TypesGive DEF MailInv
<1>13. ResultsStand'
  <2>1. ResultsStand
    BY <1>1 DEF MailInv, Gathered
  <2>2. lost \subseteq lost' /\ \A e \in lost' \ lost : e[1] \notin Results
    BY <1>2, <1>4 DEF Results
  <2> QED BY <1>1, <2>1, <2>2, ResultsFrame
<1>14. LostOf("auth")' = {}
  BY <1>2, <1>4, <1>5, LostOfFrame
<1>15. (Probing /\ Gathered /\ KeysHeard /\ Added /\ Authorizing /\ LossesInTurn)'
  BY <1>1, <1>9, <1>13, <1>14 DEF Probing, Gathered, KeysHeard, Added, Authorizing, LossesInTurn, Past
<1>16. Entered'
  BY <1>1 DEF MailInv, Entered
<1> QED BY <1>12, <1>15, <1>16 DEF MailInv

LEMMA ScoreMailInv == MailInv /\ Score => MailInv'
<1> SUFFICES ASSUME MailInv, Score PROVE MailInv'
  OBVIOUS
<1>1. /\ phase = "score" /\ phase' = "endpoints" /\ score' = Total
      /\ running' = {"auth"} \X DOMAIN Endpoints /\ auths' = [i \in DOMAIN Endpoints |-> Nil]
      /\ UNCHANGED <<world, mail, keys, hits, fcrdns, declined, checks, lost>>
  BY DEF Score
<1>2. ListedOnce'
  BY <1>1 DEF MailInv, Types, ListedOnce
<1>3. Types'
  BY <1>1, <1>2, TotalBounds, TypesStep, TypesGive DEF MailInv
<1>4. ResultsStand' /\ KeysStand'
  BY <1>1, ResultsFrame, KeysFrame DEF MailInv, Gathered, KeysHeard
<1>5. score' = Total'
  BY <1>1, PointsFrame
<1>6. Endpoints' = Endpoints
  BY <1>1, EndpointsFrame
<1>7. DOMAIN auths' = DOMAIN Endpoints' /\ \A i \in DOMAIN Endpoints' : Asked(i)'
  <2>1. LostOf("auth") = {}
    BY <1>1 DEF MailInv, LossesInTurn
  <2>2. \A i : <<"auth", i>> \notin lost'
    BY <1>1, <2>1 DEF LostOf
  <2>3. \A i \in DOMAIN Endpoints' : <<"auth", i>> \in running'
    BY <1>1, <1>6
  <2> QED BY <1>1, <1>6, <2>2, <2>3 DEF Asked
<1>8. (Probing /\ Gathered /\ KeysHeard /\ Added /\ Authorizing /\ LossesInTurn)'
  BY <1>1, <1>4, <1>5, <1>7 DEF Probing, Gathered, KeysHeard, Added, Authorizing, LossesInTurn, Past
<1>9. Entered'
  BY <1>1 DEF MailInv, Entered
<1> QED BY <1>3, <1>8, <1>9 DEF MailInv

LEMMA ExternalAuthMailInv == MailInv /\ CheckDMARCExternalAuth => MailInv'
<1> SUFFICES ASSUME MailInv, CheckDMARCExternalAuth PROVE MailInv'
  OBVIOUS
<1>1. /\ phase = "endpoints"
      /\ UNCHANGED <<world, phase, mail, keys, score, hits, fcrdns, declined, checks>>
  BY DEF CheckDMARCExternalAuth
<1>a. PICK j \in DOMAIN Endpoints :
        /\ <<"auth", j>> \in running /\ running' = running \ {<<"auth", j>>}
        /\ \E gone \in Losses(IF Endpoints[j].dest = "other" THEN {<<"auth", j>>} ELSE {}) :
             /\ auths' = [auths EXCEPT ![j] = CheckOneDMARCAuth(Endpoints[j], gone = {})]
             /\ lost' = lost \cup gone
  BY DEF CheckDMARCExternalAuth
<1>b. PICK gone \in Losses(IF Endpoints[j].dest = "other" THEN {<<"auth", j>>} ELSE {}) :
        /\ auths' = [auths EXCEPT ![j] = CheckOneDMARCAuth(Endpoints[j], gone = {})]
        /\ lost' = lost \cup gone
  BY <1>a
<1>2. gone \subseteq {<<"auth", j>>} /\ Cardinality(lost') <= world.faults
  BY <1>b, LossesBounded
<1>3. \A e \in lost' \ lost : e[1] = "auth"
  BY <1>b, <1>2
<1>4. ListedOnce'
  BY <1>1 DEF MailInv, Types, ListedOnce
<1>5. Types'
  BY <1>1, <1>2, <1>4, TypesStep, TypesGive DEF MailInv
<1>6. ResultsStand'
  <2>1. ResultsStand
    BY <1>1 DEF MailInv, Gathered
  <2>2. lost \subseteq lost' /\ \A e \in lost' \ lost : e[1] \notin Results
    BY <1>b, <1>3 DEF Results
  <2> QED BY <1>1, <2>1, <2>2, ResultsFrame
<1>7. KeysStand'
  <2>1. KeysStand
    BY <1>1 DEF MailInv, KeysHeard
  <2> QED BY <1>1, <1>b, <1>3, <2>1, KeysFrame
<1>8. score' = Total'
  BY <1>1, PointsFrame DEF MailInv, Added
<1>9. Endpoints' = Endpoints
  BY <1>1, EndpointsFrame
<1>10. DOMAIN auths = DOMAIN Endpoints /\ \A i \in DOMAIN Endpoints : Asked(i)
  BY <1>1 DEF MailInv, Authorizing
<1>11. DOMAIN auths' = DOMAIN Endpoints'
  BY <1>b, <1>9, <1>10
<1>12. ASSUME NEW i \in DOMAIN Endpoints'
       PROVE  Asked(i)'
  <2>1. i \in DOMAIN Endpoints /\ Asked(i) /\ Asked(j)
    BY <1>9, <1>10
  <2>2. CASE i = j
    <3>1. <<"auth", i>> \notin running' /\ <<"auth", i>> \notin lost
      BY <1>a, <2>1, <2>2 DEF Asked
    <3>2. <<"auth", i>> \notin lost' <=> gone = {}
      BY <1>b, <1>2, <2>2, <3>1
    <3>3. auths'[i] = CheckOneDMARCAuth(Endpoints[i], gone = {})
      BY <1>b, <1>10, <2>2
    <3>4. auths'[i] = CheckOneDMARCAuth(Endpoints[i], <<"auth", i>> \notin lost')
      BY <3>2, <3>3 DEF CheckOneDMARCAuth
    <3> QED BY <1>9, <3>1, <3>4 DEF Asked
  <2>3. CASE i # j
    <3>1. <<"auth", i>> \in running' <=> <<"auth", i>> \in running
      BY <1>a, <2>3
    <3>2. <<"auth", i>> \in lost' <=> <<"auth", i>> \in lost
      BY <1>b, <1>2, <2>3
    <3>3. auths'[i] = auths[i]
      BY <1>b, <1>10, <2>1, <2>3
    <3> QED BY <1>9, <2>1, <3>1, <3>2, <3>3 DEF Asked, CheckOneDMARCAuth
  <2> QED BY <2>2, <2>3
<1>13. (Probing /\ Gathered /\ KeysHeard /\ Added /\ Authorizing /\ LossesInTurn)'
  BY <1>1, <1>6, <1>7, <1>8, <1>11, <1>12 DEF Probing, Gathered, KeysHeard, Added, Authorizing, LossesInTurn, Past
<1>14. Entered'
  BY <1>1 DEF MailInv, Entered
<1> QED BY <1>5, <1>13, <1>14 DEF MailInv

LEMMA ReportMailMailInv == MailInv /\ ReportMail => MailInv'
<1> SUFFICES ASSUME MailInv, ReportMail PROVE MailInv'
  OBVIOUS
<1>1. /\ phase = "endpoints" /\ running = {} /\ phase' = "lists"
      /\ checks' = [checks EXCEPT !.Mail = ScoreVerdict(score)]
      /\ UNCHANGED <<world, mail, keys, score, auths, hits, fcrdns, declined, lost>>
  BY DEF ReportMail, Waited
<1>2. DOMAIN checks = {"Mail", "Reputation"}
  BY DEF MailInv, Entered
<1>3. checks'.Mail = ScoreVerdict(score) /\ checks'.Reputation = checks.Reputation /\ DOMAIN checks' = {"Mail", "Reputation"}
  BY <1>1, <1>2
<1>4. ScoreVerdict(score).status \in {"ok", "warn"}
  BY DEF ScoreVerdict, Verdict, Check
<1>5. \A c \in DOMAIN checks' : checks'[c].status \in Statuses \cup {"none"}
  BY <1>2, <1>3, <1>4, TypesGive DEF MailInv, Statuses
<1>6. ListedOnce'
  BY <1>1 DEF MailInv, Types, ListedOnce
<1>7. Types'
  BY <1>1, <1>5, <1>6, TypesStep, TypesGive DEF MailInv
<1>8. ResultsStand' /\ KeysStand'
  BY <1>1, ResultsFrame, KeysFrame DEF MailInv, Gathered, KeysHeard
<1>9. score' = Total'
  BY <1>1, PointsFrame DEF MailInv, Added
<1>10. AuthsStand'
  <2>1. AuthsStand
    BY <1>1 DEF MailInv, Authorizing, Asked, AuthsStand
  <2> QED BY <1>1, <2>1, AuthsFrame
<1>11. (Probing /\ Gathered /\ KeysHeard /\ Added /\ Authorizing /\ LossesInTurn)'
  BY <1>1, <1>8, <1>9, <1>10 DEF Probing, Gathered, KeysHeard, Added, Authorizing, LossesInTurn
<1>12. Entered'
  BY <1>1, <1>3 DEF Entered
<1> QED BY <1>7, <1>11, <1>12 DEF MailInv

(* The steps of checkReputation leave what checkMail reported alone.       *)
LEMMA LaterStep ==
  ASSUME MailInv, phase \in {"lists", "reputation", "done"}, phase' \in {"lists", "reputation", "done"},
         UNCHANGED <<world, mail, keys, score, auths>>,
         lost \subseteq lost', \A e \in lost' \ lost : e[1] \in {"list", "txt", "ptr", "fwd"},
         DOMAIN checks' = DOMAIN checks, checks'.Mail = checks.Mail, Types'
  PROVE  MailInv'
<1>1. \A e \in lost' \ lost : e[1] \notin Results /\ e[1] # "key" /\ e[1] # "auth"
  BY DEF Results
<1>2. Past' <=> Past
  BY DEF Past
<1>3. Probing' /\ LossesInTurn'
  BY DEF Probing, LossesInTurn
<1>4. Gathered'
  BY <1>1, <1>2, ResultsFrame DEF MailInv, Gathered
<1>5. KeysHeard'
  BY <1>1, <1>2, KeysFrame DEF MailInv, KeysHeard
<1>6. Added'
  BY <1>2, PointsFrame DEF MailInv, Added
<1>7. Authorizing'
  BY <1>1, <1>2, AuthsFrame DEF MailInv, Authorizing
<1>8. Entered'
  BY DEF MailInv, Entered
<1> QED BY <1>3, <1>4, <1>5, <1>6, <1>7, <1>8 DEF MailInv

LEMMA StartListsMailInv == MailInv /\ StartLists => MailInv'
<1> SUFFICES ASSUME MailInv, StartLists PROVE MailInv'
  OBVIOUS
<1>1. /\ phase = "lists" /\ phase' \in {"reputation", "done"}
      /\ UNCHANGED <<world, mail, keys, score, auths, hits, fcrdns, declined, lost>>
      /\ checks' = checks \/ checks' = [checks EXCEPT !.Reputation = Skip("no_v4")]
  BY DEF StartLists
<1>2. DOMAIN checks = {"Mail", "Reputation"}
  BY DEF MailInv, Entered
<1>3. DOMAIN checks' = DOMAIN checks /\ checks'.Mail = checks.Mail
  BY <1>1, <1>2
<1>4. \A c \in DOMAIN checks' : checks'[c].status \in Statuses \cup {"none"}
  BY <1>1, <1>2, TypesGive DEF MailInv, Statuses, Skip, Check
<1>5. ListedOnce'
  BY <1>1 DEF MailInv, Types, ListedOnce
<1>6. Types'
  BY <1>1, <1>4, <1>5, TypesStep, TypesGive DEF MailInv
<1> QED BY <1>1, <1>3, <1>6, LaterStep

LEMMA JudgeReputationMailInv == MailInv /\ JudgeReputation => MailInv'
<1> SUFFICES ASSUME MailInv, JudgeReputation PROVE MailInv'
  OBVIOUS
<1>1. PICK b, o, f :
        /\ phase = "reputation" /\ phase' = "done"
        /\ UNCHANGED <<world, mail, keys, score, auths, hits, fcrdns, declined, lost>>
        /\ checks' = [checks EXCEPT !.Reputation = ReputationVerdict(b, o, f)]
  BY DEF JudgeReputation
<1>2. DOMAIN checks = {"Mail", "Reputation"}
  BY DEF MailInv, Entered
<1>3. DOMAIN checks' = DOMAIN checks /\ checks'.Mail = checks.Mail /\ checks'.Reputation = ReputationVerdict(b, o, f)
  BY <1>1, <1>2
<1>4. ReputationVerdict(b, o, f).status \in Statuses
  BY DEF ReputationVerdict, Verdict, Check, Statuses
<1>5. \A c \in DOMAIN checks' : checks'[c].status \in Statuses \cup {"none"}
  BY <1>2, <1>3, <1>4, TypesGive DEF MailInv
<1>6. ListedOnce'
  BY <1>1 DEF MailInv, Types, ListedOnce
<1>7. Types'
  BY <1>1, <1>5, <1>6, TypesStep, TypesGive DEF MailInv
<1> QED BY <1>1, <1>3, <1>7, LaterStep

LEMMA ProbeReputationMailInv == MailInv /\ ProbeReputation => MailInv'
<1> SUFFICES ASSUME MailInv, ProbeReputation PROVE MailInv'
  OBVIOUS
<1>1. /\ phase = "reputation" /\ UNCHANGED <<world, phase, mail, keys, score, auths, fcrdns, checks>>
  BY DEF ProbeReputation
<1>2. PICK a \in Addresses, z \in Zones :
        \E gone \in Losses({<<"list", a, z.name>>, <<"txt", a, z.name>>}) :
          \E heard, refused \in BOOLEAN :
             /\ declined' = (declined \/ (heard /\ refused))
             /\ hits' = IF heard /\ ~refused THEN Append(hits, <<a, z>>) ELSE hits
             /\ lost' = lost \cup gone
  BY DEF ProbeReputation
<1>3. PICK gone \in Losses({<<"list", a, z.name>>, <<"txt", a, z.name>>}) :
          \E heard, refused \in BOOLEAN :
             /\ declined' = (declined \/ (heard /\ refused))
             /\ hits' = IF heard /\ ~refused THEN Append(hits, <<a, z>>) ELSE hits
             /\ lost' = lost \cup gone
  BY <1>2
<1>4. gone \subseteq {<<"list", a, z.name>>, <<"txt", a, z.name>>} /\ Cardinality(lost') <= world.faults
  BY <1>3, LossesBounded
<1>5. lost \subseteq lost' /\ \A e \in lost' \ lost : e[1] \in {"list", "txt", "ptr", "fwd"}
  BY <1>3, <1>4
<1>6. Types'
  <2>1. Addresses' = Addresses /\ ListedOnce'
    BY <1>1 DEF MailInv, Types, ListedOnce, Addresses
  <2>2. hits' \in Seq(Addresses \X Zones)
    <3>1. hits \in Seq(Addresses \X Zones) /\ <<a, z>> \in Addresses \X Zones
      BY DEF MailInv, Types
    <3>2. Append(hits, <<a, z>>) \in Seq(Addresses \X Zones)
      BY <3>1, AppendProperties
    <3>3. hits' = hits \/ hits' = Append(hits, <<a, z>>)
      BY <1>3
    <3> QED BY <3>1, <3>2, <3>3
  <2>3. \A i \in DOMAIN hits' : hits'[i] \in Addresses' \X Zones
    BY <2>1, <2>2
  <2>4. declined' \in BOOLEAN
    BY <1>3 DEF MailInv, Types, TypeOK
  <2>5. DOMAIN fcrdns' \subseteq Addresses' /\ world' \in Worlds /\ Cardinality(lost') <= world'.faults /\ DOMAIN mail' = Results
    BY <1>1, <1>4, <2>1 DEF MailInv, Types, TypeOK
  <2>6. phase' = "reputation" /\ score' \in 0..100
    BY <1>1, TypesGive DEF MailInv
  <2>7. DOMAIN keys' \subseteq Selectors /\ (\A s \in DOMAIN keys' : keys'[s] \in BOOLEAN)
    BY <1>1, TypesGive DEF MailInv
  <2>8. \A c \in DOMAIN checks' : checks'[c].status \in Statuses \cup {"none"}
    BY <1>1, TypesGive DEF MailInv
  <2>9. TypeOK'
    BY <2>3, <2>4, <2>5, <2>6, <2>7, <2>8, Zenon DEF TypeOK
  <2> QED BY <2>1, <2>2, <2>9 DEF Types
<1> QED BY <1>1, <1>5, <1>6, LaterStep

LEMMA ProbeFCrDNSMailInv == MailInv /\ ProbeFCrDNS => MailInv'
<1> SUFFICES ASSUME MailInv, ProbeFCrDNS PROVE MailInv'
  OBVIOUS
<1>1. /\ phase = "reputation" /\ UNCHANGED <<world, phase, mail, keys, score, auths, hits, declined, checks>>
  BY DEF ProbeFCrDNS
<1>2. PICK a \in Addresses :
        \E gone \in Losses({<<"ptr", a, 0>>} \cup {<<"fwd", a, i>> : i \in DOMAIN world.ip[a]}) :
          /\ DOMAIN fcrdns' = DOMAIN fcrdns \cup {a}
          /\ lost' = lost \cup gone
  BY DEF ProbeFCrDNS
<1>3. PICK gone \in Losses({<<"ptr", a, 0>>} \cup {<<"fwd", a, i>> : i \in DOMAIN world.ip[a]}) :
        DOMAIN fcrdns' = DOMAIN fcrdns \cup {a} /\ lost' = lost \cup gone
  BY <1>2
<1>4. /\ gone \subseteq {<<"ptr", a, 0>>} \cup {<<"fwd", a, i>> : i \in DOMAIN world.ip[a]}
      /\ Cardinality(lost') <= world.faults
  BY <1>3, LossesBounded
<1>5. lost \subseteq lost' /\ \A e \in lost' \ lost : e[1] \in {"list", "txt", "ptr", "fwd"}
  BY <1>3, <1>4
<1>6. Types'
  <2>1. Addresses' = Addresses /\ ListedOnce'
    BY <1>1 DEF MailInv, Types, ListedOnce, Addresses
  <2>2. hits' \in Seq(Addresses' \X Zones)
    BY <1>1, <2>1 DEF MailInv, Types
  <2>3. \A i \in DOMAIN hits' : hits'[i] \in Addresses' \X Zones
    BY <2>2
  <2>4. DOMAIN fcrdns' \subseteq Addresses'
    BY <1>3, <2>1 DEF MailInv, Types, TypeOK
  <2>5. world' \in Worlds /\ Cardinality(lost') <= world'.faults /\ DOMAIN mail' = Results /\ declined' \in BOOLEAN
    BY <1>1, <1>4 DEF MailInv, Types, TypeOK
  <2>6. phase' = "reputation" /\ score' \in 0..100
    BY <1>1, TypesGive DEF MailInv
  <2>7. DOMAIN keys' \subseteq Selectors /\ (\A s \in DOMAIN keys' : keys'[s] \in BOOLEAN)
    BY <1>1, TypesGive DEF MailInv
  <2>8. \A c \in DOMAIN checks' : checks'[c].status \in Statuses \cup {"none"}
    BY <1>1, TypesGive DEF MailInv
  <2>9. TypeOK'
    BY <2>3, <2>4, <2>5, <2>6, <2>7, <2>8, Zenon DEF TypeOK
  <2> QED BY <2>1, <2>2, <2>9 DEF Types
<1> QED BY <1>1, <1>5, <1>6, LaterStep

LEMMA StutterMailInv == MailInv /\ UNCHANGED vars => MailInv'
<1> SUFFICES ASSUME MailInv, UNCHANGED vars PROVE MailInv'
  OBVIOUS
<1> USE DEF vars
<1>1. ListedOnce'
  BY DEF MailInv, Types, ListedOnce
<1>p. phase' \in {"mx", "probes", "keys", "score", "endpoints", "lists", "reputation", "done"}
  BY Zenon DEF MailInv, Types, TypeOK
<1>2. Types'
  BY <1>1, <1>p, TypesStep, TypesGive DEF MailInv
<1>3. (Past' <=> Past) /\ (\A r : LostOf(r)' = LostOf(r)) /\ Found' = Found /\ Endpoints' = Endpoints
  BY DEF Past, LostOf, Found, Endpoints
<1>4. ASSUME NEW r \in Results \ {"dkim"}, Probed(r)
      PROVE  Probed(r)'
  <2>1. PICK g : g = LostOf(r)
    OBVIOUS
  <2>2. Answer(r, g)' = Answer(r, g)
    BY AnswerFrame
  <2>3. Answer(r, LostOf(r))' = Answer(r, g)'
    BY <1>3, <2>1
  <2> QED BY <1>3, <1>4, <2>1, <2>2, <2>3 DEF Probed
<1>a. \A s \in Selectors : Advertised(s)' <=> Advertised(s)
  BY DEF Advertised
<1>5. \A s \in Selectors : Selected(s)' <=> Selected(s)
  BY <1>3, <1>a DEF Selected
<1>6. Probing'
  BY <1>4, <1>5 DEF MailInv, Probing
<1>7. Gathered'
  BY <1>3, ResultsFrame DEF MailInv, Gathered
<1>8. KeysHeard'
  BY <1>3, KeysFrame DEF MailInv, KeysHeard
<1>9. Added'
  BY <1>3, PointsFrame DEF MailInv, Added
<1>10. \A i : Asked(i)' <=> Asked(i)
  BY <1>3 DEF Asked, CheckOneDMARCAuth
<1>11. Authorizing'
  BY <1>3, <1>10, AuthsFrame DEF MailInv, Authorizing
<1>12. LossesInTurn' /\ Entered'
  BY <1>3 DEF MailInv, LossesInTurn, Entered
<1> QED BY <1>2, <1>6, <1>7, <1>8, <1>9, <1>11, <1>12 DEF MailInv

(* Every step of the two checks keeps the invariant.                       *)
LEMMA NextMailInv == MailInv /\ [Next]_vars => MailInv'
BY LookupMXMailInv, ProbeRecordMailInv, ProbeDKIMSelectorMailInv, JoinProbesMailInv, KeyStrengthMailInv, ScoreMailInv,
   ExternalAuthMailInv, ReportMailMailInv, StartListsMailInv, ProbeReputationMailInv, ProbeFCrDNSMailInv,
   JudgeReputationMailInv, StutterMailInv DEF Next, Done

-------------------------------------------------------------------------------
(* What the score is made of, one dimension after the other.               *)

(* Never beyond the rubric, and the rubric's unless an exchange was lost.  *)
Credited(d) == Points(d) <= Rubric(d) /\ (Points(d) = Rubric(d) \/ Suffered(d))

LEMMA RubricBounds ==
  /\ Rubric("spf") \in 0..20 /\ Rubric("dmarc") \in 0..20 /\ Rubric("dkim") \in 0..15 /\ Rubric("sts") \in 0..15
  /\ Rubric("rpt") \in 0..10 /\ Rubric("dane") \in 0..10 /\ Rubric("v6") \in 0..10
<1>1. Rubric("spf") \in 0..20
  BY DEF Rubric
<1>2. Rubric("dmarc") \in 0..20
  BY DEF Rubric
<1>3. Rubric("dkim") \in 0..15
  BY DEF Rubric
<1>4. Rubric("sts") \in 0..15
  BY DEF Rubric
<1>5. Rubric("rpt") \in 0..10
  BY DEF Rubric
<1>6. Rubric("dane") \in 0..10
  BY DEF Rubric
<1>7. Rubric("v6") \in 0..10
  BY DEF Rubric
<1> QED BY <1>1, <1>2, <1>3, <1>4, <1>5, <1>6, <1>7

LEMMA DeservedBounds == Deserved \in 0..100
BY RubricBounds DEF Deserved

(* A loss of a dimension is a loss it suffered.                            *)
LEMMA LostIsSuffered ==
  ASSUME NEW d, LostOf(d) # {}
  PROVE  Suffered(d)
BY DEF LostOf, Suffered

(* Nothing credited where something was lost.                              *)
LEMMA NothingCredited ==
  ASSUME NEW d \in Dimensions, Points(d) = 0, Suffered(d)
  PROVE  Credited(d)
<1>1. Rubric(d) \in Nat
  BY RubricBounds DEF Dimensions
<1> QED BY <1>1 DEF Credited

LEMMA FullCredit ==
  ASSUME NEW d \in Dimensions, Points(d) = Rubric(d)
  PROVE  Credited(d)
<1>1. Rubric(d) \in Nat
  BY RubricBounds DEF Dimensions
<1> QED BY <1>1 DEF Credited

(* parseSPF finds the terminal directive.                                  *)
LEMMA ParseFindsEnd ==
  ASSUME NEW tokens \in Seq(Tokens), NEW all \in Alls
  PROVE  ParseSPF(tokens).all = all <=> Ends(tokens, all)
<1> DEFINE ends == {i \in DOMAIN tokens : tokens[i] \in Alls}
<1>1. DOMAIN tokens = 1..Len(tokens) /\ Len(tokens) \in Nat
  OBVIOUS
<1>2. ParseSPF(tokens).all = IF ends = {} THEN "absent" ELSE tokens[Max(ends)]
  BY DEF ParseSPF
<1>3. CASE ends = {}
  <2>1. ~Ends(tokens, all)
    BY <1>3 DEF Ends
  <2>2. all # "absent"
    BY DEF Alls
  <2> QED BY <1>2, <1>3, <2>1, <2>2
<1>4. CASE ends # {}
  <2>1. Max(ends) \in ends /\ \A m \in ends : m <= Max(ends)
    <3>1. ends \in SUBSET (1..Len(tokens))
      BY <1>1
    <3> HIDE DEF ends
    <3> QED BY <1>1, <1>4, <3>1, MaxIsLast
  <2>2. ParseSPF(tokens).all = tokens[Max(ends)]
    BY <1>2, <1>4
  <2>3. PICK k : k = Max(ends)
    OBVIOUS
  <2>4. k \in DOMAIN tokens /\ k \in Nat /\ tokens[k] \in Alls /\ \A m \in ends : m <= k
    BY <1>1, <2>1, <2>3
  <2>5. \A j \in DOMAIN tokens : j > k => tokens[j] \notin Alls
    BY <1>1, <2>4
  <2>6. ASSUME Ends(tokens, all) PROVE tokens[k] = all
    <3>1. PICK i \in DOMAIN tokens : tokens[i] = all /\ \A j \in DOMAIN tokens : j > i => tokens[j] \notin Alls
      BY <2>6 DEF Ends
    <3>2. ~(k > i) /\ ~(i > k)
      BY <2>4, <2>5, <3>1
    <3>3. i = k
      BY <1>1, <2>4, <3>2
    <3> QED BY <3>1, <3>3
  <2>7. ASSUME tokens[k] = all PROVE Ends(tokens, all)
    BY <2>4, <2>5, <2>7 DEF Ends
  <2> QED BY <2>2, <2>3, <2>6, <2>7
<1> QED BY <1>3, <1>4

(* The first record that parses is one of the records.                     *)
LEMMA FirstSPF ==
  ASSUME world \in Worlds, TheSPF # Nil
  PROVE  /\ TheSPF \in Seq(Tokens)
         /\ ParseSPF(TheSPF) # Nil
<1> DEFINE places == {i \in DOMAIN world.txt : IsSPF(world.txt[i])}
<1>1. places # {} /\ TheSPF = world.txt[Min(places)]
  BY DEF First, TheSPF
<1>2. places \in SUBSET Nat
  BY DomainsAssumption
<1>3. Min(places) \in places
  <2> HIDE DEF places
  <2> QED BY <1>1, <1>2, MinIsMember
<1>4. PICK i \in DOMAIN world.txt : TheSPF = world.txt[i]
  BY <1>1, <1>3
<1>5. world.txt[i] \in Seq(Tokens) /\ Nil # ParseSPF(world.txt[i])
  BY <1>4, DomainsAssumption
<1> QED BY <1>4, <1>5

LEMMA FirstDMARC ==
  ASSUME world \in Worlds, TheDMARC # Nil
  PROVE  ParseDMARC(TheDMARC) # Nil
<1> DEFINE places == {i \in DOMAIN world.dmarc : IsDMARC(world.dmarc[i])}
<1>1. places # {} /\ TheDMARC = world.dmarc[Min(places)]
  BY DEF First, TheDMARC
<1>2. places \in SUBSET Nat
  BY DomainsAssumption
<1>3. Min(places) \in places
  <2> HIDE DEF places
  <2> QED BY <1>1, <1>2, MinIsMember
<1>4. PICK i \in DOMAIN world.dmarc : TheDMARC = world.dmarc[i]
  BY <1>1, <1>3
<1>5. Nil # ParseDMARC(world.dmarc[i])
  BY <1>4, DomainsAssumption
<1> QED BY <1>4, <1>5

LEMMA SPFCredited ==
  ASSUME world \in Worlds, ResultsStand
  PROVE  Credited("spf")
<1>1. mail.spf = ProbeSPF(LostOf("spf"))
  BY DEF ResultsStand, Answer, Results
<1>2. "spf" \in Dimensions
  BY DEF Dimensions
<1>3. CASE LostOf("spf") # {}
  <2>1. mail.spf = Nil
    BY <1>1, <1>3 DEF ProbeSPF
  <2>2. Points("spf") = 0
    BY <2>1 DEF Points
  <2> QED BY <1>2, <1>3, <2>2, LostIsSuffered, NothingCredited
<1>4. CASE LostOf("spf") = {}
  <2>1. PICK record : record = TheSPF
    OBVIOUS
  <2>2. mail.spf = IF record = Nil THEN Nil ELSE ParseSPF(record)
    BY <1>1, <1>4, <2>1 DEF ProbeSPF
  <2>3. CASE record = Nil
    <3>1. Points("spf") = 0
      BY <2>2, <2>3 DEF Points
    <3>2. Rubric("spf") = 0
      BY <2>1, <2>3 DEF Rubric
    <3> QED BY <1>2, <3>1, <3>2, FullCredit
  <2>4. CASE record # Nil
    <3>1. record \in Seq(Tokens) /\ mail.spf # Nil /\ mail.spf = ParseSPF(record)
      BY <2>1, <2>2, <2>4, FirstSPF
    <3>2. mail.spf.all = "-all" <=> Ends(record, "-all")
      BY <3>1, ParseFindsEnd DEF Alls
    <3>3. mail.spf.all = "~all" <=> Ends(record, "~all")
      BY <3>1, ParseFindsEnd DEF Alls
    <3>4. Points("spf") = CASE mail.spf.all = "-all" -> 20 [] mail.spf.all = "~all" -> 12 [] OTHER -> 0
      BY <3>1 DEF Points
    <3>5. Rubric("spf") = CASE Ends(record, "-all") -> 20 [] Ends(record, "~all") -> 12 [] OTHER -> 0
      BY <2>1, <2>4 DEF Rubric
    <3>6. ~(mail.spf.all = "-all" /\ mail.spf.all = "~all")
      OBVIOUS
    <3>7. Points("spf") = Rubric("spf")
      BY <3>2, <3>3, <3>4, <3>5, <3>6
    <3> QED BY <1>2, <3>7, FullCredit
  <2> QED BY <2>3, <2>4
<1> QED BY <1>3, <1>4

LEMMA DMARCCredited ==
  ASSUME world \in Worlds, ResultsStand
  PROVE  Credited("dmarc")
<1>1. mail.dmarc = ProbeDMARC(LostOf("dmarc"))
  BY DEF ResultsStand, Answer, Results
<1>2. "dmarc" \in Dimensions
  BY DEF Dimensions
<1>3. CASE LostOf("dmarc") # {}
  <2>1. mail.dmarc = Nil
    BY <1>1, <1>3 DEF ProbeDMARC
  <2>2. Points("dmarc") = 0
    BY <2>1 DEF Points
  <2> QED BY <1>2, <1>3, <2>2, LostIsSuffered, NothingCredited
<1>4. CASE LostOf("dmarc") = {}
  <2>1. PICK record : record = TheDMARC
    OBVIOUS
  <2>2. mail.dmarc = IF record = Nil THEN Nil ELSE ParseDMARC(record)
    BY <1>1, <1>4, <2>1 DEF ProbeDMARC
  <2>3. CASE record = Nil
    <3>1. Points("dmarc") = 0
      BY <2>2, <2>3 DEF Points
    <3>2. Rubric("dmarc") = 0
      BY <2>1, <2>3 DEF Rubric
    <3> QED BY <1>2, <3>1, <3>2, FullCredit
  <2>4. CASE record # Nil
    <3>1. mail.dmarc # Nil /\ mail.dmarc = ParseDMARC(record)
      BY <2>1, <2>2, <2>4, FirstDMARC
    <3>2. mail.dmarc.policy = record.p
      BY <3>1 DEF ParseDMARC
    <3>3. Points("dmarc") = Rubric("dmarc")
      BY <2>1, <2>4, <3>1, <3>2 DEF Points, Rubric
    <3> QED BY <1>2, <3>3, FullCredit
  <2> QED BY <2>3, <2>4
<1> QED BY <1>3, <1>4

(* Where the rubric and the code agree, parseDKIMKey calls strong the key  *)
(* of a selector that is, and a selector is found if it has one.           *)
LEMMA StrongKeys ==
  ASSUME world \in Worlds, Agreed("dkim"), NEW s \in Selectors
  PROVE  /\ Advertised(s) => 1 \in DOMAIN world.dkim[s] /\ world.dkim[s][1].p = "key"
         /\ Advertised(s) => (ParseDKIMKey(world.dkim[s][1]) <=> s \in StrongSelectors)
         /\ Advertised(s) <=> s \in StrongSelectors \cup WeakSelectors
<1>1. \A i \in DOMAIN world.dkim[s] : i = 1 /\ (StrongKey(world.dkim[s][i]) \/ WeakKey(world.dkim[s][i]))
  BY DEF Agreed
<1>2. \A i \in DOMAIN world.dkim[s] : world.dkim[s][i].p = "key" => world.dkim[s][i].looks
  BY DomainsAssumption
<1>3. ASSUME NEW key, StrongKey(key) \/ WeakKey(key)
      PROVE  key.p = "key" /\ (ParseDKIMKey(key) <=> StrongKey(key))
  <2>1. key.p = "key"
    BY <1>3 DEF StrongKey, WeakKey, Tagged
  <2>2. key.kind \in {"rsa", "ed25519", "ecdsa"} /\ (key.k = key.kind \/ (key.k = "absent" /\ key.kind = "rsa"))
    BY <1>3 DEF StrongKey, WeakKey, Tagged
  <2>3. key.kind = "ed25519" => key.bits >= 256
    BY <1>3 DEF StrongKey, WeakKey
  <2> QED BY <2>1, <2>2, <2>3 DEF ParseDKIMKey, StrongKey, Tagged
<1>4. Advertised(s) => 1 \in DOMAIN world.dkim[s] /\ (StrongKey(world.dkim[s][1]) \/ WeakKey(world.dkim[s][1]))
  BY <1>1 DEF Advertised
<1>5. s \in StrongSelectors <=> 1 \in DOMAIN world.dkim[s] /\ StrongKey(world.dkim[s][1])
  BY <1>1 DEF StrongSelectors
<1>6. s \in WeakSelectors <=> 1 \in DOMAIN world.dkim[s] /\ WeakKey(world.dkim[s][1])
  BY <1>1 DEF WeakSelectors
<1>7. 1 \in DOMAIN world.dkim[s] /\ (StrongKey(world.dkim[s][1]) \/ WeakKey(world.dkim[s][1])) => Advertised(s)
  BY <1>2, <1>3 DEF Advertised
<1> QED BY <1>3, <1>4, <1>5, <1>6, <1>7

LEMMA DKIMCredited ==
  ASSUME world \in Worlds, ResultsStand, KeysStand, ListedOnce, Agreed("dkim")
  PROVE  Credited("dkim")
<1> DEFINE found == {s \in Selectors : Advertised(s)}
           strong == \E s \in DOMAIN keys : keys[s]
<1>1. "dkim" \in Dimensions
  BY DEF Dimensions
<1>2. Found \subseteq found
  BY FoundSelectors DEF ResultsStand
<1>3. mail.dkim # << >> <=> Found # {}
  <2>1. mail.dkim \in Seq(Selectors) /\ DOMAIN mail.dkim = 1..Len(mail.dkim) /\ Len(mail.dkim) \in Nat
    BY DEF ListedOnce
  <2>2. mail.dkim = << >> <=> Len(mail.dkim) = 0
    BY <2>1, EmptySeq
  <2>3. Found = {} <=> DOMAIN mail.dkim = {}
    BY DEF Found
  <2>4. Len(mail.dkim) # 0 => 1 \in DOMAIN mail.dkim
    BY <2>1
  <2>5. Len(mail.dkim) = 0 => DOMAIN mail.dkim = {}
    BY <2>1
  <2> QED BY <2>2, <2>3, <2>4, <2>5
<1>4. Points("dkim") = IF Found # {} THEN (IF strong THEN 15 ELSE 5) ELSE 0
  BY <1>3 DEF Points
<1>a. found = StrongSelectors \cup WeakSelectors
  <2>1. \A s \in Selectors : Advertised(s) <=> s \in StrongSelectors \cup WeakSelectors
    BY StrongKeys
  <2>2. StrongSelectors \subseteq Selectors /\ WeakSelectors \subseteq Selectors
    BY DEF StrongSelectors, WeakSelectors
  <2> QED BY <2>1, <2>2
<1>5. Rubric("dkim") = IF found # {} THEN (IF StrongSelectors # {} THEN 15 ELSE 5) ELSE 0
  BY <1>a DEF Rubric
<1>6. strong => StrongSelectors # {}
  <2>1. DOMAIN keys \subseteq Found /\ Found \subseteq Selectors
    BY FoundSelectors DEF KeysStand
  <2>2. \A s \in DOMAIN keys : keys[s] <=> ParseDKIMKey(world.dkim[s][1])
    BY DEF KeysStand
  <2>3. \A s \in DOMAIN keys : Advertised(s) /\ s \in Selectors
    BY <1>2, <2>1
  <2>4. \A s \in Selectors : Advertised(s) => (ParseDKIMKey(world.dkim[s][1]) <=> s \in StrongSelectors)
    BY StrongKeys
  <2> HIDE DEF found
  <2> QED BY <2>2, <2>3, <2>4, Zenon
<1>7. Points("dkim") <= Rubric("dkim")
  BY <1>2, <1>4, <1>5, <1>6
<1>8. CASE Suffered("dkim")
  BY <1>7, <1>8 DEF Credited
<1>9. CASE ~Suffered("dkim")
  <2>1. \A s : <<"dkim", s>> \notin lost /\ <<"key", s>> \notin lost
    BY <1>9 DEF Suffered
  <2>2. Found = found
    BY <1>2, <2>1 DEF ResultsStand
  <2>3. DOMAIN keys = Found
    BY <1>2, <2>1, StrongKeys DEF KeysStand
  <2>4. strong <=> StrongSelectors # {}
    BY <1>a, <2>2, <2>3, StrongKeys DEF KeysStand
  <2>5. Points("dkim") = Rubric("dkim")
    BY <1>4, <1>5, <2>2, <2>4
  <2> QED BY <1>1, <2>5, FullCredit
<1> QED BY <1>8, <1>9

LEMMA STSCredited ==
  ASSUME world \in Worlds, ResultsStand
  PROVE  Credited("sts")
<1>1. mail.sts = ProbeMTASTS(LostOf("sts"))
  BY DEF ResultsStand, Answer, Results
<1>2. "sts" \in Dimensions
  BY DEF Dimensions
<1> DEFINE dns    == world.sts.dns /\ <<"sts", 1>> \notin LostOf("sts")
           policy == dns /\ <<"sts", 2>> \notin LostOf("sts") /\ world.sts.status = 200
           mode   == IF policy THEN world.sts.mode ELSE "absent"
<1>3. mail.sts = [dns |-> dns, policy |-> policy, mode |-> mode]
  BY <1>1 DEF ProbeMTASTS
<1>4. mail.sts # Nil
  <2>1. dns \in BOOLEAN /\ policy \in BOOLEAN /\ mode \in {world.sts.mode, "absent"}
    BY DomainsAssumption
  <2>2. Nil \notin [dns : BOOLEAN, policy : BOOLEAN, mode : {world.sts.mode, "absent"}]
    BY DomainsAssumption
  <2> HIDE DEF dns, policy, mode
  <2> QED BY <1>3, <2>1, <2>2
<1>a. mail.sts.policy = policy /\ mail.sts.mode = mode
  <2> HIDE DEF dns, policy, mode
  <2> QED BY <1>3
<1>5. CASE policy
  <2>1. mail.sts.policy /\ mail.sts.mode = world.sts.mode /\ world.sts.dns /\ world.sts.status = 200
    BY <1>a, <1>5, Zenon
  <2>2. Points("sts") = Rubric("sts")
    BY <1>4, <2>1 DEF Points, Rubric
  <2> QED BY <1>2, <2>2, FullCredit
<1>6. CASE ~policy
  <2>1. ~mail.sts.policy
    BY <1>a, <1>6, Zenon
  <2>2. Points("sts") = 0
    BY <2>1 DEF Points
  <2>3. CASE LostOf("sts") # {}
    BY <1>2, <2>2, <2>3, LostIsSuffered, NothingCredited
  <2>4. CASE LostOf("sts") = {}
    <3>1. ~(world.sts.dns /\ world.sts.status = 200)
      BY <1>6, <2>4
    <3>2. Rubric("sts") = 0
      BY <3>1 DEF Rubric
    <3> QED BY <1>2, <2>2, <3>2, FullCredit
  <2> QED BY <2>3, <2>4
<1> QED BY <1>5, <1>6

LEMMA RPTCredited ==
  ASSUME world \in Worlds, ResultsStand, Agreed("rpt")
  PROVE  Credited("rpt")
<1>1. mail.rpt = IF LostOf("rpt") = {} THEN world.rpt ELSE "none"
  BY DEF ResultsStand, Answer, Results, ProbeTLSRPT
<1>a. world.rpt \in {"none", "rua"}
  BY DomainsAssumption DEF Agreed
<1>2. "rpt" \in Dimensions
  BY DEF Dimensions
<1>3. CASE LostOf("rpt") # {}
  <2>1. Points("rpt") = 0
    BY <1>1, <1>3 DEF Points
  <2> QED BY <1>2, <1>3, <2>1, LostIsSuffered, NothingCredited
<1>4. CASE LostOf("rpt") = {}
  <2>1. Points("rpt") = Rubric("rpt")
    BY <1>1, <1>a, <1>4 DEF Points, Rubric
  <2> QED BY <1>2, <2>1, FullCredit
<1> QED BY <1>3, <1>4

LEMMA DANECredited ==
  ASSUME ResultsStand
  PROVE  Credited("dane")
<1>1. mail.dane = ProbeMXDANE(LostOf("dane"))
  BY DEF ResultsStand, Answer, Results
<1>2. "dane" \in Dimensions
  BY DEF Dimensions
<1>3. /\ DOMAIN mail.dane = DOMAIN world.mx
      /\ \A i \in DOMAIN world.mx :
           mail.dane[i].compliant <=> <<"dane", i>> \notin LostOf("dane") /\ world.tlsa[world.mx[i]] \cap {2, 3} # {}
  <2>1. DOMAIN mail.dane = DOMAIN world.mx
    BY <1>1 DEF ProbeMXDANE
  <2>2. ASSUME NEW i \in DOMAIN world.mx
        PROVE  mail.dane[i].compliant <=> <<"dane", i>> \notin LostOf("dane") /\ world.tlsa[world.mx[i]] \cap {2, 3} # {}
    <3> DEFINE usages == IF <<"dane", i>> \in LostOf("dane") THEN {} ELSE world.tlsa[world.mx[i]]
               compliant == usages \cap {2, 3} # {}
               found == usages # {}
    <3>1. mail.dane[i] = [found |-> found, compliant |-> compliant]
      BY <1>1 DEF ProbeMXDANE
    <3>2. mail.dane[i].compliant = compliant
      <4> HIDE DEF found, compliant
      <4> QED BY <3>1
    <3>3. compliant <=> <<"dane", i>> \notin LostOf("dane") /\ world.tlsa[world.mx[i]] \cap {2, 3} # {}
      OBVIOUS
    <3> HIDE DEF compliant
    <3> QED BY <3>2, <3>3, Zenon
  <2> QED BY <2>1, <2>2
<1>4. (\E h \in {world.mx[i] : i \in DOMAIN world.mx} : {2, 3} \cap world.tlsa[h] # {})
        <=> \E i \in DOMAIN world.mx : world.tlsa[world.mx[i]] \cap {2, 3} # {}
  OBVIOUS
<1>5. CASE \E i \in DOMAIN mail.dane : mail.dane[i].compliant
  <2>1. Points("dane") = 10
    BY <1>5 DEF Points
  <2>2. Rubric("dane") = 10
    BY <1>3, <1>4, <1>5 DEF Rubric
  <2> QED BY <1>2, <2>1, <2>2, FullCredit
<1>6. CASE ~\E i \in DOMAIN mail.dane : mail.dane[i].compliant
  <2>1. Points("dane") = 0
    BY <1>6 DEF Points
  <2>2. CASE LostOf("dane") # {}
    BY <1>2, <2>1, <2>2, LostIsSuffered, NothingCredited
  <2>3. CASE LostOf("dane") = {}
    <3>1. Rubric("dane") = 0
      BY <1>3, <1>4, <1>6, <2>3 DEF Rubric
    <3> QED BY <1>2, <2>1, <3>1, FullCredit
  <2> QED BY <2>2, <2>3
<1> QED BY <1>5, <1>6

LEMMA V6Credited ==
  ASSUME ResultsStand
  PROVE  Credited("v6")
<1>1. mail.v6 = ProbeMXIPv6(LostOf("v6"))
  BY DEF ResultsStand, Answer, Results
<1>2. "v6" \in Dimensions
  BY DEF Dimensions
<1>3. /\ DOMAIN mail.v6 = DOMAIN world.mx
      /\ \A i \in DOMAIN world.mx : mail.v6[i].aaaa <=> world.aaaa[world.mx[i]] /\ <<"v6", i>> \notin LostOf("v6")
  <2>1. DOMAIN mail.v6 = DOMAIN world.mx
    BY <1>1 DEF ProbeMXIPv6
  <2>2. ASSUME NEW i \in DOMAIN world.mx
        PROVE  mail.v6[i].aaaa <=> world.aaaa[world.mx[i]] /\ <<"v6", i>> \notin LostOf("v6")
    <3> DEFINE aaaa == world.aaaa[world.mx[i]] /\ <<"v6", i>> \notin LostOf("v6")
               reachable == aaaa /\ <<"v6", -i>> \notin LostOf("v6") /\ world.smtp[world.mx[i]] # "down"
    <3>1. mail.v6[i] = [aaaa |-> aaaa, reachable |-> reachable]
      BY <1>1 DEF ProbeMXIPv6
    <3>2. mail.v6[i].aaaa = aaaa
      <4> HIDE DEF aaaa, reachable
      <4> QED BY <3>1
    <3> HIDE DEF aaaa, reachable
    <3>3. mail.v6[i].aaaa <=> aaaa
      BY <3>2, Zenon
    <3> QED BY <3>3, Zenon DEF aaaa
  <2> QED BY <2>1, <2>2
<1>4. (\E h \in {world.mx[i] : i \in DOMAIN world.mx} : world.aaaa[h])
        <=> \E i \in DOMAIN world.mx : world.aaaa[world.mx[i]]
  OBVIOUS
<1>5. CASE \E i \in DOMAIN mail.v6 : mail.v6[i].aaaa
  <2>1. Points("v6") = 10
    BY <1>5 DEF Points
  <2>2. Rubric("v6") = 10
    BY <1>3, <1>4, <1>5 DEF Rubric
  <2> QED BY <1>2, <2>1, <2>2, FullCredit
<1>6. CASE ~\E i \in DOMAIN mail.v6 : mail.v6[i].aaaa
  <2>1. Points("v6") = 0
    BY <1>6 DEF Points
  <2>2. CASE LostOf("v6") # {}
    BY <1>2, <2>1, <2>2, LostIsSuffered, NothingCredited
  <2>3. CASE LostOf("v6") = {}
    <3>1. Rubric("v6") = 0
      BY <1>3, <1>4, <1>6, <2>3 DEF Rubric
    <3> QED BY <1>2, <2>1, <3>1, FullCredit
  <2> QED BY <2>2, <2>3
<1> QED BY <1>5, <1>6

(* What the invariant says of the parts, once the score is given.          *)
LEMMA ScoredStands ==
  ASSUME MailInv, Scored
  PROVE  /\ world \in Worlds /\ ListedOnce
         /\ ResultsStand /\ KeysStand /\ score = Total
<1>1. phase = "endpoints" \/ Past
  BY DEF Scored, Past
<1> QED BY <1>1, TypesGive DEF MailInv, Gathered, KeysHeard, Added

LEMMA ScoreFollows ==
  ASSUME MailInv
  PROVE  ScoreFaithful
<1> SUFFICES ASSUME Scored
             PROVE  /\ \A d \in Dimensions : Agreed(d) => Credited(d)
                    /\ score = Total
                    /\ checks.Mail.status = "ok" => score >= 80 /\ ((\A d \in Dimensions : Agreed(d)) => Deserved >= 80)
  BY DEF ScoreFaithful, Credited
<1>1. /\ Credited("spf") /\ Credited("dmarc") /\ Credited("sts") /\ Credited("dane") /\ Credited("v6")
      /\ Agreed("dkim") => Credited("dkim")
      /\ Agreed("rpt") => Credited("rpt")
  BY ScoredStands, SPFCredited, DMARCCredited, DKIMCredited, STSCredited, RPTCredited, DANECredited, V6Credited
<1>2. \A d \in Dimensions : Agreed(d) => Credited(d)
  BY <1>1 DEF Dimensions
<1>3. score = Total
  BY ScoredStands
<1>4. ASSUME \A d \in Dimensions : Agreed(d)
      PROVE  Total <= Deserved
  <2>0. Agreed("dkim") /\ Agreed("rpt")
    BY <1>4 DEF Dimensions
  <2>1. /\ Points("spf") <= Rubric("spf") /\ Points("dmarc") <= Rubric("dmarc") /\ Points("dkim") <= Rubric("dkim")
        /\ Points("sts") <= Rubric("sts") /\ Points("rpt") <= Rubric("rpt") /\ Points("dane") <= Rubric("dane")
        /\ Points("v6") <= Rubric("v6")
    BY <1>1, <2>0 DEF Credited
  <2>2. /\ Points("spf") \in Int /\ Rubric("spf") \in Int /\ Points("dmarc") \in Int /\ Rubric("dmarc") \in Int
        /\ Points("dkim") \in Int /\ Rubric("dkim") \in Int /\ Points("sts") \in Int /\ Rubric("sts") \in Int
        /\ Points("rpt") \in Int /\ Rubric("rpt") \in Int /\ Points("dane") \in Int /\ Rubric("dane") \in Int
        /\ Points("v6") \in Int /\ Rubric("v6") \in Int
    BY PointsBounds, RubricBounds
  <2> QED BY <2>1, <2>2 DEF Total, Deserved
<1>5. ASSUME checks.Mail.status = "ok"
      PROVE  score >= 80 /\ ((\A d \in Dimensions : Agreed(d)) => Deserved >= 80)
  <2>1. checks.Mail = ScoreVerdict(score)
    <3>1. phase \in {"endpoints", "lists", "reputation", "done"}
      BY DEF Scored
    <3> QED BY <1>5, <3>1 DEF MailInv, Entered, NotRun, Skip, Check
  <2>2. score >= 80
    BY <1>5, <2>1 DEF ScoreVerdict, Verdict, Check
  <2>3. Total \in Int /\ Deserved \in Int
    BY TotalBounds, DeservedBounds
  <2> QED BY <1>3, <1>4, <2>2, <2>3
<1> QED BY <1>2, <1>3, <1>5

(* The first few of a sequence.                                            *)
LEMMA FirstFew ==
  ASSUME NEW S, NEW s \in Seq(S), NEW k \in Nat, k <= Len(s)
  PROVE  SubSeq(s, 1, k) \in Seq(S) /\ Len(SubSeq(s, 1, k)) = k /\ \A i \in 1..k : SubSeq(s, 1, k)[i] = s[i]
<1>1. \A i \in 1..k : s[i] \in S
  OBVIOUS
<1>2. /\ SubSeq(s, 1, k) \in Seq(S)
      /\ Len(SubSeq(s, 1, k)) = IF 1 <= k THEN k - 1 + 1 ELSE 0
      /\ \A i \in 1..k - 1 + 1 : SubSeq(s, 1, k)[i] = s[1 + i - 1]
  BY <1>1, SubSeqProperties
<1> QED BY <1>2

(* The MX hosts asked for STARTTLS are the first few.                      *)
LEMMA CappedIs ==
  ASSUME world \in Worlds
  PROVE  LET n == IF Len(world.mx) < MxCap THEN Len(world.mx) ELSE MxCap
         IN  /\ n \in Nat /\ Len(Capped(world.mx)) = n /\ DOMAIN Capped(world.mx) = 1..n
             /\ \A i \in 1..n : Capped(world.mx)[i] = world.mx[i]
<1> DEFINE n == IF Len(world.mx) < MxCap THEN Len(world.mx) ELSE MxCap
<1>1. world.mx \in Seq(DOMAIN world.smtp) /\ Len(world.mx) \in Nat /\ MxCap \in Nat
  BY DomainsAssumption, BoundsAssumption
<1>2. n \in Nat /\ n <= Len(world.mx)
  BY <1>1
<1>3. Capped(world.mx) = SubSeq(world.mx, 1, n)
  BY DEF Capped
<1> HIDE DEF n
<1>4. PICK mx, S : mx = world.mx /\ mx \in Seq(S)
  BY <1>1
<1>5. SubSeq(mx, 1, n) \in Seq(S) /\ Len(SubSeq(mx, 1, n)) = n /\ \A i \in 1..n : SubSeq(mx, 1, n)[i] = mx[i]
  BY <1>2, <1>4, FirstFew
<1>6. DOMAIN SubSeq(mx, 1, n) = 1..n
  BY <1>2, <1>5
<1> QED BY <1>2, <1>3, <1>4, <1>5, <1>6 DEF n

LEMMA ResultsFollow ==
  ASSUME MailInv
  PROVE  ResultsPlaced
<1>1. ASSUME Scored
      PROVE  /\ \A i, j \in DOMAIN mail.dkim : mail.dkim[i] = mail.dkim[j] => i = j
             /\ \A s \in Selectors : (\E i \in DOMAIN mail.dkim : mail.dkim[i] = s)
                                        <=> (Advertised(s) /\ <<"dkim", s>> \notin lost)
  <2>1. ListedOnce /\ ResultsStand
    BY <1>1, ScoredStands
  <2>2. \A s : s \in Found <=> \E i \in DOMAIN mail.dkim : mail.dkim[i] = s
    BY DEF Found
  <2> QED BY <2>1, <2>2 DEF ListedOnce, ResultsStand
<1>2. ASSUME Scored
      PROVE  /\ <<"mxtls", 0>> \notin lost => Len(mail.mxtls) = (IF Len(world.mx) < MxCap THEN Len(world.mx) ELSE MxCap)
             /\ \A i \in DOMAIN mail.mxtls : mail.mxtls[i] = world.smtp[world.mx[i]] \/ <<"mxtls", i>> \in lost
  <2>1. mail.mxtls = ProbeSTARTTLSForDomain(LostOf("mxtls")) /\ world \in Worlds
    BY <1>2, ScoredStands DEF ResultsStand, Answer, Results
  <2> DEFINE n == IF Len(world.mx) < MxCap THEN Len(world.mx) ELSE MxCap
  <2>2. /\ n \in Nat /\ Len(Capped(world.mx)) = n /\ DOMAIN Capped(world.mx) = 1..n
        /\ \A i \in 1..n : Capped(world.mx)[i] = world.mx[i]
    BY <2>1, CappedIs
  <2>3. CASE <<"mxtls", 0>> \in lost
    <3>1. mail.mxtls = << >>
      BY <2>1, <2>3 DEF ProbeSTARTTLSForDomain, LostOf
    <3> QED BY <2>3, <3>1
  <2>4. CASE <<"mxtls", 0>> \notin lost
    <3>1. mail.mxtls = [i \in DOMAIN Capped(world.mx) |->
                          IF <<"mxtls", i>> \in LostOf("mxtls") THEN "down" ELSE world.smtp[Capped(world.mx)[i]]]
      BY <2>1, <2>4 DEF ProbeSTARTTLSForDomain, LostOf
    <3> HIDE DEF n
    <3>2. mail.mxtls = [i \in 1..n |-> IF <<"mxtls", i>> \in LostOf("mxtls") THEN "down" ELSE world.smtp[Capped(world.mx)[i]]]
      BY <2>2, <3>1
    <3>3. Len(mail.mxtls) = n
      BY <2>2, <3>2
    <3>4. \A i \in 1..n : mail.mxtls[i] = world.smtp[world.mx[i]] \/ <<"mxtls", i>> \in lost
      BY <2>2, <3>2 DEF LostOf
    <3> QED BY <3>2, <3>3, <3>4 DEF n
  <2> QED BY <2>3, <2>4
<1>3. ASSUME Scored, NEW i \in DOMAIN mail.dane
      PROVE  mail.dane[i].found <=> (world.tlsa[world.mx[i]] # {} /\ <<"dane", i>> \notin lost)
  <2>1. mail.dane = ProbeMXDANE(LostOf("dane"))
    BY <1>3, ScoredStands DEF ResultsStand, Answer, Results
  <2> DEFINE usages == IF <<"dane", i>> \in LostOf("dane") THEN {} ELSE world.tlsa[world.mx[i]]
             compliant == usages \cap {2, 3} # {}
             found == usages # {}
  <2>2. mail.dane[i] = [found |-> found, compliant |-> compliant]
    BY <1>3, <2>1 DEF ProbeMXDANE
  <2>3. mail.dane[i].found = found
    <3> HIDE DEF found, compliant
    <3> QED BY <2>2
  <2>4. found <=> world.tlsa[world.mx[i]] # {} /\ <<"dane", i>> \notin lost
    BY DEF LostOf
  <2> HIDE DEF found
  <2> QED BY <2>3, <2>4, Zenon
<1>4. ASSUME checks.Mail.status \in {"ok", "warn"}, NEW i \in DOMAIN Endpoints
      PROVE  auths[i].authorized <=> \/ Endpoints[i].dest = "own"
                                     \/ Endpoints[i].dest = "other" /\ Endpoints[i].leave /\ <<"auth", i>> \notin lost
  <2>1. Past
    <3>1. phase \in {"mx", "probes", "keys", "score", "endpoints", "lists", "reputation", "done"}
      BY DEF MailInv, Types, TypeOK
    <3>2. checks.Mail # NotRun
      BY <1>4 DEF NotRun
    <3> QED BY <1>4, <3>1, <3>2 DEF MailInv, Entered, Past
  <2>2. auths[i] = CheckOneDMARCAuth(Endpoints[i], <<"auth", i>> \notin lost)
    BY <2>1 DEF MailInv, Authorizing, AuthsStand
  <2> DEFINE authorized == \/ Endpoints[i].dest = "own"
                           \/ Endpoints[i].dest = "other" /\ <<"auth", i>> \notin lost /\ Endpoints[i].leave
             external == Endpoints[i].dest = "other"
  <2>3. auths[i] = [external |-> external, authorized |-> authorized]
    BY <2>2 DEF CheckOneDMARCAuth
  <2>4. auths[i].authorized = authorized
    <3> HIDE DEF authorized, external
    <3> QED BY <2>3
  <2> HIDE DEF authorized
  <2>5. auths[i].authorized <=> authorized
    BY <2>4, Zenon
  <2> QED BY <2>5, Zenon DEF authorized
<1> QED BY <1>1, <1>2, <1>3, <1>4 DEF ResultsPlaced

(* For any domain and any number of lost exchanges, and whatever the order *)
(* in which the nine probes and the selectors answer: no dimension of the  *)
(* score is credited beyond docs/MAIL_SCORING.md where Agreed names no     *)
(* difference from it, a lost exchange costs its own dimension only, an    *)
(* "ok" means a score of 80 points, which a domain without those           *)
(* differences deserves, every result stands at its selector, host or      *)
(* endpoint, and mail is called absent only where the MX answer was empty  *)
(* or lost (checkMail).                                                    *)
THEOREM MailIsSound == Spec => []MailSound
<1>1. Init => MailInv
  BY InitMailInv
<1>2. MailInv /\ [Next]_vars => MailInv'
  BY NextMailInv
<1>3. MailInv => MailSound
  <2> SUFFICES ASSUME MailInv PROVE MailSound
    OBVIOUS
  <2>1. TypeOK
    BY DEF MailInv, Types
  <2>2. checks.Mail = Skip("no_mx") => world.mx = << >> \/ <<"mx", 1>> \in lost
    <3> SUFFICES ASSUME checks.Mail = Skip("no_mx") PROVE world.mx = << >> \/ <<"mx", 1>> \in lost
      OBVIOUS
    <3>1. phase \in {"lists", "reputation", "done"}
      BY <2>1 DEF MailInv, Entered, NotRun, Skip, Check, TypeOK
    <3>2. Skip("no_mx") # Skip("no_dns") /\ Skip("no_mx") # Skip("verdict") /\ Skip("no_mx") # ScoreVerdict(score)
      BY DEF Skip, Check, ScoreVerdict, Verdict
    <3> QED BY <3>1, <3>2 DEF MailInv, Entered
  <2> QED BY <2>1, <2>2, ScoreFollows, ResultsFollow DEF MailSound
<1> QED BY <1>1, <1>2, <1>3, PTL DEF Spec

===============================================================================
