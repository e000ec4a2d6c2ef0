------------------------------ MODULE DnsAudit ------------------------------
(***************************************************************************)
(* checkDNS: the addresses of the host, then enrichDNS, which runs a pool  *)
(* of independent lookups (one of them validates the DNSSEC chain from the *)
(* root down), a second pool of audits over the name servers the first one *)
(* found, and a tail of sequential probes: cookies, the NSEC walk, RPKI,   *)
(* propagation over public resolvers, the NSEC3 proof, client subnets and  *)
(* the algorithm rollover.                                                 *)
(*                                                                         *)
(* The world (resolvers, zones, name servers) is external.  An exchange    *)
(* may be lost, at most world.faults of them; lost remembers which.  Keys  *)
(* and signatures are names: a signature is the name of the key that made  *)
(* it.  world.zones are the zones from the root down to the one that signs *)
(* the address; world.suffix is the place of the public suffix among them. *)
(***************************************************************************)
EXTENDS Integers, Sequences, FiniteSets

CONSTANTS Worlds,     \* what can be asked about
          Lookups,    \* record types of the first pool that are one lookup
          Direct,     \* those of them sent by queryDNS
          Resolvers,  \* publicResolvers
          Anchors,    \* rootAnchors
          NsCap,      \* name servers audited (8)
          WalkCap,    \* maxNSECWalkHops (50)
          RingSize    \* NSEC3 hashes are 0..RingSize - 1

ASSUME BoundsAssumption ==
  /\ {NsCap, WalkCap, RingSize} \subseteq Nat \ {0}
  /\ Direct \subseteq Lookups /\ IsFiniteSet(Resolvers)

VARIABLES
  world,
  phase,    \* what enrichDNS is doing
  running,  \* goroutines of the pool at work: <<name, index>>
  addrs,    \* family -> addresses
  rec,      \* record type -> records
  ns,       \* name servers of the host
  sec,      \* dnssecStatus, with how far the validation is
  audits,   \* audit -> index -> result
  walk,     \* nsecWalkResult
  after,    \* results of the probes that follow: cookies, RPKI, NSEC3, ECS, rollover
  views,    \* resolver -> what it answered
  lost,     \* exchanges lost: <<name, index>>
  detail    \* keys of Check.Detail

vars == <<world, phase, running, addrs, rec, ns, sec, audits, walk, after, views, lost, detail>>

Families == {"A", "AAAA"}
Audits   == {"chaos", "axfr", "glue", "lame"}
None     == "none"
NoName   == ""
NoLink   == [owner |-> None, next |-> None]
Start    == "z-walk-start"        \* the first name the NSEC walk asks for

(* The zones validateDNSSECChain asks about: ".", the public suffix (what  *)
(* follows the first label of the registrable domain) and the registrable  *)
(* domain.  Zones between the root and the suffix are skipped.             *)
ZoneCount == 3
Zone(z)   == world.zones[IF z = 1 THEN 1 ELSE world.suffix + z - 2]
Keys(z)   == Zone(z).ksk \cup Zone(z).zsk

(* The record types are none of the other things enrichDNS reports.        *)
ASSUME LookupsAssumption ==
  Lookups \cap (Audits \cup {"asn", "ns", "view", "propagation", "cookies", "nsec_walk", "rpki",
                             "nsec3", "ecs", "dnssec", "algorithm_rollover"}) = {}

(* "none" is no key, no answer and no name; hashes are on the ring; only a *)
(* name with addresses has a signature over them; an NSEC record of the    *)
(* zone is owned by a name of the zone, or made up for the name asked for. *)
ASSUME WorldsAssumption ==
  \A w \in Worlds :
    /\ w.faults \in Nat
    /\ DOMAIN w.addr = Families /\ \A f \in Families : IsFiniteSet(w.addr[f])
    /\ w.suffix \in 2..Len(w.zones) - 1
    /\ \A z \in 1..Len(w.zones) : None \notin w.zones[z].ksk \cup w.zones[z].zsk
    /\ w.aSig # None => w.addr["A"] # {}
    /\ w.ns \in Seq(DOMAIN w.server)
    /\ \A n \in DOMAIN w.server : {w.server[n].up, w.server[n].aa, w.server[n].inside, w.server[n].glue} \subseteq BOOLEAN
    /\ \A n \in DOMAIN w.server : w.server[n].serial \in Nat
    /\ w.link = NoLink \/ w.link.owner \in w.names \cup {NoName, Start}
    /\ \A r \in Resolvers : w.view[r] # None
    /\ \A d \in w.denials : /\ d.hash \in 0..RingSize - 1
                            /\ \A n \in d.nsec3 : {n.owner, n.next} \subseteq 0..RingSize - 1
    /\ IsFiniteSet(DOMAIN w.ecs)

(* The result f, with v stored under x.                                    *)
Put(f, x, v) == [y \in DOMAIN f \cup {x} |-> IF y = x THEN v ELSE f[y]]

Init ==
  /\ world \in Worlds
  /\ phase = "resolve"
  /\ running = IF world.transport = "system" THEN {<<"ip", 1>>} ELSE {<<f, 1>> : f \in Families}
  /\ addrs = [f \in Families |-> {}]
  /\ rec = [l \in Lookups \cup {"asn"} |-> {}]
  /\ ns = << >>
  /\ sec = [step |-> "status", zone |-> 1, signed |-> FALSE, ad |-> FALSE, keys |-> {},
            levels |-> << >>, leaf |-> None, chain |-> FALSE, cut |-> FALSE]
  /\ audits = [a \in Audits |-> << >>]
  /\ walk = [uses |-> FALSE, names |-> {}, hops |-> 0, inside |-> TRUE]
  /\ after = [cookies |-> FALSE, rpki |-> << >>, nsec3 |-> [status |-> None, hash |-> 0, records |-> {}],
              ecs |-> << >>, families |-> {}]
  /\ views = << >>
  /\ lost = {} /\ detail = {}

-----------------------------------------------------------------------------
(* Exchanges                                                               *)

MayLose == Cardinality(lost) < world.faults

(* What queryDNS(full) can return, and the exchange it lost on the way.  A *)
(* truncated UDP answer is asked for again over TCP; if that is lost too,  *)
(* the part that fitted stands.                                            *)
QueryDNS(name, full) ==
  LET whole == [err |-> FALSE, rrs |-> full, gone |-> {}]
      dead  == [err |-> TRUE,  rrs |-> {},   gone |-> {<<name, 1>>}]
      part(p) == [err |-> FALSE, rrs |-> p,  gone |-> {<<name, 2>>}]
      truncated == name \in world.truncated /\ world.transport \in {"system", "udp"}
  IN  {whole} \cup (IF MayLose THEN {dead} ELSE {})
              \cup (IF MayLose /\ truncated THEN {part(p) : p \in SUBSET full} ELSE {})

(* Any other lookup: an answer, or none.                                   *)
Lookup(name, full) == {o \in QueryDNS(name, full) : \A g \in o.gone : g[2] = 1}

-----------------------------------------------------------------------------
(* The addresses                                                           *)

Addresses == UNION {addrs[f] : f \in Families}

(* The first pool: one goroutine per record type.                          *)
Pool1 == {<<l, 1>> : l \in Lookups} \cup {<<"ns", 1>>, <<"dnssec", 1>>} \cup {<<"asn", ip>> : ip \in Addresses}

(* With --dns: A and AAAA side by side, each appending its addresses under *)
(* the mutex.  The error of one counts only if neither found an address.   *)
ResolveViaTransport ==
  /\ phase = "resolve"
  /\ \E f \in Families :
       /\ <<f, 1>> \in running
       /\ running' = running \ {<<f, 1>>}
       /\ \E o \in QueryDNS(f, world.addr[f]) :
            /\ addrs' = [addrs EXCEPT ![f] = o.rrs]
            /\ lost' = lost \cup o.gone
  /\ UNCHANGED <<world, phase, rec, ns, sec, audits, walk, after, views, detail>>

(* Without it: Go's resolver, and the system's when that one errs.         *)
LookupIP ==
  /\ phase = "resolve" /\ <<"ip", 1>> \in running
  /\ running' = {}
  /\ \E gone \in {{}, {<<"ip", 1>>}, {<<"ip", 1>>, <<"ip", 2>>}} :
       /\ Cardinality(lost \cup gone) <= world.faults
       /\ lost' = lost \cup gone
       /\ addrs' = IF Cardinality(gone) = 2 THEN addrs ELSE world.addr
  /\ UNCHANGED <<world, phase, rec, ns, sec, audits, walk, after, views, detail>>

(* Mutant: the first error wins over the addresses of the other family.    *)
MutNoAddress == Addresses = {} \/ lost # {}

NoAddress == Addresses = {}

(* No address, by error or not, fails the check before enrichDNS.          *)
Resolved ==
  /\ phase = "resolve" /\ running = {}
  /\ IF NoAddress THEN phase' = "failed" /\ UNCHANGED running
                       ELSE phase' = "pool1" /\ running' = Pool1
  /\ UNCHANGED <<world, addrs, rec, ns, sec, audits, walk, after, views, lost, detail>>

-----------------------------------------------------------------------------
(* The first pool                                                          *)

LookupRecord ==
  /\ phase = "pool1"
  /\ \E l \in Lookups :
       /\ <<l, 1>> \in running
       /\ running' = running \ {<<l, 1>>}
       /\ \E o \in IF l \in Direct THEN QueryDNS(l, world.rec[l]) ELSE Lookup(l, world.rec[l]) :
            /\ rec' = [rec EXCEPT ![l] = o.rrs]
            /\ lost' = lost \cup o.gone
  /\ UNCHANGED <<world, phase, addrs, ns, sec, audits, walk, after, views, detail>>

(* lookupASNs: one goroutine per address, absent from the map on failure.  *)
LookupASN ==
  /\ phase = "pool1"
  /\ \E ip \in Addresses, heard \in BOOLEAN :
       /\ <<"asn", ip>> \in running
       /\ heard \/ MayLose
       /\ running' = running \ {<<"asn", ip>>}
       /\ rec' = [rec EXCEPT !["asn"] = @ \cup {i \in {ip} : heard /\ i \in world.asn}]
       /\ lost' = IF heard THEN lost ELSE lost \cup {<<"asn", ip>>}
  /\ UNCHANGED <<world, phase, addrs, ns, sec, audits, walk, after, views, detail>>

LookupNS ==
  /\ phase = "pool1" /\ <<"ns", 1>> \in running
  /\ running' = running \ {<<"ns", 1>>}
  /\ \E o \in Lookup("ns", {}) :
       /\ ns' = IF o.err THEN << >> ELSE world.ns
       /\ lost' = lost \cup o.gone
  /\ UNCHANGED <<world, phase, addrs, rec, sec, audits, walk, after, views, detail>>

(***************************************************************************)
(* validateDNSSECChain, one exchange at a time.  dnsExchange does not ask  *)
(* again over TCP, so a truncated answer is taken as it is; cut remembers  *)
(* that one was.  Every failure below the root's key set leaves an         *)
(* untrusted level and ends the walk.                                      *)
(***************************************************************************)
End(s)     == [s EXCEPT !.step = "end"]
Refuse(s)  == [End(s) EXCEPT !.levels = Append(@, FALSE)]
Cut(s)     == [s EXCEPT !.cut = TRUE]

Truncated == "dnssec" \in world.truncated /\ world.transport \in {"system", "udp"}

(* Mutant: any key of the zone may match a digest.                         *)
MutMatches(digests, keys, z) == digests \cap keys # {}

(* matchRootAnchor and matchDSToDNSKEY: a key signing key, by its digest.  *)
Matches(digests, keys, z) == digests \cap keys \cap Zone(z).ksk # {}

(* verifyRRSIG: some key of the set made the signature.  Neither its       *)
(* validity period nor the signature over a key set is looked at.          *)
VerifyRRSIG(sig, keys) == sig # None /\ sig \in keys

(* The level is trusted; every key that came may sign the next one.        *)
Trust(s, keys) ==
  [s EXCEPT !.levels = Append(@, TRUE), !.keys = keys, !.zone = @ + 1,
            !.step = IF s.zone = ZoneCount THEN "leaf" ELSE "ds"]

(* Any signature in the answer, an alias's too, makes it a signed one, and *)
(* starts the walk if the host has a registrable domain.                   *)
AnswerSigned == world.aSig # None \/ world.aliasSigned
CheckDNSSECStatus(s, signed) ==
  [s EXCEPT !.ad = world.ad, !.signed = signed,
            !.step = IF signed /\ world.registrable THEN "keys" ELSE "end"]

FetchDNSKEYs(s, keys) ==
  LET digests == IF s.zone = 1 THEN Anchors ELSE Zone(s.zone).ds
  IN  IF keys = {} THEN (IF s.zone = 1 THEN End(s) ELSE Refuse(s))
      ELSE IF Matches(digests, keys, s.zone) THEN Trust(s, keys) ELSE Refuse(s)

FetchSignedDS(s) ==
  LET zone == Zone(s.zone)
  IN  IF zone.ds # {} /\ VerifyRRSIG(zone.dsSig, s.keys) THEN [s EXCEPT !.step = "keys"] ELSE Refuse(s)

(* A signed alias without a signed address has no leaf.                    *)
FetchSignedA(s) ==
  LET good == VerifyRRSIG(world.aSig, s.keys)
  IN  IF world.aSig = None THEN End(s)
      ELSE [End(s) EXCEPT !.leaf = IF good THEN "verified" ELSE "unverified", !.chain = good]

(* What an answer that arrives whole leads to.                             *)
Whole(s) ==
  CASE s.step = "status" -> CheckDNSSECStatus(s, AnswerSigned)
    [] s.step = "keys"   -> FetchDNSKEYs(s, Keys(s.zone))
    [] s.step = "ds"     -> FetchSignedDS(s)
    [] s.step = "leaf"   -> FetchSignedA(s)

(* And one that was truncated: without the signature, with some of the     *)
(* keys, with a part of a set that its signature does not fit.             *)
Parts(s) ==
  CASE s.step = "status" -> {CheckDNSSECStatus(s, FALSE)}
    [] s.step = "keys"   -> {FetchDNSKEYs(s, keys) : keys \in SUBSET Keys(s.zone)}
    [] s.step = "ds"     -> {Refuse(s)}
    [] s.step = "leaf"   -> {End(s), [End(s) EXCEPT !.leaf = "unverified"]}

(* No answer at all.                                                       *)
Silence(s) == IF s.step \in {"status", "leaf"} \/ s.zone = 1 THEN End(s) ELSE Refuse(s)

Dnssec ==
  /\ phase = "pool1" /\ <<"dnssec", 1>> \in running
  /\ \/ sec' = Whole(sec) /\ UNCHANGED lost
     \/ Truncated /\ sec' \in Parts(Cut(sec)) /\ UNCHANGED lost
     \/ MayLose /\ sec' = Silence(sec) /\ lost' = lost \cup {<<"dnssec", 1>>}
  /\ running' = IF sec'.step = "end" THEN running \ {<<"dnssec", 1>>} ELSE running
  /\ UNCHANGED <<world, phase, addrs, rec, ns, audits, walk, after, views, detail>>

(* Mutant: the counter of the WaitGroup is one short.                      *)
MutWaited == Cardinality(running) <= 1

(* wg.Wait                                                                 *)
Waited == running = {}

(* The name servers an audit other than glue takes.                        *)
Capped == 1..(IF Len(ns) < NsCap THEN Len(ns) ELSE NsCap)

JoinPool1 ==
  /\ phase = "pool1" /\ Waited
  /\ IF ns = << >>
     THEN phase' = "cookies" /\ running' = {}
     ELSE phase' = "pool2" /\ running' = ({"chaos", "axfr", "lame"} \X Capped) \cup {<<"parent", 1>>}
  /\ UNCHANGED <<world, addrs, rec, ns, sec, audits, walk, after, views, lost, detail>>

-----------------------------------------------------------------------------
(* The audits of the name servers                                          *)

(* Mutant: the early return of checkGlue skips Done.                       *)
MutGlueTasks(heard) ==
  IF heard /\ world.parent THEN {"glue"} \X (1..Len(ns)) ELSE {<<"parent", 1>>}

(* findParentNS: without a parent to ask, checkGlue returns nothing.       *)
GlueTasks(heard) == IF heard /\ world.parent THEN {"glue"} \X (1..Len(ns)) ELSE {}

Finished(task) == running \ {task}

FindParentNS ==
  /\ phase = "pool2" /\ <<"parent", 1>> \in running
  /\ \E heard \in BOOLEAN :
       /\ heard \/ MayLose
       /\ running' = Finished(<<"parent", 1>>) \cup GlueTasks(heard)
       /\ lost' = IF heard THEN lost ELSE lost \cup {<<"parent", 1>>}
  /\ UNCHANGED <<world, phase, addrs, rec, ns, sec, audits, walk, after, views, detail>>

(* Mutant: every name server is asked about.                               *)
MutInBailiwick(s) == TRUE

(* A name server outside the zone needs no glue and is marked as having it. *)
InBailiwick(s) == s.inside

CheckOneGlue(s, heard) ==
  [inside |-> InBailiwick(s), glue |-> ~InBailiwick(s) \/ (heard /\ s.glue)]

ProbeOneLameNS(s, heard) ==
  [up |-> s.up /\ heard, aa |-> s.up /\ heard /\ s.aa, serial |-> IF s.up /\ heard THEN s.serial ELSE 0, lame |-> FALSE]

(* What an audit of server s can report.  A transfer that breaks off after *)
(* its first records counts as a transfer.                                 *)
Reports(audit, s, heard) ==
  CASE audit = "glue"  -> {CheckOneGlue(s, heard)}
    [] audit = "lame"  -> {ProbeOneLameNS(s, heard)}
    [] audit = "axfr"  -> IF heard THEN {s.up /\ s.open} ELSE {FALSE, s.up /\ s.open}
    [] audit = "chaos" -> {s.up /\ heard /\ s.version}

AuditOne ==
  /\ phase = "pool2"
  /\ \E a \in Audits, i \in 1..Len(ns), heard \in BOOLEAN :
       /\ <<a, i>> \in running
       /\ heard \/ (MayLose /\ ~(a = "glue" /\ ~world.server[ns[i]].inside))
       /\ \E r \in Reports(a, world.server[ns[i]], heard) : audits' = [audits EXCEPT ![a] = Put(@, i, r)]
       /\ running' = Finished(<<a, i>>)
       /\ lost' = IF heard THEN lost ELSE lost \cup {<<a, i>>}
  /\ UNCHANGED <<world, phase, addrs, rec, ns, sec, walk, after, views, detail>>

(* Mutant: answers without authority vote too.                             *)
MutVoters(answers) == {i \in DOMAIN answers : answers[i].serial > 0}

(* Answers that vote for a serial.                                         *)
Voters(answers) == {i \in DOMAIN answers : answers[i].aa /\ answers[i].serial > 0}
Votes(answers, s) == {i \in Voters(answers) : answers[i].serial = s}

(* The serials a scan of the counts in map order can end on.               *)
Consensus(answers) ==
  LET serials == {answers[i].serial : i \in Voters(answers)}
      top == {s \in serials : \A t \in serials : Cardinality(Votes(answers, t)) <= Cardinality(Votes(answers, s))}
  IN  IF serials = {} THEN {0} ELSE top

IsLame(r, consensus) ==
  ~r.up \/ ~r.aa \/ r.serial = 0 \/ (consensus # 0 /\ r.serial # consensus)

Flagged(r, consensus) == [r EXCEPT !.lame = IsLame(r, consensus)]

(* pwg.Wait, after the second half of checkLameDelegation; queryCHAOSAll   *)
(* keeps the servers that said something.                                  *)
JoinPool2 ==
  /\ phase = "pool2" /\ Waited
  /\ \E c \in Consensus(audits["lame"]) :
       audits' = [audits EXCEPT
         !["lame"]  = [i \in DOMAIN @ |-> Flagged(@[i], c)],
         !["chaos"] = [i \in {j \in DOMAIN @ : @[j]} |-> TRUE]]
  /\ phase' = "cookies"
  /\ UNCHANGED <<world, running, addrs, rec, ns, sec, walk, after, views, lost, detail>>

-----------------------------------------------------------------------------
(* The sequential probes                                                   *)

ProbeDNSCookies ==
  /\ phase = "cookies"
  /\ \E heard \in BOOLEAN :
       /\ heard \/ MayLose
       /\ after' = [after EXCEPT !.cookies = heard /\ world.cookies]
       /\ lost' = IF heard THEN lost ELSE lost \cup {<<"cookies", 1>>}
  /\ phase' = IF sec.signed THEN "walk" ELSE "rpki"
  /\ UNCHANGED <<world, running, addrs, rec, ns, sec, audits, walk, views, detail>>

(* The NSEC record that denies the queried name: from the zone's chain, or *)
(* made up for this name by a server that signs online.  The first name is *)
(* inside the zone.  Every later one ends in the label "a", not in the     *)
(* zone: what comes back, if anything, denies a top-level domain and is    *)
(* the root's.                                                             *)
RootLink == [owner |-> NoName, next |-> "aaa"]
QueryNSECNext == IF walk.inside THEN world.link ELSE IF world.rootLink THEN RootLink ELSE NoLink

(* Mutant: the name the walk made up itself is kept.                       *)
MutNamedOwner(link) == {link.owner} \ {NoName}

(* Owners that are names of something.                                     *)
NamedOwner(link) == {link.owner} \ {NoName, Start}

AtApex(link) == link.next \in {NoName, world.apex}

(* Mutant: the cap is checked a hop late.                                  *)
MutLastHop == walk.hops = WalkCap

LastHop == walk.hops + 1 = WalkCap

(* A truncated answer without its NSEC record is as good as lost.          *)
WalkZoneNSEC ==
  /\ phase = "walk"
  /\ \E heard \in BOOLEAN :
       /\ heard \/ MayLose
       /\ lost' = IF heard THEN lost ELSE lost \cup {<<"walk", 1>>}
       /\ LET link == QueryNSECNext
          IN  IF ~heard \/ link = NoLink THEN phase' = "rpki" /\ UNCHANGED walk
              ELSE /\ walk' = [uses |-> TRUE, names |-> walk.names \cup NamedOwner(link),
                               hops |-> walk.hops + (IF AtApex(link) THEN 0 ELSE 1),
                               inside |-> walk.inside /\ AtApex(link)]
                   /\ phase' = IF AtApex(link) \/ LastHop THEN "rpki" ELSE "walk"
  /\ UNCHANGED <<world, running, addrs, rec, ns, sec, audits, after, views, detail>>

(* One goroutine per address with a known origin, each writing its own     *)
(* status; only IPv4 is asked about.                                       *)
ProbeRPKIAll ==
  /\ phase = "rpki"
  /\ LET asked == rec["asn"] \cap addrs["A"]
     IN  \E gone \in SUBSET asked :
           /\ Cardinality(lost) + Cardinality(gone) <= world.faults
           /\ after' = [after EXCEPT !.rpki = [ip \in Addresses |-> IF ip \in asked \ gone THEN world.roa ELSE "UNKNOWN"]]
           /\ lost' = lost \cup {<<"rpki", ip>> : ip \in gone}
  /\ phase' = "propagation" /\ running' = {"view"} \X Resolvers
  /\ UNCHANGED <<world, addrs, rec, ns, sec, audits, walk, views, detail>>

(* NXDOMAIN and the other error codes are no answer.  An answer is its set *)
(* of addresses, or "empty".                                               *)
QueryOneResolver ==
  /\ phase = "propagation"
  /\ \E r \in Resolvers, heard \in BOOLEAN :
       /\ <<"view", r>> \in running
       /\ heard \/ MayLose
       /\ views' = Put(views, r, IF heard THEN world.view[r] ELSE None)
       /\ running' = Finished(<<"view", r>>)
       /\ lost' = IF heard THEN lost ELSE lost \cup {<<"view", r>>}
  /\ UNCHANGED <<world, phase, addrs, rec, ns, sec, audits, walk, after, detail>>

(* Mutant: a resolver that did not answer counts as one that did.          *)
MutAnswered == DOMAIN views

Answered == {r \in DOMAIN views : views[r] \notin {None, "NXDOMAIN"}}

Buckets == {views[r] : r \in Answered}

AggregatePropagation ==
  IF Answered = {} THEN "failed"
  ELSE IF Cardinality(Buckets) > 1 THEN "split"
  ELSE IF Answered = DOMAIN views THEN "consistent"
  ELSE "partial"

JoinPropagation ==
  /\ phase = "propagation" /\ running = {}
  /\ phase' = IF sec.signed \/ sec.ad THEN "nsec3" ELSE "ecs"
  /\ UNCHANGED <<world, running, addrs, rec, ns, sec, audits, walk, after, views, lost, detail>>

(* Mutant: the last arc of the ring is forgotten.                          *)
MutNsec3Covers(owner, next, hash) == owner < hash /\ hash < next

(* hash lies strictly between owner and next, around the ring if need be.  *)
Nsec3Covers(owner, next, hash) ==
  IF owner < next THEN owner < hash /\ hash < next ELSE hash > owner \/ hash < next

(* A denial: [nx, hash, nsec3: set of [owner, next], nsec].                *)
Nsec3Status(d) ==
  IF ~d.nx THEN "no_nxdomain"
  ELSE IF d.nsec3 = {} THEN (IF d.nsec THEN "nsec_only" ELSE "no_nsec3")
  ELSE IF \E n \in d.nsec3 : Nsec3Covers(n.owner, n.next, d.hash) THEN "proven" ELSE "unproven"

ProbeNSEC3Proof ==
  /\ phase = "nsec3"
  /\ \/ \E d \in world.denials :
          /\ after' = [after EXCEPT !.nsec3 = [status |-> Nsec3Status(d), hash |-> d.hash, records |-> d.nsec3]]
          /\ UNCHANGED lost
     \/ /\ MayLose
        /\ after' = [after EXCEPT !.nsec3.status = "no_nxdomain"]
        /\ lost' = lost \cup {<<"nsec3", 1>>}
  /\ phase' = "ecs"
  /\ UNCHANGED <<world, running, addrs, rec, ns, sec, audits, walk, views, detail>>

(* One goroutine per subnet asked for with --ecs, by index.                *)
ProbeECSMultiple ==
  /\ phase = "ecs"
  /\ \E gone \in SUBSET DOMAIN world.ecs :
       /\ Cardinality(lost) + Cardinality(gone) <= world.faults
       /\ after' = [after EXCEPT !.ecs = [s \in DOMAIN world.ecs |-> IF s \in gone THEN {} ELSE world.ecs[s]]]
       /\ lost' = lost \cup {<<"ecs", s>> : s \in gone}
  /\ phase' = "rollover"
  /\ UNCHANGED <<world, running, addrs, rec, ns, sec, audits, walk, views, detail>>

(* The keys of Detail: what is not empty.                                  *)
Published(families) ==
  {l \in DOMAIN rec : rec[l] # {}} \cup {a \in Audits : audits[a] # << >>}
    \cup {k \in {"ns"} : ns # << >>} \cup {k \in {"propagation"} : views # << >>}
    \cup {k \in {"cookies"} : after.cookies} \cup {k \in {"nsec_walk"} : walk.uses}
    \cup {k \in {"rpki"} : after.rpki # << >>} \cup {k \in {"nsec3"} : after.nsec3.status # None}
    \cup {k \in {"ecs"} : after.ecs # << >>} \cup {k \in {"dnssec"} : sec.signed \/ sec.ad}
    \cup {k \in {"algorithm_rollover"} : Cardinality(families) >= 2}

(* The key set once more, for the algorithm families in it; then the       *)
(* report.                                                                 *)
Report ==
  /\ phase = "rollover"
  /\ \E o \in IF sec.signed THEN QueryDNS("dnskey", world.algorithms) ELSE {[rrs |-> {}, gone |-> {}]} :
       /\ after' = [after EXCEPT !.families = o.rrs]
       /\ lost' = lost \cup o.gone
       /\ detail' = Published(o.rrs)
  /\ phase' = "done"
  /\ UNCHANGED <<world, running, addrs, rec, ns, sec, audits, walk, views>>

-----------------------------------------------------------------------------

Next ==
  \/ ResolveViaTransport \/ LookupIP \/ Resolved
  \/ LookupRecord \/ LookupASN \/ LookupNS \/ Dnssec \/ JoinPool1
  \/ FindParentNS \/ AuditOne \/ JoinPool2
  \/ ProbeDNSCookies \/ WalkZoneNSEC \/ ProbeRPKIAll
  \/ QueryOneResolver \/ JoinPropagation
  \/ ProbeNSEC3Proof \/ ProbeECSMultiple \/ Report

(* Every exchange has a deadline, except a zone transfer: each of its      *)
(* reads has one, and it is cut off after ten thousand records.  So every  *)
(* goroutine returns.                                                      *)
Spec == Init /\ [][Next]_vars /\ WF_vars(Next)

-----------------------------------------------------------------------------
(* Properties                                                              *)

Phases == {"resolve", "failed", "pool1", "pool2", "cookies", "walk", "rpki", "propagation", "nsec3", "ecs", "rollover", "done"}
Over   == phase \in {"failed", "done"}

(* Types; the walk never takes more hops than maxNSECWalkHops, and the     *)
(* audits that cap the name servers never look at more.                    *)
TypeOK ==
  /\ world \in Worlds /\ phase \in Phases
  /\ DOMAIN addrs = Families /\ DOMAIN rec = Lookups \cup {"asn"} /\ DOMAIN audits = Audits
  /\ ns \in {<< >>, world.ns}
  /\ sec.step \in {"status", "keys", "ds", "leaf", "end"} /\ sec.zone \in 1..(ZoneCount + 1)
  /\ \A a \in Audits \ {"glue"} : DOMAIN audits[a] \subseteq 1..NsCap
  /\ walk.hops \in 0..WalkCap
  /\ DOMAIN views \subseteq Resolvers
  /\ Cardinality(lost) <= world.faults

(* The check fails for want of an address only when there is none, or when *)
(* every family that has one was lost: an error on one of the two queries  *)
(* of resolveViaTransport does not discard the addresses of the other, and *)
(* a lost retry over TCP does not discard an error-free part.              *)
OneFamilyIsEnough ==
  phase = "failed" => \A f \in Families :
    \/ world.addr[f] = {}
    \/ \E k \in 1..2 : <<f, k>> \in lost
    \/ {<<"ip", 1>>, <<"ip", 2>>} \subseteq lost

(* What validateDNSSECChain checks link by link, said at once: the DS set  *)
(* of each zone it asks about is signed by a key of the one before, and    *)
(* has the digest of one of the zone's key signing keys.                   *)
GoodLink(z) == Zone(z).dsSig \in Keys(z - 1) /\ Zone(z).ds \cap Zone(z).ksk # {}
GoodChain ==
  /\ world.registrable /\ world.aSig # None /\ world.aSig \in Keys(ZoneCount)
  /\ Anchors \cap Zone(1).ksk # {}
  /\ \A z \in 2..ZoneCount : GoodLink(z)

(* ChainValidated is reported only if these links hold from an anchor to   *)
(* the address, and whenever they do, unless an exchange of the walk was   *)
(* lost or its answer truncated: what is missing never becomes trust.  The *)
(* levels listed are trusted up to the one where the walk stopped.         *)
ChainSound ==
  sec.step = "end" =>
    /\ sec.chain => GoodChain /\ Len(sec.levels) = ZoneCount
    /\ GoodChain => sec.chain \/ sec.cut \/ <<"dnssec", 1>> \in lost
    /\ \A i \in 1..Len(sec.levels) - 1 : sec.levels[i]

(* checkLameDelegation never calls a server lame that was heard to answer  *)
(* with authority and with the serial that most of the authoritative       *)
(* answers carry, whatever the order the counts are read in; and a server  *)
(* that differs from such a majority is called lame.                       *)
MajorityNeverLame ==
  phase \notin {"resolve", "pool1", "pool2"} =>
    LET answers == audits["lame"]
        usable  == {i \in DOMAIN answers : answers[i].aa /\ answers[i].serial > 0}
        agree(i) == {j \in usable : answers[j].serial = answers[i].serial}
    IN  \A i \in usable : 2 * Cardinality(agree(i)) > Cardinality(usable)
          => \A j \in DOMAIN answers : answers[j].lame <=> j \notin agree(i)

(* glueHeadline raises its alarm only for a name server inside the zone    *)
(* that the parent has no address for, unless the question to the parent   *)
(* was lost; and it misses none.                                           *)
GlueAlarmEarned ==
  \A i \in DOMAIN audits["glue"] :
    LET s == world.server[world.ns[i]]
        alarm == audits["glue"][i].inside /\ ~audits["glue"][i].glue
    IN  <<"glue", i>> \notin lost => (alarm <=> s.inside /\ ~s.glue)

(* Every name the NSEC walk exposes is a name of the zone, although all    *)
(* its questions but the first are answered by another zone.               *)
WalkNamesReal == walk.names \subseteq world.names

(* The verdict of aggregatePropagation against the resolvers themselves:   *)
(* "consistent" only if every one gave the same addresses, "split" only if *)
(* two that were heard differ, and whenever two gave different addresses,  *)
(* "failed" never if one gave addresses and always if none was heard.      *)
PropagationSound ==
  phase \in {"nsec3", "ecs", "rollover", "done"} =>
    LET heard(r) == <<"view", r>> \notin lost
        gives(r) == heard(r) /\ world.view[r] # "NXDOMAIN"
    IN  /\ AggregatePropagation = "consistent" => \A r, q \in Resolvers : gives(r) /\ world.view[r] = world.view[q]
        /\ AggregatePropagation = "split" => \E r, q \in Resolvers : heard(r) /\ heard(q) /\ world.view[r] # world.view[q]
        /\ (\E r, q \in Resolvers : gives(r) /\ gives(q) /\ world.view[r] # world.view[q]) => AggregatePropagation = "split"
        /\ AggregatePropagation = "failed" => \A r \in Resolvers : ~gives(r)
        /\ (\A r \in Resolvers : ~heard(r)) => AggregatePropagation = "failed"

(* The hashes met going round the ring from owner until next.              *)
Arc(owner, next) ==
  LET span == IF next = owner THEN RingSize ELSE (next - owner) % RingSize
  IN  {(owner + k) % RingSize : k \in 1..span - 1}

(* probeNSEC3Proof says proven exactly when the hash of the absent name    *)
(* lies on the arc of one of the records, the arc through zero included.   *)
Nsec3Sound ==
  after.nsec3.status \in {"proven", "unproven"} =>
    (after.nsec3.status = "proven" <=> \E n \in after.nsec3.records : after.nsec3.hash \in Arc(n.owner, n.next))

(* enrichDNS is best effort: what is lost is missing and nothing else is.  *)
(* A record type that exists is in Detail unless its own lookup was lost,  *)
(* every audited server has a result of its own, at its index, every       *)
(* public resolver has an entry, and a signed zone is called signed unless *)
(* the signed answer was lost or truncated.                                *)
LossIsLocal ==
  phase = "done" =>
    /\ \A l \in Lookups : l \in detail => world.rec[l] # {}
    /\ \A l \in Lookups : world.rec[l] # {} /\ l \notin detail => \E k \in 1..2 : <<l, k>> \in lost
    /\ AnswerSigned /\ "dnssec" \notin detail => sec.cut \/ <<"dnssec", 1>> \in lost
    /\ ns = world.ns \/ <<"ns", 1>> \in lost
    /\ \A a \in {"axfr", "lame"} : DOMAIN audits[a] = Capped
    /\ \A i \in Capped : <<"lame", i>> \notin lost => audits["lame"][i].up = world.server[ns[i]].up
    /\ ns # << >> /\ world.parent /\ "glue" \notin detail => <<"parent", 1>> \in lost
    /\ DOMAIN views = Resolvers

(* Both cryptographic verdicts agree with the records they are about: the  *)
(* chain of trust, and the proof that a name does not exist.               *)
DnssecSound == ChainSound /\ Nsec3Sound

(* Of the servers that were heard, none is accused wrongly where the       *)
(* answers have a majority, and none at fault is passed over: a name       *)
(* server of a lame delegation or of missing glue, a resolver of addresses *)
(* that differ from the others'.  What becomes of servers that were not    *)
(* heard, of ties and of negative answers is in PromisesKept.              *)
ServersJudged == MajorityNeverLame /\ GlueAlarmEarned /\ PropagationSound

(* A check under loss: it goes on with what arrived, loses only what was   *)
(* lost, and makes nothing up in its place.                                *)
BestEffort == TypeOK /\ OneFamilyIsEnough /\ LossIsLocal /\ WalkNamesReal

(* The check ends: every pool is joined and the walk is cut off.           *)
AuditEnds == <>Over

-----------------------------------------------------------------------------
(* What seven comments of the code promise.  A check may break all of them *)
(* at once: the run that shows it refutes each of them.                    *)

(* "self-verified every DS / DNSKEY / RRSIG" (dnssec.go 14): a validated   *)
(* chain has key sets signed by the keys that the digests vouch for, and   *)
(* no signature in it is out of date.                                      *)
KeySetsVerified ==
  sec.chain => \A z \in 1..ZoneCount :
    Zone(z).keySig \in Zone(z).ksk \cap (IF z = 1 THEN Anchors ELSE Zone(z).ds)

SignaturesInForce == sec.chain => world.inForce

(* "A nameserver is lame for a zone when it answers queries ... but does   *)
(* NOT claim authority", or its SOA differs (dns_lame.go 11).              *)
LameAnswers == \A i \in DOMAIN audits["lame"] : audits["lame"][i].lame => audits["lame"][i].up

(* "the SOA serial that the majority of reachable+AA-set NS agreed on"     *)
(* (dns_lame.go 60): no server is called lame for its serial where no      *)
(* serial has a majority.                                                  *)
MajorityDecides ==
  LET answers == audits["lame"]
  IN  (\E i \in Voters(answers) : answers[i].lame)
        => \E i \in Voters(answers) : 2 * Cardinality(Votes(answers, answers[i].serial)) > Cardinality(Voters(answers))

(* "abort silently rather than misreport" (dns_glue.go 49): the alarm is   *)
(* raised only for a server inside the zone that the parent has no address *)
(* for.                                                                    *)
GlueAlarmTrue ==
  \A i \in DOMAIN audits["glue"] :
    audits["glue"][i].inside /\ ~audits["glue"][i].glue
      => world.server[world.ns[i]].inside /\ ~world.server[world.ns[i]].glue

(* "Stale negative-cache entries ... they all show up here"                *)
(* (dns_propagation.go 19): a resolver that denies the name while another  *)
(* gives its addresses is disagreement.                                    *)
NegativeCacheShows ==
  LET heard == {r \in Resolvers : <<"view", r>> \notin lost}
  IN  (\E r, q \in heard : world.view[r] = "NXDOMAIN" /\ world.view[q] # "NXDOMAIN")
        => AggregatePropagation = "split"

(* "By chaining queries we collect every name in the zone"                 *)
(* (dns_nsec_walk.go 14): a walk that loses no answer and is told of a     *)
(* next name has that name in the end.                                     *)
WalkChains ==
  walk.hops > 0 /\ world.link.next \in world.names /\ <<"walk", 1>> \notin lost
    => world.link.next \in walk.names

PromisesKept ==
  phase = "done" =>
    \/ KeySetsVerified \/ SignaturesInForce \/ LameAnswers \/ MajorityDecides
    \/ GlueAlarmTrue \/ NegativeCacheShows \/ WalkChains
=============================================================================
