---------------------------- MODULE Deliverability ----------------------------
(***************************************************************************)
(* The two checks about mail, one after the other as runAllChecks calls    *)
(* them.  checkMail asks for the MX hosts, runs nine probes side by side   *)
(* (one of them a pool of its own, over the DKIM selectors), asks for the  *)
(* keys of the selectors found, scores seven dimensions, and asks the      *)
(* destinations of DMARC reports whether they want them.  checkReputation  *)
(* runs one goroutine per address and blocklist and one per address for    *)
(* its reverse name, and judges what they leave.                           *)
(*                                                                         *)
(* world is what the DNS and the mail servers hold; it is external.  An    *)
(* exchange may be lost, at most world.faults of them; lost remembers      *)
(* which.  A goroutine touches nothing but its own result (or a shared     *)
(* list, under the mutex, as its last act), so each is one step.           *)
(***************************************************************************)
EXTENDS Integers, Sequences, FiniteSets, FiniteSetsExt, TLC, Verdicts

CONSTANTS Worlds,
          Selectors,   \* commonDKIMSelectors
          Zones,       \* dnsblZones: records with name, tier and confidence
          MxCap,       \* MX hosts that are asked for STARTTLS (3)
          SpfLimit,    \* lookups an SPF record may cause (10)
          Nil

ASSUME BoundsAssumption == MxCap \in Nat \ {0} /\ SpfLimit \in Nat

(* No zone is listed twice in dnsblZones, and each has one of the four     *)
(* levels of confidence.  A name an address points back to answers with    *)
(* the address ("own"), with others, with an alias alone, or not; a        *)
(* blocklist says of an address "none", a listing, the sentinel of a       *)
(* resolver it does not serve, the answer of a parked zone, or a refusal   *)
(* that only its TXT record tells from a listing.                          *)
ASSUME ListsAssumption ==
  /\ \A y, z \in Zones : y.name = z.name => y = z
  /\ \A z \in Zones : z.confidence \in {"production", "operational", "heuristic", "experimental"}
  /\ \A w \in Worlds :
       /\ IsFiniteSet(DOMAIN w.ip)
       /\ \A a \in DOMAIN w.ip :
            /\ w.ip[a] \in Seq([forward : {"own", "others", "alias", "none"}, generic : BOOLEAN])
            /\ \A z \in Zones : w.listing[a][z.name] \in {"none", "listed", "sentinel", "parked", "refused"}

VARIABLES
  world,
  phase,     \* what is going on: the MX query, a pool, the keys, the end
  running,   \* goroutines of the pool at work
  mail,      \* the nine results of checkMail's pool
  keys,      \* dkimKeys: selector -> strong
  score,     \* of checkMail
  auths,     \* endpoint -> dmarcExternalAuth
  hits,      \* dnsblHit: <<address, zone>>, in order of arrival
  fcrdns,    \* address -> verdict, once known
  declined,  \* ErrorsObserved
  checks,    \* the entries of the two checks
  lost       \* exchanges lost

vars == <<world, phase, running, mail, keys, score, auths, hits, fcrdns, declined, checks, lost>>

Results == {"spf", "dmarc", "sts", "rpt", "bimi", "mxtls", "dane", "v6", "dkim"}

Init ==
  /\ world \in Worlds
  /\ phase = "mx" /\ running = {}
  /\ mail = [r \in Results |-> CASE r \in {"spf", "dmarc", "sts"} -> Nil
                                 [] r = "rpt" -> "none" [] r = "bimi" -> FALSE
                                 [] OTHER -> << >>]
  /\ keys = << >> /\ score = 0 /\ auths = << >>
  /\ hits = << >> /\ fcrdns = << >> /\ declined = FALSE
  /\ checks = [Mail |-> NotRun, Reputation |-> NotRun]
  /\ lost = {}

(* What may be lost of the exchanges E of a step.                          *)
Losses(E) == {gone \in SUBSET E : Cardinality(lost \cup gone) <= world.faults}

(* The first of the records that parse (places), nil if none does.         *)
First(records, places) == IF places = {} THEN Nil ELSE records[Min(places)]

-------------------------------------------------------------------------------
(* The records of checkMail.  An SPF record is the sequence of its tokens: *)
(* "v=spf1", the five spellings of "all", "lookup" for a mechanism that    *)
(* starts like one that asks the DNS, and "other".                         *)

Alls == {"-all", "~all", "?all", "+all"}
Tokens == Alls \cup {"v=spf1", "all", "lookup", "other"}

(* parseSPF: the last qualified "all" decides; a bare "all" starts with    *)
(* the letter of the mechanism "a" and counts as a lookup.                 *)
ParseSPF(tokens) ==
  LET ends == {i \in DOMAIN tokens : tokens[i] \in Alls}
      all  == IF ends = {} THEN "absent" ELSE tokens[Max(ends)]
      lookups == Cardinality({i \in DOMAIN tokens : tokens[i] \in {"lookup", "all"}})
  IN  [all |-> all, lookups |-> lookups,
       issues |-> {i \in {"no_all", "+all", "lookups"} :
                     \/ i = "no_all" /\ all = "absent"
                     \/ i = "+all" /\ all = "+all"
                     \/ i = "lookups" /\ lookups > SpfLimit}]

IsSPF(tokens) == Head(tokens) = "v=spf1"

TheSPF == First(world.txt, {i \in DOMAIN world.txt : IsSPF(world.txt[i])})

ProbeSPF(gone) ==
  LET record == IF gone = {} THEN TheSPF ELSE Nil
  IN  IF record = Nil THEN Nil ELSE ParseSPF(record)

(* parseDMARC and splitDMARCAddrs, on a record already cut into tags.      *)
ParseDMARC(r) ==
  [policy |-> r.p, endpoints |-> r.rua \o r.ruf,
   issues |-> {i \in {"no_p", "p=none", "no_reports", "pct"} :
                 \/ i = "no_p" /\ r.p = "absent"
                 \/ i = "p=none" /\ r.p = "none"
                 \/ i = "no_reports" /\ r.rua = << >> /\ r.ruf = << >>
                 \/ i = "pct" /\ r.pct < 100}]

IsDMARC(r) == r.v = "DMARC1"

TheDMARC == First(world.dmarc, {i \in DOMAIN world.dmarc : IsDMARC(world.dmarc[i])})

ProbeDMARC(gone) ==
  LET record == IF gone = {} THEN TheDMARC ELSE Nil
  IN  IF record = Nil THEN Nil ELSE ParseDMARC(record)

(* probeMTASTS: the TXT record, then the policy over HTTPS, which must be  *)
(* answered with 200.                                                      *)
ProbeMTASTS(gone) ==
  LET dns    == world.sts.dns /\ <<"sts", 1>> \notin gone
      policy == dns /\ <<"sts", 2>> \notin gone /\ world.sts.status = 200
  IN  [dns |-> dns, policy |-> policy, mode |-> IF policy THEN world.sts.mode ELSE "absent"]

Capped(s) == SubSeq(s, 1, IF Len(s) < MxCap THEN Len(s) ELSE MxCap)

(* probeSTARTTLSForDomain asks for the MX hosts again, and takes the first *)
(* few of them one by one.                                                 *)
ProbeSTARTTLSForDomain(gone) ==
  IF <<"mxtls", 0>> \in gone THEN << >>
  ELSE LET hosts == Capped(world.mx)
       IN  [i \in DOMAIN hosts |-> IF <<"mxtls", i>> \in gone THEN "down" ELSE world.smtp[hosts[i]]]

(* Mutant: any TLSA record will do.                                        *)
MutProbeMXDANE(gone) ==
  [i \in DOMAIN world.mx |->
     LET found == <<"dane", i>> \notin gone /\ world.tlsa[world.mx[i]] # {} IN [found |-> found, compliant |-> found]]

(* probeMXDANE: only the usages 2 and 3 are for SMTP.                      *)
ProbeMXDANE(gone) ==
  [i \in DOMAIN world.mx |->
     LET usages == IF <<"dane", i>> \in gone THEN {} ELSE world.tlsa[world.mx[i]]
     IN  [found |-> usages # {}, compliant |-> usages \cap {2, 3} # {}]]

(* probeMXIPv6: the address counts, whether port 25 can be reached or not. *)
ProbeMXIPv6(gone) ==
  [i \in DOMAIN world.mx |->
     LET aaaa == world.aaaa[world.mx[i]] /\ <<"v6", i>> \notin gone
     IN  [aaaa |-> aaaa, reachable |-> aaaa /\ <<"v6", -i>> \notin gone /\ world.smtp[world.mx[i]] # "down"]]

(* probeTLSRPT: a record, "bare" or with an address for reports ("rua").   *)
ProbeTLSRPT(gone) == IF gone = {} THEN world.rpt ELSE "none"

Exchanges(r) ==
  {r} \X (CASE r = "sts"   -> {1, 2}
            [] r = "mxtls" -> 0..Len(Capped(world.mx))
            [] r = "dane"  -> DOMAIN world.mx
            [] r = "v6"    -> DOMAIN world.mx \cup {-i : i \in DOMAIN world.mx}
            [] OTHER -> {1})

Answer(r, gone) ==
  CASE r = "spf"   -> ProbeSPF(gone)
    [] r = "dmarc" -> ProbeDMARC(gone)
    [] r = "sts"   -> ProbeMTASTS(gone)
    [] r = "rpt"   -> ProbeTLSRPT(gone)
    [] r = "bimi"  -> world.bimi /\ gone = {}
    [] r = "mxtls" -> ProbeSTARTTLSForDomain(gone)
    [] r = "dane"  -> ProbeMXDANE(gone)
    [] r = "v6"    -> ProbeMXIPv6(gone)

(* What a domain is made of.  Nil stands for no record, so it is not one.  *)
(* A TXT record of a selector looks like DKIM or not; p is "revoked" if    *)
(* its tag is empty or missing, "blank" in a record without text.          *)
ASSUME DomainsAssumption ==
  \A w \in Worlds :
    /\ w.faults \in Nat /\ w.mx \in Seq(DOMAIN w.smtp) /\ DOMAIN w.txt \subseteq Nat /\ DOMAIN w.dmarc \subseteq Nat
    /\ \A i \in DOMAIN w.txt : w.txt[i] \in Seq(Tokens) /\ Nil \notin {w.txt[i], ParseSPF(w.txt[i])}
    /\ \A i \in DOMAIN w.dmarc : Nil \notin {w.dmarc[i], ParseDMARC(w.dmarc[i])}
    /\ w.sts.dns \in BOOLEAN /\ Nil \notin [dns : BOOLEAN, policy : BOOLEAN, mode : {w.sts.mode, "absent"}]
    /\ w.rpt \in {"none", "bare", "rua"}
    /\ \A s \in Selectors :
         /\ w.dkim[s] \in Seq([looks : BOOLEAN, p : {"key", "revoked", "blank"}, k : STRING, kind : STRING, bits : Nat])
         /\ \A i \in DOMAIN w.dkim[s] : w.dkim[s][i].p = "key" => w.dkim[s][i].looks

-------------------------------------------------------------------------------
(* checkMail                                                               *)

Tasks == {<<r, 1>> : r \in Results \ {"dkim"}} \cup ({"dkim"} \X Selectors)

SkipMail(summary) ==
  /\ checks' = [checks EXCEPT !.Mail = Skip(summary)]
  /\ phase' = "lists" /\ UNCHANGED running

(* The early returns, and the MX query: its error reads as no MX.          *)
LookupMX ==
  /\ phase = "mx"
  /\ \E gone \in Losses({<<"mx", 1>>}) :
       IF ~world.resolved THEN gone = {} /\ SkipMail("no_dns") /\ UNCHANGED lost
       ELSE IF world.literal THEN gone = {} /\ SkipMail("verdict") /\ UNCHANGED lost
       ELSE /\ lost' = lost \cup gone
            /\ IF world.mx = << >> \/ gone # {} THEN SkipMail("no_mx")
               ELSE phase' = "probes" /\ running' = Tasks /\ UNCHANGED checks
  /\ UNCHANGED <<world, mail, keys, score, auths, hits, fcrdns, declined>>

(* One of the eight probes that have their result to themselves.           *)
ProbeRecord ==
  /\ phase = "probes"
  /\ \E r \in Results \ {"dkim"} :
       /\ <<r, 1>> \in running
       /\ running' = running \ {<<r, 1>>}
       /\ \E gone \in Losses(Exchanges(r)) :
            mail' = [mail EXCEPT ![r] = Answer(r, gone)] /\ lost' = lost \cup gone
  /\ UNCHANGED <<world, phase, keys, score, auths, hits, fcrdns, declined, checks>>

(* A selector is found if any of its TXT records looks like DKIM.          *)
Advertised(s) == \E i \in DOMAIN world.dkim[s] : world.dkim[s][i].looks

(* probeDKIMSelectors: the selectors are appended as they answer.  Its own *)
(* WaitGroup is inside the one of checkMail.                               *)
ProbeDKIMSelector ==
  /\ phase = "probes"
  /\ \E s \in Selectors :
       /\ <<"dkim", s>> \in running
       /\ running' = running \ {<<"dkim", s>>}
       /\ \E gone \in Losses({<<"dkim", s>>}) :
            /\ mail' = [mail EXCEPT !.dkim = IF gone = {} /\ Advertised(s) THEN Append(@, s) ELSE @]
            /\ lost' = lost \cup gone
  /\ UNCHANGED <<world, phase, keys, score, auths, hits, fcrdns, declined, checks>>

(* Mutant: wg.Add(8) for nine probes.                                      *)
MutWaited == Cardinality(running) <= 1

Waited == running = {}

JoinProbes ==
  /\ phase = "probes" /\ Waited
  /\ phase' = "keys" /\ running' = {}
  /\ UNCHANGED <<world, mail, keys, score, auths, hits, fcrdns, declined, checks, lost>>

(* parseDKIMKey: k is what the record says the key is, kind and bits what  *)
(* it is.  Of a key tagged ed25519 only the length is looked at, 32 bytes, *)
(* and the encoding of any RSA or ECDSA key is longer.                     *)
ParseDKIMKey(key) ==
  /\ key.p = "key"
  /\ CASE key.k \in {"absent", "rsa"} -> key.kind = "rsa" /\ key.bits >= 1024
       [] key.k = "ed25519"     -> key.kind \in {"rsa", "ecdsa"} \/ key.bits >= 256
       [] key.k = "ecdsa"       -> key.kind = "ecdsa" /\ key.bits >= 256
       [] OTHER                 -> FALSE

-------------------------------------------------------------------------------
(* The score                                                               *)

Points(d) ==
  CASE d = "spf" /\ mail.spf # Nil -> (CASE mail.spf.all = "-all" -> 20 [] mail.spf.all = "~all" -> 12 [] OTHER -> 0)
    [] d = "dmarc" /\ mail.dmarc # Nil ->
         (CASE mail.dmarc.policy = "reject" -> 20 [] mail.dmarc.policy = "quarantine" -> 12
            [] mail.dmarc.policy = "none" -> 5 [] OTHER -> 0)
    [] d = "dkim" /\ mail.dkim # << >> -> IF \E s \in DOMAIN keys : keys[s] THEN 15 ELSE 5
    [] d = "sts" /\ mail.sts # Nil /\ mail.sts.policy ->
         (CASE mail.sts.mode = "enforce" -> 15 [] mail.sts.mode = "testing" -> 8 [] OTHER -> 0)
    [] d = "rpt" /\ mail.rpt # "none" -> 10
    [] d = "dane" /\ (\E i \in DOMAIN mail.dane : mail.dane[i].compliant) -> 10
    [] d = "v6" /\ (\E i \in DOMAIN mail.v6 : mail.v6[i].aaaa) -> 10
    [] OTHER -> 0

Dimensions == {"spf", "dmarc", "dkim", "sts", "rpt", "dane", "v6"}

(* What the seven dimensions add up to.                                    *)
Total ==
  Points("spf") + Points("dmarc") + Points("dkim") + Points("sts") + Points("rpt") + Points("dane") + Points("v6")

Endpoints == IF mail.dmarc = Nil THEN << >> ELSE mail.dmarc.endpoints

(* The selectors that answered.                                            *)
Found == {mail.dkim[i] : i \in DOMAIN mail.dkim}

(* probeDKIMKeyStrength, once the pool is joined: every selector found is  *)
(* asked again, its first TXT record is read whatever it is, and one whose *)
(* second answer is lost, or whose first record is blank, is left out.     *)
ProbeDKIMKeyStrength ==
  /\ phase = "keys"
  /\ \E gone \in Losses({"key"} \X Found) :
       LET heard == {s \in Found : <<"key", s>> \notin gone /\ world.dkim[s][1].p # "blank"}
       IN  /\ keys' = [s \in heard |-> ParseDKIMKey(world.dkim[s][1])]
           /\ lost' = lost \cup gone
  /\ phase' = "score"
  /\ UNCHANGED <<world, running, mail, score, auths, hits, fcrdns, declined, checks>>

Score ==
  /\ phase = "score"
  /\ score' = Total
  /\ phase' = "endpoints"
  /\ running' = {"auth"} \X DOMAIN Endpoints
  /\ auths' = [i \in DOMAIN Endpoints |-> Nil]
  /\ UNCHANGED <<world, mail, keys, hits, fcrdns, declined, checks, lost>>

(* checkOneDMARCAuth: a destination under the same apex needs no leave.    *)
CheckOneDMARCAuth(e, heard) ==
  [external |-> e.dest = "other",
   authorized |-> e.dest = "own" \/ (e.dest = "other" /\ heard /\ e.leave)]

CheckDMARCExternalAuth ==
  /\ phase = "endpoints"
  /\ \E i \in DOMAIN Endpoints :
       /\ <<"auth", i>> \in running
       /\ running' = running \ {<<"auth", i>>}
       /\ \E gone \in Losses(IF Endpoints[i].dest = "other" THEN {<<"auth", i>>} ELSE {}) :
            /\ auths' = [auths EXCEPT ![i] = CheckOneDMARCAuth(Endpoints[i], gone = {})]
            /\ lost' = lost \cup gone
  /\ UNCHANGED <<world, phase, mail, keys, score, hits, fcrdns, declined, checks>>

ReportMail ==
  /\ phase = "endpoints" /\ Waited
  /\ checks' = [checks EXCEPT !.Mail = ScoreVerdict(score)]
  /\ phase' = "lists" /\ running' = {}
  /\ UNCHANGED <<world, mail, keys, score, auths, hits, fcrdns, declined, lost>>

-------------------------------------------------------------------------------
(* checkReputation                                                         *)

Addresses == DOMAIN world.ip

StartLists ==
  /\ phase = "lists"
  /\ IF world.resolved /\ Addresses # {}
     THEN /\ running' = ({"fcrdns"} \X Addresses) \cup ({"list"} \X Addresses \X Zones)
          /\ phase' = "reputation" /\ UNCHANGED checks
     ELSE /\ checks' = [checks EXCEPT !.Reputation = Skip("no_v4")]
          /\ phase' = "done" /\ UNCHANGED running
  /\ UNCHANGED <<world, mail, keys, score, auths, hits, fcrdns, declined, lost>>

(* Mutant: any answer is a listing.                                        *)
MutValidAnswer(answer) == TRUE

ValidAnswer(answer) == answer \in {"listed", "refused"}

(* One address asked of one zone: the A record, and if it is valid the TXT *)
(* record, without which a refusal is taken for a listing.                 *)
ProbeReputation ==
  /\ phase = "reputation"
  /\ \E a \in Addresses, z \in Zones :
       LET answer == world.listing[a][z.name]
       IN  /\ <<"list", a, z>> \in running
           /\ running' = running \ {<<"list", a, z>>}
           /\ \E gone \in Losses({<<"list", a, z.name>>, <<"txt", a, z.name>>}) :
                LET heard   == answer # "none" /\ <<"list", a, z.name>> \notin gone
                    refused == \/ ~ValidAnswer(answer)
                               \/ answer = "refused" /\ <<"txt", a, z.name>> \notin gone
                IN  /\ declined' = (declined \/ (heard /\ refused))
                    /\ hits' = IF heard /\ ~refused THEN Append(hits, <<a, z>>) ELSE hits
                    /\ lost' = lost \cup gone
  /\ UNCHANGED <<world, phase, mail, keys, score, auths, fcrdns, checks>>

(* The names an address points back to are taken in order until one has    *)
(* the address; otherwise the last that answered decides.                  *)
FCrDNS(a, gone) ==
  LET ptrs       == IF <<"ptr", a, 0>> \in gone THEN << >> ELSE world.ip[a]
      Forward(i) == IF <<"fwd", a, i>> \in gone THEN "none" ELSE ptrs[i].forward
      confirmed  == {i \in DOMAIN ptrs : Forward(i) = "own"}
      answered   == {i \in DOMAIN ptrs : Forward(i) # "none"}
  IN  IF confirmed # {} THEN (IF ptrs[Min(confirmed)].generic THEN "generic_ptr" ELSE "pass")
      ELSE IF answered = {} THEN "no_ptr"
      ELSE IF Forward(Max(answered)) = "alias" THEN "no_forward" ELSE "mismatch"

ProbeFCrDNS ==
  /\ phase = "reputation"
  /\ \E a \in Addresses :
       /\ <<"fcrdns", a>> \in running
       /\ running' = running \ {<<"fcrdns", a>>}
       /\ \E gone \in Losses({<<"ptr", a, 0>>} \cup {<<"fwd", a, i>> : i \in DOMAIN world.ip[a]}) :
            /\ fcrdns' = [b \in DOMAIN fcrdns \cup {a} |-> IF b = a THEN FCrDNS(a, gone) ELSE fcrdns[b]]
            /\ lost' = lost \cup gone
  /\ UNCHANGED <<world, phase, mail, keys, score, auths, hits, declined, checks>>

(* Mutant: the confidence of the list is not looked at.                    *)
MutBlockerHit(z) == z.tier \in {"composite", "spam", "exploit", "botnet"}

BlockerHit(z) ==
  /\ z.confidence \in {"production", "operational"}
  /\ z.tier \in {"composite", "spam", "exploit", "botnet"}

(* The hits are sorted into blockers, allowlists and the rest.             *)
Side(z) == IF z.tier = "allowlist" THEN "allowlist" ELSE IF BlockerHit(z) THEN "blocker" ELSE "other"

HitsOf(side) == {i \in DOMAIN hits : Side(hits[i][2]) = side}

Unconfirmed == {a \in DOMAIN fcrdns : fcrdns[a] # "pass"}

JudgeReputation ==
  /\ phase = "reputation" /\ running = {}
  /\ checks' = [checks EXCEPT !.Reputation =
       ReputationVerdict(Cardinality(HitsOf("blocker")), Cardinality(HitsOf("other")), Cardinality(Unconfirmed))]
  /\ phase' = "done" /\ running' = {}
  /\ UNCHANGED <<world, mail, keys, score, auths, hits, fcrdns, declined, lost>>

-------------------------------------------------------------------------------
Done == phase = "done" /\ UNCHANGED vars

Next ==
  \/ LookupMX \/ ProbeRecord \/ ProbeDKIMSelector \/ JoinProbes \/ ProbeDKIMKeyStrength
  \/ Score \/ CheckDMARCExternalAuth \/ ReportMail
  \/ StartLists \/ ProbeReputation \/ ProbeFCrDNS \/ JudgeReputation \/ Done

Spec == Init /\ [][Next]_vars

-------------------------------------------------------------------------------
TypeOK ==
  /\ world \in Worlds
  /\ phase \in {"mx", "probes", "keys", "score", "endpoints", "lists", "reputation", "done"}
  /\ DOMAIN mail = Results
  /\ score \in 0..100
  /\ DOMAIN keys \subseteq Selectors /\ \A s \in DOMAIN keys : keys[s] \in BOOLEAN
  /\ \A i \in DOMAIN hits : hits[i] \in Addresses \X Zones
  /\ DOMAIN fcrdns \subseteq Addresses
  /\ declined \in BOOLEAN
  /\ \A c \in DOMAIN checks : checks[c].status \in Statuses \cup {"none"}
  /\ Cardinality(lost) <= world.faults

(* The rubric of docs/MAIL_SCORING.md, read off the world.  A key is       *)
(* strong or weak (its grading table, which knows revoked and malformed    *)
(* records besides).                                                       *)
Tagged(key) == key.p = "key" /\ (key.k = key.kind \/ <<key.k, key.kind>> = <<"absent", "rsa">>)

StrongKey(key) ==
  /\ Tagged(key)
  /\ \/ key.kind = "rsa" /\ key.bits >= 1024
     \/ key.kind \in {"ed25519", "ecdsa"} /\ key.bits >= 256

WeakKey(key) == Tagged(key) /\ key.kind \in {"rsa", "ecdsa"} /\ ~StrongKey(key)

StrongSelectors == {s \in Selectors : \E i \in DOMAIN world.dkim[s] : StrongKey(world.dkim[s][i])}
WeakSelectors   == {s \in Selectors : \E i \in DOMAIN world.dkim[s] : WeakKey(world.dkim[s][i])}

(* The terminal directive of an SPF record: its last qualified "all".      *)
Ends(tokens, all) ==
  \E i \in DOMAIN tokens : tokens[i] = all /\ \A j \in DOMAIN tokens : j > i => tokens[j] \notin Alls

Rubric(d) ==
  LET hosts == {world.mx[i] : i \in DOMAIN world.mx}
  IN  CASE d = "spf" /\ TheSPF # Nil -> (CASE Ends(TheSPF, "-all") -> 20 [] Ends(TheSPF, "~all") -> 12 [] OTHER -> 0)
        [] d = "dmarc" /\ TheDMARC # Nil ->
             (CASE TheDMARC.p = "reject" -> 20 [] TheDMARC.p = "quarantine" -> 12
                [] TheDMARC.p = "none" -> 5 [] OTHER -> 0)
        [] d = "dkim" -> IF StrongSelectors # {} THEN 15 ELSE IF WeakSelectors # {} THEN 5 ELSE 0
        [] d = "sts" /\ world.sts.dns /\ world.sts.status = 200 ->
             (CASE world.sts.mode = "enforce" -> 15 [] world.sts.mode = "testing" -> 8 [] OTHER -> 0)
        [] d = "rpt" /\ world.rpt = "rua" -> 10
        [] d = "dane" /\ (\E h \in hosts : {2, 3} \cap world.tlsa[h] # {}) -> 10
        [] d = "v6" /\ (\E h \in hosts : world.aaaa[h]) -> 10
        [] OTHER -> 0

Deserved ==
  Rubric("spf") + Rubric("dmarc") + Rubric("dkim") + Rubric("sts") + Rubric("rpt") + Rubric("dane") + Rubric("v6")

(* Where the code and the rubric part: a TLS-RPT record without rua, and a *)
(* selector whose TXT records are anything but one key the table grades.   *)
Agreed(d) ==
  /\ d = "rpt" => world.rpt # "bare"
  /\ d = "dkim" => \A s \in Selectors : \A i \in DOMAIN world.dkim[s] :
                     i = 1 /\ (StrongKey(world.dkim[s][i]) \/ WeakKey(world.dkim[s][i]))

Suffered(d) == \E e \in lost : e[1] = d \/ (d = "dkim" /\ e[1] = "key")

Scored == checks.Mail.status # "skip" /\ phase \in {"endpoints", "lists", "reputation", "done"}

(* Where the two agree, no dimension of the score is credited beyond the   *)
(* rubric, whatever the order of the probes, and a lost exchange costs its *)
(* own dimension and no other; what is credited when the pool is joined is *)
(* what stands in the report (checkMail, mail.go 359).                     *)
ScoreFaithful ==
  Scored =>
    /\ \A d \in Dimensions :
         Agreed(d) => Points(d) <= Rubric(d) /\ (Points(d) = Rubric(d) \/ Suffered(d))
    /\ score = Total
    /\ checks.Mail.status = "ok" => score >= 80 /\ ((\A d \in Dimensions : Agreed(d)) => Deserved >= 80)

(* The results per selector, per host and per endpoint are of the selector *)
(* (once), the host and the endpoint they stand for, and complete but for  *)
(* what was lost (probeDKIMSelectors, probeSTARTTLSForDomain, probeMXDANE, *)
(* checkDMARCExternalAuth).                                                *)
ResultsPlaced ==
  /\ Scored =>
       /\ \A i, j \in DOMAIN mail.dkim : mail.dkim[i] = mail.dkim[j] => i = j
       /\ \A s \in Selectors : (\E i \in DOMAIN mail.dkim : mail.dkim[i] = s)
                                 <=> (Advertised(s) /\ <<"dkim", s>> \notin lost)
       /\ <<"mxtls", 0>> \notin lost => Len(mail.mxtls) = (IF Len(world.mx) < MxCap THEN Len(world.mx) ELSE MxCap)
       /\ \A i \in DOMAIN mail.mxtls : mail.mxtls[i] = world.smtp[world.mx[i]] \/ <<"mxtls", i>> \in lost
       /\ \A i \in DOMAIN mail.dane : mail.dane[i].found <=> (world.tlsa[world.mx[i]] # {} /\ <<"dane", i>> \notin lost)
  /\ checks.Mail.status \in {"ok", "warn"} =>
       \A i \in DOMAIN Endpoints :
          auths[i].authorized <=> \/ Endpoints[i].dest = "own"
                                  \/ Endpoints[i].dest = "other" /\ Endpoints[i].leave /\ <<"auth", i>> \notin lost

(* Mail is called absent only of a domain without MX hosts, or one whose   *)
(* MX answer was lost.                                                     *)
MailSound ==
  /\ TypeOK /\ ScoreFaithful /\ ResultsPlaced
  /\ checks.Mail = Skip("no_mx") => world.mx = << >> \/ <<"mx", 1>> \in lost

(* What the world and the losses make of an address on a blocklist: heard  *)
(* at all, a listing, an answer that says nothing of the address.          *)
Heard(a, z) == <<"list", a, z.name>> \notin lost

Listed(a, z) ==
  /\ Heard(a, z)
  /\ \/ world.listing[a][z.name] = "listed"
     \/ world.listing[a][z.name] = "refused" /\ <<"txt", a, z.name>> \in lost

Declines(a, z) ==
  /\ Heard(a, z)
  /\ \/ world.listing[a][z.name] \in {"sentinel", "parked"}
     \/ world.listing[a][z.name] = "refused" /\ ~Listed(a, z)

(* The lists that mail receivers act on.                                   *)
Rejects(z) ==
  z.tier \in {"composite", "spam", "exploit", "botnet"} /\ z.confidence \notin {"heuristic", "experimental"}

IsHit(a, z) == \E i \in DOMAIN hits : hits[i] = <<a, z>>

(* The address points back to a name of its own that has it.               *)
Confirmed(a) == \E i \in DOMAIN world.ip[a] : world.ip[a][i] = [forward |-> "own", generic |-> FALSE]

(* A blocklist that declined to answer is never a listing, unless the TXT  *)
(* record that says so was lost; a listing heard is a hit, once; a list    *)
(* that mail receivers act on fails the check and no other does; and a     *)
(* clean bill means that every address is forward-confirmed under a name   *)
(* of its own and heard to be on no list of production or operational      *)
(* confidence (probeReputation, checkReputation, reputation.go 402, 522).  *)
ReputationSound ==
  checks.Reputation.status \in {"ok", "warn", "fail"} =>
    /\ \A i, j \in DOMAIN hits : hits[i] = hits[j] => i = j
    /\ \A a \in Addresses, z \in Zones : Listed(a, z) <=> IsHit(a, z)
    /\ checks.Reputation.status = "fail" <=> \E a \in Addresses, z \in Zones : Listed(a, z) /\ Rejects(z)
    /\ checks.Reputation.status = "ok" =>
         \A a \in Addresses :
            /\ Confirmed(a)
            /\ \A z \in Zones : z.tier # "allowlist" /\ z.confidence \in {"production", "operational"} => ~Listed(a, z)
    /\ declined <=> \E a \in Addresses, z \in Zones : Declines(a, z)

-------------------------------------------------------------------------------
(* What five lines of the code and the documentation promise.  A diagnosis *)
(* may break all of them at once: the run that shows it refutes each.      *)

(* TLS-RPT is "Present with a parseable `rua=` endpoint"                   *)
(* (docs/MAIL_SCORING.md 115; checkMail, mail.go 477).                     *)
TlsRptNeedsRua == Points("rpt") = 10 => world.rpt = "rua"

(* The grading table of docs/MAIL_SCORING.md (82 to 88): what is strong is *)
(* a key that is strong of its kind (parseDKIMKey, mail_dkim_key.go 87),   *)
(* and a selector that has one is credited for it, unless an answer about  *)
(* it is lost (probeDKIMKeyStrength, mail_dkim_key.go 175).                *)
StrongMeansStrong == \A s \in DOMAIN keys : keys[s] => s \in StrongSelectors

StrongKeyCredited ==
  \A s \in StrongSelectors :
    <<"dkim", s>> \notin lost /\ <<"key", s>> \notin lost => s \in DOMAIN keys /\ keys[s]

(* "heuristic/experimental -> informational note only" (reputation.go      *)
(* 520): addresses that are confirmed and on no other list have a clean    *)
(* bill.                                                                   *)
HeuristicIsANote ==
  checks.Reputation.status \in {"warn", "fail"} =>
    \/ Unconfirmed # {}
    \/ \E i \in DOMAIN hits : hits[i][2].tier # "allowlist" /\ hits[i][2].confidence \in {"production", "operational"}

(* "clean across 116 blocklists" (README.md 137), or so many hits "across" *)
(* them (checkReputation, reputation.go 660): every blocklist that is      *)
(* counted was heard.                                                      *)
CountedWereHeard == \A a \in Addresses, z \in Zones : z.tier # "allowlist" => Heard(a, z)

MailPromisesKept ==
  phase = "done" /\ Scored =>
    TlsRptNeedsRua \/ StrongMeansStrong \/ StrongKeyCredited \/ HeuristicIsANote \/ CountedWereHeard
===============================================================================
