------------------------------ MODULE TlsCheck ------------------------------
(***************************************************************************)
(* checkTLS as a process: the handshake, the probes that run side by side, *)
(* the enumeration of cipher suites version by version, the preference     *)
(* probes, the revocation list, the simulated clients, and the judgement   *)
(* (TlsPosture) on what came back.                                         *)
(*                                                                         *)
(* Four of its steps are pools of goroutines: one per suite, protocol or   *)
(* client, at most Limit at a time, whose answers come back in any order   *)
(* through a channel or a mutex.  One variable, pool, stands for whichever *)
(* of them is running.  The target is external.  A connection may be lost, *)
(* at most Faults of them; missed remembers which.                         *)
(***************************************************************************)
EXTENDS TlsPosture, TLC

CONSTANTS Targets,       \* the servers met
          Candidates13,  \* candidateCiphersTLS13, one suite of a class
          Candidates12,  \* candidateCiphersTLS12
          Registry,      \* cipherRegistry: [cipher, sev, code]
          Protocols,     \* knownALPNProtocols
          Clients,       \* simulatedClients: [min, max, suites]
          Limit,         \* goroutines of a pool at work at once (20, 12 or 8)
          Faults         \* connections that may be lost

ASSUME BoundsAssumption == Limit \in Nat \ {0} /\ Faults \in Nat

(* A row of the registry, and a simulated client.                          *)
Severities == {"broken", "weak", "policy", "info", "modern", "unrated"}

Codes      == 0..65535
Entry      == [cipher : Classes, sev : Severities, code : Codes]
Client     == [min : ToSet(Versions), max : ToSet(Versions), suites : Seq(Classes)]

(* The tables of the source: no suite is listed twice, and                 *)
(* cipherRegistryAllCodes drops the codes the catalog repeats.             *)
ASSUME TablesAssumption ==
  /\ Candidates13 \in Seq(Classes) /\ IsInjective(Candidates13)
  /\ Candidates12 \in Seq(Classes) /\ IsInjective(Candidates12)
  /\ Registry \in Seq(Entry)
  /\ \A i, j \in DOMAIN Registry : Registry[i].code = Registry[j].code => i = j
  /\ Protocols \in Seq(ToSet(Protocols))
  /\ Clients \in Seq(Client)

(* What a server is made of: it ranks every suite it accepts, and has only *)
(* flaws that some probe looks for.                                        *)
ASSUME TargetsAssumption ==
  \A t \in Targets :
    /\ t.versions \subseteq ToSet(Versions) /\ t.suites \in [ToSet(Versions) -> SUBSET Classes]
    /\ t.order \in Seq(Classes) /\ \A v \in ToSet(Versions) : t.suites[v] \subseteq ToSet(t.order)
    /\ t.flaws \subseteq {e.name : e \in VulnTable \cup LateTable}
    /\ t.dh.bits \in Nat /\ t.starttls \in BOOLEAN /\ t.each \in BOOLEAN
    /\ t.cert.daysLeft \in Int /\ t.cert.verifies \in BOOLEAN /\ t.cert.weakSignature \in BOOLEAN
    /\ t.points \in Seq({"ldap", "down", "good", "revoked", "garbled"})
    /\ t.scsv \in {"unknown", "protected", "open"} /\ t.hsts \in {"none", "zero", "short", "year"}

VARIABLES
  target,
  pc,        \* the step of Script that checkTLS is at
  session,   \* version and suite of the main handshake
  versions,  \* versions the sweep found
  tls10,     \* suite of the pinned TLS 1.0 handshake
  probed,    \* what the independent probes reported: [flags, dh, reneg]
  pool,      \* the pool at work: [next, running, out, kept]
  alpn, enums, prefs, each, sims,   \* as in Detail
  scsv,      \* "unknown", "protected" or "open"
  crl,       \* [point, status]
  missed,    \* what was lost: <<task, version, item>>
  result     \* the Check

vars == <<target, pc, session, versions, tls10, probed, pool, alpn, enums, prefs, each, sims, scsv, crl, missed, result>>

Idle    == [next |-> 1, running |-> {}, out |-> << >>, kept |-> << >>]
Pending == Check("none", "not_run")

(* The defaults of Go's client: TLS 1.2 and up when the versions are not   *)
(* pinned, and below TLS 1.3 no suite with RSA key exchange, RC4 or 3DES.  *)
GoVersions == {"TLS12", "TLS13"}
GoOffer(v) == IF v = "TLS13" THEN <<"tls13">> ELSE <<"ecdheAead", "ecdheCbc">>

-----------------------------------------------------------------------------
(* The target.  policy says who chooses the suite: the server by its own   *)
(* order, the client, or the server unless the client puts ChaCha first.   *)

FirstOf(list, S) == list[Min({i \in DOMAIN list : list[i] \in S})]

Pick(v, offer) ==
  LET common == ToSet(offer) \cap target.suites[v]
      mine   == FirstOf(offer, common)
  IN  IF common = {} THEN "none"
      ELSE IF target.policy = "client" \/ (target.policy = "chacha" /\ mine = "dheChacha") THEN mine
      ELSE FirstOf(target.order, common)

Highest(vs) == CHOOSE v \in vs : \A w \in vs : VersionRank(w) <= VersionRank(v)

(* A hello for one suite at v is answered by the highest version up to v.  *)
Below(v) == {w \in target.versions : IF v = "TLS13" THEN w = v ELSE w # "TLS13" /\ VersionRank(w) <= VersionRank(v)}

ProbeOneCipher(v, c) ==
  ~target.starttls /\ Below(v) # {} /\ c \in target.suites[Highest(Below(v))]

(* The version a client of Go's settles on within its range, or "fail".    *)
SimulateOneClient(p) ==
  LET common == {v \in target.versions : VersionRank(p.min) <= VersionRank(v) /\ VersionRank(v) <= VersionRank(p.max)}
      offer(v) == IF v # "TLS13" /\ p.suites # << >> THEN p.suites ELSE GoOffer(v)
  IN  IF common = {} \/ Pick(Highest(common), offer(Highest(common))) = "none" THEN "fail" ELSE Highest(common)

-----------------------------------------------------------------------------
(* The steps of checkTLS, in order.                                        *)

Task(name, v) == [task |-> name, version |-> v]

Script == <<
  Task("dial", "none"),    Task("collect", "none"), Task("alpn", "none"),    Task("fallback", "none"),
  Task("enum", "TLS10"),   Task("prefer", "TLS10"), Task("enum", "TLS11"),   Task("prefer", "TLS11"),
  Task("enum", "TLS12"),   Task("prefer", "TLS12"), Task("enum", "TLS13"),   Task("prefer", "TLS13"),
  Task("crl", "none"),     Task("each", "TLS10"),   Task("each", "TLS11"),   Task("each", "TLS12"),
  Task("sim", "none"),     Task("judge", "none") >>

Return == Len(Script) + 1
Now    == Script[pc]
Pools  == {"alpn", "enum", "each", "sim"}

(* A version that was not found is not enumerated, one with fewer than two *)
(* suites is not asked for its preference, and --each-cipher is an option. *)
Applies(t) ==
  /\ t.task = "enum"   => t.version \in versions
  /\ t.task = "prefer" => \E i \in DOMAIN enums : enums[i].version = t.version /\ Len(enums[i].ciphers) >= 2
  /\ t.task = "each"   => target.each

At(name) == pc # Return /\ Now.task = name /\ Applies(Now)

Init ==
  /\ target \in Targets
  /\ pc = 1
  /\ session = [version |-> "none", cipher |-> "none"]
  /\ versions = {} /\ tls10 = "none"
  /\ probed = [flags |-> {}, dh |-> [bits |-> 0, common |-> FALSE], reneg |-> "unknown"]
  /\ pool = Idle
  /\ alpn = << >> /\ enums = << >> /\ prefs = << >> /\ each = << >> /\ sims = << >>
  /\ scsv = "unknown" /\ crl = [point |-> 1, status |-> "none"]
  /\ missed = {} /\ result = Pending

(* One more connection may be lost.                                        *)
MayLose == Cardinality(missed) < Faults

PassOver ==
  /\ pc # Return /\ ~Applies(Now)
  /\ pc' = pc + 1
  /\ UNCHANGED <<target, session, versions, tls10, probed, pool, alpn, enums, prefs, each, sims, scsv, crl, missed, result>>

-----------------------------------------------------------------------------
(* The main handshake: Go's defaults, certificate not verified yet.  No    *)
(* session, no check.                                                      *)
Dial ==
  /\ At("dial")
  /\ LET common == target.versions \cap GoVersions
         suite  == IF common = {} THEN "none" ELSE Pick(Highest(common), GoOffer(Highest(common)))
     IN  \/ /\ suite # "none"
            /\ session' = [version |-> Highest(common), cipher |-> suite]
            /\ pc' = pc + 1
            /\ UNCHANGED <<missed, result>>
         \/ /\ suite = "none" \/ MayLose
            /\ missed' = IF suite = "none" THEN missed ELSE missed \cup {<<"dial", "none", 1>>}
            /\ result' = Verdict("fail")
            /\ pc' = Return
            /\ UNCHANGED session
  /\ UNCHANGED <<target, versions, tls10, probed, pool, alpn, enums, prefs, each, sims, scsv, crl>>

(* What one of the probes that find something can lose: a version of the   *)
(* sweep, a flaw, the Diffie-Hellman parameters, the extensions.           *)
ProbeNames == target.versions \cup (target.flaws \ {"Distrusted_CA"}) \cup {"dh", "extensions"}

(***************************************************************************)
(* The probes each write a variable of their own and are joined by one     *)
(* WaitGroup, so their order cannot matter and they are one step.  They    *)
(* all open raw TLS: with --starttls they find nothing.  The distrusted    *)
(* roots are read off the main session's chain.                            *)
(***************************************************************************)
Collect ==
  /\ At("collect")
  /\ \E lost \in {l \in SUBSET ProbeNames : Cardinality(l) <= IF MayLose THEN 1 ELSE 0} :
       LET silent == IF target.starttls THEN ProbeNames ELSE lost
           found  == {v \in target.versions \ silent : Pick(v, GoOffer(v)) # "none"}
           gone   == silent \cup (IF "renegotiation" \in silent THEN {"renegotiation_DoS"} ELSE {})
       IN  /\ versions' = found
           /\ tls10' = IF "TLS10" \in found THEN Pick("TLS10", GoOffer("TLS10")) ELSE "none"
           /\ probed' = [flags |-> target.flaws \ gone,
                         dh    |-> IF "dh" \in silent THEN [bits |-> 0, common |-> FALSE] ELSE target.dh,
                         reneg |-> IF "extensions" \in silent THEN "unknown" ELSE target.reneg]
           /\ missed' = missed \cup {<<"collect", "none", p>> : p \in lost}
  /\ pc' = pc + 1
  /\ UNCHANGED <<target, session, pool, alpn, enums, prefs, each, sims, scsv, crl, result>>

(* FALLBACK_SCSV, once the sweep has found a version above the lowest;     *)
(* conclusive only on an answer.                                           *)
Fallback ==
  /\ At("fallback")
  /\ pc' = pc + 1
  /\ \/ /\ scsv' = IF versions \subseteq {"TLS10"} THEN scsv ELSE target.scsv
        /\ UNCHANGED missed
     \/ /\ MayLose /\ ~(versions \subseteq {"TLS10"})
        /\ missed' = missed \cup {<<"fallback", "none", 1>>}
        /\ UNCHANGED scsv
  /\ UNCHANGED <<target, session, versions, tls10, probed, pool, alpn, enums, prefs, each, sims, crl, result>>

-----------------------------------------------------------------------------
(***************************************************************************)
(* The pools.  Items are positions in the list the pool works through.     *)
(***************************************************************************)
Items(t) == CASE t.task = "alpn" -> Protocols
              [] t.task = "enum" -> IF t.version = "TLS13" THEN Candidates13 ELSE Candidates12
              [] t.task = "each" -> Registry
              [] t.task = "sim"  -> Clients

(* What the goroutine of item i reports when nothing is lost.              *)
Outcome(t, i) ==
  CASE t.task = "alpn" -> IF ~target.starttls /\ Protocols[i] \in target.alpn THEN "yes" ELSE "no"
    [] t.task = "enum" -> IF ProbeOneCipher(t.version, Items(t)[i]) THEN "yes" ELSE "no"
    [] t.task = "each" -> IF ProbeOneCipher(t.version, Registry[i].cipher) THEN "yes" ELSE "no"
    [] t.task = "sim"  -> SimulateOneClient(Clients[i])

Unanswered(t) == IF t.task = "sim" THEN "fail" ELSE "no"

AtPool == pc # Return /\ Now.task \in Pools /\ Applies(Now)
AllLaunched == pool.next > Len(Items(Now))

(* Mutant: the semaphore is released before the probe.                     *)
MutHasSlot == Cardinality(pool.running) <= Limit

HasSlot == Cardinality(pool.running) < Limit

(* The loop starts the next goroutine once the semaphore has room.         *)
Launch ==
  /\ AtPool /\ ~AllLaunched /\ HasSlot
  /\ pool' = [pool EXCEPT !.next = @ + 1, !.running = @ \cup {pool.next}]
  /\ UNCHANGED <<target, pc, session, versions, tls10, probed, alpn, enums, prefs, each, sims, scsv, crl, missed, result>>

(* Mutant: an unbuffered channel would do.                                 *)
MutBuffer(t) == 0

(* The channel the answers go through has room for all of them.            *)
Buffer(t) == Len(Items(t))

(* The channel delivers the answers in the order they were sent, and the   *)
(* receiver keeps the items that were accepted.                            *)
Answered(i, says) ==
  [pool EXCEPT !.running = @ \ {i},
               !.out  = Append(@, [item |-> i, says |-> says]),
               !.kept = IF says = "yes" THEN Append(@, i) ELSE @]

(* A goroutine hands its answer over and releases its slot.  Nobody        *)
(* receives before the last goroutine is started.                          *)
Answer ==
  /\ AtPool
  /\ AllLaunched \/ Len(pool.out) < Buffer(Now)
  /\ \E i \in pool.running :
       \/ /\ pool' = Answered(i, Outcome(Now, i))
          /\ UNCHANGED missed
       \/ /\ MayLose /\ Outcome(Now, i) # Unanswered(Now)
          /\ pool' = Answered(i, Unanswered(Now))
          /\ missed' = missed \cup {<<Now.task, Now.version, i>>}
  /\ UNCHANGED <<target, pc, session, versions, tls10, probed, alpn, enums, prefs, each, sims, scsv, crl, result>>

(* Mutant: the suites are gathered as soon as the last one is launched.    *)
MutAllBack == AllLaunched /\ (Now.task = "enum" \/ pool.running = {})

(* wg.Wait, then close.                                                    *)
AllBack == AllLaunched /\ pool.running = {}

(***************************************************************************)
(* s in the order R of its positions, a set of pairs: an element stands    *)
(* behind as many as come before it.                                       *)
(***************************************************************************)
Sorted(s, R) ==
  [i \in DOMAIN s |-> s[CHOOSE k \in DOMAIN s : Cardinality({j \in DOMAIN s : <<j, k>> \in R}) = i - 1]]

Pairs(s) == (DOMAIN s) \X (DOMAIN s)

(* Mutant: the protocols in the order they answered.                       *)
MutInListOrder(list, kept) == [i \in DOMAIN kept |-> list[kept[i]]]

(* probeALPN returns what was accepted in the order of its list.           *)
InListOrder(list, kept) ==
  LET at == Sorted(kept, {p \in Pairs(kept) : kept[p[1]] < kept[p[2]]})
  IN  [i \in DOMAIN at |-> list[at[i]]]

GatherALPN ==
  /\ At("alpn") /\ AllBack
  /\ alpn' = InListOrder(Protocols, pool.kept)
  /\ pc' = pc + 1 /\ pool' = Idle
  /\ UNCHANGED <<target, session, versions, tls10, probed, enums, prefs, each, sims, scsv, crl, missed, result>>

(* The suites of a version, in the order the answers came; a version       *)
(* without one has no entry.                                               *)
GatherEnum ==
  /\ At("enum") /\ AllBack
  /\ LET got == [i \in DOMAIN pool.kept |-> Items(Now)[pool.kept[i]]]
     IN  enums' = IF got = << >> THEN enums
                  ELSE Append(enums, [version |-> Now.version, ciphers |-> got, worst |-> WorstGrade(got)])
  /\ pc' = pc + 1 /\ pool' = Idle
  /\ UNCHANGED <<target, session, versions, tls10, probed, alpn, prefs, each, sims, scsv, crl, missed, result>>

SeverityOrder(s) == CHOOSE i \in 1..6 : <<"broken", "weak", "policy", "info", "modern", "unrated">>[i] = s

(* The order of the --each-cipher table: version, severity, codepoint.     *)
EachBefore(a, b) ==
  \/ VersionRank(a.version) < VersionRank(b.version)
  \/ a.version = b.version /\ SeverityOrder(a.sev) < SeverityOrder(b.sev)
  \/ a.version = b.version /\ a.sev = b.sev /\ a.code < b.code

(* A stable sort: rows that neither comes before stay as they were.        *)
EachOrder(rows) ==
  {p \in Pairs(rows) : \/ EachBefore(rows[p[1]], rows[p[2]])
                       \/ ~EachBefore(rows[p[2]], rows[p[1]]) /\ p[1] < p[2]}

(* Rows of one version; the whole table is sorted after the last one.      *)
GatherEach ==
  /\ At("each") /\ AllBack
  /\ LET rows == [i \in DOMAIN pool.kept |->
                    [version |-> Now.version, sev |-> Registry[pool.kept[i]].sev, code |-> Registry[pool.kept[i]].code]]
         all  == each \o rows
     IN  each' = IF Now.version = "TLS12" THEN Sorted(all, EachOrder(all)) ELSE all
  /\ pc' = pc + 1 /\ pool' = Idle
  /\ UNCHANGED <<target, session, versions, tls10, probed, alpn, enums, prefs, sims, scsv, crl, missed, result>>

(* A worker writes the slot of its client.                                 *)
GatherSim ==
  /\ At("sim") /\ AllBack
  /\ sims' = [i \in DOMAIN Clients |-> pool.out[CHOOSE k \in DOMAIN pool.out : pool.out[k].item = i].says]
  /\ pc' = pc + 1 /\ pool' = Idle
  /\ UNCHANGED <<target, session, versions, tls10, probed, alpn, enums, prefs, each, scsv, crl, missed, result>>

-----------------------------------------------------------------------------
(* Mutant: the second offer is in the same order.                          *)
MutSecondOffer(offer) == offer

SecondOffer(offer) == Reverse(offer)

(* Two hellos with the suites just found, the second in reverse; a probe   *)
(* without an answer leaves the version out.                               *)
Prefer ==
  /\ At("prefer")
  /\ LET offer == Last(enums).ciphers
         order == PreferenceOrder(offer, Pick(Now.version, offer), Pick(Now.version, SecondOffer(offer)))
     IN  \/ /\ prefs' = IF order = "none" THEN prefs ELSE Append(prefs, [version |-> Now.version, order |-> order])
            /\ UNCHANGED missed
         \/ /\ MayLose
            /\ missed' = missed \cup {<<"prefer", Now.version, 1>>}
            /\ UNCHANGED prefs
  /\ pc' = pc + 1
  /\ UNCHANGED <<target, session, versions, tls10, probed, pool, alpn, enums, each, sims, scsv, crl, result>>

(* Mutant: a list that cannot be fetched ends the search.                  *)
MutSkips(p) == p = "ldap"

(* A distribution point that is no HTTP URL, or does not answer with 200,  *)
(* is passed over.                                                         *)
Skips(p) == p \in {"ldap", "down"}

(* probeCRL, one distribution point at a time; the first list fetched is   *)
(* the one that is parsed, whatever it holds.                              *)
FetchCRL ==
  /\ At("crl")
  /\ IF crl.point > Len(target.points)
     THEN /\ crl' = [crl EXCEPT !.status = IF target.points = << >> THEN "none" ELSE "error"]
          /\ pc' = pc + 1
     ELSE IF Skips(target.points[crl.point])
     THEN crl' = [crl EXCEPT !.point = @ + 1] /\ UNCHANGED pc
     ELSE /\ crl' = [crl EXCEPT !.status = IF target.points[crl.point] \in {"good", "revoked"}
                                           THEN target.points[crl.point] ELSE "error"]
          /\ pc' = pc + 1
  /\ UNCHANGED <<target, session, versions, tls10, probed, pool, alpn, enums, prefs, each, sims, scsv, missed, result>>

-----------------------------------------------------------------------------
(* The judgement.                                                          *)

Posture == [flags |-> probed.flags, dh |-> probed.dh, reneg |-> probed.reneg,
            cipher |-> session.cipher, tls10 |-> tls10]

AllCiphers == UNION {ToSet(enums[i].ciphers) : i \in DOMAIN enums}

Given(cond, w) == IF cond THEN {w} ELSE {}

(* Mutant: the oracle is left out of the arguments.                        *)
MutHandedWeaknesses == Given("Heartbleed" \in probed.flags, "heartbleed")

(* The flags gradeTLS is called with; insecure renegotiation is taken for  *)
(* the client-initiated one.                                               *)
HandedWeaknesses ==
  Given("Heartbleed" \in probed.flags, "heartbleed") \cup Given("ROBOT" \in probed.flags, "robot")
    \cup Given("renegotiation" \in probed.flags, "renegotiation")
    \cup Given(probed.dh.bits > 0 /\ probed.dh.bits < 2048, "weakDH")
    \cup Given(~IsForwardSecret(session.cipher), "noFS")
    \cup Given(target.cert.weakSignature, "weakSignature")

(* hstsValid: a Strict-Transport-Security header with any max-age but 0.   *)
HstsValid == target.hsts \in {"short", "year"}

(* The arguments of gradeTLS: SSL 3.0 is not among the versions.           *)
GradeInput == [versions |-> versions, ciphers |-> AllCiphers, key |-> target.cert.key,
               hsts |-> HstsValid, weak |-> HandedWeaknesses]

Judge ==
  /\ At("judge")
  /\ result' = TLSVerdict(target.cert.verifies, target.cert.daysLeft, WorstRank(Vulns(Posture)),
                          IsWeak(session.cipher), versions \cap {"TLS10", "TLS11"} # {})
  /\ pc' = pc + 1
  /\ UNCHANGED <<target, session, versions, tls10, probed, pool, alpn, enums, prefs, each, sims, scsv, crl, missed>>

Next ==
  \/ Dial \/ Collect \/ Fallback \/ PassOver
  \/ Launch \/ Answer \/ GatherALPN \/ GatherEnum \/ GatherEach \/ GatherSim
  \/ Prefer \/ FetchCRL \/ Judge

(* Every connection has a deadline, so every goroutine answers, and the    *)
(* check goes on as long as it can.                                        *)
Spec == Init /\ [][Next]_vars /\ WF_vars(Next)

-----------------------------------------------------------------------------
(* Properties                                                              *)

Done == pc = Return
Judged == Done /\ session.version # "none"

(* Types, and the semaphore: no pool has more than Limit connections open. *)
TypeOK ==
  /\ target \in Targets
  /\ versions \subseteq ToSet(Versions) /\ tls10 \in Classes \cup {"none"}
  /\ session.cipher \in Classes \cup {"none"}
  /\ pool.next \in Nat /\ Cardinality(pool.running) <= Limit
  /\ scsv \in {"unknown", "protected", "open"}
  /\ Cardinality(missed) <= Faults
  /\ result \in {Pending} \cup {Verdict(s) : s \in Statuses}

Lost(task, v, i) == <<task, v, i>> \in missed

(* The items of a pool that the server accepts and no lost connection      *)
(* hides.                                                                  *)
Due(t) == {i \in DOMAIN Items(t) : Outcome(t, i) = "yes" /\ ~Lost(t.task, t.version, i)}

(* The suites of a version that were accepted, but for the lost answers.   *)
Accepted(v) == {Items(Task("enum", v))[i] : i \in Due(Task("enum", v))}

(* The table of suites is complete: for every version found, exactly the   *)
(* candidates the server accepts and no lost connection hides, each once,  *)
(* whatever order they answered in, and the worst of them is its grade.    *)
EnumerationComplete ==
  Judged =>
    \A v \in versions :
      LET due  == Accepted(v)
          rows == {k \in DOMAIN enums : enums[k].version = v}
      IN  IF due = {} THEN rows = {}
          ELSE \E k \in DOMAIN enums :
                 /\ rows = {k} /\ IsInjective(enums[k].ciphers) /\ ToSet(enums[k].ciphers) = due
                 /\ \E c \in due : Grade(c) = enums[k].worst
                 /\ \A c \in due : GradeRank(enums[k].worst) <= GradeRank(Grade(c))

(* The rows --each-cipher owes for a version.                              *)
EachDue(v) == {[version |-> v, sev |-> Registry[i].sev, code |-> Registry[i].code] : i \in Due(Task("each", v))}

(* What is printed does not depend on which goroutine was first: exactly   *)
(* the accepted protocols in the order of the list, exactly the accepted   *)
(* suites in the --each-cipher table, strictly sorted, and the outcome of  *)
(* every simulated client in the place of that client.                     *)
OrderFree ==
  Judged =>
    /\ ToSet(alpn) = {Protocols[i] : i \in Due(Task("alpn", "none"))}
    /\ \A i, j \in DOMAIN alpn : i < j =>
         \E a, b \in DOMAIN Protocols : a < b /\ Protocols[a] = alpn[i] /\ Protocols[b] = alpn[j]
    /\ ToSet(each) = IF target.each THEN EachDue("TLS10") \cup EachDue("TLS11") \cup EachDue("TLS12") ELSE {}
    /\ \A i \in 1..(Len(each) - 1) : EachBefore(each[i], each[i + 1])
    /\ \A i \in DOMAIN Clients : sims[i] = IF Lost("sim", "none", i) THEN "fail" ELSE SimulateOneClient(Clients[i])

(* The pools keep to the semaphore and what they gather is complete and    *)
(* independent of who answered first.                                      *)
PoolsFaithful == TypeOK /\ EnumerationComplete /\ OrderFree

(* A server that strictly orders the suites itself, or strictly follows    *)
(* the client, is reported as such whatever order the suites were found    *)
(* in.                                                                     *)
PreferenceTrue ==
  \A i \in DOMAIN prefs : target.policy \in {"server", "client"} => prefs[i].order = target.policy

(* What a probe of checkTLS did not see: its connection was lost, or the   *)
(* probes spoke raw TLS to a port that waits for STARTTLS.  The DoS is     *)
(* looked for by the probe for renegotiation.                              *)
Overlooked(p) ==
  \/ target.starttls /\ p # "Distrusted_CA"
  \/ Lost("collect", "none", p)
  \/ p = "renegotiation_DoS" /\ Lost("collect", "none", "renegotiation")

Serious(f) == \E e \in VulnTable \cup LateTable : e.name = f /\ e.sev \in {"high", "critical"}

(* The versions below TLS 1.2 the sweep can find: Go's client can agree on *)
(* a suite.                                                                *)
Deprecated == {v \in target.versions \ GoVersions : Pick(v, GoOffer(v)) # "none"}

(* A lost probe clears the server of nothing but what that probe looks     *)
(* for: any other flaw of high or critical severity fails the check of a   *)
(* certificate that is in order, wherever it stands in the list, and a     *)
(* check that passes has overlooked every flaw and deprecated version the  *)
(* server has.                                                             *)
VerdictByWorst ==
  Judged /\ target.cert.verifies /\ target.cert.daysLeft >= 21 =>
    /\ \A f \in target.flaws : Serious(f) /\ ~Overlooked(f) => result.status = "fail"
    /\ Serious(DHFinding(target.dh)) /\ ~Overlooked("dh") => result.status = "fail"
    /\ result.status = "ok" => \A x \in target.flaws \cup Deprecated : Overlooked(x)

(* A further weakness never raises the letter, and never leaves an A+.     *)
GradeMonotone ==
  Judged => \A w \in {e.of : e \in CapTable} :
              LET letter == Letter([GradeInput EXCEPT !.weak = @ \cup {w}])
              IN  letter <= Letter(GradeInput) /\ letter < 6

(* An A+ is earned: no flaw the caller hands to gradeTLS was there to be   *)
(* seen by a probe that was answered, nor a deprecated version; no RC4     *)
(* suite was found, the session is forward secret, and the server speaks   *)
(* TLS 1.3 and sends HSTS.  (What gradeTLS is not handed is the subject of *)
(* GradePromisesKept below.)                                               *)
TopGradeEarned ==
  Judged /\ Letter(GradeInput) = 6 =>
    /\ \A x \in Deprecated \cup (target.flaws \cap {"Heartbleed", "ROBOT", "renegotiation"}) : Overlooked(x)
    /\ target.dh.bits \in 1..2047 => Overlooked("dh")
    /\ \A c \in AllCiphers : ~NamesRC4(c)
    /\ "TLS13" \in target.versions /\ IsForwardSecret(session.cipher)
    /\ target.hsts \notin {"none", "zero"} /\ ~target.cert.weakSignature

(* The intermediate profile is earned: there is a version to judge by (one *)
(* end of the range, not all of it as tls_mozilla.go:115-116 has it), no   *)
(* version below TLS 1.2 was there to be seen, and no suite outside the    *)
(* profile's lists, at any version found, answered a probe.                *)
ProfileEarned ==
  Judged /\ PassesProfile(Intermediate, versions, enums) =>
    /\ versions # {} /\ \A v \in Deprecated : Overlooked(v)
    /\ \A v \in versions : Accepted(v) \subseteq {"tls13", "ecdheAead", "dheAead"}

(* The revocation status is that of the first list that can be fetched.    *)
RevocationSeen ==
  Judged /\ ~(ToSet(target.points) \subseteq {"ldap", "down"}) =>
    LET first == CHOOSE i \in DOMAIN target.points :
                   /\ target.points[i] \notin {"ldap", "down"}
                   /\ \A j \in 1..(i - 1) : target.points[j] \in {"ldap", "down"}
    IN  crl.status = IF target.points[first] = "garbled" THEN "error" ELSE target.points[first]

(* Whatever the check concludes (verdict, letter, profiles, revocation)    *)
(* follows from what its probes saw, the worst of it included.             *)
JudgementSound ==
  VerdictByWorst /\ GradeMonotone /\ TopGradeEarned /\ ProfileEarned /\ RevocationSeen

(* What three comments promise of the letter.  A check may break all of    *)
(* them at once: the run that shows it refutes each of them.               *)

(* "SSL v3 supported -> cap C" (tls_grade.go:27): a server that answered   *)
(* the SSL 3.0 hello gets no letter above C.                               *)
SSL3Caps == "POODLE" \in probed.flags => Letter(GradeInput) <= 2

(* "Insecure renegotiation -> cap F" (tls_grade.go:33): a server whose     *)
(* answer lacks the RFC 5746 extension gets an F.                          *)
RenegotiationCaps == probed.reneg = "absent" => Letter(GradeInput) = 0

(* "A+ requires: ... HSTS valid (>= 1yr max-age)" (tls_grade.go:148).      *)
TopGradeNeedsYear == Letter(GradeInput) = 6 => target.hsts = "year"

GradePromisesKept == Judged => SSL3Caps \/ RenegotiationCaps \/ TopGradeNeedsYear

(* Every check comes to an end: no pool waits for a receiver that waits    *)
(* for the pool.                                                           *)
CheckEnds == <>Done
=============================================================================
