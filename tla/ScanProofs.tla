------------------------------ MODULE ScanProofs ------------------------------
(***************************************************************************)
(* Proofs about one scan (Pipeline) and about many of them side by side    *)
(* (Batch).                                                                *)
(*                                                                         *)
(* Pipeline: for any sets of addresses, any --check lists and any          *)
(* profiles.  All checks but two only add their own entry, so most of the  *)
(* argument is one lemma about Reads and, for each check, the few facts    *)
(* about its entries that the lemma asks for.                              *)
(*                                                                         *)
(* Batch: for any number of targets and any --concurrency.  The join is    *)
(* the heart of it: main may read results once wg is zero only because wg  *)
(* counts exactly the workers that have not finished (Counting) and a      *)
(* worker finishes only after it wrote its cell (Lifecycle).               *)
(***************************************************************************)
EXTENDS Pipeline, Batch, FiniteSetTheorems, WellFoundedInduction, TLAPS

-------------------------------------------------------------------------------
(* One scan.                                                               *)

Entry == [status : Statuses \cup {"none"}, summary : Summaries]

(* What a diagnosis looks like before its first check.                     *)
Fresh ==
  stage = "DNS" => /\ checks = [n \in CheckNames |-> NotRun]
                   /\ ~resolved

(* A host that did not resolve has no address, and no transaction is tried. *)
Unresolved ==
  ~resolved => ipv4 = {} /\ ipv6 = {} /\ okV4 = {} /\ okV6 = {} /\ trace = "nil"

UpToTCP == {"DNS", "Domain", "Delegation", "TCP"}

Measurements == {"Latency", "Path", "Ports"}

(* Nothing is measured, and no address is known to answer, before TCP ran. *)
BeforeTCP ==
  stage \in UpToTCP => /\ okV4 = {}
                       /\ checks["TCP"].status = "none"
                       /\ \A n \in Measurements : checks[n].status = "none"

(* An address that answers comes with a TCP entry that says so.            *)
Answering == okV4 # {} => checks["TCP"].status \in {"ok", "warn"}

(* The DNS entry and the resolved flag agree.                              *)
DNSAgrees ==
  /\ checks["DNS"].status = "fail" => ~resolved
  /\ stage # "DNS" /\ Permits("DNS") /\ ~resolved => checks["DNS"].status = "fail"

(* The checks that read the transaction find one.                          *)
Traced ==
  stage \in {"TLS", "HTTP"} /\ resolved /\ TraceWanted => trace # "nil"

(* Once the DNS check failed, what follows skips.                          *)
Silent ==
  checks["DNS"].status = "fail" =>
    \A n \in CheckNames \ {"DNS", "Domain"} : checks[n].status \in {"none", "skip"}

Reported ==
  report.built => /\ stage = "Done"
                  /\ checks["DNS"].status = "fail" => report.fixFirst = "DNS"

IInv ==
  /\ TypeOK /\ Fresh /\ Unresolved /\ BeforeTCP /\ Answering /\ DNSAgrees /\ Traced
  /\ Silent /\ Reported
  /\ TCPFailureSilencesMeasurements /\ NoMissingTransaction /\ BlamesDNSTruly

-------------------------------------------------------------------------------
(* The fourteen names, written out.                                        *)
LEMMA Names ==
  CheckNames = {"DNS", "Domain", "Delegation", "TCP", "Latency", "Path", "TLS", "HTTP",
                "Security", "Discovery", "Mail", "Reputation", "IPv6", "Ports"}
<1>1. 1..14 = {1, 2, 3, 4, 5, 6, 7, 8, 9, 10, 11, 12, 13, 14}
  OBVIOUS
<1> QED BY <1>1 DEF CheckNames, Order

(* The order of the stages, as far as the invariant depends on it.         *)
LEMMA Succession ==
  \A n \in CheckNames \cup {"Trace"} :
    /\ NextStage[n] \in Stages \ {"DNS", "Done"}
    /\ NextStage[n] \in UpToTCP => n \in UpToTCP \ {"TCP"}
    /\ NextStage[n] \in {"TLS", "HTTP"} => n \in {"Trace", "TLS"}
  BY Names DEF NextStage, Stages, UpToTCP

(* Every entry a verdict operator gives has the type of an entry.          *)
LEMMA EntryType ==
  ASSUME NEW status \in Statuses, NEW summary \in Summaries
  PROVE  Check(status, summary) \in Entry
  BY DEF Check, Entry

(* A filter that permits a check that needs addresses permits DNS too.     *)
LEMMA FilterHasDNS ==
  ASSUME filter \in Filters, NEW n \in AddressDependent, Permits(n)
  PROVE  Permits("DNS")
<1>1. CASE filter = {}
  BY <1>1 DEF Permits, PermitsIn
<1>2. ASSUME NEW s, filter = AddDNSDependencyIfNeeded(s), filter # {} PROVE Permits("DNS")
  BY <1>2 DEF Permits, PermitsIn, AddDNSDependencyIfNeeded, AddressDependent
<1> QED BY <1>1, <1>2 DEF Filters

-------------------------------------------------------------------------------
(* Init establishes the invariant.                                         *)
LEMMA InitIInv == Init => IInv
<1> SUFFICES ASSUME Init PROVE IInv
  OBVIOUS
<1>1. \A n \in CheckNames : checks[n] = NotRun
  BY DEF Init
<1>2. TypeOK
  <2>1. checks \in [CheckNames -> Entry]
    BY DEF Init, NotRun, Entry, Summaries
  <2>2. stage \in Stages
    BY Names DEF Init, Stages
  <2>3. report \in [built : BOOLEAN, healthy : BOOLEAN, problems : SUBSET CheckNames,
                    fixFirst : CheckNames \cup {"none"}]
    BY DEF Init, NoReport
  <2> QED BY <2>1, <2>2, <2>3 DEF Init, TypeOK, Entry
<1>3. Fresh /\ Unresolved /\ Traced /\ Reported
  BY DEF Init, Fresh, Unresolved, Traced, Reported, NoReport
<1>4. BeforeTCP /\ Answering /\ DNSAgrees /\ Silent
  BY <1>1, Names DEF Init, BeforeTCP, Answering, DNSAgrees, Silent, NotRun, Measurements
<1>5. TCPFailureSilencesMeasurements /\ NoMissingTransaction /\ BlamesDNSTruly
  BY <1>1, Names DEF TCPFailureSilencesMeasurements, NoMissingTransaction, BlamesDNSTruly, NotRun
<1> QED BY <1>2, <1>3, <1>4, <1>5 DEF IInv

(* A check whose name the filter rejects changes the stage only.           *)
LEMMA SkipStageIInv == ASSUME NEW name \in CheckNames PROVE IInv /\ SkipStage(name) => IInv'
<1> SUFFICES ASSUME IInv, SkipStage(name) PROVE IInv'
  OBVIOUS
<1> USE DEF SkipStage, At, config, diagnosis
<1>1. stage = name /\ stage' = NextStage[name]
  OBVIOUS
<1>2. /\ stage' \in Stages \ {"DNS", "Done"}
      /\ stage' \in UpToTCP => stage \in UpToTCP
      /\ stage' \in {"TLS", "HTTP"} => stage = "TLS"
  BY <1>1, Succession, Names
<1>3. TypeOK'
  BY <1>2 DEF IInv, TypeOK
<1>4. Fresh' /\ Unresolved' /\ BeforeTCP' /\ Answering'
  BY <1>2 DEF IInv, Fresh, Unresolved, BeforeTCP, Answering
<1>5. DNSAgrees'
  <2>1. stage = "DNS" => ~Permits("DNS")
    BY <1>1 DEF Runs
  <2>2. Permits("DNS")' = Permits("DNS")
    BY DEF Permits, PermitsIn
  <2> QED BY <1>2, <2>1, <2>2 DEF IInv, DNSAgrees
<1>6. Traced'
  BY <1>2 DEF IInv, Traced, TraceWanted, Permits
<1>7. Silent' /\ Reported'
  BY <1>1, Names DEF IInv, Silent, Reported
<1>8. TCPFailureSilencesMeasurements' /\ NoMissingTransaction' /\ BlamesDNSTruly'
  BY DEF IInv, TCPFailureSilencesMeasurements, NoMissingTransaction, BlamesDNSTruly
<1> QED BY <1>3, <1>4, <1>5, <1>6, <1>7, <1>8 DEF IInv

(* A check that only adds its entry preserves the invariant when its       *)
(* entries skip on an unresolved host, skip without an answering IPv4      *)
(* address if they measure, and neither miss the transaction nor blame DNS *)
(* without cause.                                                          *)
LEMMA ReadsIInv ==
  ASSUME NEW name \in CheckNames \ {"DNS", "TCP"},
         NEW entries \in SUBSET Entry,
         IInv,
         Reads(name, entries),
         ~resolved /\ name # "Domain" => \A e \in entries : e.status = "skip",
         okV4 = {} /\ name \in Measurements => \A e \in entries : e.status = "skip",
         \A e \in entries : e.summary = "no_transaction" =>
                              name = "HTTP" /\ resolved /\ trace = "nil",
         \A e \in entries : e.summary = "no_dns" /\ name # "Delegation" =>
                              name \in AddressDependent /\ ~resolved
  PROVE  IInv'
<1>1. PICK e \in entries : checks' = [checks EXCEPT ![name] = e]
  BY DEF Reads, Record
<1>2. /\ stage = name /\ stage' = NextStage[name] /\ Permits(name)
      /\ UNCHANGED <<filter, scheme, ports, resolved, ipv4, ipv6, okV4, okV6, trace, report>>
  BY DEF Reads, At, Runs, config, diagnosis
<1>3. /\ stage' \in Stages \ {"DNS", "Done"}
      /\ stage' \in UpToTCP => stage \in UpToTCP
      /\ stage' \in {"TLS", "HTTP"} => stage = "TLS"
  BY <1>2, Succession, Names
<1>4. /\ checks \in [CheckNames -> Entry]
      /\ checks' \in [CheckNames -> Entry]
      /\ checks'[name] = e
      /\ \A n \in CheckNames \ {name} : checks'[n] = checks[n]
  BY <1>1 DEF IInv, TypeOK, Entry
<1>5. TypeOK'
  BY <1>2, <1>3, <1>4 DEF IInv, TypeOK, Entry
<1>6. checks'["DNS"] = checks["DNS"] /\ checks'["TCP"] = checks["TCP"]
  BY <1>4, Names
<1>7. Fresh' /\ Unresolved' /\ Answering'
  BY <1>2, <1>3, <1>6 DEF IInv, Fresh, Unresolved, Answering
<1>8. BeforeTCP'
  <2>1. stage' \in UpToTCP => name \notin Measurements
    BY <1>2, <1>3 DEF UpToTCP, Measurements
  <2>2. Measurements \subseteq CheckNames
    BY Names DEF Measurements
  <2> QED BY <1>2, <1>3, <1>4, <1>6, <2>1, <2>2 DEF IInv, BeforeTCP
<1>9. DNSAgrees'
  <2>1. stage # "DNS" /\ Permits("DNS")' = Permits("DNS")
    BY <1>2 DEF Permits, PermitsIn
  <2> QED BY <1>2, <1>6, <2>1 DEF IInv, DNSAgrees
<1>10. Traced'
  BY <1>2, <1>3 DEF IInv, Traced, TraceWanted, Permits
<1>11. Silent'
  <2>1. checks["DNS"].status = "fail" /\ name # "Domain" => e.status = "skip"
    BY DEF IInv, DNSAgrees
  <2> QED BY <1>4, <1>6, <2>1 DEF IInv, Silent
<1>12. Reported'
  BY <1>2, Names DEF IInv, Reported
<1>13. TCPFailureSilencesMeasurements'
  <2>1. Measurements \subseteq CheckNames
    BY Names DEF Measurements
  <2>2. checks["TCP"].status \in {"none", "fail", "skip"} => okV4 = {}
    BY DEF IInv, Answering
  <2> QED BY <1>4, <1>6, <2>1, <2>2 DEF IInv, TCPFailureSilencesMeasurements, Measurements
<1>14. NoMissingTransaction'
  <2>1. e.summary # "no_transaction"
    <3> SUFFICES ASSUME e.summary = "no_transaction" PROVE FALSE
      OBVIOUS
    <3>1. name = "HTTP" /\ resolved /\ trace = "nil"
      OBVIOUS
    <3>2. TraceWanted
      BY <1>2, <3>1 DEF TraceWanted
    <3> QED BY <1>2, <3>1, <3>2 DEF IInv, Traced
  <2> QED BY <1>4, <2>1, Names DEF IInv, NoMissingTransaction
<1>15. BlamesDNSTruly'
  <2>1. e.summary = "no_dns" /\ name # "Delegation" => checks["DNS"].status = "fail"
    <3> SUFFICES ASSUME e.summary = "no_dns", name # "Delegation"
                 PROVE  checks["DNS"].status = "fail"
      OBVIOUS
    <3>1. name \in AddressDependent /\ ~resolved
      OBVIOUS
    <3>2. Permits("DNS")
      BY <1>2, <3>1, FilterHasDNS DEF IInv, TypeOK
    <3> QED BY <1>2, <3>1, <3>2 DEF IInv, DNSAgrees
  <2> QED BY <1>4, <1>6, <2>1 DEF IInv, BlamesDNSTruly
<1> QED BY <1>5, <1>7, <1>8, <1>9, <1>10, <1>11, <1>12, <1>13, <1>14, <1>15 DEF IInv

-------------------------------------------------------------------------------
(* The entries of the checks: their types, and that a verdict is neither a *)
(* missing transaction nor a blame on DNS.                                 *)
Blameless == {e \in Entry : e.summary \notin {"no_transaction", "no_dns"}}

LEMMA BlamelessType ==
  ASSUME NEW status \in Statuses, NEW summary \in Summaries \ {"no_transaction", "no_dns"}
  PROVE  Check(status, summary) \in Blameless
  BY DEF Check, Blameless, Entry

LEMMA Blamelessness ==
  /\ DomainEntries \in SUBSET Blameless
  /\ LatencyEntries \in SUBSET Blameless
  /\ PathEntries \in SUBSET Blameless
  /\ TLSEntries \in SUBSET Blameless
  /\ HTTPEntries \in SUBSET Blameless
  /\ ScoreEntries \in SUBSET Blameless
  /\ ReputationEntries \in SUBSET Blameless
<1> USE BlamelessType DEF Verdict, Skip, Statuses, Summaries
<1>1. DomainEntries \in SUBSET Blameless
  BY DEF DomainEntries, DomainVerdict
<1>2. LatencyEntries \in SUBSET Blameless
  BY DEF LatencyEntries, LatencyVerdict
<1>3. PathEntries \in SUBSET Blameless
  BY DEF PathEntries, PathVerdict
<1>4. TLSEntries \in SUBSET Blameless
  BY DEF TLSEntries, TLSVerdict
<1>5. HTTPEntries \in SUBSET Blameless
  BY DEF HTTPEntries, HTTPVerdict
<1>6. ScoreEntries \in SUBSET Blameless
  BY DEF ScoreEntries, ScoreVerdict
<1>7. ReputationEntries \in SUBSET Blameless
  BY DEF ReputationEntries, ReputationVerdict
<1> QED BY <1>1, <1>2, <1>3, <1>4, <1>5, <1>6, <1>7

(* A skip has the type of an entry and is a skip.                          *)
LEMMA SkipType ==
  ASSUME NEW summary \in Summaries
  PROVE  Skip(summary) \in Entry /\ Skip(summary).status = "skip" /\ Skip(summary).summary = summary
  BY DEF Skip, Check, Entry, Statuses

(* A check that passes a verdict on a resolved host, or asks no address,   *)
(* preserves the invariant.                                                *)
LEMMA VerdictIInv ==
  ASSUME NEW name \in CheckNames \ {"DNS", "TCP"},
         NEW entries \in SUBSET Blameless,
         IInv,
         Reads(name, entries),
         ~resolved => name = "Domain",
         okV4 = {} => name \notin Measurements
  PROVE  IInv'
  BY ReadsIInv DEF Blameless

(* A check that skips preserves the invariant, if it does not blame DNS    *)
(* without cause.                                                          *)
LEMMA SkipIInv ==
  ASSUME NEW name \in CheckNames \ {"DNS", "TCP"},
         NEW reason \in Summaries \ {"no_transaction"},
         IInv,
         Reads(name, {Skip(reason)}),
         reason = "no_dns" /\ name # "Delegation" => name \in AddressDependent /\ ~resolved
  PROVE  IInv'
<1>1. /\ {Skip(reason)} \in SUBSET Entry
      /\ \A e \in {Skip(reason)} : e.status = "skip" /\ e.summary = reason
  BY SkipType
<1> QED BY <1>1, ReadsIInv

(* Each check that only adds its entry: it skips or passes a verdict.      *)
LEMMA ReadersIInv ==
  ASSUME IInv,
         \/ CheckDomain \/ CheckDelegation \/ CheckLatency \/ CheckPath \/ CheckTLS
         \/ CheckSecurityHeaders \/ CheckDiscovery \/ CheckMail \/ CheckReputation \/ CheckPorts
  PROVE  IInv'
<1> USE Names DEF Measurements, Summaries
<1>1. CASE CheckDomain
  BY <1>1, Blamelessness, VerdictIInv DEF CheckDomain
<1>2. CASE CheckDelegation
  <2>1. {Verdict("warn"), Verdict("ok")} \in SUBSET Blameless
    BY BlamelessType DEF Verdict, Statuses
  <2>2. CASE resolved
    BY <1>2, <2>1, <2>2, VerdictIInv DEF CheckDelegation
  <2>3. CASE ~resolved
    BY <1>2, <2>3, SkipIInv DEF CheckDelegation
  <2> QED BY <2>2, <2>3
<1>3. CASE CheckLatency
  <2>1. CASE NoReachableV4
    BY <1>3, <2>1, SkipIInv DEF CheckLatency
  <2>2. CASE ~NoReachableV4
    BY <1>3, <2>2, Blamelessness, VerdictIInv DEF CheckLatency, NoReachableV4
  <2> QED BY <2>1, <2>2
<1>4. CASE CheckPath
  <2>1. CASE NoReachableV4
    BY <1>4, <2>1, SkipIInv DEF CheckPath
  <2>2. CASE ~NoReachableV4
    BY <1>4, <2>2, Blamelessness, VerdictIInv DEF CheckPath, NoReachableV4
  <2> QED BY <2>1, <2>2
<1>5. CASE CheckTLS
  <2>1. CASE scheme # "https"
    BY <1>5, <2>1, SkipIInv DEF CheckTLS
  <2>2. CASE scheme = "https" /\ ~resolved
    BY <1>5, <2>2, SkipIInv DEF CheckTLS, AddressDependent
  <2>3. CASE scheme = "https" /\ resolved
    BY <1>5, <2>3, Blamelessness, VerdictIInv DEF CheckTLS
  <2> QED BY <2>1, <2>2, <2>3
<1>6. CASE CheckSecurityHeaders
  <2>1. CASE trace # "response"
    BY <1>6, <2>1, SkipIInv DEF CheckSecurityHeaders
  <2>2. CASE trace = "response" /\ scheme # "https"
    BY <1>6, <2>2, SkipIInv DEF CheckSecurityHeaders
  <2>3. CASE trace = "response" /\ scheme = "https"
    <3>1. resolved
      BY <2>3 DEF IInv, Unresolved
    <3> QED BY <1>6, <2>3, <3>1, Blamelessness, VerdictIInv DEF CheckSecurityHeaders
  <2> QED BY <2>1, <2>2, <2>3
<1>7. CASE CheckDiscovery
  <2>1. {DiscoveryVerdict(found) : found \in 0..1} \in SUBSET Blameless
    BY BlamelessType DEF DiscoveryVerdict, Skip, Verdict, Statuses
  <2>2. CASE resolved /\ scheme \in {"http", "https"}
    BY <1>7, <2>1, <2>2, VerdictIInv DEF CheckDiscovery
  <2>3. CASE ~resolved
    BY <1>7, <2>3, SkipIInv DEF CheckDiscovery, AddressDependent
  <2>4. CASE resolved /\ scheme \notin {"http", "https"}
    BY <1>7, <2>4, SkipIInv DEF CheckDiscovery
  <2> QED BY <2>2, <2>3, <2>4
<1>8. CASE CheckMail
  <2>1. {Skip("no_mx")} \cup ScoreEntries \in SUBSET Blameless
    BY Blamelessness, BlamelessType DEF Skip, Statuses
  <2>2. CASE resolved
    BY <1>8, <2>1, <2>2, VerdictIInv DEF CheckMail
  <2>3. CASE ~resolved
    BY <1>8, <2>3, SkipIInv DEF CheckMail, AddressDependent
  <2> QED BY <2>2, <2>3
<1>9. CASE CheckReputation
  <2>1. CASE ~resolved \/ ipv4 = {}
    BY <1>9, <2>1, SkipIInv DEF CheckReputation
  <2>2. CASE resolved /\ ipv4 # {}
    BY <1>9, <2>2, Blamelessness, VerdictIInv DEF CheckReputation
  <2> QED BY <2>1, <2>2
<1>10. CASE CheckPorts
  <2>1. {Verdict("ok")} \in SUBSET Blameless
    BY BlamelessType DEF Verdict, Statuses
  <2>2. CASE NoReachableV4
    BY <1>10, <2>2, SkipIInv DEF CheckPorts
  <2>3. CASE ~NoReachableV4
    BY <1>10, <2>1, <2>3, VerdictIInv DEF CheckPorts, NoReachableV4
  <2> QED BY <2>2, <2>3
<1> QED BY <1>1, <1>2, <1>3, <1>4, <1>5, <1>6, <1>7, <1>8, <1>9, <1>10

(* checkHTTP: the transaction it misses was never missing.                 *)
LEMMA CheckHTTPIInv == IInv /\ CheckHTTP => IInv'
<1> SUFFICES ASSUME IInv, CheckHTTP PROVE IInv'
  OBVIOUS
<1> USE Names DEF Measurements, Summaries, Statuses
<1>1. CASE ~resolved
  BY <1>1, SkipIInv DEF CheckHTTP, AddressDependent
<1>2. CASE resolved /\ trace = "nil"
  <2>1. Check("fail", "no_transaction") \in Entry
    BY EntryType
  <2> QED BY <1>2, <2>1, ReadsIInv DEF CheckHTTP, Check
<1>3. CASE resolved /\ trace = "error"
  <2>1. {Check("fail", "request_failed")} \in SUBSET Blameless
    BY BlamelessType
  <2> QED BY <1>3, <2>1, VerdictIInv DEF CheckHTTP
<1>4. CASE resolved /\ trace \notin {"nil", "error"}
  BY <1>4, Blamelessness, VerdictIInv DEF CheckHTTP
<1> QED BY <1>1, <1>2, <1>3, <1>4

(* checkIPv6 has no early return of its own: an unresolved host has no     *)
(* AAAA record, and that skips.                                            *)
LEMMA CheckIPv6IInv == IInv /\ CheckIPv6 => IInv'
<1> SUFFICES ASSUME IInv, CheckIPv6 PROVE IInv'
  OBVIOUS
<1> DEFINE E == {IPv6Verdict(Cardinality(ipv6), Cardinality(okV6), local) : local \in BOOLEAN}
<1>1. E \in SUBSET Blameless
  BY BlamelessType DEF IPv6Verdict, Skip, Verdict, Statuses, Summaries
<1>2. ~resolved => \A e \in E : e.status = "skip"
  BY FS_EmptySet DEF IInv, Unresolved, IPv6Verdict, Skip, Check
<1>3. Reads("IPv6", E)
  BY DEF CheckIPv6
<1> HIDE DEF E
<1> QED BY <1>1, <1>2, <1>3, ReadsIInv, Names DEF Blameless, Measurements

(* checkDNS fills in the addresses and fails exactly when there are none.  *)
LEMMA CheckDNSIInv == IInv /\ CheckDNS => IInv'
<1> SUFFICES ASSUME IInv, CheckDNS PROVE IInv'
  OBVIOUS
<1>1. PICK addrs \in SUBSET (V4 \cup V6), slow \in BOOLEAN :
        /\ ipv4' = addrs \cap V4 /\ ipv6' = addrs \cap V6
        /\ resolved' = (addrs # {})
        /\ checks' = [checks EXCEPT !["DNS"] = DNSVerdict(addrs # {}, slow)]
  BY DEF CheckDNS, Record
<1>2. /\ stage = "DNS" /\ stage' = "Domain"
      /\ UNCHANGED <<filter, scheme, ports, okV4, okV6, trace, report>>
  BY DEF CheckDNS, At, NextStage, config
<1>3. /\ ~resolved /\ okV4 = {} /\ okV6 = {} /\ trace = "nil" /\ ~report.built
      /\ \A n \in CheckNames : checks[n] = NotRun
  BY <1>2 DEF IInv, TypeOK, Fresh, Unresolved, Reported
<1>4. /\ DNSVerdict(addrs # {}, slow) \in Blameless
      /\ DNSVerdict(addrs # {}, slow).status = "fail" <=> addrs = {}
  <2>1. DNSVerdict(addrs # {}, slow) \in Blameless
    BY BlamelessType DEF DNSVerdict, Verdict, Statuses, Summaries
  <2> QED BY <2>1 DEF DNSVerdict, Verdict, Check
<1>5. /\ checks' \in [CheckNames -> Entry]
      /\ checks'["DNS"] \in Blameless
      /\ checks'["DNS"].status = "fail" <=> ~resolved'
      /\ \A n \in CheckNames \ {"DNS"} : checks'[n] = NotRun
  BY <1>1, <1>3, <1>4, Names DEF IInv, TypeOK, Entry, Blameless
<1>6. TypeOK'
  BY <1>1, <1>2, <1>3, <1>5, Names DEF IInv, TypeOK, Entry, Stages
<1>7. Fresh' /\ Unresolved' /\ Answering' /\ DNSAgrees' /\ Traced' /\ Reported'
  BY <1>1, <1>2, <1>3, <1>5 DEF Fresh, Unresolved, Answering, DNSAgrees, Traced, Reported
<1>8. BeforeTCP' /\ Silent' /\ TCPFailureSilencesMeasurements'
  BY <1>2, <1>3, <1>5, Names
     DEF BeforeTCP, Silent, TCPFailureSilencesMeasurements, Measurements, NotRun
<1>9. NoMissingTransaction' /\ BlamesDNSTruly'
  BY <1>5, Names DEF NoMissingTransaction, BlamesDNSTruly, NotRun, Blameless
<1> QED BY <1>6, <1>7, <1>8, <1>9 DEF IInv

(* An IPv4 address that answers makes the TCP verdict ok or warn.          *)
LEMMA TCPVerdictAnswering ==
  ASSUME NEW S \in SUBSET V4, NEW T \in SUBSET S, T # {}, NEW a, NEW b
  PROVE  TCPVerdict(Cardinality(S), Cardinality(T), a, b).status \in {"ok", "warn"}
<1>1. IsFiniteSet(S) /\ IsFiniteSet(T)
  BY AddressAssumption, FS_Subset
<1>2. Cardinality(T) > 0 /\ Cardinality(T) \in Nat
  BY <1>1, FS_EmptySet, FS_CardinalityType
<1>3. Cardinality(S) > 0 /\ Cardinality(S) \in Nat
  BY <1>1, FS_EmptySet, FS_CardinalityType
<1> QED BY <1>2, <1>3 DEF TCPVerdict, FamilyVerdict, Verdict, Check

LEMMA CheckTCPIInv == IInv /\ CheckTCP => IInv'
<1> SUFFICES ASSUME IInv, CheckTCP PROVE IInv'
  OBVIOUS
<1>1. /\ stage = "TCP" /\ stage' = "Latency" /\ Runs("TCP")
      /\ UNCHANGED <<filter, scheme, ports, resolved, ipv4, ipv6, trace, report>>
  BY DEF CheckTCP, At, NextStage, config
<1>2. okV4 = {} /\ \A n \in Measurements : checks[n].status = "none"
  BY <1>1 DEF IInv, BeforeTCP, UpToTCP
<1>3. PICK e \in Blameless :
        /\ checks' = [checks EXCEPT !["TCP"] = e]
        /\ okV4' \subseteq ipv4 /\ okV6' \subseteq ipv6
        /\ okV4' # {} => e.status \in {"ok", "warn"}
        /\ ipv4 \cup ipv6 = {} => e.status = "skip"
  <2>1. CASE ipv4 \cup ipv6 = {}
    <3>1. Skip("no_addresses") \in Blameless /\ Skip("no_addresses").status = "skip"
      BY BlamelessType DEF Skip, Check, Statuses, Summaries
    <3> QED BY <1>2, <2>1, <3>1 DEF CheckTCP, Record, IInv, TypeOK
  <2>2. CASE ipv4 \cup ipv6 # {}
    <3>1. PICK up \in SUBSET (ipv4 \cup ipv6) :
            /\ okV4' = okV4 \cup (up \cap ipv4)
            /\ okV6' = okV6 \cup (up \cap ipv6)
            /\ checks' = [checks EXCEPT !["TCP"] =
                  TCPVerdict(Cardinality(ipv4), Cardinality(up \cap ipv4),
                             Cardinality(ipv6), Cardinality(up \cap ipv6))]
      BY <2>2 DEF CheckTCP, Record
    <3> DEFINE e == TCPVerdict(Cardinality(ipv4), Cardinality(up \cap ipv4),
                               Cardinality(ipv6), Cardinality(up \cap ipv6))
    <3>2. e \in Blameless
      BY BlamelessType DEF TCPVerdict, FamilyVerdict, Verdict, Statuses, Summaries
    <3>3. okV4' # {} => e.status \in {"ok", "warn"}
      BY <1>2, <3>1, TCPVerdictAnswering DEF IInv, TypeOK
    <3>4. okV4' \subseteq ipv4 /\ okV6' \subseteq ipv6
      BY <3>1 DEF IInv, TypeOK
    <3> QED BY <2>2, <3>1, <3>2, <3>3, <3>4
  <2> QED BY <2>1, <2>2
<1>4. /\ checks \in [CheckNames -> Entry] /\ checks' \in [CheckNames -> Entry]
      /\ checks'["TCP"] = e
      /\ \A n \in CheckNames \ {"TCP"} : checks'[n] = checks[n]
  BY <1>3, Names DEF IInv, TypeOK, Entry, Blameless
<1>5. TypeOK'
  BY <1>1, <1>3, <1>4, Names DEF IInv, TypeOK, Entry, Stages
<1>6. Fresh' /\ Unresolved' /\ Answering' /\ Traced' /\ BeforeTCP'
  BY <1>1, <1>3, <1>4, Names DEF IInv, Fresh, Unresolved, Answering, Traced, BeforeTCP, UpToTCP
<1>7. DNSAgrees'
  <2>1. Permits("DNS")' = Permits("DNS")
    BY <1>1 DEF Permits, PermitsIn
  <2> QED BY <1>1, <1>4, <2>1, Names DEF IInv, DNSAgrees
<1>8. Silent'
  <2>1. checks["DNS"].status = "fail" => e.status = "skip"
    BY <1>3 DEF IInv, DNSAgrees, Unresolved
  <2> QED BY <1>4, <2>1, Names DEF IInv, Silent
<1>9. Reported' /\ TCPFailureSilencesMeasurements'
  BY <1>1, <1>2, <1>4, Names DEF IInv, Reported, TCPFailureSilencesMeasurements, Measurements
<1>10. NoMissingTransaction' /\ BlamesDNSTruly'
  BY <1>3, <1>4, Names DEF IInv, NoMissingTransaction, BlamesDNSTruly, Blameless
<1> QED BY <1>5, <1>6, <1>7, <1>8, <1>9, <1>10 DEF IInv

LEMMA RunTraceIInv == IInv /\ RunTrace => IInv'
<1> SUFFICES ASSUME IInv, RunTrace PROVE IInv'
  OBVIOUS
<1>1. /\ stage = "Trace" /\ stage' = "TLS"
      /\ UNCHANGED <<filter, scheme, ports, resolved, ipv4, ipv6, okV4, okV6, checks, report>>
      /\ trace' \in {"nil", "error", "response"}
      /\ TraceWanted /\ resolved => trace' # "nil"
      /\ ~resolved => trace' = trace
  BY DEF RunTrace, At, NextStage, config, IInv, TypeOK
<1>2. TypeOK'
  BY <1>1, Names DEF IInv, TypeOK, Stages
<1>3. Permits("DNS")' = Permits("DNS") /\ TraceWanted' = TraceWanted
  BY <1>1 DEF Permits, PermitsIn, TraceWanted
<1>4. Fresh' /\ Unresolved' /\ Answering' /\ Traced' /\ BeforeTCP' /\ DNSAgrees'
  BY <1>1, <1>3 DEF IInv, Fresh, Unresolved, Answering, Traced, BeforeTCP, DNSAgrees, UpToTCP
<1>5. Silent' /\ Reported' /\ TCPFailureSilencesMeasurements'
      /\ NoMissingTransaction' /\ BlamesDNSTruly'
  BY <1>1 DEF IInv, Silent, Reported, TCPFailureSilencesMeasurements,
              NoMissingTransaction, BlamesDNSTruly
<1> QED BY <1>2, <1>4, <1>5 DEF IInv

-------------------------------------------------------------------------------
(* Pos is the inverse of Order, and DNS comes first.                       *)
LEMMA PosOrder == \A n \in CheckNames : Pos(n) \in 1..14 /\ Order[Pos(n)] = n
<1> SUFFICES ASSUME NEW n \in CheckNames PROVE Pos(n) \in 1..14 /\ Order[Pos(n)] = n
  OBVIOUS
<1>1. \E i \in 1..14 : Order[i] = n
  BY DEF CheckNames
<1> QED BY <1>1 DEF Pos

LEMMA DNSComesFirst ==
  ASSUME NEW S \in SUBSET CheckNames, "DNS" \in S
  PROVE  FirstOf(S) = "DNS"
<1>1. Pos("DNS") = 1
  <2>1. \A i \in 1..14 : Order[i] = "DNS" => i = 1
    <3>1. 1..14 = {1, 2, 3, 4, 5, 6, 7, 8, 9, 10, 11, 12, 13, 14}
      OBVIOUS
    <3> QED BY <3>1 DEF Order
  <2> QED BY <2>1, PosOrder, Names
<1>2. \A n \in CheckNames : Pos(n) <= 1 => n = "DNS"
  <2> SUFFICES ASSUME NEW n \in CheckNames, Pos(n) <= 1 PROVE n = "DNS"
    OBVIOUS
  <2>1. Pos(n) = 1 /\ Order[Pos(n)] = n
    BY PosOrder
  <2> QED BY <2>1 DEF Order
<1>3. \A m \in S : Pos("DNS") <= Pos(m)
  BY <1>1, PosOrder
<1>4. FirstOf(S) \in S /\ \A m \in S : Pos(FirstOf(S)) <= Pos(m)
  BY <1>3 DEF FirstOf
<1> QED BY <1>1, <1>2, <1>4

(* A set of checks that is not empty has a first one: Pos, being a number  *)
(* for each of them, has a least value on it.                              *)
LEMMA FirstOfType == ASSUME NEW S \in SUBSET CheckNames, S # {} PROVE FirstOf(S) \in CheckNames
<1> DEFINE P == {Pos(n) : n \in S}
<1>1. P \in SUBSET (1..14) /\ P # {}
  BY PosOrder
<1>2. \E p \in P : \A q \in P : p <= q
  <2> HIDE DEF P
  <2> DEFINE R == {ss \in Nat \X Nat : ss[1] < ss[2]}
  <2>1. IsWellFoundedOn(R, Nat)
    BY NatLessThanWellFounded DEF OpToRel
  <2>2. P \subseteq Nat /\ P # {}
    BY <1>1
  <2>3. PICK p \in P : \A q \in P : ~(<<q, p>> \in R)
    <3> HIDE DEF R
    <3> QED BY <2>1, <2>2, WFMin, Zenon
  <2>4. ASSUME NEW q \in P PROVE p <= q
    <3>1. p \in Nat /\ q \in Nat
      BY <2>2
    <3>2. ~(<<q, p>> \in R)
      BY <2>3
    <3>3. ~(q < p)
      BY <3>1, <3>2
    <3> QED BY <3>1, <3>3
  <2> QED BY <2>4
<1>3. \E n \in S : \A m \in S : Pos(n) <= Pos(m)
  BY <1>2
<1> QED BY <1>3 DEF FirstOf

LEMMA BuildReportIInv == IInv /\ BuildReport => IInv'
<1> SUFFICES ASSUME IInv, BuildReport PROVE IInv'
  OBVIOUS
<1>1. /\ stage = "Build" /\ stage' = "Done"
      /\ UNCHANGED <<filter, scheme, ports, resolved, ipv4, ipv6, okV4, okV6, trace, checks>>
      /\ report' = [built    |-> TRUE,
                    healthy  |-> With({"fail", "warn"}) = {},
                    problems |-> With({"fail", "warn"}),
                    fixFirst |-> FixFirst]
  BY DEF BuildReport, config, diagnosis
<1>2. With({"fail"}) \in SUBSET CheckNames /\ With({"warn"}) \in SUBSET CheckNames
      /\ With({"fail", "warn"}) \in SUBSET CheckNames
  BY DEF With
<1>3. FixFirst \in CheckNames \cup {"none"}
  BY <1>2, FirstOfType DEF FixFirst
<1>4. TypeOK'
  <2>1. report' \in [built : BOOLEAN, healthy : BOOLEAN, problems : SUBSET CheckNames,
                     fixFirst : CheckNames \cup {"none"}]
    BY <1>1, <1>2, <1>3
  <2> QED BY <1>1, <2>1, Names DEF IInv, TypeOK, Stages
<1>5. checks["DNS"].status = "fail" => FixFirst = "DNS"
  <2> SUFFICES ASSUME checks["DNS"].status = "fail" PROVE FixFirst = "DNS"
    OBVIOUS
  <2>1. "DNS" \in With({"fail"})
    BY Names DEF With
  <2> QED BY <1>2, <2>1, DNSComesFirst DEF FixFirst
<1>6. Reported'
  BY <1>1, <1>5 DEF Reported
<1>7. Permits("DNS")' = Permits("DNS")
  BY <1>1 DEF Permits, PermitsIn
<1>8. Fresh' /\ Unresolved' /\ Answering' /\ Traced' /\ BeforeTCP' /\ DNSAgrees'
  BY <1>1, <1>7 DEF IInv, Fresh, Unresolved, Answering, Traced, BeforeTCP, DNSAgrees, UpToTCP
<1>9. Silent' /\ TCPFailureSilencesMeasurements' /\ NoMissingTransaction' /\ BlamesDNSTruly'
  BY <1>1 DEF IInv, Silent, TCPFailureSilencesMeasurements, NoMissingTransaction, BlamesDNSTruly
<1> QED BY <1>4, <1>6, <1>8, <1>9 DEF IInv

LEMMA StutterIInv == IInv /\ UNCHANGED vars => IInv'
<1> SUFFICES ASSUME IInv, UNCHANGED vars PROVE IInv'
  OBVIOUS
<1> USE DEF vars
<1>1. TypeOK' /\ Fresh' /\ Unresolved' /\ BeforeTCP' /\ Answering'
  BY DEF IInv, TypeOK, Fresh, Unresolved, BeforeTCP, Answering
<1>2. DNSAgrees' /\ Traced' /\ Silent' /\ Reported'
  BY DEF IInv, DNSAgrees, Traced, Silent, Reported, TraceWanted, Permits, PermitsIn
<1>3. TCPFailureSilencesMeasurements' /\ NoMissingTransaction' /\ BlamesDNSTruly'
  BY DEF IInv, TCPFailureSilencesMeasurements, NoMissingTransaction, BlamesDNSTruly
<1> QED BY <1>1, <1>2, <1>3 DEF IInv

LEMMA StepIInv == IInv /\ [Next]_vars => IInv'
  BY SkipStageIInv, ReadersIInv, CheckHTTPIInv, CheckIPv6IInv, CheckDNSIInv, CheckTCPIInv,
     RunTraceIInv, BuildReportIInv, StutterIInv DEF Next, Finished

-------------------------------------------------------------------------------
(* The invariant holds throughout every diagnosis.                         *)
THEOREM Invariance == Spec => []IInv
<1>1. Init => IInv
  BY InitIInv
<1>2. IInv /\ [Next]_vars => IInv'
  BY StepIInv
<1> QED BY <1>1, <1>2, PTL DEF Spec

(* The diagnosis and the report keep their types, whatever the network     *)
(* answers and whatever the filter.                                        *)
THEOREM TypeCorrectness == Spec => []TypeOK
<1>1. IInv => TypeOK
  BY DEF IInv
<1> QED BY <1>1, Invariance, PTL

(* When DNS fails it is the root cause: the later checks skip and the      *)
(* report says to fix DNS first.                                           *)
THEOREM DNSRootCause == Spec => []DNSFailureIsRootCause
<1>1. IInv => DNSFailureIsRootCause
  BY DEF IInv, Silent, Reported, DNSFailureIsRootCause
<1> QED BY <1>1, Invariance, PTL

(* No path is measured that TCP could not open.                            *)
THEOREM TCPSilence == Spec => []TCPFailureSilencesMeasurements
<1>1. IInv => TCPFailureSilencesMeasurements
  BY DEF IInv
<1> QED BY <1>1, Invariance, PTL

(* For every filter the HTTP check finds the transaction it reads.         *)
THEOREM TransactionPresent == Spec => []NoMissingTransaction
<1>1. IInv => NoMissingTransaction
  BY DEF IInv
<1> QED BY <1>1, Invariance, PTL

(* For every --check list, DNS is blamed only after it ran and failed.     *)
THEOREM TrueBlame == Spec => []BlamesDNSTruly
<1>1. IInv => BlamesDNSTruly
  BY DEF IInv
<1> QED BY <1>1, Invariance, PTL

-------------------------------------------------------------------------------
(* Many scans side by side.                                                *)

Holding == {i \in Targets : worker[i] \in {"scanning", "release"}}
Live    == {i \in Targets : worker[i] \in {"scanning", "release", "done"}}

Pending == IF main = "spawn" THEN 1 ELSE 0

(* sem and wg count the workers they stand for, until the process is       *)
(* killed.                                                                 *)
Counting ==
  main # "killed" => /\ sem = Cardinality(Holding)
                     /\ wg = Cardinality(Live) + Pending

(* The workers born so far are those of the indices below row, and each    *)
(* has written its cell once it is past the scan.                          *)
Lifecycle ==
  main # "killed" =>
    /\ main \in {"add", "spawn"} => \A i \in Targets : worker[i] = "unborn" <=> i >= row
    /\ main = "spawn" => row \in Targets
    /\ main \notin {"add", "spawn"} => \A i \in Targets : worker[i] # "unborn"
    /\ \A i \in Targets : worker[i] \in {"unborn", "scanning"} <=> results[i] = "zero"

(* Past the join, and in a killed process, the workers are gone.           *)
Joined ==
  main \in {"history", "print", "exit0", "exit1", "killed"} =>
    \A i \in Targets : worker[i] = "gone"

(* unhealthy counts no row twice, and is zero only over healthy rows.      *)
Tally ==
  /\ main \in {"add", "spawn", "wait", "history"} => unhealthy = 0
  /\ main = "print" => /\ unhealthy < row
                       /\ unhealthy = 0 <=> \A i \in Targets : i < row => results[i] = "healthy"
  /\ main = "exit0" => \A i \in Targets : results[i] = "healthy"
  /\ main = "exit1" => \E i \in Targets : results[i] # "healthy"

(* The history holds rows already passed, and none before the join.        *)
Archive ==
  /\ HistoryFaithful
  /\ main \in {"add", "spawn", "wait"} => history = <<>>
  /\ main = "history" => /\ ~noHistory
                         /\ \A k \in 1..Len(history) : history[k] < row

BatchIInv == BatchTypeOK /\ Counting /\ Lifecycle /\ Joined /\ Tally /\ Archive

-------------------------------------------------------------------------------
(* Slots is a positive number whatever --concurrency says.                 *)
LEMMA SlotsPositive == Slots \in Nat /\ Slots > 0
  BY ConcurrencyAssumption, DefaultSlotsAssumption DEF Slots

(* The sets of workers that sem and wg count are finite and no larger than *)
(* the set of targets.                                                     *)
LEMMA FiniteWorkers ==
  /\ IsFiniteSet(Targets) /\ Cardinality(Targets) = N
  /\ \A S \in SUBSET Targets : IsFiniteSet(S) /\ Cardinality(S) \in 0..N
<1>1. IsFiniteSet(Targets) /\ Cardinality(Targets) = N
  BY FS_Interval, NAssumption DEF Targets
<1>2. ASSUME NEW S \in SUBSET Targets
      PROVE  IsFiniteSet(S) /\ Cardinality(S) \in 0..N
  <2>1. IsFiniteSet(S) /\ Cardinality(S) <= N
    BY <1>1, FS_Subset
  <2>2. Cardinality(S) \in Nat
    BY <2>1, FS_CardinalityType
  <2> QED BY <2>1, <2>2, NAssumption
<1> QED BY <1>1, <1>2

(* BatchInit establishes the invariant.                                         *)
LEMMA BatchInitIInv == BatchInit => BatchIInv
<1> SUFFICES ASSUME BatchInit PROVE BatchIInv
  OBVIOUS
<1>1. BatchTypeOK
  BY SlotsPositive, NAssumption DEF BatchInit, BatchTypeOK, Targets, Verdicts
<1>2. Holding = {} /\ Live = {}
  BY DEF BatchInit, Holding, Live
<1>3. Counting
  BY <1>2, FS_EmptySet DEF BatchInit, Counting, Pending
<1>4. Lifecycle
  BY NAssumption DEF BatchInit, Lifecycle, Targets
<1>5. Joined
  BY DEF BatchInit, Joined
<1>6. Tally
  BY DEF BatchInit, Tally
<1>7. Archive
  BY DEF BatchInit, Archive, HistoryFaithful
<1> QED BY <1>1, <1>3, <1>4, <1>5, <1>6, <1>7 DEF BatchIInv

(* Main's first loop: Add counts the worker that Spawn starts.             *)
LEMMA AddIInv == BatchIInv /\ Add => BatchIInv'
<1> SUFFICES ASSUME BatchIInv, Add PROVE BatchIInv'
  OBVIOUS
<1>1. Holding' = Holding /\ Live' = Live
  BY DEF Add, Holding, Live
<1>2. row \notin Live /\ Live \in SUBSET Targets
  BY DEF BatchIInv, Add, Lifecycle, Live, BatchTypeOK, Targets
<1>3. Cardinality(Live) + 1 <= N /\ Cardinality(Live) \in Nat
  <2>1. Live \cup {row} \in SUBSET Targets
    BY <1>2 DEF Add
  <2>2. Cardinality(Live \cup {row}) = Cardinality(Live) + 1
    BY <1>2, FiniteWorkers, FS_AddElement
  <2> QED BY <1>2, <2>1, <2>2, FiniteWorkers, NAssumption
<1>4. wg = Cardinality(Live)
  BY <1>3 DEF BatchIInv, Counting, Pending, Add
<1>5. BatchTypeOK'
  BY <1>3, <1>4, NAssumption DEF BatchIInv, BatchTypeOK, Add
<1>6. Counting'
  BY <1>1, <1>3, <1>4 DEF BatchIInv, Counting, Pending, Add
<1>7. Lifecycle' /\ Joined' /\ Tally' /\ Archive'
  BY DEF BatchIInv, Lifecycle, Joined, Tally, Archive, HistoryFaithful, Add
<1> QED BY <1>5, <1>6, <1>7 DEF BatchIInv

LEMMA SpawnIInv == BatchIInv /\ Spawn => BatchIInv'
<1> SUFFICES ASSUME BatchIInv, Spawn PROVE BatchIInv'
  OBVIOUS
<1>1. row \in Targets /\ worker[row] = "unborn" /\ results[row] = "zero"
  BY DEF BatchIInv, Spawn, Lifecycle, BatchTypeOK, Targets
<1>2. BatchTypeOK'
  BY <1>1, SlotsPositive, NAssumption DEF BatchIInv, BatchTypeOK, Spawn, Targets
<1>3. Holding' = Holding \cup {row} /\ row \notin Holding /\ Holding \in SUBSET Targets
  BY <1>1 DEF BatchIInv, BatchTypeOK, Spawn, Holding
<1>4. Live' = Live \cup {row} /\ row \notin Live /\ Live \in SUBSET Targets
  BY <1>1 DEF BatchIInv, BatchTypeOK, Spawn, Live
<1>5. Cardinality(Holding') = Cardinality(Holding) + 1 /\ Cardinality(Holding) \in Nat
  BY <1>3, FiniteWorkers, FS_AddElement
<1>6. Cardinality(Live') = Cardinality(Live) + 1 /\ Cardinality(Live) \in Nat
  BY <1>4, FiniteWorkers, FS_AddElement
<1>7. Counting'
  BY <1>5, <1>6 DEF BatchIInv, Counting, Pending, Spawn
<1>8. Lifecycle'
  BY <1>1, NAssumption DEF BatchIInv, BatchTypeOK, Lifecycle, Spawn, Targets
<1>9. Joined' /\ Tally' /\ Archive'
  BY DEF BatchIInv, Joined, Tally, Archive, HistoryFaithful, Spawn
<1> QED BY <1>2, <1>7, <1>8, <1>9 DEF BatchIInv

LEMMA EndSpawningIInv == BatchIInv /\ EndSpawning => BatchIInv'
<1> SUFFICES ASSUME BatchIInv, EndSpawning PROVE BatchIInv'
  OBVIOUS
<1>1. BatchTypeOK'
  BY DEF BatchIInv, BatchTypeOK, EndSpawning
<1>2. Holding' = Holding /\ Live' = Live
  BY DEF EndSpawning, Holding, Live
<1>3. Counting'
  BY <1>2 DEF BatchIInv, Counting, Pending, EndSpawning
<1>4. Lifecycle'
  BY NAssumption DEF BatchIInv, BatchTypeOK, Lifecycle, EndSpawning, Targets
<1>5. Joined' /\ Tally' /\ Archive'
  BY DEF BatchIInv, Joined, Tally, Archive, HistoryFaithful, EndSpawning
<1> QED BY <1>1, <1>3, <1>4, <1>5 DEF BatchIInv

(* The workers.  A worker that still runs is proof that main has not       *)
(* passed the join, so nothing has been read from results yet.             *)
LEMMA RunningWorker ==
  ASSUME BatchIInv, NEW i \in Targets, worker[i] \in {"scanning", "release", "done"}
  PROVE  main \in {"add", "spawn", "wait"}
  BY DEF BatchIInv, BatchTypeOK, Joined

LEMMA StoreIInv == ASSUME NEW i \in Targets PROVE BatchIInv /\ Store(i) => BatchIInv'
<1> SUFFICES ASSUME BatchIInv, Store(i) PROVE BatchIInv'
  OBVIOUS
<1>1. main \in {"add", "spawn", "wait"}
  BY RunningWorker DEF Store
<1>2. PICK v \in Verdicts : results' = [results EXCEPT ![i] = v]
  BY DEF Store
<1>3. BatchTypeOK'
  BY <1>2 DEF BatchIInv, BatchTypeOK, Store
<1>4. Holding' = Holding /\ Live' = Live
  BY DEF BatchIInv, BatchTypeOK, Store, Holding, Live
<1>5. Counting'
  BY <1>4 DEF BatchIInv, Counting, Pending, Store
<1>6. Lifecycle'
  BY <1>2 DEF BatchIInv, BatchTypeOK, Lifecycle, Store, Verdicts
<1>7. Joined' /\ Tally' /\ Archive'
  BY <1>1 DEF BatchIInv, Joined, Tally, Archive, HistoryFaithful, Store
<1> QED BY <1>3, <1>5, <1>6, <1>7 DEF BatchIInv

LEMMA ReleaseIInv == ASSUME NEW i \in Targets PROVE BatchIInv /\ Release(i) => BatchIInv'
<1> SUFFICES ASSUME BatchIInv, Release(i) PROVE BatchIInv'
  OBVIOUS
<1>1. main \in {"add", "spawn", "wait"}
  BY RunningWorker DEF Release
<1>2. BatchTypeOK'
  BY SlotsPositive DEF BatchIInv, BatchTypeOK, Release
<1>3. Holding' = Holding \ {i} /\ i \in Holding /\ Holding \in SUBSET Targets
  BY DEF BatchIInv, BatchTypeOK, Release, Holding
<1>4. Live' = Live
  BY DEF BatchIInv, BatchTypeOK, Release, Live
<1>5. Cardinality(Holding') = Cardinality(Holding) - 1
  BY <1>3, FiniteWorkers, FS_RemoveElement
<1>6. Counting'
  BY <1>4, <1>5 DEF BatchIInv, Counting, Pending, Release
<1>7. Lifecycle'
  BY DEF BatchIInv, BatchTypeOK, Lifecycle, Release
<1>8. Joined' /\ Tally' /\ Archive'
  BY <1>1 DEF BatchIInv, Joined, Tally, Archive, HistoryFaithful, Release
<1> QED BY <1>2, <1>6, <1>7, <1>8 DEF BatchIInv

LEMMA DoneIInv == ASSUME NEW i \in Targets PROVE BatchIInv /\ WgDone(i) => BatchIInv'
<1> SUFFICES ASSUME BatchIInv, WgDone(i) PROVE BatchIInv'
  OBVIOUS
<1>1. main \in {"add", "spawn", "wait"}
  BY RunningWorker DEF WgDone
<1>2. Holding' = Holding
  BY DEF BatchIInv, BatchTypeOK, WgDone, Holding
<1>3. Live' = Live \ {i} /\ i \in Live /\ Live \in SUBSET Targets
  BY DEF BatchIInv, BatchTypeOK, WgDone, Live
<1>4. /\ Cardinality(Live') = Cardinality(Live) - 1
      /\ Cardinality(Live) \in 0..N
      /\ Cardinality(Live') \in 0..N
  BY <1>3, FiniteWorkers, FS_RemoveElement
<1>5. wg = Cardinality(Live) + Pending /\ Pending \in {0, 1}
  BY <1>1 DEF BatchIInv, Counting, Pending
<1>6. BatchTypeOK'
  BY <1>4, <1>5, NAssumption DEF BatchIInv, BatchTypeOK, WgDone
<1>7. Counting'
  BY <1>2, <1>4, <1>5 DEF BatchIInv, Counting, Pending, WgDone
<1>8. Lifecycle'
  BY DEF BatchIInv, BatchTypeOK, Lifecycle, WgDone
<1>9. Joined' /\ Tally' /\ Archive'
  BY <1>1 DEF BatchIInv, Joined, Tally, Archive, HistoryFaithful, WgDone
<1> QED BY <1>6, <1>7, <1>8, <1>9 DEF BatchIInv

(* The join: a counter at zero leaves no worker that could still write.    *)
LEMMA WaitIInv == BatchIInv /\ Wait => BatchIInv'
<1> SUFFICES ASSUME BatchIInv, Wait PROVE BatchIInv'
  OBVIOUS
<1>1. BatchTypeOK'
  BY NAssumption DEF BatchIInv, BatchTypeOK, Wait
<1>2. Holding' = Holding /\ Live' = Live /\ Live \in SUBSET Targets
  BY DEF Wait, Holding, Live
<1>3. Counting'
  BY <1>2 DEF BatchIInv, Counting, Pending, Wait
<1>4. Live = {}
  <2>1. Cardinality(Live) = 0
    BY <1>2, FiniteWorkers DEF BatchIInv, Counting, Pending, Wait
  <2> QED BY <1>2, <2>1, FiniteWorkers, FS_EmptySet
<1>5. \A i \in Targets : worker[i] = "gone"
  BY <1>4 DEF BatchIInv, BatchTypeOK, Lifecycle, Live, Wait
<1>6. Lifecycle' /\ Joined'
  BY <1>5 DEF BatchIInv, Lifecycle, Joined, Wait
<1>7. Tally'
  BY DEF BatchIInv, BatchTypeOK, Tally, Wait, Targets
<1>8. Archive'
  BY DEF BatchIInv, BatchTypeOK, Archive, HistoryFaithful, Wait
<1> QED BY <1>1, <1>3, <1>6, <1>7, <1>8 DEF BatchIInv

LEMMA AppendHistoryIInv == BatchIInv /\ AppendHistory => BatchIInv'
<1> SUFFICES ASSUME BatchIInv, AppendHistory PROVE BatchIInv'
  OBVIOUS
<1>1. row \in Targets /\ row \in Int /\ history \in Seq(Targets)
  BY DEF AppendHistory, Targets, BatchIInv, BatchTypeOK
<1>2. \/ history' = history
      \/ history' = Append(history, row) /\ results[row] # "error"
  BY DEF AppendHistory
<1>3. BatchTypeOK'
  <2>1. history' \in Seq(Targets)
    BY <1>1, <1>2
  <2> QED BY <1>1, <2>1, NAssumption DEF BatchIInv, BatchTypeOK, AppendHistory, Targets
<1>4. Holding' = Holding /\ Live' = Live
  BY DEF AppendHistory, Holding, Live
<1>5. Counting'
  BY <1>4 DEF BatchIInv, Counting, Pending, AppendHistory
<1>6. Lifecycle' /\ Joined'
  BY DEF BatchIInv, Lifecycle, Joined, AppendHistory
<1>7. Tally'
  BY DEF BatchIInv, Tally, AppendHistory
<1>8. results[row] \in Verdicts
  BY <1>1 DEF BatchIInv, BatchTypeOK, Lifecycle, Joined, AppendHistory
<1>9. Archive'
  <2>1. CASE history' = history
    BY <1>1, <2>1, NAssumption DEF BatchIInv, BatchTypeOK, Archive, HistoryFaithful, AppendHistory, Targets
  <2>2. CASE history' = Append(history, row) /\ results[row] # "error"
    <3>1. /\ Len(history') = Len(history) + 1 /\ Len(history) \in Nat
          /\ \A k \in 1..Len(history) : history'[k] = history[k] /\ history[k] \in Targets
          /\ history'[Len(history) + 1] = row
      BY <1>1, <2>2
    <3>2. \A k \in 1..Len(history) : history[k] < row
      BY DEF BatchIInv, Archive, AppendHistory
    <3>3. \A k \in 1..Len(history') : history'[k] < row'
      BY <1>1, <3>1, <3>2, NAssumption DEF AppendHistory, Targets
    <3>4. \A k \in 1..Len(history') : results'[history'[k]] \in {"healthy", "problems"}
      BY <1>8, <2>2, <3>1 DEF BatchIInv, Archive, HistoryFaithful, AppendHistory, Verdicts
    <3>5. \A k \in 1..Len(history') : \A l \in 1..Len(history') :
            k < l => history'[k] < history'[l]
      BY <3>1, <3>2 DEF BatchIInv, Archive, HistoryFaithful
    <3> QED BY <3>3, <3>4, <3>5 DEF BatchIInv, Archive, HistoryFaithful, AppendHistory
  <2> QED BY <1>2, <2>1, <2>2
<1> QED BY <1>3, <1>5, <1>6, <1>7, <1>9 DEF BatchIInv

LEMMA EndHistoryIInv == BatchIInv /\ EndHistory => BatchIInv'
<1> SUFFICES ASSUME BatchIInv, EndHistory PROVE BatchIInv'
  OBVIOUS
<1>1. BatchTypeOK'
  BY NAssumption DEF BatchIInv, BatchTypeOK, EndHistory
<1>2. Holding' = Holding /\ Live' = Live
  BY DEF EndHistory, Holding, Live
<1>3. Counting'
  BY <1>2 DEF BatchIInv, Counting, Pending, EndHistory
<1>4. Lifecycle' /\ Joined' /\ Archive'
  BY DEF BatchIInv, Lifecycle, Joined, Archive, HistoryFaithful, EndHistory
<1>5. Tally'
  BY DEF BatchIInv, BatchTypeOK, Tally, EndHistory, Targets
<1> QED BY <1>1, <1>3, <1>4, <1>5 DEF BatchIInv

LEMMA PrintRowIInv == BatchIInv /\ PrintRow => BatchIInv'
<1> SUFFICES ASSUME BatchIInv, PrintRow PROVE BatchIInv'
  OBVIOUS
<1>1. row \in 1..N /\ unhealthy \in Nat /\ unhealthy < row
  BY DEF BatchIInv, BatchTypeOK, Tally, PrintRow, Targets
<1>2. BatchTypeOK'
  <2>1. printed' \in Seq(Targets)
    BY DEF BatchIInv, BatchTypeOK, PrintRow
  <2> QED BY <1>1, <2>1, NAssumption DEF BatchIInv, BatchTypeOK, PrintRow
<1>3. Holding' = Holding /\ Live' = Live
  BY DEF PrintRow, Holding, Live
<1>4. Counting'
  BY <1>3 DEF BatchIInv, Counting, Pending, PrintRow
<1>5. Lifecycle' /\ Joined' /\ Archive'
  BY DEF BatchIInv, Lifecycle, Joined, Archive, HistoryFaithful, PrintRow
<1>6. Tally'
  BY <1>1 DEF BatchIInv, Tally, PrintRow, Targets
<1> QED BY <1>2, <1>4, <1>5, <1>6 DEF BatchIInv

LEMMA ReturnIInv == BatchIInv /\ Return => BatchIInv'
<1> SUFFICES ASSUME BatchIInv, Return PROVE BatchIInv'
  OBVIOUS
<1>1. BatchTypeOK'
  BY DEF BatchIInv, BatchTypeOK, Return
<1>2. Holding' = Holding /\ Live' = Live
  BY DEF Return, Holding, Live
<1>3. Counting'
  BY <1>2 DEF BatchIInv, Counting, Pending, Return
<1>4. Lifecycle' /\ Joined' /\ Archive'
  BY DEF BatchIInv, Lifecycle, Joined, Archive, HistoryFaithful, Return
<1>5. Tally'
  <2>1. row = N + 1
    BY NAssumption DEF BatchIInv, BatchTypeOK, Return, Targets
  <2>2. unhealthy = 0 <=> \A i \in Targets : results[i] = "healthy"
    BY <2>1, NAssumption DEF BatchIInv, Tally, Return, Targets
  <2> QED BY <2>2 DEF BatchIInv, BatchTypeOK, Tally, Return
<1> QED BY <1>1, <1>3, <1>4, <1>5 DEF BatchIInv

LEMMA KillIInv == BatchIInv /\ Kill => BatchIInv'
  BY DEF BatchIInv, BatchTypeOK, Counting, Lifecycle, Joined, Tally, Archive, HistoryFaithful, Kill

(* A step that changes nothing, or the last state's stutter.               *)
LEMMA BatchStutterIInv == BatchIInv /\ UNCHANGED batchVars => BatchIInv'
  BY DEF BatchIInv, BatchTypeOK, Counting, Lifecycle, Joined, Tally, Archive, HistoryFaithful,
         Holding, Live, Pending, batchVars

LEMMA BatchStepIInv == BatchIInv /\ [BatchNext]_batchVars => BatchIInv'
<1> SUFFICES ASSUME BatchIInv, [BatchNext]_batchVars PROVE BatchIInv'
  OBVIOUS
<1>1. CASE Main
  BY <1>1, AddIInv, SpawnIInv, EndSpawningIInv, WaitIInv, AppendHistoryIInv,
     EndHistoryIInv, PrintRowIInv, ReturnIInv DEF Main
<1>2. ASSUME NEW i \in Targets, Worker(i) PROVE BatchIInv'
  BY <1>2, StoreIInv, ReleaseIInv, DoneIInv DEF Worker
<1>3. CASE Kill
  BY <1>3, KillIInv
<1>4. CASE UNCHANGED batchVars
  BY <1>4, BatchStutterIInv
<1> QED BY <1>1, <1>2, <1>3, <1>4 DEF BatchNext, Terminated

-------------------------------------------------------------------------------
(* The invariant holds throughout every batch.                             *)
THEOREM BatchInvariance == BatchSpec => []BatchIInv
<1>1. BatchInit => BatchIInv
  BY BatchInitIInv
<1>2. BatchIInv /\ [BatchNext]_batchVars => BatchIInv'
  BY BatchStepIInv
<1> QED BY <1>1, <1>2, PTL DEF BatchSpec

(* runBatch's counters stay within their types for any number of targets:  *)
(* in particular the WaitGroup never becomes negative.                     *)
THEOREM BatchTypeCorrectness == BatchSpec => []BatchTypeOK
<1>1. BatchIInv => BatchTypeOK
  BY DEF BatchIInv
<1> QED BY <1>1, BatchInvariance, PTL

(* For any number of targets, never more than --concurrency scans at once. *)
THEOREM Parallelism == BatchSpec => []BoundedParallelism
<1>1. BatchIInv => BoundedParallelism
  <2> SUFFICES ASSUME BatchIInv PROVE Cardinality(Scanning) <= Slots
    BY DEF BoundedParallelism
  <2>1. CASE main = "killed"
    <3>1. Scanning = {}
      BY <2>1 DEF BatchIInv, Joined, Scanning
    <3> QED BY <3>1, FS_EmptySet, SlotsPositive
  <2>2. CASE main # "killed"
    <3>1. Scanning \in SUBSET Holding /\ Holding \in SUBSET Targets
      BY DEF Scanning, Holding
    <3>2. Cardinality(Scanning) <= Cardinality(Holding)
      BY <3>1, FiniteWorkers, FS_Subset
    <3>3. Cardinality(Scanning) \in Nat /\ Cardinality(Holding) \in Nat
      BY <3>1, FiniteWorkers
    <3>4. Cardinality(Holding) <= Slots
      BY <2>2, SlotsPositive DEF BatchIInv, Counting, BatchTypeOK
    <3> QED BY <3>2, <3>3, <3>4, SlotsPositive
  <2> QED BY <2>1, <2>2
<1> QED BY <1>1, BatchInvariance, PTL

(* Main reads the results slice only after every worker wrote its cell and *)
(* left, whatever their number and order.                                  *)
THEOREM JoinIsSafe == BatchSpec => []JoinedBeforeRead
<1>1. BatchIInv => JoinedBeforeRead
  BY DEF BatchIInv, Lifecycle, Joined, JoinedBeforeRead
<1> QED BY <1>1, BatchInvariance, PTL

(* The history file gets scanned targets only, in input order, with        *)
(* failing appends and a kill at any moment allowed for.                   *)
THEOREM HistoryIsFaithful == BatchSpec => []HistoryFaithful
<1>1. BatchIInv => HistoryFaithful
  BY DEF BatchIInv, Archive
<1> QED BY <1>1, BatchInvariance, PTL

(* Every step of the goroutines is a step of BatchPromise or invisible to  *)
(* it: a verdict is given once, and the exit status is the one promised.   *)
THEOREM RefinesPromise == BatchSpec => Promise!Safety
<1>1. BatchInit => Promise!Init
  BY DEF BatchInit, Promise!Init, Ended
<1>2. BatchIInv /\ [BatchNext]_batchVars => [Promise!Next]_(Promise!pvars)
  <2> SUFFICES ASSUME BatchIInv, [BatchNext]_batchVars PROVE [Promise!Next]_(Promise!pvars)
    OBVIOUS
  <2> USE DEF Promise!pvars, Ended
  <2>1. CASE Add \/ Spawn \/ EndSpawning \/ Wait \/ AppendHistory \/ EndHistory \/ PrintRow
    BY <2>1 DEF Add, Spawn, EndSpawning, Wait, AppendHistory, EndHistory, PrintRow
  <2>2. CASE Return
    <3>1. row = N + 1
      BY <2>2, NAssumption DEF BatchIInv, BatchTypeOK, Return, Targets
    <3>2. unhealthy = 0 <=> \A i \in Targets : results[i] = "healthy"
      BY <2>2, <3>1, NAssumption DEF BatchIInv, Tally, Return, Targets
    <3>3. \A i \in Targets : results[i] # "zero"
      BY <2>2 DEF BatchIInv, Lifecycle, Joined, Return
    <3>4. Promise!Exit
      BY <2>2, <3>2, <3>3 DEF Promise!Exit, Return, BatchIInv, BatchTypeOK
    <3> QED BY <3>4 DEF Promise!Next
  <2>3. ASSUME NEW i \in Targets, Store(i) PROVE Promise!Next
    <3>1. main \in {"add", "spawn", "wait"}
      BY <2>3, RunningWorker DEF Store
    <3>2. results[i] = "zero"
      BY <2>3, <3>1 DEF BatchIInv, Lifecycle, Store
    <3>3. Promise!Decide(i)
      BY <2>3, <3>1, <3>2 DEF Promise!Decide, Promise!Verdicts, Verdicts, Store
    <3> QED BY <3>3 DEF Promise!Next
  <2>4. ASSUME NEW i \in Targets, Release(i) \/ WgDone(i) PROVE UNCHANGED Promise!pvars
    BY <2>4 DEF Release, WgDone
  <2>5. CASE Kill
    <3>1. Promise!Kill
      BY <2>5 DEF Promise!Kill, Kill
    <3> QED BY <3>1 DEF Promise!Next
  <2>6. CASE UNCHANGED batchVars
    BY <2>6 DEF batchVars
  <2> QED BY <2>1, <2>2, <2>3, <2>4, <2>5, <2>6 DEF BatchNext, Main, Worker, Terminated
<1> QED BY <1>1, <1>2, BatchInvariance, PTL DEF BatchSpec, Promise!Safety
===============================================================================
