------------------------------- MODULE Pipeline -------------------------------
(***************************************************************************)
(* One diagnosis of one target: the fourteen checks of runAllChecks, run   *)
(* in their fixed order by one goroutine over the shared *diagnosis, and   *)
(* the report built from them.  The checks interact only through the       *)
(* fields of the diagnosis that earlier checks fill in (resolved, ipv4,    *)
(* ipv6, okV4, okV6, trace) and through the --check / --profile filter,    *)
(* which decides which of them run at all.                                 *)
(*                                                                         *)
(* The network is an environment that answers each probe as it likes, so   *)
(* two checks of one diagnosis may see different networks.                 *)
(***************************************************************************)
EXTENDS Verdicts, Sequences, FiniteSets

CONSTANTS V4, V6,        \* the IPv4 and IPv6 addresses a lookup may return
          CheckSpecs,    \* the --check token sets to consider ({} is an empty list)
          Profiles       \* the --profile names to consider

ASSUME AddressAssumption == IsFiniteSet(V4) /\ IsFiniteSet(V6) /\ V4 \cap V6 = {}

-------------------------------------------------------------------------------
(***************************************************************************)
(* The filter.  A nil filter and one with an empty set both permit all.    *)
(***************************************************************************)
Order == <<"DNS", "Domain", "Delegation", "TCP", "Latency", "Path", "TLS", "HTTP",
           "Security", "Discovery", "Mail", "Reputation", "IPv6", "Ports">>

CheckNames == {Order[i] : i \in 1..14}

ASSUME SpecAssumption == CheckSpecs \subseteq SUBSET CheckNames

ProfilePresets ==
  [fast     |-> {"DNS", "TCP", "TLS", "HTTP"},
   web      |-> {"DNS", "TCP", "Latency", "TLS", "HTTP", "Security", "Discovery", "IPv6"},
   mail     |-> {"DNS", "Domain", "TCP", "TLS", "Mail", "Reputation", "IPv6"},
   full     |-> CheckNames \ {"Ports"},
   paranoid |-> CheckNames]

ASSUME ProfileAssumption == Profiles \subseteq DOMAIN ProfilePresets

AddressDependent == {"TCP", "Latency", "Path", "TLS", "HTTP", "Security",
                     "Discovery", "Mail", "Reputation", "IPv6", "Ports"}

(* Mutant: the filter is used as the user typed it.                        *)
MutNoDNSDependency(allow) == allow

AddDNSDependencyIfNeeded(allow) ==
  IF allow \cap AddressDependent # {} THEN allow \cup {"DNS"} ELSE allow

(* No flag at all, --check or --profile (--check wins when both are set).  *)
Filters == {{}} \cup {AddDNSDependencyIfNeeded(s) : s \in CheckSpecs}
                \cup {AddDNSDependencyIfNeeded(ProfilePresets[p]) : p \in Profiles}

PermitsIn(filter, name) == filter = {} \/ name \in filter

-------------------------------------------------------------------------------
VARIABLES
  filter, scheme, ports,                      \* configuration, fixed for the run
  stage,                                      \* the step of runAllChecks to come
  resolved, ipv4, ipv6, okV4, okV6, trace,    \* the shared diagnosis
  checks,                                     \* [check name -> its entry, or NotRun]
  report                                      \* the Report, once it is built

config == <<filter, scheme, ports>>
diagnosis == <<resolved, ipv4, ipv6, okV4, okV6, trace>>
vars == <<filter, scheme, ports, stage, resolved, ipv4, ipv6, okV4, okV6, trace,
          checks, report>>

Permits(name) == PermitsIn(filter, name)

Stages == CheckNames \cup {"Trace", "Build", "Done"}

(* runTrace sits between the Path and the TLS checks.                      *)
NextStage ==
  [DNS |-> "Domain", Domain |-> "Delegation", Delegation |-> "TCP",
   TCP |-> "Latency", Latency |-> "Path", Path |-> "Trace", Trace |-> "TLS",
   TLS |-> "HTTP", HTTP |-> "Security", Security |-> "Discovery",
   Discovery |-> "Mail", Mail |-> "Reputation", Reputation |-> "IPv6",
   IPv6 |-> "Ports", Ports |-> "Build"]

NoReport == [built |-> FALSE, healthy |-> FALSE, problems |-> {}, fixFirst |-> "none"]

Init ==
  /\ filter \in Filters
  /\ scheme \in {"http", "https"}
  /\ ports \in BOOLEAN
  /\ stage = "DNS"
  /\ resolved = FALSE
  /\ ipv4 = {} /\ ipv6 = {} /\ okV4 = {} /\ okV6 = {}
  /\ trace = "nil"
  /\ checks = [n \in CheckNames |-> NotRun]
  /\ report = NoReport

-------------------------------------------------------------------------------
At(s) == stage = s /\ stage' = NextStage[s]

Record(name, entry) == checks' = [checks EXCEPT ![name] = entry]

(* runStage: a check whose name the filter rejects leaves no entry.  The   *)
(* Ports check also needs --ports.                                         *)
Runs(name) == Permits(name) /\ (name = "Ports" => ports)

SkipStage(name) ==
  /\ At(name)
  /\ ~Runs(name)
  /\ UNCHANGED <<config, diagnosis, checks, report>>

(***************************************************************************)
(* checkDNS: the only check that fills in the addresses.                   *)
(***************************************************************************)
CheckDNS ==
  /\ At("DNS") /\ Runs("DNS")
  /\ \E addrs \in SUBSET (V4 \cup V6), slow \in BOOLEAN :
       /\ ipv4' = addrs \cap V4
       /\ ipv6' = addrs \cap V6
       /\ resolved' = (addrs # {})
       /\ Record("DNS", DNSVerdict(addrs # {}, slow))
  /\ UNCHANGED <<config, okV4, okV6, trace, report>>

(* A check that reads the diagnosis and writes only its own entry.         *)
Reads(name, entries) ==
  /\ At(name) /\ Runs(name)
  /\ \E e \in entries : Record(name, e)
  /\ UNCHANGED <<config, diagnosis, report>>

DomainEntries == {Skip("rdap_unavailable")} \cup
                 {DomainVerdict(days) : days \in {-400, -1, 0, 29, 30}}

CheckDomain == Reads("Domain", DomainEntries)

(* Mutant: the early return on an unresolved host is gone.                 *)
MutCheckDelegation == Reads("Delegation", {Verdict("warn"), Verdict("ok")})

CheckDelegation ==
  Reads("Delegation", IF ~resolved THEN {Skip("no_dns")}
                      ELSE {Verdict("warn"), Verdict("ok")})

(* Mutant: the two families are mixed up.                                  *)
MutFamilies ==
  /\ At("TCP") /\ Runs("TCP")
  /\ \E up \in SUBSET (ipv4 \cup ipv6) :
       /\ okV4' = up /\ okV6' = up
       /\ Record("TCP", TCPVerdict(Cardinality(ipv4), Cardinality(up),
                                   Cardinality(ipv6), Cardinality(up)))
  /\ UNCHANGED <<config, resolved, ipv4, ipv6, trace, report>>

(***************************************************************************)
(* checkTCP dials every resolved address and keeps the ones that answer.   *)
(***************************************************************************)
CheckTCP ==
  /\ At("TCP") /\ Runs("TCP")
  /\ IF ipv4 \cup ipv6 = {}
     THEN /\ Record("TCP", Skip("no_addresses"))
          /\ UNCHANGED <<okV4, okV6>>
     ELSE \E up \in SUBSET (ipv4 \cup ipv6) :
            /\ okV4' = okV4 \cup (up \cap ipv4)
            /\ okV6' = okV6 \cup (up \cap ipv6)
            /\ Record("TCP", TCPVerdict(Cardinality(ipv4), Cardinality(up \cap ipv4),
                                        Cardinality(ipv6), Cardinality(up \cap ipv6)))
  /\ UNCHANGED <<config, resolved, ipv4, ipv6, trace, report>>

(* Mutant: a resolved host is taken for a reachable one.                   *)
MutNoReachableV4 == ~resolved

NoReachableV4 == ~resolved \/ okV4 = {}

LatencyEntries == {LatencyVerdict(f, j) : f \in 0..LatencyProbes, j \in BOOLEAN}

CheckLatency ==
  Reads("Latency", IF NoReachableV4 THEN {Skip("no_v4")} ELSE LatencyEntries)

PathEntries == {Skip("no_icmp")} \cup {PathVerdict(h, r) : h \in 0..1, r \in BOOLEAN}

CheckPath ==
  Reads("Path", IF NoReachableV4 THEN {Skip("no_v4")} ELSE PathEntries)

(***************************************************************************)
(* runTrace: one HTTP transaction, only if some consumer of it may run.    *)
(***************************************************************************)
(* Mutant: the HTTP check is forgotten among the consumers of the trace.   *)
MutTraceWanted == \E n \in {"Security", "Discovery", "TLS"} : Permits(n)

TraceWanted == \E n \in {"HTTP", "Security", "Discovery", "TLS"} : Permits(n)

RunTrace ==
  /\ At("Trace")
  /\ trace' \in IF TraceWanted /\ resolved THEN {"error", "response"} ELSE {trace}
  /\ UNCHANGED <<config, resolved, ipv4, ipv6, okV4, okV6, checks, report>>

TLSEntries ==
  {Verdict("fail")} \cup   \* no handshake, or no certificate
  {TLSVerdict(v, days, rank, wc, wv) :
     v \in BOOLEAN, days \in {-1, 20, 21}, rank \in {0, 2, 3}, wc \in BOOLEAN, wv \in BOOLEAN}

CheckTLS ==
  Reads("TLS", IF scheme # "https" THEN {Skip("not_https")}
               ELSE IF ~resolved THEN {Skip("no_dns")} ELSE TLSEntries)

HTTPEntries == {HTTPVerdict(code, slow) : code \in {200, 404, 500}, slow \in BOOLEAN}

CheckHTTP ==
  Reads("HTTP", IF ~resolved THEN {Skip("no_dns")}
                ELSE IF trace = "nil" THEN {Check("fail", "no_transaction")}
                ELSE IF trace = "error" THEN {Check("fail", "request_failed")}
                ELSE HTTPEntries)

ScoreEntries == {ScoreVerdict(s) : s \in {0, 79, 80, 100}}

CheckSecurityHeaders ==
  Reads("Security", IF trace # "response" THEN {Skip("no_response")}
                    ELSE IF scheme # "https" THEN {Skip("not_https")} ELSE ScoreEntries)

CheckDiscovery ==
  Reads("Discovery", IF ~resolved THEN {Skip("no_dns")}
                     ELSE IF scheme \notin {"http", "https"} THEN {Skip("not_http")}
                     ELSE {DiscoveryVerdict(found) : found \in 0..1})

CheckMail ==
  Reads("Mail", IF ~resolved THEN {Skip("no_dns")} ELSE {Skip("no_mx")} \cup ScoreEntries)

ReputationEntries == {ReputationVerdict(b, o, f) : b \in 0..1, o \in 0..1, f \in 0..1}

CheckReputation ==
  Reads("Reputation", IF ~resolved \/ ipv4 = {} THEN {Skip("no_v4")} ELSE ReputationEntries)

CheckIPv6 ==
  Reads("IPv6", {IPv6Verdict(Cardinality(ipv6), Cardinality(okV6), local) : local \in BOOLEAN})

CheckPorts ==
  Reads("Ports", IF NoReachableV4 THEN {Skip("no_v4")} ELSE {Verdict("ok")})

(***************************************************************************)
(* buildReport.                                                            *)
(***************************************************************************)
With(S) == {n \in CheckNames : checks[n].status \in S}

Pos(n) == CHOOSE i \in 1..14 : Order[i] = n

FirstOf(S) == CHOOSE n \in S : \A m \in S : Pos(n) <= Pos(m)

FixFirst == IF With({"fail"}) # {} THEN FirstOf(With({"fail"}))
            ELSE IF With({"warn"}) # {} THEN FirstOf(With({"warn"})) ELSE "none"

BuildReport ==
  /\ stage = "Build"
  /\ stage' = "Done"
  /\ report' = [built    |-> TRUE,
                healthy  |-> With({"fail", "warn"}) = {},
                problems |-> With({"fail", "warn"}),
                fixFirst |-> FixFirst]
  /\ UNCHANGED <<config, diagnosis, checks>>

Finished == stage = "Done" /\ UNCHANGED vars

Next ==
  \/ \E n \in CheckNames : SkipStage(n)
  \/ CheckDNS \/ CheckDomain \/ CheckDelegation \/ CheckTCP \/ CheckLatency
  \/ CheckPath \/ RunTrace \/ CheckTLS \/ CheckHTTP \/ CheckSecurityHeaders
  \/ CheckDiscovery \/ CheckMail \/ CheckReputation \/ CheckIPv6 \/ CheckPorts
  \/ BuildReport \/ Finished

(* Every probe runs under d.timeout or a smaller one, so no check blocks.  *)
Spec == Init /\ [][Next]_vars /\ WF_vars(Next)

-------------------------------------------------------------------------------
(* The fields of the diagnosis and of the report keep their Go types.      *)
TypeOK ==
  /\ filter \in Filters /\ scheme \in {"http", "https"} /\ ports \in BOOLEAN
  /\ stage \in Stages
  /\ resolved \in BOOLEAN
  /\ ipv4 \subseteq V4 /\ ipv6 \subseteq V6
  /\ okV4 \subseteq ipv4 /\ okV6 \subseteq ipv6
  /\ trace \in {"nil", "error", "response"}
  /\ checks \in [CheckNames -> [status : Statuses \cup {"none"}, summary : Summaries]]
  /\ report \in [built : BOOLEAN, healthy : BOOLEAN, problems : SUBSET CheckNames,
                 fixFirst : CheckNames \cup {"none"}]

(* When the DNS check fails, no later check adds a symptom of the same     *)
(* cause: all but Domain, which asks the registry and not the resolver,    *)
(* skip, and the report tells the user to fix DNS first.  Every early      *)
(* return on an unresolved host is needed for it.                          *)
DNSFailureIsRootCause ==
  checks["DNS"].status = "fail" =>
    /\ \A n \in CheckNames \ {"DNS", "Domain"} : checks[n].status \in {"none", "skip"}
    /\ report.built => report.fixFirst = "DNS"

(* A failed TCP check is never shown beside a measurement of the path it   *)
(* could not open: Latency, Path and Ports probe only an IPv4 address that *)
(* the TCP check connected to.                                             *)
TCPFailureSilencesMeasurements ==
  checks["TCP"].status \in {"none", "fail", "skip"} =>
    \A n \in {"Latency", "Path", "Ports"} : checks[n].status \in {"none", "skip"}

(* checkHTTP never reports that no transaction was run: whatever the       *)
(* filter, runAllChecks runs the trace before a check that reads it.       *)
NoMissingTransaction == checks["HTTP"].summary # "no_transaction"

(* "skipped - DNS did not resolve" is said only when the DNS check ran and *)
(* failed, never because --check left it out.  The Delegation check is not *)
(* among them: --check delegation does blame a DNS check that never ran.   *)
BlamesDNSTruly ==
  \A n \in CheckNames \ {"Delegation"} :
    checks[n].summary = "no_dns" => checks["DNS"].status = "fail"
===============================================================================
