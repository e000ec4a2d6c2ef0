---------------------------------- MODULE Rdap ----------------------------------
(***************************************************************************)
(* The Domain checks of one process.  Every checkDomain, in whichever      *)
(* worker of a batch it runs, asks the one global rdapBootstrap for the    *)
(* RDAP servers of its TLD; the first to ask fetches the IANA registry     *)
(* under a sync.Once while the others block.  It then asks the servers of  *)
(* the TLD one after the other until one of them answers.                  *)
(***************************************************************************)
EXTENDS Verdicts, FiniteSets

CONSTANTS Lookups,        \* the checkDomain calls of the process
          MaxServers,     \* the longest server list of a TLD
          Hours           \* the hours left of a registration, negative once it is over

ASSUME LookupsAssumption == IsFiniteSet(Lookups)
ASSUME MaxServersAssumption == MaxServers \in Nat
ASSUME HoursAssumption == Hours \subseteq Int

(* A registration with an expiration event, or none (a zero time.Time).    *)
NoExpiry == <<>>
Expiries == {NoExpiry} \cup {<<h>> : h \in Hours}

VARIABLES
  once,        \* rdapBootstrap.once: "new", "running" or "done"
  err,         \* rdapBootstrap.err is set
  fetches,     \* how often the registry was requested
  servers,     \* [Lookups -> the number of servers listed for its TLD]
  pc,          \* [Lookups -> where the call is]
  next,        \* [Lookups -> the server it asks next]
  expires,     \* [Lookups -> the hours its registration has left, if published]
  domain       \* [Lookups -> its Domain entry]

rdapVars == <<once, err, fetches, servers, pc, next, expires, domain>>

RdapInit ==
  /\ once = "new" /\ err = FALSE /\ fetches = 0
  /\ servers = [l \in Lookups |-> 0]
  /\ pc = [l \in Lookups |-> "load"]
  /\ next = [l \in Lookups |-> 1]
  /\ expires \in [Lookups -> Expiries]
  /\ domain = [l \in Lookups |-> NotRun]

Goto(l, p) == pc' = [pc EXCEPT ![l] = p]

Give(l, entry) == Goto(l, "end") /\ domain' = [domain EXCEPT ![l] = entry]

-------------------------------------------------------------------------------
(* Mutant: the fetch is guarded by a flag that is set when it ends.        *)
MutStartLoad(l) ==
  /\ pc[l] = "load" /\ once # "done"
  /\ once' = "running"
  /\ fetches' = fetches + 1
  /\ Goto(l, "fetch")
  /\ UNCHANGED <<err, servers, next, expires, domain>>

(* Mutant: a caller that finds the error tries again.                      *)
MutRetryLoad(l) ==
  /\ pc[l] = "load" /\ (once = "new" \/ err)
  /\ once' = "running" /\ err' = FALSE
  /\ fetches' = fetches + 1
  /\ Goto(l, "fetch")
  /\ UNCHANGED <<servers, next, expires, domain>>

(* load, first caller: it runs the function of once.Do.                    *)
StartLoad(l) ==
  /\ pc[l] = "load" /\ once = "new"
  /\ once' = "running"
  /\ fetches' = fetches + 1
  /\ Goto(l, "fetch")
  /\ UNCHANGED <<err, servers, next, expires, domain>>

(* Mutant: a failed fetch leaves the bootstrap locked.                     *)
MutEndLoad(l) ==
  /\ pc[l] = "fetch"
  /\ \/ err' = TRUE /\ UNCHANGED <<once, servers>>
     \/ servers' \in [Lookups -> 0..MaxServers] /\ once' = "done" /\ UNCHANGED err
  /\ Goto(l, "loaded")
  /\ UNCHANGED <<fetches, next, expires, domain>>

(* The request, its status, the body or its JSON fails, or the server map  *)
(* is filled in.  Either way once is done for good.                        *)
EndLoad(l) ==
  /\ pc[l] = "fetch"
  /\ once' = "done"
  /\ \/ err' = TRUE /\ UNCHANGED servers
     \/ servers' \in [Lookups -> 0..MaxServers] /\ UNCHANGED err
  /\ Goto(l, "loaded")
  /\ UNCHANGED <<fetches, next, expires, domain>>

(* Mutant: load does not wait for the fetch that is under way.             *)
MutPassLoad(l) ==
  /\ pc[l] = "load" /\ once # "new"
  /\ Goto(l, "loaded")
  /\ UNCHANGED <<once, err, fetches, servers, next, expires, domain>>

(* Every other caller blocks in once.Do until the function has returned.   *)
PassLoad(l) ==
  /\ pc[l] = "load" /\ once = "done"
  /\ Goto(l, "loaded")
  /\ UNCHANGED <<once, err, fetches, servers, next, expires, domain>>

(* lookupRDAP, up to its loop.                                             *)
Choose(l) ==
  /\ pc[l] = "loaded"
  /\ IF err \/ servers[l] = 0 THEN Give(l, Skip("rdap_unavailable"))
     ELSE Goto(l, "ask") /\ UNCHANGED domain
  /\ UNCHANGED <<once, err, fetches, servers, next, expires>>

(* Mutant: the first server that fails ends the lookup.                    *)
MutFail(l) ==
  /\ pc[l] = "ask"
  /\ next' = [next EXCEPT ![l] = @ + 1]
  /\ Give(l, Skip("rdap_unavailable"))
  /\ UNCHANGED <<once, err, fetches, servers, expires>>

(* fetchRDAP fails: no connection, 404, another status, a bad body.        *)
Fail(l) ==
  /\ pc[l] = "ask"
  /\ next' = [next EXCEPT ![l] = @ + 1]
  /\ IF next[l] < servers[l] THEN UNCHANGED <<pc, domain>>
     ELSE Give(l, Skip("rdap_unavailable"))
  /\ UNCHANGED <<once, err, fetches, servers, expires>>

(* int(d.Hours() / 24): Go truncates towards zero.                         *)
DaysLeft(expiry) ==
  IF expiry = NoExpiry THEN -1
  ELSE LET hours == expiry[1]
       IN  IF hours >= 0 THEN hours \div 24 ELSE -((-hours) \div 24)

Succeed(l) ==
  /\ pc[l] = "ask"
  /\ Give(l, DomainVerdict(DaysLeft(expires[l])))
  /\ UNCHANGED <<once, err, fetches, servers, next, expires>>

Lookup(l) == StartLoad(l) \/ EndLoad(l) \/ PassLoad(l) \/ Choose(l) \/ Fail(l) \/ Succeed(l)

AllEnded == \A l \in Lookups : pc[l] = "end"

RdapNext == (\E l \in Lookups : Lookup(l)) \/ (AllEnded /\ UNCHANGED rdapVars)

(* Every request has the client's timeout, so no lookup stays in a step.   *)
RdapSpec == RdapInit /\ [][RdapNext]_rdapVars /\ \A l \in Lookups : WF_rdapVars(Lookup(l))

-------------------------------------------------------------------------------
(* The bootstrap and the calls keep their types.                           *)
RdapTypeOK ==
  /\ once \in {"new", "running", "done"}
  /\ err \in BOOLEAN
  /\ fetches \in 0..1
  /\ servers \in [Lookups -> 0..MaxServers]
  /\ pc \in [Lookups -> {"load", "fetch", "loaded", "ask", "end"}]
  /\ next \in [Lookups -> 1..MaxServers + 1]
  /\ expires \in [Lookups -> Expiries]
  /\ domain \in [Lookups -> [status : Statuses \cup {"none"}, summary : Summaries]]

(* No call reads the server map before the fetch that fills it in has      *)
(* ended, and the map and the error never change once a call has read      *)
(* them: all targets of a batch are judged against one registry.           *)
OneRegistry ==
  /\ \A l \in Lookups : pc[l] \in {"loaded", "ask", "end"} => once = "done"
  /\ \A l, m \in Lookups : ~(pc[l] = "fetch" /\ pc[m] = "fetch" /\ l # m)
  /\ once = "done" => fetches = 1

(* With a registry at hand, "RDAP unavailable" is said of a covered TLD    *)
(* only after each of its servers was asked and failed.                    *)
FallsThrough ==
  \A l \in Lookups :
    (domain[l].summary = "rdap_unavailable" /\ ~err) => next[l] = servers[l] + 1

(* A failed bootstrap is final: no Domain check of the process gets an     *)
(* answer after it, not even one that starts when the network is back.     *)
FailureIsSticky ==
  [][err => err' /\ \A l \in Lookups : domain'[l].summary \in {"not_run", "rdap_unavailable"}]_rdapVars

(* The call that fetches releases the ones that wait for it.               *)
LookupsEnd == <>AllEnded
===============================================================================
