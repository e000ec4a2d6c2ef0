# Formal models of netdoc

netdoc is a command-line network doctor written in Go: for one target it runs
fourteen checks (DNS, domain registration, delegation, TCP, latency, path, TLS,
HTTP, security headers, discovery, mail, reputation, IPv6, ports), builds one
report with a verdict and a "fix first", and appends it to a history file. It
also runs as a batch over many targets and as a watch loop over one.

This directory models the parts of it that keep state, share state, run
concurrently or can fail half-way. `PROJECT.json` lists the components, the
runs, the mutants, the map from definitions to source lines, the findings and
the hazards.

## 1. The system: components, state, interaction

| Component | State | Operations | What is hard | Correct when |
|---|---|---|---|---|
| pipeline (`main.go`, `verdict.go`) | the `diagnosis`: `resolved`, `ipv4`, `ipv6`, `okV4`, `okV6`, `trace`; the list of checks | `runAllChecks` (fourteen stages and `runTrace`), `buildReport` | later checks read what earlier ones left behind, and a filter may leave the earlier ones out | a failure is attributed to its cause and no check reports on evidence nobody gathered |
| filter (`profile.go`) | the set of permitted checks | `parseCheckFilter`, `parseProfile`, `addDNSDependencyIfNeeded` | the dependency closure | a check that needs the addresses never runs without DNS |
| batch (`batch.go`) | `results`, the channel `sem`, the `WaitGroup` | one worker goroutine per target, join, history, table | goroutines, early returns, a kill in the middle | bounded parallelism, join before read, exit status, history |
| RDAP (`rdap.go`) | the global `rdapBootstrap` (`sync.Once`, error, server map) | `load`, `lookupRDAP`, `fetchRDAP`, `checkDomain` | the workers of a batch meet in the once; servers fail one by one; dates | one registry for all, every server tried, expiry reported |
| history (`history.go`) | the file `history.jsonl` | `appendHistory`, `readHistory` | several processes, no lock, short writes, kills | what was acknowledged can be read, damage stays local |
| watch (`watch.go`) | the rings of readings, the signal channel, the terminal's cursor | the tick loop, `record`, `appendRing` | Ctrl+C at any moment, a timer that races it | it ends, the cursor comes back, the rings are the latest readings |
| HTTP transaction (`trace.go`) | seven timestamps, the redirect chain | `runTrace` and its `httptrace` hooks | redirects, connection reuse, parallel dials | the phases are ordered and disjoint |
| ports (`ports.go`) | `results`, `sem`, two WaitGroups | TCP pass, UDP pass | two fan-outs over one slice | every requested port reported once |
| DNS check and audits (`dns*.go`, `dnssec*.go`) | two pools of goroutines, one slot or map entry each; the chain of trust | `resolveViaTransport`, `enrichDNS`, `validateDNSSECChain`, lameness, glue, NSEC walk, NSEC3, propagation | any of dozens of exchanges may be lost; counts read from a map; a walk that must stop | what is lost is missing and nothing else; "validated", "lame", "no glue", "split" are true |
| TLS check (`tls.go`, `cipher_enum.go`, `tls_grade.go`...) | the findings of twenty probes, the tables of suites | handshake, probes, four pools, vulnerabilities, grade, profiles, revocation | answers in any order through channels, lost connections read as a clean bill, rules applied in sequence | tables are complete, the letter and the verdict follow from the worst finding |
| TLS probes (`tls_robot.go`, `tls_vulns.go`, `tls_reneg.go`...) | one hand-rolled connection at a time | hello, record reader, further write, answer | flights laid out in any number of records, late answers | nothing is flagged that the server does not show |
| STARTTLS (`starttls*.go`) | a plaintext dialogue | fourteen protocol handlers, the MX probe, the injection probe | multi-line replies, cut segments, endless servers | TLS starts only when granted, on an empty wire |
| mail check (`mail*.go`) | nine results, the keys, the score | nine probes side by side, one of them a pool; keys; score; report destinations | a counter written by hand, two MX queries, a key asked for twice | the score is the published rubric, and a loss costs its own dimension only |
| reputation check (`reputation.go`) | the hits and reverse names, under a mutex | addresses x blocklists, forward-confirmed reverse DNS | refusals that look like listings | a hit is a listing, a clean bill is earned |
| rendering, diff, write-out | none | formatting, `reportDiff` | the JSON round trip of a baseline | only differences are reported |

`main` parses the flags into a `configureDiagnosis` closure and then calls one of
`runBatch` (which calls `runAllChecks` in every worker), `runWatch` (which calls
it on every tick) or `runAllChecks` itself. All three end in `appendHistory`
except watch. The only process-wide mutable state is `rdapDNS`; between processes,
the history file.

## 2. Modules

| Module | Models | State and actions against the code |
|---|---|---|
| `Verdicts` | the final `switch` of every check | operators from evidence to a status and a tag for the wording; no state |
| `Pipeline` | `runAllChecks`, the filter, `buildReport` | the variables are the fields of `diagnosis` under their Go names; one action per check, `SkipStage` for a check the filter rejects, `RunTrace`, `BuildReport` |
| `Batch`, `BatchPromise` | `runBatch` and what it promises | `main` and `worker[i]` are program counters, `sem` the tokens in the channel, `wg` the counter; `Add`, `Spawn`, `Store`, `Release`, `WgDone`, `Wait`, `AppendHistory`, `PrintRow`, `Return`, and `Kill` from outside. The specification is `BatchSpec`, so that `ScanProofs` can extend `Pipeline` and `Batch` together |
| `Rdap` | the Domain checks of one process | `once`, `err`, `servers` are the fields of `rdapBootstrap`; `StartLoad`/`EndLoad` are the two ends of the function under `once.Do`, `PassLoad` the callers that wait for it. The specification is `RdapSpec`, so that `RegistryProofs` can extend `Rdap` and `Deliverability` together |
| `History` | `appendHistory`, `readHistory` | the file is a sequence of pieces of records; `Write` is one `write(2)`, which may be short. The specification is `HistorySpec`, so that an MC module can extend `Probes` and `History` together. `MaxLine` is the reader's buffer of 16 MiB, counted in pieces; `Hits` are the places of the records that `readHistory` keeps, `Matching` lists them in file order |
| `Watch` | `runWatch` | `sigCh`, `timer` and `cursor` as in the code; `SelectSignal` and `SelectTimer` are the two cases of the `select` |
| `Trace` | `runTrace` | `mark` holds the seven timestamps, `attempt` the connect goroutines of each dial; one action per `httptrace` hook, the connect hooks in two steps (test, then assignment), also of the goroutine that lost the race and is not joined, so that the returns may read a timestamp while it is being written and get any value; `CheckRedirect`, also from http to https, `Timeout`, and the two returns. `net/http` is external: only the order in which it calls the hooks is modelled |
| `Ports` | `checkPorts`, `scanPort`, `scanUDPPort` | `worker` has one goroutine per pass and port, `sem` and `wg` as in the code, `probeDone` and `classifyDone` are the two channels of a UDP worker; `Merged` is what it writes back. The specification is `PortsSpec`, so that `ServiceProofs` can extend `Ports` and `Starttls` together |
| `WatchTrace` | `runWatch` calling `runTrace` on every tick | the variables of both; `Transact` is a step of the transaction while the loop is in its tick, `TickEnds` records the reading the transaction left and starts a fresh diagnosis |
| `Starttls` | `starttls.go`, `starttls_dispatch.go`, `tls_starttls_injection.go` | a handler is a script of writes and reads (`script`, `pc`), the connection a sequence of reply pieces (`wire`, `owed`); the server is external and cuts its replies as its protocol allows: a line inside a reply may look like its last one, having a space in its fourth column or fewer than four bytes, where `readSMTPLine` stops; `legible` remembers that this has not happened |
| `Probes` | the hand-rolled TLS probes | a probe is a sequence of trials, a trial a script of steps over records; which server, layout and refusal is fixed for a run, a step may be lost or late. A ServerHello may be too short to parse, the burst of renegotiations leaves what it does not read on the wire, and the records of the CBC probes arrive before any key exchange, as the code sends them |
| `TlsPosture` | the judgement of `checkTLS`: vulnerabilities, letter grade, Mozilla profiles, preference | operators on the findings; cipher suites are the classes the source's tables tell apart |
| `TlsCheck` | `checkTLS` as a process | `pc` is the place in `Script`, the steps of the function in order (`PassOver` is a step whose condition does not hold), `pool` whichever of its four pools is running (`Launch`, answers, join); `missed` remembers the lost connections, each under its probe |
| `DnsAudit` | `checkDNS`, `enrichDNS` and the audits | `phase` as above, `running` the goroutines of the pool, one variable per result; zones, keys and signatures are names, and a signature is the name of the key that made it; a DNSKEY set has a signature (`keySig`) and the signatures a validity (`inForce`), neither of which the code looks at. A UDP answer may come truncated, with or without its records, and is asked for again only where the code does. The zones between the root and the registrable name depend on the public suffix. An NSEC record may be made up for the name the walk asks for |
| `Deliverability` | `checkMail` and `checkReputation` | `running` the goroutines, `mail` the nine results, `keys` (by selector), `score`, `auths`, `hits`, `fcrdns`; a record is its tokens or tags, `world` what the DNS and the servers hold: any number of TXT records per selector, a TLS-RPT record with or without `rua` |

Composition: `Pipeline`, `Rdap`, `TlsPosture` and `Deliverability` share `Verdicts`;
`TlsCheck` extends `TlsPosture`; `WatchTrace` extends `Watch` and instantiates
`Trace`, and its property `ImplementsWatch` is the specification of `Watch`, in which
a tick is one step that always comes: the refinement mapping is the identity on the
variables of `Watch`. `Batch` instantiates `BatchPromise` with a refinement mapping
(`verdict <- results`, `outcome` from `main`). The `MC...` modules give the constants
of the `.cfg` files; the `...Proofs` modules hold the theorems. `MCPools`, `MCRecords`
and `MCService` check components that share no state in one run: every behaviour is one
of a single component (the variable `part`), with the variables of the others at rest in
a state of theirs, so an invariant or an action property holds of the sum exactly if it
holds of the parts. For liveness the fairness of the parts is kept as it is, and the
others rest where they have ended.

Abstractions that hold everywhere: a status is one of `ok`, `warn`, `fail`, `skip`
and `none` (the check did not run); a summary is a tag for the wording of one
`return`; durations are reduced to the side of the threshold they are compared
with; the answers of the network are free choices (`\E`) inside the action that
asks for them. Operators whose name starts with `Mut` are wrong on purpose: each
is what a plausible slip in the code would make of the definition after it, and
`PROJECT.json` names the property that catches it.

## 3. Runs

Every module is checked with TLC on a small instance. The bounds are the
constants of the `.cfg`.

| Run | Instance | What it checks, and why the instance is enough |
|---|---|---|
| `pipeline` | two IPv4 addresses and one IPv6 address; no filter, every `--check` list of one token, two longer lists, the mail profile | a failed DNS check is the only problem besides Domain and is what "fix first" names; nothing is measured beside a TCP check that failed; `checkHTTP` always finds its transaction; no check but Delegation blames a DNS check that did not fail. Two addresses of one family are what "some answer, some do not" needs; one-token lists are where a dependency is missing |
| `pools`, batch | four targets, `--concurrency 0`, two slots in place of the default eight | bounded parallelism, join before read, history a faithful subsequence, termination, refinement of `BatchPromise`. Two slots and four targets make main block in the send twice while workers finish in any order; a kill may come at any step. `Concurrency` enters only through `Slots`, so the zero case loses nothing |
| `pools`, RDAP | three Domain checks, up to two servers each, two dates of expiry | one fetch, nobody past the once too early, every server asked, a failed bootstrap is final, everybody ends. Three callers give one that fetches, one that waits and one that comes later |
| `pools`, mail and reputation | mail domains that are complete or one step away from it; one or two addresses on five blocklists, one or two lost answers; two selectors, MX cap two | `MailSound`: where the code and the rubric of `docs/MAIL_SCORING.md` agree (`Agreed`), every dimension is credited by it unless one of its own exchanges was lost, never beyond it, and each result stands at its selector, host or endpoint; `ReputationSound`: hits are exactly the listings heard and the refusals whose TXT was lost, a receiver's blocklist fails the check and no other list does, an ok means forward-confirmed and heard to be on no production or operational list. The blocklists are of production, operational and heuristic confidence, with an allowlist among them: every branch the code sorts hits by (experimental is treated as heuristic) |
| `records`, probes | nine kinds of server, four layouts of a flight, three ways to turn a client away, two faults | `ClaimsEarned`: no flag, no fallback verdict and no early data the server's answers do not bear out; `JudgesItsAnswer`: what is judged after a write answers that write; `NothingMissed`. Two faults are what it takes to disturb both halves of a comparison |
| `records`, history | three processes, one scan each, two hosts, a reader's buffer of three pieces | short writes, failures and kills. `ReaderExact`: the reader invents nothing, hides nothing behind a damaged or overlong line without an error, and shows the newest records; `DamageBounded`: a torn record costs at most its neighbour; `HistoryGrows`: the file is only appended to. Three writers let one record fall between the parts of another and a third follow a torn line; three pieces are a line the buffer holds, four one it does not. The writers are interchangeable (symmetry) |
| `service`, ports | three ports, two with a UDP probe, two with a known name, two slots | the passes do not overlap, the slots bound both, what TCP found survives the UDP pass, the scan ends. Fewer slots than ports makes main block; a port outside the UDP map makes the second loop skip |
| `service`, STARTTLS | all fourteen protocols, the MX probe and the five injection probes; read loops of three, two pieces on the wire | for the conversations read in lines or counted bytes, and as long as no line of the server's passed for the end of a reply (`legible`): `HandoverSafe`: `tls.Client` gets the connection only after the server agreed and with no plaintext left; `InStep`: no reply is taken for the answer to another command. For all of them: `DialogueEnds`. Three reads are exhausted by a server that goes on talking, as 5, 8, 16 and 32 are in the code |
| `watch` | the composition with `Trace`: the metric `ttfb`, rings of two, three readings; http and https, one connect goroutine, three requests per transaction | `SessionSafe`: the rings hold the latest readings, the cursor comes back, the phases keep apart as far as `PhasesKeepApart` says, the redirect chain is right, at every step of every tick; `InterruptObeyed`: Ctrl+C is obeyed also during a transaction; `ImplementsWatch`. Three readings overflow a ring of two; three requests give a first, a reused and a second dialled connection, and the redirect limit. More connect goroutines per dial are in the run `phases` and in the theorems, which hold for any number |
| `tlscheck` | sixteen servers, pools of two, two lost connections | `PoolsFaithful`: the suites found are exactly those accepted and not lost, each once, in an order that does not depend on who answered; `PreferenceTrue`; `JudgementSound`: a lost probe clears the server of nothing but what that probe looks for, so that a high finding fails the check and an A+, an ok or the intermediate profile leaves only overlooked flaws; a further weakness never raises the letter; the revocation status is that of the first list that can be fetched; `CheckEnds`. Pools smaller than their work make the launcher block |
| `dnsaudit` | 35 zones, three resolvers, three audited name servers, a walk of four hops, a hash ring of four, up to two lost exchanges, truncated answers | `DnssecSound`: "validated" only when the links that `validateDNSSECChain` checks hold from an anchor to the address, and missed only after a loss or a truncated answer; NSEC3 "proven" exactly when the hash lies on an arc; `ServersJudged`: of the servers heard nobody is called lame against a majority, without glue or split who is not, and nobody passed over; `BestEffort`: a loss costs its own record, and every name the walk lists is a name of the zone; `AuditEnds`. Each zone breaks one thing; a public suffix of two labels, a zone with more servers than the cap, a walk longer than its cap and an NSEC record made up by the server are among them |
| `phases`, `dns_promises`, `tls_promises`, `mail_promises`, `robot_loss` | one transaction, one zone, one server, one domain; the probes of `records` with one fault | expect a violation, see below |

Several invariants of a run are conjunctions; the parts are definitions of their own
with their own comments in the module. The type invariant of a module is a part of
one of them, except in `Pipeline`, `Batch`, `Rdap` and `Ports`, where it is proved
instead.

### Where the code and its documentation disagree

Five runs check what lines of the repository state and TLC finds violated by what the
code does. Where several lines are about one check, the property of the run is their
disjunction: "at least one of the promises is kept". One behaviour of the code breaks all
of them at once, so the run refutes each.

- `phases` (`PhasesNeverOverlap`): "they never double-count one another"
  (`trace.go:16-18`). In the run an http target redirects to https and each dial has two
  connect goroutines. The loser of the first dial is inside its hook when `runTrace` reads
  `connStart`, so the TCP phase is torn (`trace.go:99`), and `firstByte` is of the first
  request while `tlsDone` is of the second, so the server phase is negative
  (`trace.go:165`). What is left is `PhasesKeepApart`, a part of `SessionSafe`.
- `dns_promises` (`PromisesKept`), with the exchanges to one lameness query and to one
  glue query lost:
  - "self-verified every DS / DNSKEY / RRSIG" (`dnssec.go:14`, `dnssec_chain.go:117`): the
    signature over a DNSKEY set is never looked at, nor is any validity period
    (`dnssec_chain.go:149`, `:297`);
  - a lame server "answers queries" (`dns_lame.go:11`): one that was not heard is called
    lame (`:79`); the consensus is that of "the majority" (`:60`): a tie is decided by the
    order of a map (`:70`);
  - "abort silently rather than misreport" (`dns_glue.go:49`): a lost question to the
    parent is reported as missing glue (`:86`);
  - "stale negative-cache entries ... all show up here" (`dns_propagation.go:19`): an
    NXDOMAIN counts as no answer (`:119`);
  - "by chaining queries we collect every name in the zone" (`dns_nsec_walk.go:14`): the
    second question is `next + ".a"` (`:74`), a name under the top-level domain `a`; the
    root's NSEC record answers it, the walk goes on to its cap and the zone's next name
    is never listed.
- `tls_promises` (`GradePromisesKept`): "SSL v3 supported -> cap C", "Insecure
  renegotiation -> cap F" (`tls_grade.go:27`, `:33`) and "HSTS valid (>= 1yr max-age)"
  (`:148`). SSL 3.0 is not in the list of versions handed to `gradeTLS` (`tls.go:783`), the
  renegotiation flag handed to it is another one (`:794`), and any max-age but 0 is valid
  (`:773`): one server with all three gets an A+.
- `mail_promises` (`MailPromisesKept`): TLS-RPT scores "with a parseable `rua=`"
  (`docs/MAIL_SCORING.md:115`; `mail.go:477` looks at presence only); the grading of keys
  (`:85-92`; `mail_dkim_key.go:90` calls any 32 bytes tagged `ed25519` strong, `:175` reads
  the first TXT record of a selector whatever it is); "heuristic/experimental ->
  informational note only" (`reputation.go:520`; `:592` warns); "clean across 116
  blocklists" (`README.md:137`; a query that fails is counted as a zone, `:444`).
- `robot_loss` (`RobotSurvivesLoss`): "isolates the Bleichenbacher signal from incidental
  TCP-stack quirks" (`tls_robot.go:104`); one lost connection under the valid message
  makes it differ from the others (`:108`).

Disagreements of the same kind, met while modelling and present in the models, that have
no run. The passing properties say what holds beside them:

Pipeline, history, watch, ports, command line:

- `--check delegation` skips with "DNS did not resolve" although no DNS check ran
  (`delegation.go:133`); `profile.go:92` counts Delegation among the checks that
  do not need it. `BlamesDNSTruly` leaves Delegation out.
- `--check ipv6` fails with "the host refuses IPv6 connections" although the filter let
  nobody dial (`ipv6.go:27`; the verdict is derived "from the DNS and TCP results",
  `ipv6.go:5`).
- The case for an expired registration has an unsatisfiable guard (`rdap.go:322`;
  "kept symmetric with TLS expiry handling", `rdap.go:323`).
- Two successful appends may interleave inside a line and both scans are lost
  (`history.go:88`; "safely interleave records", `history.go:19`).
- A tick's diagnosis is built from six fields only (`watch.go:106`), so `--check` and
  `--profile` have no effect in watch mode (`main.go:442`). `README.md:284` says scans
  are kept in the history; watch's are not.
- `record` takes a TTFB from a transaction that failed before its first byte
  (`watch.go:57`).
- `--format json` prints the terminal report: the switch on the format has no case for
  it (`main.go:405`; the usage at `main.go:562` lists it).
- `checkPorts` counts a port whose UDP verdict is "closed" as open
  (`ports.go:348`), and `scanUDPPort` renames an open TCP port to its UDP service
  when only the classifier answers (`ports_udp.go:127`).
- `--profile paranoid` permits the Ports check but sets no port list, so it does
  not run (`main.go:483`; `README.md:315` says it does).

STARTTLS:

- FTP "reuses the multi-line 3-digit-code format" (`starttls_dispatch.go:345`), but inside
  an FTP reply a line is free text: one with a space in its fourth column, or of fewer than
  four bytes, ends the read (`:268-271`), AUTH TLS is sent with the greeting unread, and its
  next line is judged as the answer. `HandoverSafe` and `InStep` hold as long as no such
  line was sent (`legible`). A short line inside an SMTP reply does the same (`starttls.go:164`).
- The Sieve greeting is read "until OK / NO / BYE line" (`:454`), but for 32 lines at most;
  the handler then goes on if STARTTLS was among them (`:456`).
- Telnet's exchange ends with the server's FOLLOWS (`:488-489`), which the handler does
  not read (`:522`); XMPP returns at the beginning of the `<proceed/>` tag, whose rest may
  be in the next segment (`:434`), and LDAP after one `Read` (`:555`). `upgradeToTLS`
  promises "the original conn ready for tls.Client wrapping" (`:149-150`). These handlers
  are outside `InFrames`.

DNS:

- The zones asked about are the root, what follows the first label of the registrable
  name, and that name (`dnssec_chain.go:91`): under `co.uk` the DS of `co.uk`, signed by `uk`,
  is verified with the keys of the root and the walk stops there; `:13-14` says it walks
  "down to the queried name ... at each level". `DnssecSound` speaks of the zones asked
  about. DNSSEC queries are not repeated over TCP.

TLS and the TLS probes:

- With STARTTLS the enumeration dials raw TLS, finds nothing, and the grade is F.
- The base score is of the best cipher where its comment says the weakest; a certificate
  near expiry hides a critical vulnerability in the verdict (`tls.go:827`); a revoked
  certificate does not change it; an unreadable CRL ends the search.
- "The server MUST support every version in the profile's range" (`tls_mozilla.go:115-116`),
  but either end of the range satisfies the test (`:126`), so a server with TLS 1.3 alone
  passes the intermediate profile. `ProfileEarned` says what a pass means.
- `probeCRIME` flags a ServerHello it cannot parse: the value 0xff for "unknown, not
  vulnerable" (`tls_vulns.go:1166-1167`) is not 0 (`:1158`).
- `probeFREAK` and `probeLogjam` offer more than RSA_EXPORT and DHE_EXPORT suites
  (`tls_vulns.go:817`, `:832`), and any handshake answer is a finding (`:813`, `:828`). `ClaimsEarned`
  holds them to the suites they offer.
- `renegBurstTrial` reads one record per hello "so the channel stays in sync"
  (`tls_reneg.go:176`), but the answer is a flight: the rest of it is counted as further
  renegotiations. `JudgesItsAnswer` is not about the burst.
- `handshakeForCBCOracle` "only needs the server to TRY to decrypt our record"
  (`tls_cbc_oracles.go:283`), but sends neither key exchange nor ChangeCipherSpec, so that
  the server has no keys: a padding oracle is never found, and `NothingMissed` does not
  claim it.
- The timing probe wants three pairs that agree "in the same direction"
  (`tls_cbc_oracles.go:135`) and takes the median of absolute differences (`:138`): two late
  answers of six flag a server. `FlagsAreEarned` excepts it from the second late answer on.
- A nil RSA key is not excluded (`tls_robot.go:258`); the renegotiation and CBC probes call
  themselves conclusive whatever happened.

Mail and reputation:

- A revoked or malformed selector earns 5 points (`mail.go:455`); the document gives them
  for "weak-key" selectors and lists the others apart (`MAIL_SCORING.md:89-93`). `Agreed`
  leaves such selectors out.
- A bare `all` counts as a lookup and not as a terminal (`mail.go:56`); of several
  `all`s the last decides; qualified mechanisms and `redirect=` are not counted.
- The null MX `.` counts as an MX host.
- A lost forward lookup is reported as `no_ptr` (the type's comment says `no_forward`);
  a refusal whose TXT is lost is a hit.

What the models leave out of these parts: STARTTLS asks for the MX hosts a second time
(`starttls.go:42`) and in the model gets the same ones; a truncated answer of `queryDNS`
in the mail check whose retry over TCP fails counts as wholly lost (`dns_extra.go:280-290`
may return a part); a zone transfer is one step, although only each of its reads has a
deadline and ten thousand records end it (`dns_axfr.go:77-88`); every registrable name is a
zone of its own.

## 4. Fairness

- `Batch`, `Ports`, `Rdap`: weak fairness of main and of every goroutine. The Go
  scheduler is preemptive and every network call has a deadline, so no goroutine
  stays in a step for ever. Nothing is assumed of `Kill`.
- `WatchTrace`: weak fairness of the loop and of the end of a tick once the transaction
  is over; strong fairness of `SelectSignal`: a Go `select` with several ready cases
  picks one uniformly at random, so a ready signal is not passed over for ever; weak
  fairness of the client's timeout and of the two returns of `runTrace`, and of
  nothing else in the transaction. The server may stop answering at any point: that a
  tick ends, and with it `ImplementsWatch` and `InterruptObeyed`, rests on
  `http.Client.Timeout`. Nothing is assumed of the user.
- `Starttls`: weak fairness of the dial, the deadline, the handshake and the read after
  it, all bounded by `SetDeadline`. Nothing is assumed of the server.
- `TlsCheck`, `DnsAudit`: weak fairness of the whole step relation: every exchange has a
  deadline and a lost one is a step too. A zone transfer has no deadline as a whole, but a
  deadline per read and a cap on its records, so it ends as well.
- `MCPools`, `MCService`: the fairness of their components and no other; a batch at rest is
  one that is killed before its first step.
- `Probes`, `Deliverability`, `History`: safety only.
- `Pipeline`: weak fairness of its single goroutine.

## 5. Proofs

All theorems hold for every value of the constants that satisfies the `ASSUME`s of
the modules: finite sets of addresses, of workers, of writers and of resolvers, at
least one target, a positive default for `--concurrency`, any integer for the flag
itself, positive numbers of probe slots, samples, scans and redirects, positive caps. Two
assumptions of `DnsAudit` say more: `LookupsAssumption`, that the name of a plain
lookup is not the name of an audit (the losses are tagged with these names), and
`WorldsAssumption`, the shape of a world (finitely many addresses, servers numbered by
position, hashes on the ring, `none` neither a key nor an answer; an NSEC record of the
zone is owned by a name of the zone or made up for the name asked for). They restrict
the notation and no DNS. `TlsCheck` has two of the same kind: `TablesAssumption` says that
no suite and no code occurs twice in a table the code walks (`cipherRegistryAllCodes`
drops repeated codes), and `TargetsAssumption`, that a server ranks every suite it
accepts and has only flaws some probe looks for. `Probes` asks of a server only that
it is a record of `ServerType`.

- `ScanProofs`, first part (`Pipeline`): `IInv` adds to the properties that before the TCP check nothing
  was measured and no address answers (`BeforeTCP`), that an answering address comes
  with a TCP entry that says so (`Answering`), that the DNS entry, the flag
  `resolved` and the address sets agree (`DNSAgrees`, `Unresolved`) and that a
  permitted reader of the transaction finds one (`Traced`). Without them the
  properties are not inductive: they speak of the entries, and the checks branch
  on the fields of the diagnosis. Most checks only add their own entry, so one
  lemma (`ReadsIInv`) does the work for eleven of them.
- `ScanProofs`, second part (`Batch`): `BatchIInv` says that `sem` and `wg` are the cardinalities of the sets of
  goroutines they stand for (`Counting`), that a worker past its scan has written
  its cell (`Lifecycle`), that past the join no worker is alive (`Joined`), what
  `unhealthy` counts (`Tally`) and what the history holds (`Archive`). The bound on
  parallelism and the safety of the join are consequences of `Counting`.
  `RefinesPromise` shows that every step of `runBatch` is a step of `BatchPromise` or
  leaves its variables unchanged.
- `ServiceProofs`, first part (`Ports`): the join of `Batch` made twice over one channel.
  `PortsIInv` counts
  the goroutines of the pass under way (`Counting`), says that those of the other
  pass are gone or unborn (`Lifecycle`) and that a TCP goroutine past its scan has
  written its cell (`Written`). `PassesDoNotOverlap` then follows, and with the lemma
  `MergeKeeps` on the UDP merge so does `TCPFindingsSurvive`.
- `RegistryProofs`, first part (`Rdap`): `IInv` relates the state of the once to where the
  callers are (`Gate`) and the position in the server list to the caller's place (`Progress`).
- `ServiceProofs`, second part (`Starttls`): the argument is a budget of replies. `Accounts` says that the replies
  that have ended and the one still owed are as many as the script has asked for up to
  its place (`Position`); `LockStep`, that while a read is due exactly one reply is in
  flight and its pieces have the format that read expects, and that otherwise the wire
  is empty; `Granted`, that behind the last read the server has agreed. `HandoverSafe`
  is not inductive without `LockStep`: at the handover it asks for an empty wire, which
  follows only from what every earlier read left behind. The loops that judge what they
  have when they are spent need `WithinPatience` besides. All of it holds while `legible`: from the first line that
  passes for the end of a reply the client and the server count differently, in the code
  as in the model. The handlers that take one read for one reply (XMPP, Telnet, LDAP) and
  the injection probes of SMTP and FTP are outside the claim, in the property as in the
  theorem.
- `ProbesProofs`: what a probe concludes rests on what each of its connections observed,
  and what a connection observes on what was on the wire when it read. `Placed` says
  where the probe is in its script; `Wired`, step by step, which records of the server
  are still unread (a rest of its reply to the hello, then the answer to the write and
  nothing else); `Ahead`, that the record a reader of the flight waits for is not behind
  it; `Observed`, that every observation is borne out by the server (`Sound`) and, when
  no connection was lost, is the one the server must lead to (`Steady`); `Reported`, that
  the report is the verdict on them. Of the three properties only `JudgesItsAnswer` is
  about the wire, but none is inductive without it: a verdict is given when the
  connections are closed. ROBOT and the timing probe compare answers, so what they
  flag is earned only when no connection was lost, and when at most one answer was late;
  CRIME only when the ServerHello can be parsed. The number of renegotiations of a burst
  is not bounded.
- `TlsProofs`: `IInv` has one part per thing the check prints. `PoolInv` says of each
  item of the pool under way that it is still to come, at work, answered (and on
  record once, with the server's answer) or lost; `Lives` and `LossesPast`, that no pool
  is open outside its steps and that nothing is lost of a step to come; `ProbeInv`, `AlpnInv`,
  `EnumInv`, `PrefInv`, `CrlInv`, `EachInv`, `SimInv` and `ResultInv`, what is on record
  once the script is past the step that gathers it. `PoolsFaithful` and
  `JudgementSound` are not inductive without them: what is printed at the end was
  gathered in pools that are long gone, and an answer that is missing must still be
  charged to a loss of its own step (`Overlooked`): the verdict, the A+ and the profile are
  each stated with the flaws that may have been overlooked, probe by probe. That the printed order does not depend on who
  answered needs to know what `Sorted` yields (`SortedIs`): the rank of an item in a
  strict total order is a bijection, shown with the well-foundedness of the naturals in
  place of an induction. `PreferenceTrue` rests on the suites of a row all being
  accepted, so that the answers to two hellos in opposite orders tell the server's
  policy. TLC checked `IInv` on the instance of `tlscheck` before it was proved.
- `WatchProofs`: `WatchIsSafe` for any ring size; the ring is shown equal to the last
  readings by lemmas on `SubSeq` and `Append`. `SessionRefinesWatch` maps each step of
  a session to a step of `Watch` or to a stutter. `ChainIsFaithful` holds for any
  schemes and any number of connect goroutines. `SessionIsSafe` and `TransactionIsFaithful` hold for any
  schemes and any number of connect goroutines too; `PhasesKeepApart` says what is left of
  the promise of `trace.go:16` in each case: the lookup and the handshake never overlap;
  unless http led to https, neither overlaps the server phase; and with one connect
  goroutine per dial all four keep apart. Its invariant has two halves: `Serial`, the order
  in which the transport's own goroutine leaves the timestamps of lookup, handshake and
  response, whatever the connect goroutines do; and `Unraced`, which adds those of the
  connect as long as no dial had more than one. A later lookup belongs to a later request,
  after the first byte, because a hook keeps only the first of each event.
- `HistoryProofs`: the inductive invariant says that no piece of a record is in the file twice (`Once`), a
  piece follows the earlier ones of its record (`Ordered`), whose pieces they are
  (`Attributed`, `Current`), that what was acknowledged is there (`InFile`), and that
  the file breaks off in at most as many places as writes were cut short (`Torn`).
  `DamageIsBounded` then is a count: every acknowledged record that is not shown is
  charged to a break, and no break is charged more than twice. `ReaderIsExact` needs
  to know what `InOrder` yields; that is an induction over data, replaced by an
  argument about a least counterexample, for which the library's well-foundedness of
  the naturals is enough.
- `DnsAuditProofs`: `IInv` has one part per result. `Chain` says that at the place
  `sec.zone` of the validation every link above it holds, and at its end why it
  stopped; `Audited`, that each server has a result or a goroutine at work on it, at the
  server's own index, that a result not lost is what the server has, and that the flags
  are those of one of the serials the vote may end on; `Heard`, `Walking` and `Denied`
  do the same for the resolvers, the walk and the NSEC3 proof; `Resolving`, `Fetched` and
  `NameServers` tie what is missing to an exchange that was lost. The verdicts are not
  inductive without them, because they are given after the goroutines that
  collected the evidence are gone. TLC checked `IInv` on the instance of `dnsaudit`
  before it was proved.
- `RegistryProofs`, second part (`checkReputation` in `Deliverability`): `RepInv` says of
  each pair of an address and a blocklist that its goroutine is at work and has left
  no trace, or is gone and has left a hit exactly if the pair is listed
  (`AskedPair`); that the check has declined answers to report exactly if a goroutine
  that is gone met one (`DeclinedRightly`); and that an address passes only with a name
  of its own that leads back to it (`Confirmations`). `checkMail` before it touches
  none of that (`Untouched`, lemma `MailStep`). `ReputationIsSound` rests on
  `ListsAssumption`: no zone occurs twice in `dnsblZones` (true of the table; two
  goroutines of one zone would share the tag of a lost exchange), each has one of the
  four levels of confidence, and the kinds of answers are those named.
- `RegistryProofs`, third part (`checkMail` in `Deliverability`): `MailInv` says of each
  probe that it is at work and has lost nothing, or is gone and has left what the world
  and its own losses make of it (`Probed`, `Selected`, `Asked`); that what stood when a
  pool was joined stands until the end (`Gathered`, `KeysHeard`, `Added`,
  `Authorizing`); and that nothing is lost of a step to come (`LossesInTurn`), without
  which a loss could be charged to the wrong dimension. `ScoreFaithful` then is one lemma
  per dimension (`SPFCredited` to `V6Credited`), and the sum of seven inequalities. The
  rubric's "terminal" directive of an SPF record is its last qualified `all`;
  `ParseFindsEnd` shows that `parseSPF` finds it. `MailIsSound` rests on
  `DomainsAssumption`: lists are lists, `Nil` is not a record, and a TXT record with a key
  in it looks like DKIM. A selector may have any number of TXT records and a key any tag;
  the comparison with the rubric is made where the code and the document agree
  (`Agreed`), and section 3 lists where they do not.

Only model-checked: liveness (`BatchEnds`, `LookupsEnd`, `ScanEnds`, `InterruptObeyed`,
`DialogueEnds`, `CheckEnds`, `AuditEnds`) and the fairness part of `KeepsPromise` and
`ImplementsWatch`, which need `ENABLED`. Every invariant and every action property of a
passing run is a theorem.

## 6. Not modelled

- Rendering (terminal, HTML, Markdown, JSON, write-out): formatting.
- The bytes of the protocols: hellos, key schedules, ASN.1, SMB2, RDP, LDAP, MongoDB,
  SSH. Their outcomes are the free choices of the checks.
- Raw sockets and ICMP: the operating system.
- The iterative delegation walk and the parallel path probes: their guards and
  verdicts are in `Pipeline`, the walk itself is not.
- The grading of security headers, CSP and cookies: a score chosen freely.
- Flag parsing, usage, `parseTarget`: `Pipeline`, `Batch` and `Watch` start from what the
  flags leave behind.
- Chain building, SCT and OCSP parsing of `checkTLS`, and the JARM fingerprint: data
  formats.
- The diff of two reports.

## 7. Plan

Worth modelling next: the delegation walk; `reportDiff` against a reference definition
over the JSON round trip of a baseline; one fan-out/join promise that `Ports`, the
pools of `DnsAudit` and those of `Deliverability` all refine.
