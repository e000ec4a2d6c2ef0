------------------------------- MODULE Verdicts -------------------------------
(***************************************************************************)
(* The status each diagnostic check of netdoc returns, as a function of    *)
(* the evidence it gathered from the network.  Every check is a Go method  *)
(* of *diagnosis that returns a Check; what is kept of a Check is its      *)
(* Status and a tag for the wording of its Summary where some property     *)
(* tells the wordings apart.  "verdict" is every other wording.  The       *)
(* switches of the code take their first true case, hence the IF ladders.  *)
(***************************************************************************)
EXTENDS Integers

Statuses == {"ok", "warn", "fail", "skip"}

Summaries == {"verdict", "no_dns", "no_addresses", "no_v4", "no_icmp",
              "not_https", "not_http", "no_transaction", "request_failed",
              "no_response", "no_mx", "no_aaaa", "blackhole", "no_local_v6",
              "rdap_unavailable", "expired", "not_run"}

Check(status, summary) == [status |-> status, summary |-> summary]
Skip(summary)          == Check("skip", summary)
Verdict(status)        == Check(status, "verdict")

(* A check the filter left out has no entry in Report.Checks.              *)
NotRun == [status |-> "none", summary |-> "not_run"]

(***************************************************************************)
(* checkDNS, after the lookup: no answer or an empty one fails, a lookup   *)
(* above 300 ms warns.                                                     *)
(***************************************************************************)
DNSVerdict(found, slow) ==
  IF ~found THEN Verdict("fail")
  ELSE Verdict(IF slow THEN "warn" ELSE "ok")

(***************************************************************************)
(* checkDomain, after the RDAP answer.  daysLeft is -1 when the registry   *)
(* gave no expiration, otherwise the whole days to it (negative once it is *)
(* past; Go truncates towards zero).                                       *)
(***************************************************************************)
DomainVerdict(daysLeft) ==
  IF daysLeft >= 0 /\ daysLeft < 0 THEN Check("fail", "expired")
  ELSE IF daysLeft >= 0 /\ daysLeft < 30 THEN Verdict("warn")
  ELSE Verdict("ok")

(* The verdict over one address family: none, some or all of it connected. *)
FamilyVerdict(total, connected) ==
  IF connected = 0 THEN Verdict("fail")
  ELSE IF connected < total THEN Verdict("warn")
  ELSE Verdict("ok")

(***************************************************************************)
(* checkTCP, after every address was dialled.  IPv4 alone is judged when   *)
(* the host has any IPv4 address.                                          *)
(***************************************************************************)
TCPVerdict(v4total, v4ok, v6total, v6ok) ==
  IF v4total > 0 THEN FamilyVerdict(v4total, v4ok) ELSE FamilyVerdict(v6total, v6ok)

(***************************************************************************)
(* checkLatency: five probes, of which fails were lost; jittery says that  *)
(* the deviation exceeds half of an average above 5 ms, which the code     *)
(* only asks with at least three answers.                                  *)
(***************************************************************************)
LatencyProbes == 5

LatencyVerdict(fails, jittery) ==
  IF fails = LatencyProbes THEN Verdict("fail")
  ELSE IF 2 * fails >= LatencyProbes THEN Verdict("fail")
  ELSE IF fails > 0 THEN Verdict("warn")
  ELSE IF jittery THEN Verdict("warn")
  ELSE Verdict("ok")

(* checkPath, once ICMP is known to exist on the platform.                 *)
PathVerdict(hops, reached) ==
  IF hops > 0 /\ reached THEN Verdict("ok") ELSE Verdict("warn")

(***************************************************************************)
(* checkTLS, after a handshake that produced a certificate.  rank is the   *)
(* severity of the worst vulnerability found, 0 when there is none.        *)
(***************************************************************************)
TLSVerdict(verifies, daysLeft, rank, weakCipher, weakVersions) ==
  IF ~verifies THEN Verdict("fail")
  ELSE IF daysLeft < 0 THEN Verdict("fail")
  ELSE IF daysLeft < 21 THEN Verdict("warn")
  ELSE IF rank >= 3 THEN Verdict("fail")
  ELSE IF rank > 0 THEN Verdict("warn")
  ELSE IF weakCipher THEN Verdict("warn")
  ELSE IF weakVersions THEN Verdict("warn")
  ELSE Verdict("ok")

(* checkHTTP, on a transaction that completed.                             *)
HTTPVerdict(code, slow) ==
  IF code >= 500 THEN Verdict("fail")
  ELSE IF code >= 400 THEN Verdict("warn")
  ELSE IF slow THEN Verdict("warn")
  ELSE Verdict("ok")

(* checkSecurityHeaders and checkMail: a score below 80 warns, never fails. *)
ScoreVerdict(score) == Verdict(IF score >= 80 THEN "ok" ELSE "warn")

(* checkDiscovery: finding nothing is not a problem.                       *)
DiscoveryVerdict(found) == IF found = 0 THEN Skip("verdict") ELSE Verdict("ok")

(***************************************************************************)
(* checkReputation, from the numbers of blocker hits, other hits and       *)
(* failed FCrDNS probes over all addresses.                                *)
(***************************************************************************)
ReputationVerdict(blockers, other, fcrdnsBad) ==
  IF blockers > 0 THEN Verdict("fail")
  ELSE IF other > 0 \/ fcrdnsBad > 0 THEN Verdict("warn")
  ELSE Verdict("ok")

(* checkIPv6, from what the DNS and TCP checks left behind.                *)
IPv6Verdict(aaaa, connected, localV6) ==
  IF aaaa = 0 THEN Skip("no_aaaa")
  ELSE IF connected > 0 THEN Verdict("ok")
  ELSE IF localV6 THEN Check("fail", "blackhole")
  ELSE Skip("no_local_v6")
===============================================================================
