----------------------------- MODULE MCDnsAudit -----------------------------
(***************************************************************************)
(* DnsAudit on a handful of zones: one signed and in order, and variations *)
(* of it, each of which breaks one thing that one of the audits looks at.  *)
(***************************************************************************)
EXTENDS DnsAudit

Server(up, aa, serial, inside, glue, open) ==
  [up |-> up, aa |-> aa, serial |-> serial, inside |-> inside, glue |-> glue, open |-> open, version |-> open]

Root == [ds |-> {}, dsSig |-> None, ksk |-> {"rootKSK"}, zsk |-> {"rootZSK"}, keySig |-> "rootKSK"]
Tld  == [ds |-> {"tldKSK"}, dsSig |-> "rootZSK", ksk |-> {"tldKSK"}, zsk |-> {"tldZSK"}, keySig |-> "tldKSK"]
Second == [ds |-> {"secKSK"}, dsSig |-> "tldZSK", ksk |-> {"secKSK"}, zsk |-> {"secZSK"}, keySig |-> "secKSK"]
Reg  == [ds |-> {"regKSK"}, dsSig |-> "tldZSK", ksk |-> {"regKSK", "newKSK"}, zsk |-> {"regZSK"}, keySig |-> "regKSK"]

Denials == {[nx |-> TRUE, hash |-> h, nsec3 |-> {[owner |-> o, next |-> n]}, nsec |-> FALSE] :
              h \in 0..3, o \in 0..3, n \in 0..3}
OneDenial == {[nx |-> TRUE, hash |-> 0, nsec3 |-> {}, nsec |-> TRUE]}

(* In order: signed, NSEC, three servers of which two are in the zone.     *)
Good ==
  [faults |-> 2, transport |-> "udp", truncated |-> {"caa"}, addr |-> [A |-> {1}, AAAA |-> {11}],
   rec |-> [mx |-> {"m"}, caa |-> {"c1", "c2"}], asn |-> {1}, roa |-> "VALID",
   ns |-> << >>, server |-> << >>, parent |-> TRUE,
   zones |-> <<Root, Tld, Reg>>, suffix |-> 2, aSig |-> "regZSK", aliasSigned |-> FALSE, inForce |-> TRUE,
   registrable |-> TRUE, ad |-> TRUE,
   cookies |-> TRUE, apex |-> "zone", names |-> {"zone", "www"}, link |-> [owner |-> "www", next |-> "zone"], rootLink |-> TRUE,
   view |-> <<"x", "x", "x">>, denials |-> OneDenial, ecs |-> << >>, algorithms |-> {"RSA"}]

(* Neither signed nor answered with much: the background of the others.    *)
Plain == [Good EXCEPT !.aSig = None, !.ad = FALSE, !.truncated = {}, !.asn = {}, !.addr.AAAA = {}, !.cookies = FALSE]

(* Chains broken at one place each.                                        *)
Chains ==
  {[Good EXCEPT !.zones[1].ksk = {"oldKSK"}], [Good EXCEPT !.zones[2].dsSig = "tldZSK"], [Good EXCEPT !.zones[3].ds = {}],
   [Good EXCEPT !.zones[3].ds = {"regZSK"}], [Good EXCEPT !.zones[3].ksk = {}, !.zones[3].zsk = {}],
   [Good EXCEPT !.zones[3].dsSig = None], [Good EXCEPT !.registrable = FALSE], [Good EXCEPT !.aSig = "tldZSK"],
   [Good EXCEPT !.aSig = None, !.aliasSigned = TRUE]}

(* Chains with answers cut short, a key set without a signature, and       *)
(* signatures out of date; a suffix of two labels, as co.uk.               *)
Truncations == {[Good EXCEPT !.truncated = {"dnssec"}], [Good EXCEPT !.truncated = {"dnssec"}, !.aSig = "newKSK"]}
Unsigned    == {[Good EXCEPT !.zones[3].keySig = None]}
Expired     == {[Good EXCEPT !.inForce = FALSE]}
TwoLabels   == {[Good EXCEPT !.zones = <<Root, Tld, Second, [Reg EXCEPT !.dsSig = "secZSK"]>>, !.suffix = 3]}

(* Families present, absent and cut; the two ways to resolve.              *)
Resolutions ==
  {[Plain EXCEPT !.addr = [A |-> {}, AAAA |-> {}]], [Plain EXCEPT !.addr = [A |-> {1, 2}, AAAA |-> {11}], !.truncated = {"A"}],
   [Plain EXCEPT !.transport = "system"], [Plain EXCEPT !.transport = "system", !.rec = [mx |-> {}, caa |-> {}]]}

(* Walks that do not stop at the apex at once; a record made up for the    *)
(* name the walk asks for.                                                 *)
LongWalk == [Good EXCEPT !.names = {"zone", "www", "zz"}, !.link.next = "zz"]
Walks ==
  {[LongWalk EXCEPT !.rootLink = r] : r \in BOOLEAN}
    \cup {[Good EXCEPT !.link = NoLink, !.denials = Denials], [Good EXCEPT !.link = [owner |-> Start, next |-> "0"]]}

(* Name servers: four of them, above the cap, with two serials; three that *)
(* disagree, without authority, without a serial, down.  Eleven goroutines *)
(* and more are at work at once here, so only one exchange is lost.        *)
Named(servers, parent) ==
  [Plain EXCEPT !.faults = 1, !.ns = SubSeq(<<"n1", "n2", "n3", "n4">>, 1, Len(servers)), !.parent = parent,
                !.server = [n \in {"n1", "n2", "n3", "n4"} |->
                              LET i == CHOOSE i \in 1..4 : <<"n1", "n2", "n3", "n4">>[i] = n
                              IN  IF i <= Len(servers) THEN servers[i] ELSE servers[1]]]
Delegations ==
  {Named(<<Server(TRUE, TRUE, 7, TRUE, TRUE, FALSE), Server(TRUE, TRUE, 7, TRUE, FALSE, FALSE),
           Server(TRUE, TRUE, 6, FALSE, FALSE, TRUE), Server(TRUE, TRUE, 6, FALSE, FALSE, FALSE)>>, TRUE),
   Named(<<Server(TRUE, TRUE, 7, FALSE, FALSE, FALSE), Server(TRUE, FALSE, 6, TRUE, TRUE, FALSE),
           Server(TRUE, FALSE, 6, TRUE, FALSE, TRUE)>>, TRUE),
   Named(<<Server(TRUE, TRUE, 0, TRUE, TRUE, TRUE), Server(FALSE, FALSE, 0, TRUE, TRUE, FALSE)>>, FALSE)}

(* What the public resolvers see.                                          *)
Propagations ==
  {[Plain EXCEPT !.view = v, !.ecs = e, !.ad = a] :
     v \in {<<"x", "x", "y">>, <<"x", "NXDOMAIN", "x">>, <<"x", "empty", "empty">>, <<"NXDOMAIN", "NXDOMAIN", "NXDOMAIN">>},
     e \in {<<{"p"}, {"q"}>>}, a \in BOOLEAN}

Rollovers == {[Good EXCEPT !.algorithms = {"RSA", "ECDSA"}, !.truncated = {"dnskey"}]}

(* A zone on which a check may break all the promises of PromisesKept: a   *)
(* key set without a signature, signatures out of date, an update that has *)
(* reached one of three servers (all inside the zone, with glue), a stale  *)
(* denial, an NSEC chain of three names, and two exchanges to lose.        *)
Sound == Server(TRUE, TRUE, 7, TRUE, TRUE, FALSE)
MCUnlucky ==
  {[Named(<<Sound, [Sound EXCEPT !.serial = 6], Sound>>, TRUE) EXCEPT
      !.faults = 2, !.aSig = "regZSK", !.zones[3].keySig = None, !.inForce = FALSE,
      !.view = <<"x", "NXDOMAIN", "x">>, !.names = {"zone", "www", "zz"}, !.link.next = "zz",
      !.rec = [mx |-> {}, caa |-> {}]]}

MCWorlds == {Good} \cup Chains \cup Truncations \cup Unsigned \cup Expired \cup TwoLabels
             \cup Resolutions \cup Walks \cup Delegations \cup Propagations \cup Rollovers

=============================================================================
