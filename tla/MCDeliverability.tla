--------------------------- MODULE MCDeliverability ---------------------------
(***************************************************************************)
(* Deliverability on a domain that has everything, on variations of it in  *)
(* which one record is missing, weak or doubled, and on addresses with     *)
(* every kind of answer of a blocklist and of the reverse zone.            *)
(***************************************************************************)
EXTENDS Deliverability

Key(k, kind, bits) == <<[looks |-> TRUE, p |-> "key", k |-> k, kind |-> kind, bits |-> bits]>>
Revoked == <<[looks |-> TRUE, p |-> "revoked", k |-> "rsa", kind |-> "none", bits |-> 0]>>
Unrelated(p) == <<[looks |-> FALSE, p |-> p, k |-> "absent", kind |-> "none", bits |-> 0]>>
Endpoint(dest, leave) == [dest |-> dest, leave |-> leave]

MCSelectors == {"google", "k1"}
MCZones ==
  {[name |-> "zen", tier |-> "composite", confidence |-> "production"],
   [name |-> "sorbs", tier |-> "spam", confidence |-> "operational"],
   [name |-> "dyna", tier |-> "dynamic", confidence |-> "operational"],
   [name |-> "draft", tier |-> "spam", confidence |-> "heuristic"],
   [name |-> "good", tier |-> "allowlist", confidence |-> "production"]}

(* 100 points: two MX hosts, reports to one's own and to another domain.   *)
Full ==
  [faults |-> 1, resolved |-> TRUE, literal |-> FALSE, mx |-> <<"m1", "m2">>,
   txt |-> << <<"other">>, <<"v=spf1", "lookup", "-all">> >>,
   dmarc |-> <<[v |-> "DMARC1", p |-> "reject", pct |-> 100, rua |-> <<Endpoint("own", FALSE)>>, ruf |-> <<Endpoint("other", TRUE)>>]>>,
   sts |-> [dns |-> TRUE, status |-> 200, mode |-> "enforce"], rpt |-> "rua", bimi |-> TRUE,
   smtp |-> [m \in {"m1", "m2", "m3"} |-> IF m = "m1" THEN "tls" ELSE "plain"],
   tlsa |-> [m \in {"m1", "m2", "m3"} |-> IF m = "m1" THEN {1} ELSE {1, 3}],
   aaaa |-> [m \in {"m1", "m2", "m3"} |-> m = "m2"],
   dkim |-> [s \in MCSelectors |-> IF s = "google" THEN Key("rsa", "rsa", 2048) ELSE Key("absent", "rsa", 512)],
   ip |-> << >>, listing |-> << >>]

Bare == [Full EXCEPT !.txt = << <<"other">> >>, !.dmarc = << >>, !.sts.dns = FALSE, !.rpt = "none", !.bimi = FALSE,
                     !.tlsa = [m \in {"m1", "m2", "m3"} |-> {}], !.aaaa = [m \in {"m1", "m2", "m3"} |-> FALSE],
                     !.dkim = [s \in MCSelectors |-> << >>]]

Domains ==
  {[Full EXCEPT !.faults = 2], Bare,
   [Full EXCEPT !.mx = << >>], [Full EXCEPT !.literal = TRUE], [Full EXCEPT !.resolved = FALSE],
   [Full EXCEPT !.mx = <<"m1", "m2", "m3">>, !.smtp["m2"] = "down"],
   [Full EXCEPT !.txt = << <<"v=spf1", "lookup", "all">> >>, !.sts.status = 404],
   [Full EXCEPT !.txt = << <<"v=spf1", "-all", "lookup", "lookup", "~all">>, <<"v=spf1", "-all">> >>, !.sts.mode = "testing",
                !.dkim = [s \in MCSelectors |-> IF s = "k1" THEN Key("ed25519", "ed25519", 256) ELSE Key("rsa", "rsa", 512)]],
   [Bare EXCEPT !.dkim["k1"] = Key("ecdsa", "ecdsa", 224), !.txt = << <<"v=spf1", "+all">> >>,
                !.dmarc = <<[v |-> "other", p |-> "absent", pct |-> 100, rua |-> << >>, ruf |-> << >>],
                            [v |-> "DMARC1", p |-> "none", pct |-> 50, rua |-> << >>, ruf |-> << >>]>>],
   [Bare EXCEPT !.dkim["k1"] = Revoked, !.rpt = "bare"],
   [Bare EXCEPT !.dkim["k1"] = Unrelated("revoked") \o Key("rsa", "rsa", 2048), !.dkim["google"] = Unrelated("blank") \o Key("rsa", "rsa", 512)],
   [Bare EXCEPT !.dkim["google"] = Key("ed25519", "rsa", 512)],
   [Bare EXCEPT !.dkim["k1"] = Key("dsa", "dsa", 1024), !.tlsa["m2"] = {0, 1},
                !.dmarc = <<[v |-> "DMARC1", p |-> "quarantine", pct |-> 100,
                             rua |-> <<Endpoint("other", FALSE), Endpoint("own", FALSE), Endpoint("unreadable", FALSE)>>, ruf |-> << >>]>>]}

(* Addresses: one or two of them, with no mail to look at.                 *)
Name(forward, generic) == [forward |-> forward, generic |-> generic]
Listed5(zen, sorbs, dyna, draft, good) ==
  "zen" :> zen @@ "sorbs" :> sorbs @@ "dyna" :> dyna @@ "draft" :> draft @@ "good" :> good
Listing(zen, draft, good) == Listed5(zen, "none", "none", draft, good)
At(ip, listing) == [Full EXCEPT !.mx = << >>, !.ip = ip, !.listing = listing]

Hosts ==
  {At(1 :> <<Name("own", FALSE)>>, 1 :> Listing(zen, draft, good)) :
     zen \in {"none", "listed", "sentinel", "refused"}, draft \in {"none", "listed", "parked", "refused"}, good \in {"none", "listed"}}
  \cup {[At(1 :> <<Name("own", FALSE)>>, 1 :> Listing(zen, draft, "none")) EXCEPT !.faults = 2] :
          zen \in {"listed", "refused"}, draft \in {"listed", "refused"}}
  \cup {At(1 :> <<Name("own", FALSE)>>, 1 :> Listed5("none", sorbs, dyna, "none", "none")) :
          sorbs \in {"none", "listed"}, dyna \in {"none", "listed", "refused"}}
  \cup {At(1 :> ptrs, 1 :> Listing("none", "none", "none")) :
          ptrs \in UNION {[1..n -> {Name(f, g) : f \in {"own", "others", "alias", "none"}, g \in BOOLEAN}] : n \in 0..2}}
  \cup {At(1 :> <<Name("alias", FALSE), Name("own", FALSE)>> @@ 2 :> <<Name("own", TRUE)>>,
            1 :> Listing("none", "listed", "none") @@ 2 :> Listing("sentinel", "refused", "none"))}

(* Both checks, one after the other, on what both can be lost in.          *)
Both == [Bare EXCEPT !.mx = <<"m1">>, !.ip = (1 :> <<Name("own", FALSE)>>), !.listing = (1 :> Listing("refused", "none", "none"))]

MCWorlds == Domains \cup Hosts \cup {Both}

(* A domain on which a diagnosis may break all of MailPromisesKept: a      *)
(* TLS-RPT record without rua, an RSA key tagged ed25519, a strong key     *)
(* behind an unrelated record, a heuristic listing, and one exchange to    *)
(* lose.                                                                   *)
MCUnlucky ==
  {[Bare EXCEPT !.mx = <<"m1">>, !.rpt = "bare",
                !.dkim = [s \in MCSelectors |-> IF s = "google" THEN Key("ed25519", "rsa", 512)
                                                ELSE Unrelated("revoked") \o Key("rsa", "rsa", 2048)],
                !.ip = (1 :> <<Name("own", FALSE)>>), !.listing = (1 :> Listing("none", "listed", "none"))]}
===============================================================================
