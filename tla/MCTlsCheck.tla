----------------------------- MODULE MCTlsCheck -----------------------------
(* Targets for TlsCheck, each with a different thing wrong.                *)
EXTENDS TlsCheck

MCCandidates13 == <<"tls13", "tls13ccm">>
MCCandidates12 == <<"ecdheAead", "ecdheCbc", "dheChacha", "des3">>
MCRegistry == <<[cipher |-> "export", sev |-> "broken", code |-> 3], [cipher |-> "des3", sev |-> "weak", code |-> 10],
                [cipher |-> "rc4", sev |-> "broken", code |-> 5]>>
MCProtocols == <<"h2", "http11", "smtp">>
MCClients == <<[min |-> "TLS12", max |-> "TLS13", suites |-> << >>],
               [min |-> "TLS10", max |-> "TLS10", suites |-> <<"rsaCbc", "des3">>],
               [min |-> "TLS10", max |-> "TLS12", suites |-> <<"ecdheCbc">>]>>

NoSuites == [v \in ToSet(Versions) |-> {}]
Order == <<"tls13", "tls13ccm", "ecdheAead", "ecdheCbc", "dheChacha", "rsaCbc", "rc4", "des3", "export">>

GoodCert == [verifies |-> TRUE, daysLeft |-> 90, key |-> [alg |-> "rsa", bits |-> 2048], weakSignature |-> FALSE]

Modern1 == [versions |-> {"TLS12", "TLS13"},
            suites |-> [NoSuites EXCEPT !["TLS12"] = {"ecdheAead"}, !["TLS13"] = {"tls13"}],
            order |-> Order, policy |-> "server", flaws |-> {}, dh |-> [bits |-> 0, common |-> FALSE],
            reneg |-> "present", cert |-> GoodCert, hsts |-> "year", starttls |-> FALSE, each |-> FALSE,
            alpn |-> {"h2", "http11", "smtp"}, points |-> <<"ldap", "down", "good">>, scsv |-> "protected"]

OnlyTLS13 == [Modern1 EXCEPT !.versions = {"TLS13"}, !.points = <<"down", "revoked">>, !.scsv = "unknown"]
Experimental == [OnlyTLS13 EXCEPT !.suites["TLS13"] = {"tls13", "tls13ccm"}, !.hsts = "none", !.points = <<"garbled", "good">>]
Mixed   == [Modern1 EXCEPT !.suites["TLS12"] = {"ecdheAead", "ecdheCbc", "dheChacha"},
                           !.cert.weakSignature = TRUE, !.points = << >>, !.alpn = {"h2"}]
Robots  == [Modern1 EXCEPT !.flaws = {"ROBOT"}]
Follows == [Mixed EXCEPT !.policy = "client", !.flaws = {"Sleeping_POODLE", "ROBOT"}, !.scsv = "open"]
Chacha  == [Mixed EXCEPT !.policy = "chacha", !.dh = [bits |-> 1024, common |-> TRUE]]
Legacy  == [Modern1 EXCEPT !.versions = {"TLS10", "TLS12"}, !.each = TRUE,
              !.suites = [NoSuites EXCEPT !["TLS10"] = {"ecdheCbc", "des3", "rc4"}, !["TLS12"] = {"ecdheCbc", "rc4", "export"}],
              !.flaws = {"Heartbleed", "Distrusted_CA"}, !.cert.key = [alg |-> "ecdsa", bits |-> 256],
              !.points = <<"ldap">>]
Hidden  == [Modern1 EXCEPT !.versions = {"TLS10", "TLS12", "TLS13"}, !.suites["TLS10"] = {"rsaCbc"}]
Old1    == [Modern1 EXCEPT !.versions = {"TLS10"}, !.suites = [NoSuites EXCEPT !["TLS10"] = {"ecdheCbc"}]]
Renegs  == [Modern1 EXCEPT !.flaws = {"renegotiation", "renegotiation_DoS"}, !.reneg = "absent", !.cert.daysLeft = 10]
Expired == [Modern1 EXCEPT !.cert.verifies = FALSE, !.cert.daysLeft = -1, !.cert.key = [alg |-> "rsa", bits |-> 512]]
Mail    == [Mixed EXCEPT !.starttls = TRUE, !.flaws = {"Heartbleed", "Distrusted_CA"}]

Ssl3    == [Modern1 EXCEPT !.flaws = {"POODLE"}, !.hsts = "zero"]
Unsafe  == [Modern1 EXCEPT !.reneg = "absent"]
Brief   == [OnlyTLS13 EXCEPT !.hsts = "short"]

(* SSL 3.0 besides TLS 1.2 and 1.3, no RFC 5746, and a short max-age.      *)
MCUncapped == {[Modern1 EXCEPT !.flaws = {"POODLE"}, !.reneg = "absent", !.hsts = "short"]}

MCTargets == {Modern1, Robots, OnlyTLS13, Experimental, Mixed, Follows, Chacha, Legacy, Hidden, Old1, Renegs, Expired, Mail, Ssl3, Unsafe, Brief}
=============================================================================
