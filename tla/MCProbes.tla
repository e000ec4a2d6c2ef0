------------------------------- MODULE MCProbes -------------------------------
(* Servers for Probes: a modern one, an old one with everything, a patched *)
(* old one, one that speaks TLS 1.0 only, one that speaks TLS 1.3 only,    *)
(* one with export suites but not RSA's, and one whose ServerHello is cut. *)
EXTENDS Probes

Framings == {"one", "big", "each", "split"}
Manners  == {"alert", "close", "silent"}

Modern  == [versions |-> {TLS12, TLS13}, suites |-> {"ECDHE", "TLS13"},
            features |-> {"scsv", "ems", "reneg_info", "alpn", "mlkem", "tickets", "x25519"}]
Early   == [Modern EXCEPT !.versions = {TLS13}, !.features = {"tickets", "early_data", "x25519"}]
Flawed  == [versions |-> {SSL3, TLS10, TLS11, TLS12},
            suites |-> {"AES128CBC", "RSA", "RC4", "3DES", "DHE", "DHE_EXPORT", "RSA_EXPORT", "OBSCURE"},
            features |-> {"ssl2", "heartbeat", "compression", "ccs", "padding", "oracle", "echo", "renegotiation"}]
Patched == [versions |-> {TLS10, TLS11, TLS12}, suites |-> {"AES128CBC", "ECDHE"},
            features |-> {"scsv", "ems", "tickets"}]
Dated   == [versions |-> {TLS10}, suites |-> {"ECDHE", "AES128CBC"}, features |-> {"badcert"}]
Bare    == [Modern EXCEPT !.features = {}]
Retry   == [Modern EXCEPT !.features = {"tickets"}]

Anon    == [Patched EXCEPT !.suites = {"AES128CBC", "ANON_EXPORT", "DH_DSS"}, !.features = {"oracle", "renegotiation"}]
Mangled == [Patched EXCEPT !.features = {"mangled", "echo", "renegotiation"}]

MCServers == {[versions |-> s.versions, suites |-> s.suites, features |-> s.features, framing |-> f, manner |-> m] :
                s \in {Modern, Early, Flawed, Patched, Dated, Retry, Bare, Anon, Mangled}, f \in Framings, m \in Manners}
===============================================================================
