----------------------------- MODULE TlsPosture -----------------------------
(***************************************************************************)
(* The decisions checkTLS takes once its probes are back: which known      *)
(* vulnerabilities the findings amount to (tls_vulns.go), the letter grade *)
(* (tls_grade.go), compliance with Mozilla's three profiles                *)
(* (tls_mozilla.go), the grade of a cipher suite (cipher_enum.go) and the  *)
(* verdict on who orders the suites (tls_preference.go).                   *)
(*                                                                         *)
(* A cipher suite is one of the classes the code tells apart, each a set   *)
(* of IANA codepoints of the source's tables:                              *)
(*   tls13 1301-1303       tls13ccm 1304-1305     ecdheAead c02f.. cca9    *)
(*   dheAead 009e 009f     dheChacha ccaa         ecdheCbc c013.. c00a     *)
(*   ecdheCbc2 c027 c023   dheCbc 0033 0039       dheCbc2 0067 006b        *)
(*   rsaAead 009c 009d     rsaCbc 002f 0035       rsaCbc2 003c             *)
(*   rsaCbc3 003d          rc4 0005               rc4md5 0004              *)
(*   ecdheRc4 c011 c007    des3 000a              ecdheDes3 c012 c008      *)
(*   export 0003           exportDes 0008 0014                             *)
(***************************************************************************)
EXTENDS Verdicts, SequencesExt, FiniteSetsExt

Versions == <<"TLS10", "TLS11", "TLS12", "TLS13">>
Classes  == {"tls13", "tls13ccm", "ecdheAead", "dheAead", "dheChacha", "ecdheCbc", "ecdheCbc2", "dheCbc",
             "dheCbc2", "rsaAead", "rsaCbc", "rsaCbc2", "rsaCbc3", "rc4", "rc4md5", "ecdheRc4", "des3", "ecdheDes3",
             "export", "exportDes"}

(* Where a version stands in the protocol order (tlsVersionLessThan).      *)
VersionRank(v) == CHOOSE i \in DOMAIN Versions : Versions[i] = v

-----------------------------------------------------------------------------
(* Cipher suites                                                           *)

(* classifyCipher: A, B, C or F.                                           *)
Grade(c) ==
  CASE c \in {"tls13", "tls13ccm", "ecdheAead"}                     -> "A"
    [] c \in {"dheAead", "dheChacha", "ecdheCbc", "ecdheCbc2", "dheCbc", "dheCbc2"} -> "B"
    [] c \in {"rsaAead", "rsaCbc", "rsaCbc2", "rsaCbc3"}            -> "C"
    [] c \in {"rc4", "rc4md5", "ecdheRc4", "des3", "ecdheDes3", "export", "exportDes"} -> "F"
    [] OTHER                                                        -> "?"

(* grade2rank: a grade it does not know ranks below F.                     *)
GradeRank(g) == CASE g = "A" -> 4 [] g = "B" -> 3 [] g = "C" -> 2 [] g = "D" -> 1 [] g = "F" -> 0 [] OTHER -> -1

(* The worst grade of an enumeration, "A" when nothing is below it.        *)
WorstGrade(ciphers) ==
  CHOOSE g \in {"A"} \cup {Grade(c) : c \in ToSet(ciphers)} :
    \A c \in ToSet(ciphers) : GradeRank(g) <= GradeRank(Grade(c))

IsCBC(c)           == c \in {"des3", "rsaCbc", "rsaCbc2", "ecdheCbc", "ecdheCbc2"}
Is3DES(c)          == c = "des3"
IsRC4(c)           == c \in {"rc4", "ecdheRc4"}
IsWeak(c)          == c \in {"rc4", "ecdheRc4", "des3", "rsaCbc2"}
NamesRC4(c)        == c \in {"rc4", "rc4md5", "ecdheRc4", "export"}
IsForwardSecret(c) == c \in {"tls13", "ecdheAead", "ecdheCbc", "ecdheCbc2", "ecdheRc4"}

-----------------------------------------------------------------------------
(* Vulnerabilities                                                         *)

SeverityRank(s) == CASE s = "critical" -> 4 [] s = "high" -> 3 [] s = "medium" -> 2 [] s = "low" -> 1 [] OTHER -> 0

(***************************************************************************)
(* detectTLSVulns and the findings checkTLS appends to it.  A posture p    *)
(* holds flags, the findings of the yes-or-no probes; dh, the bits of the  *)
(* Diffie-Hellman prime (0 when unknown) and whether it is a common one;   *)
(* reneg, what the extension probe saw of RFC 5746; and the suites of the  *)
(* main session and of the pinned TLS 1.0 one ("none" when TLS 1.0 was     *)
(* refused).                                                               *)
(***************************************************************************)
DHFinding(dh) ==
  IF dh.bits > 0 /\ dh.bits < 1024 THEN "Weak_DH"
  ELSE IF dh.common /\ dh.bits > 0 /\ dh.bits <= 1024 THEN "Logjam_common_prime"
  ELSE IF dh.bits = 1024 THEN "Weak_DH_1024"
  ELSE "none"

VulnTable == {
  [name |-> "Heartbleed",             sev |-> "critical"], [name |-> "DROWN",         sev |-> "critical"],
  [name |-> "CRIME",                  sev |-> "high"],     [name |-> "FREAK",         sev |-> "high"],
  [name |-> "Logjam",                 sev |-> "high"],     [name |-> "Weak_DH",       sev |-> "high"],
  [name |-> "Logjam_common_prime",    sev |-> "high"],     [name |-> "Weak_DH_1024",  sev |-> "medium"],
  [name |-> "Insecure_renegotiation", sev |-> "high"],     [name |-> "CCS_Injection", sev |-> "high"],
  [name |-> "SWEET32",                sev |-> "medium"],   [name |-> "RC4",           sev |-> "high"],
  [name |-> "LUCKY13",                sev |-> "low"],      [name |-> "BEAST",         sev |-> "medium"],
  [name |-> "POODLE",                 sev |-> "high"] }

DetectTLSVulns(p) ==
  {v \in VulnTable :
    \/ v.name \in p.flags
    \/ v.name = DHFinding(p.dh)
    \/ v.name = "Insecure_renegotiation" /\ p.reneg = "absent"
    \/ v.name = "SWEET32" /\ (Is3DES(p.cipher) \/ Is3DES(p.tls10))
    \/ v.name = "RC4"     /\ (IsRC4(p.cipher) \/ IsRC4(p.tls10))
    \/ v.name = "LUCKY13" /\ IsCBC(p.cipher)
    \/ v.name = "BEAST"   /\ IsCBC(p.tls10)}

LateTable == {
  [name |-> "Ticketbleed",     sev |-> "high"],   [name |-> "GOLDENDOODLE", sev |-> "high"],
  [name |-> "Zombie_POODLE",   sev |-> "high"],   [name |-> "Sleeping_POODLE", sev |-> "medium"],
  [name |-> "ROBOT",           sev |-> "high"],   [name |-> "renegotiation_DoS", sev |-> "medium"],
  [name |-> "renegotiation",   sev |-> "low"],    [name |-> "Distrusted_CA", sev |-> "high"] }

(* A renegotiation that also amplifies is reported once, as the worse one. *)
LateVulns(p) ==
  {v \in LateTable : v.name \in p.flags /\ ~(v.name = "renegotiation" /\ "renegotiation_DoS" \in p.flags)}

(* Mutant: what is appended after detectTLSVulns is left out.              *)
MutVulns(p) == DetectTLSVulns(p)

Vulns(p) == DetectTLSVulns(p) \cup LateVulns(p)

(* worstVulnerability: the severity of the most severe ones, 0 for none.   *)
WorstRank(vulns) == Max({0} \cup {SeverityRank(v.sev) : v \in vulns})

-----------------------------------------------------------------------------
(* The letter grade.  Letters are their letterRank: F 0, D 1, C 2, B 3,    *)
(* A- 4, A 5, A+ 6.                                                        *)

ScoreProtocols(versions) ==
  IF "TLS13" \in versions THEN 100
  ELSE IF "TLS12" \in versions THEN 90
  ELSE IF "TLS11" \in versions THEN 60
  ELSE IF "TLS10" \in versions THEN 50
  ELSE IF "SSL30" \in versions THEN 30
  ELSE 0

ScoreKeyExchange(key) ==
  CASE key.alg = "ecdsa" -> IF key.bits >= 256 THEN 100 ELSE 80
    [] key.alg = "rsa"   -> IF key.bits >= 4096 THEN 100
                            ELSE IF key.bits >= 2048 THEN 90
                            ELSE IF key.bits >= 1024 THEN 40 ELSE 0
    [] OTHER             -> 50

(* The best grade offered sets the ceiling; "?" counts for nothing.        *)
CipherScoreOf(g) == CASE g = "A" -> 100 [] g = "B" -> 80 [] g = "C" -> 60 [] g = "F" -> 20 [] OTHER -> 0

ScoreCiphers(ciphers) == Max({0} \cup {CipherScoreOf(Grade(c)) : c \in ciphers})

ScoreToLetter(score) == IF score >= 80 THEN 5 ELSE IF score >= 65 THEN 3 ELSE IF score >= 50 THEN 2
                        ELSE IF score >= 35 THEN 1 ELSE 0

(* The caps of gradeTLS: a weakness and the letter it leaves at most.      *)
CapTable == { [of |-> "heartbleed", cap |-> 0], [of |-> "robot", cap |-> 0], [of |-> "renegotiation", cap |-> 0],
               [of |-> "SSL30", cap |-> 2], [of |-> "TLS10", cap |-> 2], [of |-> "TLS11", cap |-> 2],
               [of |-> "rc4", cap |-> 3], [of |-> "weakDH", cap |-> 3], [of |-> "noFS", cap |-> 3],
               [of |-> "weakSignature", cap |-> 5] }

(***************************************************************************)
(* gradeTLS on an input g: versions, ciphers, key, hsts (the header's      *)
(* max-age is not zero) and weak, the weaknesses the caller hands it.      *)
(***************************************************************************)
Weaknesses(g) == g.weak \cup (g.versions \cap {"SSL30", "TLS10", "TLS11"})
                        \cup {w \in {"rc4"} : \E c \in g.ciphers : NamesRC4(c)}

Caps(g) == {e \in CapTable : e.of \in Weaknesses(g)}

Score(g) == (ScoreProtocols(g.versions) * 30 + ScoreKeyExchange(g.key) * 30 + ScoreCiphers(g.ciphers) * 40) \div 100

(* Mutant: a cap is assigned, whatever the letter is.                      *)
MutCapLetter(letter, caps) == IF caps = {} THEN letter ELSE Max({e.cap : e \in caps})

(* capLetter, for one cap after the other: the lowest of them all.         *)
CapLetter(letter, caps) == Min({letter} \cup {e.cap : e \in caps})

Letter(g) ==
  LET capped == CapLetter(ScoreToLetter(Score(g)), Caps(g))
  IN  IF capped # 5 THEN capped
      ELSE IF "TLS13" \notin g.versions \/ ~g.hsts THEN 4
      ELSE IF Caps(g) = {} THEN 6 ELSE 5

-----------------------------------------------------------------------------
(* Mozilla's profiles                                                      *)

Modern       == [floor |-> "TLS13", tls12 |-> {}, noF |-> FALSE]
Intermediate == [floor |-> "TLS12", tls12 |-> {"ecdheAead", "dheAead"}, noF |-> TRUE]
Old          == [floor |-> "TLS10", noF |-> TRUE,
                 tls12 |-> {"ecdheAead", "dheAead", "ecdheCbc", "dheCbc", "rsaCbc", "rsaAead"}]

(* Mutant: no version has to be there.                                     *)
MutRequired(versions, profile) == TRUE

(* Either end of the range will do.                                        *)
Required(versions, profile) == profile.floor \in versions \/ "TLS13" \in versions

(***************************************************************************)
(* evalProfile: versions is the set the sweep found, enums a sequence of   *)
(* [version, ciphers].  Every profile tops out at TLS 1.3, and a server    *)
(* that speaks either end of the range is said to support it.  The suites  *)
(* of TLS 1.0 and 1.1 are only held against the F grade.                   *)
(***************************************************************************)
PassesProfile(profile, versions, enums) ==
  /\ \A v \in versions : VersionRank(v) >= VersionRank(profile.floor)
  /\ Required(versions, profile)
  /\ \A i \in DOMAIN enums : \A c \in ToSet(enums[i].ciphers) :
       /\ enums[i].version = "TLS13" => c = "tls13"
       /\ enums[i].version = "TLS12" => c \in profile.tls12
       /\ profile.noF => Grade(c) # "F"

-----------------------------------------------------------------------------
(***************************************************************************)
(* probeCipherPreference: forward and backward are the suites the server   *)
(* picked from the offer and from the offer reversed, "none" when it did   *)
(* not answer.                                                             *)
(***************************************************************************)
PreferenceOrder(offer, forward, backward) ==
  IF forward = "none" \/ backward = "none" THEN "none"
  ELSE IF forward = backward THEN "server"
  ELSE IF forward = Head(offer) /\ backward = Last(offer) THEN "client"
  ELSE "indeterminate"
=============================================================================
