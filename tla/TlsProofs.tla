------------------------------ MODULE TlsProofs ------------------------------
(***************************************************************************)
(* Proofs about TlsCheck, for any set of servers, any tables, any bound on *)
(* the goroutines of a pool and any number of lost connections.            *)
(*                                                                         *)
(* The facts about sorting, the server and its tables come first, then the *)
(* inductive invariant, one block of lemmas per step of the script, the    *)
(* invariance theorem, and the properties that follow from it.             *)
(***************************************************************************)
EXTENDS TlsCheck, FiniteSetTheorems, SequenceTheorems, WellFoundedInduction, TLAPS

(* The order of the naturals is a well-founded relation.                   *)
LEMMA LessThan ==
  \E R : IsWellFoundedOn(R, Nat) /\ \A x, y \in Nat : <<y, x>> \in R <=> y < x
<1>1. IsWellFoundedOn(OpToRel(<, Nat), Nat)
  BY NatLessThanWellFounded
<1>2. \A x, y \in Nat : <<y, x>> \in OpToRel(<, Nat) <=> y < x
  BY DEF OpToRel
<1> QED BY <1>1, <1>2

(* Min returns the least element of a nonempty set of naturals.            *)
LEMMA MinIs ==
  ASSUME NEW S \in SUBSET Nat, S # {}
  PROVE  Min(S) \in S /\ \A m \in S : Min(S) <= m
<1>1. PICK R : IsWellFoundedOn(R, Nat) /\ \A x, y \in Nat : <<y, x>> \in R <=> y < x
  BY LessThan
<1>2. PICK n \in S : \A y \in S : ~(<<y, n>> \in R)
  BY <1>1, WFMin
<1>a. \A y \in S : ~(y < n)
  BY <1>1, <1>2
<1>3. \A y \in S : n <= y
  BY <1>a
<1>4. \E x \in S : \A y \in S : x <= y
  BY <1>3
<1> QED BY <1>4, Zenon DEF Min

(* Max returns the greatest element of a nonempty bounded set of naturals. *)
LEMMA MaxIs ==
  ASSUME NEW b \in Nat, NEW S \in SUBSET (0..b), S # {}
  PROVE  Max(S) \in S /\ \A m \in S : m <= Max(S)
<1> DEFINE T == {b - x : x \in S}
<1>0. \A x \in S : x \in 0..b
  OBVIOUS
<1>a. \A x \in S : b - x \in Nat
  BY <1>0
<1>1. T \in SUBSET Nat /\ T # {}
  BY <1>a
<1>2. Min(T) \in T /\ \A m \in T : Min(T) <= m
  BY <1>1, MinIs
<1>3. PICK x \in S : Min(T) = b - x
  BY <1>2
<1>4. \A y \in S : x >= y
  BY <1>2, <1>3
<1>5. \E z \in S : \A y \in S : z >= y
  BY <1>4
<1>6. Max(S) \in S /\ \A y \in S : Max(S) >= y
  BY <1>5, Zenon DEF Max
<1> QED BY <1>6

(* R is a strict total order of 1..n; what it puts behind k.               *)
Orders(R, n) ==
  /\ \A i \in 1..n : <<i, i>> \notin R
  /\ \A i, j, k \in 1..n : <<i, j>> \in R /\ <<j, k>> \in R => <<i, k>> \in R
  /\ \A i, j \in 1..n : i # j => <<i, j>> \in R \/ <<j, i>> \in R

Behind(R, n, k) == {j \in 1..n : <<j, k>> \in R}

(* In a strict total order of 1..n an element is preceded by one more than *)
(* the one before it: the number of predecessors is a position.            *)
LEMMA Ranks ==
  ASSUME NEW n \in Nat, NEW R,
         Orders(R, n)
  PROVE  /\ \A k \in 1..n : Cardinality(Behind(R, n, k)) \in 0..(n - 1)
         /\ \A i, k \in 1..n : <<i, k>> \in R =>
              Cardinality(Behind(R, n, i)) < Cardinality(Behind(R, n, k))
         /\ \A r \in 0..(n - 1) : \E k \in 1..n : Cardinality(Behind(R, n, k)) = r
<1>1. IsFiniteSet(1..n) /\ Cardinality(1..n) = n
  BY FS_Interval
<1>0. \A k \in 1..n : \A j : j \in Behind(R, n, k) <=> (j \in 1..n /\ <<j, k>> \in R)
  BY DEF Behind
<1>2. ASSUME NEW k \in 1..n PROVE IsFiniteSet(Behind(R, n, k)) /\ Cardinality(Behind(R, n, k)) \in 0..(n - 1)
  <2>1. IsFiniteSet((1..n) \ {k}) /\ Cardinality((1..n) \ {k}) = n - 1
    BY <1>1, FS_RemoveElement
  <2>2. Behind(R, n, k) \in SUBSET ((1..n) \ {k})
    BY <1>0 DEF Orders
  <2>3. IsFiniteSet(Behind(R, n, k)) /\ Cardinality(Behind(R, n, k)) <= n - 1
    BY <2>1, <2>2, FS_Subset
  <2>4. Cardinality(Behind(R, n, k)) \in Nat
    BY <2>3, FS_CardinalityType
  <2> QED BY <2>3, <2>4
<1>3. ASSUME NEW i \in 1..n, NEW k \in 1..n, <<i, k>> \in R
      PROVE  Cardinality(Behind(R, n, i)) < Cardinality(Behind(R, n, k))
  <2>1. Behind(R, n, i) \in SUBSET Behind(R, n, k) /\ i \in Behind(R, n, k) /\ i \notin Behind(R, n, i)
    BY <1>0, <1>3 DEF Orders
  <2>2. Cardinality(Behind(R, n, i)) <= Cardinality(Behind(R, n, k)) /\ Cardinality(Behind(R, n, i)) # Cardinality(Behind(R, n, k))
    BY <1>2, <2>1, FS_Subset
  <2>3. Cardinality(Behind(R, n, i)) \in 0..(n - 1) /\ Cardinality(Behind(R, n, k)) \in 0..(n - 1)
    BY <1>2, Zenon
  <2> QED BY <2>2, <2>3
<1>4. ASSUME NEW r \in 0..(n - 1) PROVE \E k \in 1..n : Cardinality(Behind(R, n, k)) = r
  <2> DEFINE f == [k \in 1..n |-> Cardinality(Behind(R, n, k))]
  <2>0. \A k \in 1..n : f[k] = Cardinality(Behind(R, n, k))
    OBVIOUS
  <2>1. f \in [1..n -> 0..(n - 1)]
    BY <1>2
  <2>2. \A i, k \in 1..n : f[i] = f[k] => i = k
    <3> SUFFICES ASSUME NEW i \in 1..n, NEW k \in 1..n, i # k PROVE f[i] # f[k]
      OBVIOUS
    <3>1. <<i, k>> \in R \/ <<k, i>> \in R
      BY DEF Orders
    <3>2. f[i] < f[k] \/ f[k] < f[i]
      BY <1>3, <2>0, <3>1
    <3>3. f[i] \in 0..(n - 1) /\ f[k] \in 0..(n - 1)
      BY <2>1
    <3> HIDE DEF f
    <3> QED BY <3>2, <3>3
  <2>3. IsFiniteSet(0..(n - 1)) /\ Cardinality(0..(n - 1)) = n
    BY FS_Interval
  <2> HIDE DEF f
  <2>4. f \in Injection(1..n, 0..(n - 1))
    BY <2>1, <2>2 DEF Injection, IsInjective
  <2>5. f \in Surjection(1..n, 0..(n - 1))
    BY <1>1, <2>3, <2>4, FS_Injection
  <2>6. \E k \in 1..n : f[k] = r
    BY <2>5 DEF Surjection
  <2> QED BY <2>0, <2>6
<1> QED BY <1>2, <1>3, <1>4, Zenon

(* Sorted arranges a sequence along a strict total order of its positions: *)
(* the same elements, each at its place.                                   *)
LEMMA SortedIs ==
  ASSUME NEW s, NEW n \in Nat, DOMAIN s = 1..n, NEW R,
         Orders(R, n)
  PROVE  /\ DOMAIN Sorted(s, R) = 1..n
         /\ \E p \in [1..n -> 1..n] :
              /\ \A i \in 1..n : Sorted(s, R)[i] = s[p[i]]
              /\ \A k \in 1..n : \E i \in 1..n : p[i] = k
              /\ \A i, j \in 1..n : i < j => <<p[i], p[j]>> \in R
<1> DEFINE Rank(k) == Cardinality(Behind(R, n, k))
           p == [i \in 1..n |-> CHOOSE k \in 1..n : Rank(k) = i - 1]
<1>1. /\ \A k \in 1..n : Rank(k) \in 0..(n - 1)
      /\ \A i, k \in 1..n : <<i, k>> \in R => Rank(i) < Rank(k)
      /\ \A r \in 0..(n - 1) : \E k \in 1..n : Rank(k) = r
  BY Ranks
<1>2. Sorted(s, R) = [i \in 1..n |-> s[CHOOSE k \in 1..n : Rank(k) = i - 1]]
  BY DEF Sorted, Behind
<1> HIDE DEF Rank
<1>3. ASSUME NEW i \in 1..n PROVE p[i] \in 1..n /\ Rank(p[i]) = i - 1
  <2>1. \E k \in 1..n : Rank(k) = i - 1
    BY <1>1
  <2>2. p[i] = CHOOSE k \in 1..n : Rank(k) = i - 1
    OBVIOUS
  <2> HIDE DEF p
  <2> QED BY <2>1, <2>2, Zenon
<1>4. p \in [1..n -> 1..n] /\ \A i \in 1..n : Sorted(s, R)[i] = s[p[i]]
  BY <1>2, <1>3
<1> HIDE DEF p
<1>5. ASSUME NEW i \in 1..n, NEW j \in 1..n, i < j PROVE <<p[i], p[j]>> \in R
  <2>1. p[i] \in 1..n /\ p[j] \in 1..n /\ Rank(p[i]) < Rank(p[j])
    BY <1>3, <1>5
  <2>2. p[i] # p[j] /\ ~(Rank(p[j]) < Rank(p[i]))
    BY <1>3, <1>5
  <2> QED BY <1>1, <2>1, <2>2 DEF Orders
<1>6. ASSUME NEW k \in 1..n PROVE \E i \in 1..n : p[i] = k
  <2>1. PICK r \in 0..(n - 1) : Rank(k) = r
    BY <1>1
  <2>2. r + 1 \in 1..n /\ Rank(p[r + 1]) = r /\ p[r + 1] \in 1..n
    BY <1>3
  <2>3. ~(Rank(p[r + 1]) < Rank(k)) /\ ~(Rank(k) < Rank(p[r + 1]))
    BY <2>1, <2>2
  <2>4. p[r + 1] = k
    BY <1>1, <2>2, <2>3 DEF Orders
  <2> QED BY <2>2, <2>4
<1>7. DOMAIN Sorted(s, R) = 1..n
  BY <1>2
<1> QED BY <1>4, <1>5, <1>6, <1>7

-----------------------------------------------------------------------------
(* The server.                                                             *)

VersionSet == {"TLS10", "TLS11", "TLS12", "TLS13"}

(* The four versions, and their ranks.                                     *)
LEMMA VersionsAre ==
  /\ ToSet(Versions) = VersionSet
  /\ VersionRank("TLS10") = 1 /\ VersionRank("TLS11") = 2 /\ VersionRank("TLS12") = 3 /\ VersionRank("TLS13") = 4
<1>1. DOMAIN Versions = 1..4 /\ Versions[1] = "TLS10" /\ Versions[2] = "TLS11" /\ Versions[3] = "TLS12" /\ Versions[4] = "TLS13"
  BY DEF Versions
<1>2. ToSet(Versions) = VersionSet
  <2>1. ToSet(Versions) = {Versions[i] : i \in 1..4}
    BY <1>1 DEF ToSet
  <2>2. \A x : x \in {Versions[i] : i \in 1..4} <=> x \in VersionSet
    BY <1>1 DEF VersionSet
  <2> QED BY <2>1, <2>2
<1>3. \A k \in 1..4 : \A i \in 1..4 : Versions[i] = Versions[k] => i = k
  BY <1>1
<1>4. \A k \in 1..4 : VersionRank(Versions[k]) = k
  <2> SUFFICES ASSUME NEW k \in 1..4 PROVE VersionRank(Versions[k]) = k
    OBVIOUS
  <2>1. VersionRank(Versions[k]) = CHOOSE i \in 1..4 : Versions[i] = Versions[k]
    BY <1>1 DEF VersionRank
  <2>2. (CHOOSE i \in 1..4 : Versions[i] = Versions[k]) = k
    BY <1>3
  <2> QED BY <2>1, <2>2
<1> QED BY <1>1, <1>2, <1>4

(* What a target is made of.                                               *)
LEMMA TargetTyped ==
  ASSUME target \in Targets
  PROVE  /\ target.versions \subseteq VersionSet /\ target.suites \in [VersionSet -> SUBSET Classes]
         /\ target.order \in Seq(Classes) /\ \A v \in VersionSet : target.suites[v] \subseteq ToSet(target.order)
         /\ target.flaws \subseteq {e.name : e \in VulnTable \cup LateTable}
         /\ target.dh.bits \in Nat /\ target.starttls \in BOOLEAN /\ target.each \in BOOLEAN
         /\ target.cert.daysLeft \in Int /\ target.cert.verifies \in BOOLEAN /\ target.cert.weakSignature \in BOOLEAN
         /\ target.points \in Seq({"ldap", "down", "good", "revoked", "garbled"})
         /\ target.scsv \in {"unknown", "protected", "open"} /\ target.hsts \in {"none", "zero", "short", "year"}
  BY TargetsAssumption, VersionsAre

(* The highest version a server answers a hello for its own version with.  *)
LEMMA OwnVersion ==
  ASSUME target \in Targets, NEW v \in target.versions
  PROVE  Below(v) # {} /\ Highest(Below(v)) = v
<1>1. v \in VersionSet /\ Below(v) \subseteq VersionSet
  BY TargetTyped DEF Below
<1>2. v \in Below(v) /\ \A w \in Below(v) : VersionRank(w) <= VersionRank(v)
  BY <1>1, VersionsAre DEF Below, VersionSet
<1>3. \A w \in Below(v) : VersionRank(v) = VersionRank(w) => w = v
  <2>1. \A a, b \in VersionSet : VersionRank(a) = VersionRank(b) => a = b
    BY VersionsAre DEF VersionSet
  <2> QED BY <1>1, <2>1
<1>a. \A w \in Below(v) : VersionRank(w) \in 1..4
  BY <1>1, VersionsAre DEF VersionSet
<1>4. \E x \in Below(v) : \A w \in Below(v) : VersionRank(w) <= VersionRank(x)
  BY <1>2
<1>5. Highest(Below(v)) \in Below(v) /\ \A w \in Below(v) : VersionRank(w) <= VersionRank(Highest(Below(v)))
  BY <1>4, Zenon DEF Highest
<1>6. VersionRank(Highest(Below(v))) \in 1..4 /\ VersionRank(v) \in 1..4
  BY <1>2, <1>5, <1>a
<1>7. VersionRank(v) = VersionRank(Highest(Below(v)))
  BY <1>2, <1>5, <1>6
<1> QED BY <1>2, <1>3, <1>5, <1>7

(* The first element of a list that lies in a set.                         *)
LEMMA FirstOfIs ==
  ASSUME NEW list, NEW n \in Nat, DOMAIN list = 1..n, NEW S, \E i \in 1..n : list[i] \in S
  PROVE  FirstOf(list, S) \in S /\ (list[1] \in S => FirstOf(list, S) = list[1])
<1> DEFINE at == {i \in DOMAIN list : list[i] \in S}
<1>1. at \in SUBSET Nat /\ at # {}
  OBVIOUS
<1>2. Min(at) \in at /\ \A m \in at : Min(at) <= m
  BY <1>1, MinIs
<1>3. Min(at) \in 1..n /\ list[Min(at)] \in S
  BY <1>2
<1>4. FirstOf(list, S) = list[Min(at)]
  BY DEF FirstOf
<1>5. list[1] \in S => 1 \in at
  BY <1>3
<1> HIDE DEF at
<1>6. list[1] \in S => Min(at) = 1
  BY <1>2, <1>3, <1>5
<1> QED BY <1>3, <1>4, <1>6

(* A pick is a suite both sides have, or none.                             *)
LEMMA PickTyped ==
  ASSUME target \in Targets, NEW v \in VersionSet, NEW offer \in Seq(Classes)
  PROVE  Pick(v, offer) \in Classes \cup {"none"}
<1> DEFINE common == ToSet(offer) \cap target.suites[v]
<1>1. target.suites[v] \subseteq Classes /\ target.suites[v] \subseteq ToSet(target.order) /\ target.order \in Seq(Classes)
  BY TargetTyped
<1>2. ASSUME common # {} PROVE FirstOf(offer, common) \in common /\ FirstOf(target.order, common) \in common
  <2>1. \E i \in 1..Len(offer) : offer[i] \in common
    BY <1>2 DEF ToSet
  <2>2. \E i \in 1..Len(target.order) : target.order[i] \in common
    BY <1>1, <1>2 DEF ToSet
  <2> QED BY <1>1, <2>1, <2>2, FirstOfIs
<1>3. Pick(v, offer) \in {"none", FirstOf(offer, common), FirstOf(target.order, common)} /\ (common = {} => Pick(v, offer) = "none")
  BY DEF Pick
<1> QED BY <1>1, <1>2, <1>3

(* The first and the last of a reversed offer.                             *)
LEMMA ReversedOffer ==
  ASSUME NEW offer \in Seq(Classes), Len(offer) >= 2
  PROVE  /\ SecondOffer(offer) \in Seq(Classes) /\ Len(SecondOffer(offer)) = Len(offer)
         /\ SecondOffer(offer)[1] = offer[Len(offer)] /\ ToSet(SecondOffer(offer)) = ToSet(offer)
<1>1. SecondOffer(offer) = [i \in 1..Len(offer) |-> offer[(Len(offer) - i) + 1]]
  BY DEF SecondOffer, Reverse
<1>2. \A i \in 1..Len(offer) : (Len(offer) - i) + 1 \in 1..Len(offer) /\ SecondOffer(offer)[i] = offer[(Len(offer) - i) + 1]
  BY <1>1
<1>3. SecondOffer(offer) \in [1..Len(offer) -> Classes]
  BY <1>1, <1>2
<1>4. SecondOffer(offer) \in Seq(Classes) /\ Len(SecondOffer(offer)) = Len(offer)
  BY <1>1, <1>3
<1>5. ToSet(SecondOffer(offer)) = ToSet(offer)
  <2>1. ASSUME NEW i \in 1..Len(offer) PROVE \E j \in 1..Len(offer) : SecondOffer(offer)[j] = offer[i]
    <3>1. (Len(offer) - i) + 1 \in 1..Len(offer) /\ (Len(offer) - ((Len(offer) - i) + 1)) + 1 = i
      OBVIOUS
    <3> QED BY <1>2, <3>1
  <2>2. ASSUME NEW i \in 1..Len(offer) PROVE \E j \in 1..Len(offer) : SecondOffer(offer)[i] = offer[j]
    BY <1>2
  <2>3. ToSet(offer) = {offer[i] : i \in 1..Len(offer)} /\ ToSet(SecondOffer(offer)) = {SecondOffer(offer)[i] : i \in 1..Len(offer)}
    BY <1>4 DEF ToSet
  <2>4. \A x : x \in ToSet(SecondOffer(offer)) <=> x \in ToSet(offer)
    BY <2>1, <2>2, <2>3
  <2> QED BY <2>4
<1>6. SecondOffer(offer)[1] = offer[Len(offer)]
  <2>1. 1 \in 1..Len(offer) /\ (Len(offer) - 1) + 1 = Len(offer)
    OBVIOUS
  <2> QED BY <1>2, <2>1
<1> QED BY <1>4, <1>5, <1>6

(* Two hellos with the accepted suites, the second reversed, tell a server *)
(* that strictly ranks from one that strictly follows its client.          *)
LEMMA TwoHellos ==
  ASSUME target \in Targets, NEW v \in VersionSet, NEW offer \in Seq(Classes), Len(offer) >= 2,
         IsInjective(offer), ToSet(offer) \subseteq target.suites[v], target.policy \in {"server", "client"}
  PROVE  PreferenceOrder(offer, Pick(v, offer), Pick(v, SecondOffer(offer))) = target.policy
<1> DEFINE S == ToSet(offer)
           back == SecondOffer(offer)
<1>1. /\ back \in Seq(Classes) /\ Len(back) = Len(offer) /\ back[1] = offer[Len(offer)] /\ ToSet(back) = S
  BY ReversedOffer
<1>2. S \cap target.suites[v] = S /\ ToSet(back) \cap target.suites[v] = S
  BY <1>1
<1>3. offer[1] \in S /\ offer[Len(offer)] \in S /\ offer[1] # offer[Len(offer)]
  BY DEF ToSet, IsInjective
<1>4. S \subseteq Classes /\ S # {} /\ S \subseteq ToSet(target.order) /\ target.order \in Seq(Classes)
  BY <1>3, TargetTyped
<1>5. Head(offer) = offer[1] /\ Last(offer) = offer[Len(offer)]
  BY DEF Last
<1>6. "none" \notin S
  BY <1>4 DEF Classes
<1> HIDE DEF S, back
<1>7. Pick(v, offer) = IF target.policy = "client" THEN FirstOf(offer, S) ELSE FirstOf(target.order, S)
  BY <1>2, <1>4 DEF Pick, S
<1>8. Pick(v, back) = IF target.policy = "client" THEN FirstOf(back, S) ELSE FirstOf(target.order, S)
  BY <1>2, <1>4 DEF Pick
<1>9. FirstOf(offer, S) = offer[1] /\ FirstOf(back, S) = offer[Len(offer)]
  <2>1. DOMAIN offer = 1..Len(offer) /\ DOMAIN back = 1..Len(offer) /\ 1 \in 1..Len(offer) /\ Len(offer) \in Nat
    BY <1>1
  <2> QED BY <1>1, <1>3, <2>1, FirstOfIs
<1>10. FirstOf(target.order, S) \in S
  <2>1. \E i \in 1..Len(target.order) : target.order[i] \in S
    BY <1>4 DEF ToSet
  <2> QED BY <1>4, <2>1, FirstOfIs
<1>11. CASE target.policy = "client"
  BY <1>3, <1>5, <1>6, <1>7, <1>8, <1>9, <1>11 DEF PreferenceOrder, back
<1>12. CASE target.policy = "server"
  BY <1>6, <1>7, <1>8, <1>10, <1>12 DEF PreferenceOrder, back
<1> QED BY <1>11, <1>12

-----------------------------------------------------------------------------
(***************************************************************************)
(* The inductive invariant.  What is printed is gathered step by step from *)
(* pools that are long gone when the check is judged, so every part says   *)
(* what has been gathered by the time the script is past the step.         *)
(***************************************************************************)

Answers == {"yes", "no", "fail"} \cup VersionSet
Row     == [version : VersionSet, ciphers : Seq(Classes), worst : {"A", "B", "C", "F"}]
EachRow == [version : VersionSet, sev : Severities, code : Codes]

(* The types, and the losses there may have been.                          *)
Shapes ==
  /\ target \in Targets /\ pc \in 1..19
  /\ session.cipher \in Classes \cup {"none"} /\ tls10 \in Classes \cup {"none"}
  /\ scsv \in {"unknown", "protected", "open"}
  /\ IsFiniteSet(missed) /\ Cardinality(missed) <= Faults

(* A session exists from the first step to the last, or the check is over. *)
Live == session.version # "none"

Lives ==
  /\ pc = 1 => ~Live
  /\ pc \in 2..18 => Live

(* The items of the pool at work that have answered.                       *)
Back == {pool.out[k].item : k \in DOMAIN pool.out}

(* Nothing is lost of a step the check has not come to.                    *)
LossesPast ==
  \A k \in 1..18 : \A i : Lost(Script[k].task, Script[k].version, i) =>
    k < pc \/ (k = pc /\ (Now.task \in Pools => i \in Back))

(* What the goroutine of item i is on record with.                         *)
Reported(t, i) == IF Lost(t.task, t.version, i) THEN Unanswered(t) ELSE Outcome(t, i)

(* A pool at work: every item started is running or has answered once, and *)
(* what is kept are the ones that said yes, each once.                     *)
PoolSound ==
  /\ pool \in [next : Nat, running : SUBSET Nat, out : Seq([item : Nat, says : Answers]), kept : Seq(Nat)]
  /\ pool.next \in 1..(Len(Items(Now)) + 1)
  /\ pool.running \subseteq 1..(pool.next - 1) /\ Cardinality(pool.running) <= Limit
  /\ \A i \in 1..(pool.next - 1) : i \in pool.running \/ i \in Back
  /\ \A k \in DOMAIN pool.out : pool.out[k].item \in 1..(pool.next - 1) /\ pool.out[k].item \notin pool.running
  /\ \A k, l \in DOMAIN pool.out : pool.out[k].item = pool.out[l].item => k = l
  /\ \A k \in DOMAIN pool.out : pool.out[k].says = Reported(Now, pool.out[k].item)
  /\ IsInjective(pool.kept)
  /\ ToSet(pool.kept) = {i \in Back : Reported(Now, i) = "yes"}

PoolInv == IF AtPool THEN PoolSound ELSE pool = Idle

(* What the probes brought back is all there is but for what they          *)
(* overlooked.                                                             *)
Brought ==
  /\ versions = {v \in target.versions : ~Overlooked(v) /\ Pick(v, GoOffer(v)) # "none"}
  /\ probed.flags = {f \in target.flaws : ~Overlooked(f)}
  /\ ~Overlooked("dh") => probed.dh = target.dh

ProbeInv ==
  /\ versions \subseteq target.versions
  /\ pc > 2 /\ Live => Brought
  /\ pc < 3 => versions = {} /\ \A p : ~Lost("collect", "none", p)

AlpnDue == {Protocols[i] : i \in Due(Task("alpn", "none"))}

InOrder(names) ==
  \A i, j \in DOMAIN names : i < j =>
    \E a, b \in DOMAIN Protocols : a < b /\ Protocols[a] = names[i] /\ Protocols[b] = names[j]

AlpnInv == Live /\ pc > 3 => ToSet(alpn) = AlpnDue /\ InOrder(alpn)

(* The step that enumerates a version.                                     *)
EnumAt(v) == 3 + 2 * VersionRank(v)

Worst(g, due) ==
  /\ \E c \in due : Grade(c) = g
  /\ \A c \in due : GradeRank(g) <= GradeRank(Grade(c))

(* A row holds what its version owes, each suite once, and their worst.    *)
RowSound(r) ==
  /\ r.version \in versions /\ EnumAt(r.version) < pc
  /\ IsInjective(r.ciphers) /\ ToSet(r.ciphers) = Accepted(r.version)
  /\ Worst(r.worst, Accepted(r.version))

(* One row for each version that was enumerated and has a suite, in the    *)
(* order of the script.                                                    *)
EnumInv ==
  /\ enums \in Seq(Row)
  /\ \A k \in DOMAIN enums : RowSound(enums[k])
  /\ \A k, l \in DOMAIN enums : k < l => EnumAt(enums[k].version) < EnumAt(enums[l].version)
  /\ \A v \in versions : EnumAt(v) < pc /\ Accepted(v) # {} => \E k \in DOMAIN enums : enums[k].version = v

(* What is said of a preference is true when the server has a strict one.  *)
PrefInv ==
  /\ \A i \in DOMAIN prefs : target.policy \in {"server", "client"} => prefs[i].order = target.policy
  /\ prefs \in Seq([version : VersionSet, order : {"server", "client", "indeterminate"}])

(* Every distribution point before the current one was passed over, and    *)
(* the status is the current one's.                                        *)
StatusOf(p) == IF p \in {"good", "revoked"} THEN p ELSE "error"

CrlInv ==
  /\ crl \in [point : Nat, status : {"none", "error", "good", "revoked"}]
  /\ crl.point \in 1..(Len(target.points) + 1)
  /\ \A j \in 1..(crl.point - 1) : target.points[j] \in {"ldap", "down"}
  /\ Live /\ pc > 13 /\ crl.point <= Len(target.points) =>
       target.points[crl.point] \notin {"ldap", "down"} /\ crl.status = StatusOf(target.points[crl.point])

EachAt(v) == 13 + VersionRank(v)
EachVersions == {"TLS10", "TLS11", "TLS12"}
EachSoFar == UNION {EachDue(v) : v \in {w \in EachVersions : target.each /\ EachAt(w) < pc}}

EachInv ==
  pc < 19 \/ Live =>
    /\ each \in Seq(EachRow) /\ IsInjective(each)
    /\ ToSet(each) = EachSoFar
    /\ pc > 16 => \A i \in 1..(Len(each) - 1) : EachBefore(each[i], each[i + 1])

SimInv ==
  Live /\ pc > 17 => \A i \in DOMAIN Clients : sims[i] = Reported(Task("sim", "none"), i)

TheVerdict ==
  TLSVerdict(target.cert.verifies, target.cert.daysLeft, WorstRank(Vulns(Posture)),
             IsWeak(session.cipher), versions \cap {"TLS10", "TLS11"} # {})

ResultInv ==
  /\ pc < 19 => result = Pending
  /\ pc = 19 => result = IF Live THEN TheVerdict ELSE Verdict("fail")

IInv == /\ Shapes /\ Lives /\ LossesPast /\ PoolInv /\ ProbeInv /\ AlpnInv /\ EnumInv /\ PrefInv
        /\ CrlInv /\ EachInv /\ SimInv /\ ResultInv

-----------------------------------------------------------------------------
(* The script.                                                             *)

(* The steps of the script, one by one.                                    *)
LEMMA ScriptIs ==
  /\ Return = 19
  /\ Script[1] = Task("dial", "none")    /\ Script[2] = Task("collect", "none")
  /\ Script[3] = Task("alpn", "none")    /\ Script[4] = Task("fallback", "none")
  /\ Script[5] = Task("enum", "TLS10")   /\ Script[6] = Task("prefer", "TLS10")
  /\ Script[7] = Task("enum", "TLS11")   /\ Script[8] = Task("prefer", "TLS11")
  /\ Script[9] = Task("enum", "TLS12")   /\ Script[10] = Task("prefer", "TLS12")
  /\ Script[11] = Task("enum", "TLS13")  /\ Script[12] = Task("prefer", "TLS13")
  /\ Script[13] = Task("crl", "none")    /\ Script[14] = Task("each", "TLS10")
  /\ Script[15] = Task("each", "TLS11")  /\ Script[16] = Task("each", "TLS12")
  /\ Script[17] = Task("sim", "none")    /\ Script[18] = Task("judge", "none")
<1> DEFINE E == [task |-> "x", version |-> "y"]
<1>1. Len(Script) = 18
  BY DEF Script
<1> QED BY <1>1 DEF Script, Return

(* The fields of a step.                                                   *)
LEMMA TaskIs ==
  ASSUME NEW name, NEW v
  PROVE  Task(name, v).task = name /\ Task(name, v).version = v
BY DEF Task

(* The step that gathers what a pool has found is the only one that leaves *)
(* the pool behind.                                                        *)
LEMMA WhoGathers ==
  ASSUME Next, Applies(Now), pc' # pc
  PROVE  /\ Now.task = "alpn" => GatherALPN
         /\ Now.task = "enum" => GatherEnum
         /\ Now.task = "each" => GatherEach
         /\ Now.task = "sim"  => GatherSim
<1>1. Dial => Now.task = "dial"
  BY DEF Dial, At
<1>2. Collect => Now.task = "collect"
  BY DEF Collect, At
<1>3. Fallback => Now.task = "fallback"
  BY DEF Fallback, At
<1>4. ~PassOver
  BY DEF PassOver
<1>5. ~Launch /\ ~Answer
  BY DEF Launch, Answer
<1>6. GatherALPN => Now.task = "alpn"
  BY DEF GatherALPN, At
<1>7. GatherEnum => Now.task = "enum"
  BY DEF GatherEnum, At
<1>8. GatherEach => Now.task = "each"
  BY DEF GatherEach, At
<1>9. GatherSim => Now.task = "sim"
  BY DEF GatherSim, At
<1>10. Prefer => Now.task = "prefer"
  BY DEF Prefer, At
<1>11. FetchCRL => Now.task = "crl"
  BY DEF FetchCRL, At
<1>12. Judge => Now.task = "judge"
  BY DEF Judge, At
<1> QED BY <1>1, <1>2, <1>3, <1>4, <1>5, <1>6, <1>7, <1>8, <1>9, <1>10, <1>11, <1>12 DEF Next

(* Where each kind of step stands.                                         *)
LEMMA StepAt ==
  ASSUME pc \in 1..18
  PROVE  /\ Now.task = "dial" => pc = 1
         /\ Now.task = "collect" => pc = 2
         /\ Now.task = "alpn" => pc = 3 /\ Now = Task("alpn", "none")
         /\ Now.task = "fallback" => pc = 4
         /\ Now.task = "enum" => Now.version \in VersionSet /\ pc = 3 + 2 * VersionRank(Now.version) /\ Now = Task("enum", Now.version)
         /\ Now.task = "prefer" => Now.version \in VersionSet /\ pc = 4 + 2 * VersionRank(Now.version)
         /\ Now.task = "crl" => pc = 13
         /\ Now.task = "each" => Now.version \in {"TLS10", "TLS11", "TLS12"} /\ pc = 13 + VersionRank(Now.version) /\ Now = Task("each", Now.version)
         /\ Now.task = "sim" => pc = 17 /\ Now = Task("sim", "none")
         /\ Now.task = "judge" => pc = 18
<1>1. pc \in {1, 2, 3, 4, 5, 6, 7, 8, 9, 10, 11, 12, 13, 14, 15, 16, 17, 18}
  OBVIOUS
<1>2. CASE pc \in {1, 2, 3, 4}
  BY <1>2, ScriptIs, TaskIs DEF Now
<1>3. CASE pc \in {5, 7, 9, 11}
  BY <1>3, ScriptIs, TaskIs, VersionsAre DEF Now, VersionSet
<1>4. CASE pc \in {6, 8, 10, 12}
  BY <1>4, ScriptIs, TaskIs, VersionsAre DEF Now, VersionSet
<1>5. CASE pc \in {13, 17, 18}
  BY <1>5, ScriptIs, TaskIs DEF Now
<1>6. CASE pc \in {14, 15, 16}
  BY <1>6, ScriptIs, TaskIs, VersionsAre DEF Now, VersionSet
<1> QED BY <1>1, <1>2, <1>3, <1>4, <1>5, <1>6

(* No step stands twice in the script.                                     *)
LEMMA StepsDistinct ==
  ASSUME NEW j \in 1..18, NEW k \in 1..18, Script[j].task = Script[k].task, Script[j].version = Script[k].version
  PROVE  j = k
<1> DEFINE Name(n) == Script[n].task
           Ver(n) == Script[n].version
<1>1. /\ Name(1) = "dial" /\ Name(2) = "collect" /\ Name(3) = "alpn" /\ Name(4) = "fallback"
      /\ Name(5) = "enum" /\ Name(6) = "prefer" /\ Name(7) = "enum" /\ Name(8) = "prefer" /\ Name(9) = "enum"
      /\ Name(10) = "prefer" /\ Name(11) = "enum" /\ Name(12) = "prefer" /\ Name(13) = "crl" /\ Name(14) = "each"
      /\ Name(15) = "each" /\ Name(16) = "each" /\ Name(17) = "sim" /\ Name(18) = "judge"
      /\ Ver(5) = "TLS10" /\ Ver(6) = "TLS10" /\ Ver(7) = "TLS11" /\ Ver(8) = "TLS11" /\ Ver(9) = "TLS12" /\ Ver(10) = "TLS12"
      /\ Ver(11) = "TLS13" /\ Ver(12) = "TLS13" /\ Ver(14) = "TLS10" /\ Ver(15) = "TLS11" /\ Ver(16) = "TLS12"
  BY ScriptIs, TaskIs
<1>2. Name(j) = Name(k) /\ Ver(j) = Ver(k)
  OBVIOUS
<1> HIDE DEF Name, Ver
<1>3. CASE j \in {5, 7, 9, 11}
  <2>1. k \in {5, 7, 9, 11}
    BY <1>1, <1>2, <1>3
  <2> QED BY <1>1, <1>2, <1>3, <2>1
<1>4. CASE j \in {6, 8, 10, 12}
  <2>1. k \in {6, 8, 10, 12}
    BY <1>1, <1>2, <1>4
  <2> QED BY <1>1, <1>2, <1>4, <2>1
<1>5. CASE j \in {14, 15, 16}
  <2>1. k \in {14, 15, 16}
    BY <1>1, <1>2, <1>5
  <2> QED BY <1>1, <1>2, <1>5, <2>1
<1>6. CASE j \in {1, 2, 3, 4, 13, 17, 18}
  BY <1>1, <1>2, <1>6
<1>7. j \in {5, 7, 9, 11} \cup {6, 8, 10, 12} \cup {14, 15, 16} \cup {1, 2, 3, 4, 13, 17, 18}
  OBVIOUS
<1> QED BY <1>3, <1>4, <1>5, <1>6, <1>7

(* The highest of a set of versions is one of them.                        *)
LEMMA HighestIs ==
  ASSUME NEW S \in SUBSET VersionSet, S # {}
  PROVE  Highest(S) \in S
<1>1. \E x \in S : \A w \in S : VersionRank(w) <= VersionRank(x)
  <2>1. CASE "TLS13" \in S
    BY <2>1, VersionsAre DEF VersionSet
  <2>2. CASE "TLS13" \notin S /\ "TLS12" \in S
    BY <2>2, VersionsAre DEF VersionSet
  <2>3. CASE "TLS13" \notin S /\ "TLS12" \notin S /\ "TLS11" \in S
    BY <2>3, VersionsAre DEF VersionSet
  <2>4. CASE "TLS13" \notin S /\ "TLS12" \notin S /\ "TLS11" \notin S
    <3>1. \A x \in S : x = "TLS10"
      BY <2>4 DEF VersionSet
    <3> QED BY <3>1, VersionsAre
  <2> QED BY <2>1, <2>2, <2>3, <2>4
<1> QED BY <1>1, Zenon DEF Highest

(* Only the step at hand adds to what is lost.                             *)
Losses ==
  /\ missed \subseteq missed'
  /\ \A m \in missed' : m \in missed \/ \E i : m = <<Now.task, Now.version, i>>

(* What any step leaves alone, and which action may have written the rest. *)
Moves ==
  /\ pc \in 1..18 /\ target' = target
  /\ (pc' = pc /\ (Launch \/ Answer \/ FetchCRL)) \/ (pc' = pc + 1 /\ pool' = Idle) \/ (Dial /\ pc' = 19)
  /\ session' = session \/ Dial
  /\ (versions' = versions /\ tls10' = tls10 /\ probed' = probed) \/ Collect
  /\ pool' = pool \/ Launch \/ Answer \/ pc' = pc + 1
  /\ alpn' = alpn \/ GatherALPN
  /\ enums' = enums \/ GatherEnum
  /\ prefs' = prefs \/ Prefer
  /\ each' = each \/ GatherEach
  /\ sims' = sims \/ GatherSim
  /\ scsv' = scsv \/ Fallback
  /\ crl' = crl \/ FetchCRL
  /\ result' = result \/ Dial \/ Judge
  /\ missed' = missed \/ Dial \/ Collect \/ Fallback \/ Answer \/ Prefer
  /\ Losses

(* Away from a pool, the pool is at rest.                                  *)
LEMMA AtRest ==
  ASSUME PoolInv, pc \in 1..18, Now.task \notin Pools
  PROVE  pool = Idle
BY DEF PoolInv, AtPool

(* A step that is passed over has no pool.                                 *)
LEMMA NotThere ==
  ASSUME PoolInv, pc \in 1..18, ~Applies(Now)
  PROVE  pool = Idle
BY DEF PoolInv, AtPool

(* Every step is a move.                                                   *)
LEMMA EveryMove ==
  ASSUME Shapes, PoolInv, Next
  PROVE  Moves
<1>0. pc \in 1..19 /\ Return = 19
  BY ScriptIs DEF Shapes
<1> DEFINE same == missed' = missed
<1>s. missed' = missed => Losses
  BY DEF Losses
<1>1. CASE Dial
  <2>1. pc \in 1..18 /\ Now.task = "dial" /\ pc = 1
    BY <1>0, <1>1, StepAt DEF Dial, At
  <2>2. Now.version = "none"
    BY <2>1, ScriptIs, TaskIs DEF Now
  <2>3. Losses
    BY <1>1, <2>1, <2>2 DEF Dial, Losses
  <2>4. pool = Idle
    BY <2>1, AtRest DEF Pools
  <2> QED BY <1>0, <1>1, <2>1, <2>3, <2>4 DEF Dial, Moves
<1>2. CASE Collect
  <2>1. pc \in 1..18 /\ Now.task = "collect" /\ pc = 2
    BY <1>0, <1>2, StepAt DEF Collect, At
  <2>2. Now.version = "none"
    BY <2>1, ScriptIs, TaskIs DEF Now
  <2>3. \E lost : missed' = missed \cup {<<"collect", "none", p>> : p \in lost}
    BY <1>2 DEF Collect
  <2>4. Losses
    BY <2>1, <2>2, <2>3 DEF Losses
  <2>5. pool = Idle
    BY <2>1, AtRest DEF Pools
  <2> QED BY <1>0, <1>2, <2>1, <2>4, <2>5 DEF Collect, Moves
<1>3. CASE Fallback
  <2>1. pc \in 1..18 /\ Now.task = "fallback" /\ pc = 4
    BY <1>0, <1>3, StepAt DEF Fallback, At
  <2>2. Now.version = "none"
    BY <2>1, ScriptIs, TaskIs DEF Now
  <2>4. Losses
    BY <1>3, <2>1, <2>2 DEF Losses, Fallback
  <2>5. pool = Idle
    BY <2>1, AtRest DEF Pools
  <2> QED BY <1>0, <1>3, <2>1, <2>4, <2>5 DEF Fallback, Moves
<1>4. CASE PassOver
  <2>1. pc \in 1..18
    BY <1>0, <1>4 DEF PassOver
  <2>2. pool = Idle
    BY <1>4, <2>1, NotThere DEF PassOver
  <2> QED BY <1>0, <1>4, <1>s, <2>1, <2>2 DEF PassOver, Moves
<1>5. CASE Launch
  <2>1. pc \in 1..18
    BY <1>0, <1>5 DEF Launch, AtPool
  <2> QED BY <1>0, <1>5, <1>s, <2>1 DEF Launch, Moves
<1>6. CASE Answer
  <2>1. pc \in 1..18
    BY <1>0, <1>6 DEF Answer, AtPool
  <2>2. missed' = missed \/ \E i : missed' = missed \cup {<<Now.task, Now.version, i>>}
    BY <1>6 DEF Answer
  <2>3. Losses
    BY <2>2 DEF Losses
  <2>4. target' = target /\ pc' = pc /\ UNCHANGED <<session, versions, tls10, probed, alpn, enums, prefs, each, sims, scsv, crl, result>>
    BY <1>6 DEF Answer
  <2> QED BY <1>6, <2>1, <2>3, <2>4 DEF Moves
<1>7. CASE GatherALPN
  <2>1. pc \in 1..18
    BY <1>0, <1>7 DEF GatherALPN, At
  <2> QED BY <1>0, <1>7, <1>s, <2>1 DEF GatherALPN, Moves
<1>8. CASE GatherEnum
  <2>1. pc \in 1..18
    BY <1>0, <1>8 DEF GatherEnum, At
  <2> QED BY <1>0, <1>8, <1>s, <2>1 DEF GatherEnum, Moves
<1>9. CASE GatherEach
  <2>1. pc \in 1..18
    BY <1>0, <1>9 DEF GatherEach, At
  <2> QED BY <1>0, <1>9, <1>s, <2>1 DEF GatherEach, Moves
<1>10. CASE GatherSim
  <2>1. pc \in 1..18
    BY <1>0, <1>10 DEF GatherSim, At
  <2> QED BY <1>0, <1>10, <1>s, <2>1 DEF GatherSim, Moves
<1>11. CASE Prefer
  <2>1. pc \in 1..18 /\ Now.task = "prefer"
    BY <1>0, <1>11 DEF Prefer, At
  <2>2. missed' = missed \/ missed' = missed \cup {<<"prefer", Now.version, 1>>}
    BY <1>11 DEF Prefer
  <2>3. Losses
    BY <2>1, <2>2 DEF Losses
  <2>4. pool = Idle
    BY <2>1, AtRest DEF Pools
  <2>5. target' = target /\ pc' = pc + 1 /\ UNCHANGED <<session, versions, tls10, probed, pool, alpn, enums, each, sims, scsv, crl, result>>
    BY <1>11 DEF Prefer
  <2> QED BY <1>11, <2>1, <2>3, <2>4, <2>5 DEF Moves
<1>12. CASE FetchCRL
  <2>1. pc \in 1..18 /\ Now.task = "crl"
    BY <1>0, <1>12 DEF FetchCRL, At
  <2>2. pool = Idle
    BY <2>1, AtRest DEF Pools
  <2>3. pc' = pc \/ pc' = pc + 1
    BY <1>12 DEF FetchCRL
  <2>4. UNCHANGED <<target, session, versions, tls10, probed, pool, alpn, enums, prefs, each, sims, scsv, missed, result>>
    BY <1>12 DEF FetchCRL
  <2> QED BY <1>s, <1>12, <2>1, <2>2, <2>3, <2>4 DEF Moves
<1>13. CASE Judge
  <2>1. pc \in 1..18 /\ Now.task = "judge"
    BY <1>0, <1>13 DEF Judge, At
  <2>2. pool = Idle
    BY <2>1, AtRest DEF Pools
  <2> QED BY <1>0, <1>13, <1>s, <2>1, <2>2 DEF Judge, Moves
<1> QED BY <1>1, <1>2, <1>3, <1>4, <1>5, <1>6, <1>7, <1>8, <1>9, <1>10, <1>11, <1>12, <1>13 DEF Next

-----------------------------------------------------------------------------
(* What a step leaves alone.                                               *)

(* The server does not change its mind.                                    *)
LEMMA SameHello ==
  ASSUME target' = target, NEW v, NEW offer
  PROVE  Pick(v, offer)' = Pick(v, offer)
BY DEF Pick

(* Nor the versions that would answer a hello for v.                       *)
LEMMA SameSweep ==
  ASSUME target' = target, NEW v
  PROVE  Below(v)' = Below(v)
BY DEF Below

(* So a suite is accepted at one time as at another.                       *)
LEMMA SameProbe ==
  ASSUME target' = target, NEW v, NEW c
  PROVE  ProbeOneCipher(v, c)' = ProbeOneCipher(v, c)
<1>1. Below(v)' = Below(v)
  BY SameSweep
<1> QED BY <1>1, Zenon DEF ProbeOneCipher, Highest

(* And a client settles on the same version.                               *)
LEMMA SameClient ==
  ASSUME target' = target, NEW p
  PROVE  SimulateOneClient(p)' = SimulateOneClient(p)
BY Zenon DEF SimulateOneClient, Pick

(* What an item owes does not depend on when it is asked.                  *)
LEMMA SameOutcome ==
  ASSUME target' = target, NEW t, NEW i
  PROVE  Outcome(t, i)' = Outcome(t, i)
<1>1. SimulateOneClient(Clients[i])' = SimulateOneClient(Clients[i])
  BY SameClient
<1>2. ProbeOneCipher(t.version, Items(t)[i])' = ProbeOneCipher(t.version, Items(t)[i])
  BY SameProbe
<1>3. ProbeOneCipher(t.version, Registry[i].cipher)' = ProbeOneCipher(t.version, Registry[i].cipher)
  BY SameProbe
<1> QED BY <1>1, <1>2, <1>3 DEF Outcome

(* What was lost of another step stays as it was.                          *)
LEMMA SameLoss ==
  ASSUME Moves, NEW k \in 1..18, k # pc, NEW i
  PROVE  Lost(Script[k].task, Script[k].version, i)' = Lost(Script[k].task, Script[k].version, i)
<1>1. ~(Script[k].task = Now.task /\ Script[k].version = Now.version)
  BY StepsDistinct DEF Moves, Now
<1>2. missed \subseteq missed' /\ \A m \in missed' : m \in missed \/ \E j : m = <<Now.task, Now.version, j>>
  BY DEF Moves, Losses
<1> QED BY <1>1, <1>2 DEF Lost

(* So is what another step owes, and what its items are on record with.    *)
LEMMA SameDue ==
  ASSUME Moves, NEW k \in 1..18, k # pc
  PROVE  Due(Script[k])' = Due(Script[k])
<1>1. \A i : Lost(Script[k].task, Script[k].version, i)' = Lost(Script[k].task, Script[k].version, i)
  BY SameLoss
<1>2. \A i : Outcome(Script[k], i)' = Outcome(Script[k], i)
  BY SameOutcome DEF Moves
<1> QED BY <1>1, <1>2, Zenon DEF Due

(* What the items of another step are on record with stays.                *)
LEMMA SameReport ==
  ASSUME Moves, NEW k \in 1..18, k # pc, NEW i
  PROVE  Reported(Script[k], i)' = Reported(Script[k], i)
<1>1. Lost(Script[k].task, Script[k].version, i)' = Lost(Script[k].task, Script[k].version, i)
  BY SameLoss
<1>2. Outcome(Script[k], i)' = Outcome(Script[k], i)
  BY SameOutcome DEF Moves
<1> QED BY <1>1, <1>2, Zenon DEF Reported

-----------------------------------------------------------------------------
(* The pools.                                                              *)

(* The lists the pools work through are sequences.                         *)
LEMMA ItemsAre ==
  ASSUME NEW t, t.task \in Pools
  PROVE  Len(Items(t)) \in Nat /\ DOMAIN Items(t) = 1..Len(Items(t))
<1>a. \A S : \A s \in Seq(S) : Len(s) \in Nat /\ DOMAIN s = 1..Len(s)
  OBVIOUS
<1>b. /\ \E S : Protocols \in Seq(S)
      /\ \E S : Candidates13 \in Seq(S)
      /\ \E S : Candidates12 \in Seq(S)
      /\ \E S : Registry \in Seq(S)
      /\ \E S : Clients \in Seq(S)
  BY TablesAssumption, Zenon
<1>1. \A s \in {Protocols, Candidates13, Candidates12, Registry, Clients} : Len(s) \in Nat /\ DOMAIN s = 1..Len(s)
  BY <1>a, <1>b, Zenon
<1>2. Items(t) \in {Protocols, Candidates13, Candidates12, Registry, Clients}
  BY DEF Items, Pools
<1> QED BY <1>1, <1>2

(* What a goroutine can report.                                            *)
LEMMA OutcomeIs ==
  ASSUME target \in Targets, NEW t, t.task \in Pools, NEW i
  PROVE  /\ Outcome(t, i) \in Answers /\ Unanswered(t) \in Answers
         /\ Unanswered(t) # "yes" /\ (t.task = "sim" => Outcome(t, i) # "yes")
<1>1. CASE t.task = "sim"
  <2> DEFINE p == Clients[i]
             common == {v \in target.versions : VersionRank(p.min) <= VersionRank(v) /\ VersionRank(v) <= VersionRank(p.max)}
  <2>1. common \in SUBSET VersionSet
    BY TargetTyped
  <2>2. SimulateOneClient(p) = "fail" \/ (common # {} /\ SimulateOneClient(p) = Highest(common))
    BY DEF SimulateOneClient
  <2>3. Outcome(t, i) = SimulateOneClient(p)
    BY <1>1 DEF Outcome
  <2> HIDE DEF common
  <2>4. Outcome(t, i) \in {"fail"} \cup VersionSet
    BY <2>1, <2>2, <2>3, HighestIs
  <2> QED BY <1>1, <2>4 DEF Unanswered, Answers, VersionSet
<1>2. CASE t.task # "sim"
  BY <1>2 DEF Outcome, Unanswered, Answers, Pools
<1> QED BY <1>1, <1>2

(* A pool at rest is sound, whatever it is about to do.                    *)
LEMMA RestIsSound ==
  ASSUME pool' = Idle
  PROVE  PoolInv'
<1>1. pool'.next = 1 /\ pool'.running = {} /\ pool'.out = << >> /\ pool'.kept = << >>
  BY DEF Idle
<1>2. Back' = {}
  BY <1>1 DEF Back
<1>3. Cardinality({}) = 0
  BY FS_EmptySet
<1>4. IsInjective(<< >>) /\ ToSet(<< >>) = {}
  BY DEF IsInjective, ToSet
<1>5. ASSUME AtPool' PROVE PoolSound'
  <2>1. PICK t : t = Now'
    OBVIOUS
  <2>2. t.task \in Pools
    BY <1>5, <2>1 DEF AtPool
  <2>3. Len(Items(t)) \in Nat
    BY <2>2, ItemsAre
  <2>4. pool'.next \in 1..(Len(Items(Now')) + 1)
    BY <1>1, <2>1, <2>3
  <2>5. pool'.running \subseteq 1..(pool'.next - 1) /\ Cardinality(pool'.running) <= Limit
    BY <1>1, <1>3, BoundsAssumption
  <2>6. pool' \in [next : Nat, running : SUBSET Nat, out : Seq([item : Nat, says : Answers]), kept : Seq(Nat)]
        /\ IsInjective(pool'.kept)
    BY <1>1, <1>4 DEF Idle
  <2>7. ToSet(pool'.kept) = {i \in Back' : Reported(Now, i)' = "yes"}
    BY <1>1, <1>2, <1>4
  <2>8. \A i : ~(i \in 1..(pool'.next - 1))
    BY <1>1
  <2>9. DOMAIN pool'.out = {}
    BY <1>1
  <2> QED BY <2>4, <2>5, <2>6, <2>7, <2>8, <2>9 DEF PoolSound
<1> QED BY <1>5 DEF PoolInv

(* The step a pool stands at is one of a pool, and is still in force.      *)
LEMMA PoolStays ==
  ASSUME pc' = pc, target' = target, versions' = versions, enums' = enums
  PROVE  Now' = Now /\ AtPool' = AtPool
BY DEF Now, AtPool, Applies

(* One more goroutine is started.                                          *)
LEMMA LaunchSound ==
  ASSUME Shapes, PoolInv, Launch
  PROVE  PoolInv'
<1>1. AtPool /\ pool.next <= Len(Items(Now)) /\ Cardinality(pool.running) < Limit /\ PoolSound
  <2>1. AtPool /\ PoolSound /\ ~(pool.next > Len(Items(Now))) /\ Cardinality(pool.running) < Limit
    BY DEF Launch, AllLaunched, HasSlot, PoolInv
  <2>2. Now.task \in Pools
    BY <2>1 DEF AtPool
  <2>3. Len(Items(Now)) \in Nat /\ pool.next \in 1..(Len(Items(Now)) + 1)
    BY <2>1, <2>2, ItemsAre DEF PoolSound
  <2> QED BY <2>1, <2>3
<1>2. pool' = [pool EXCEPT !.next = @ + 1, !.running = @ \cup {pool.next}]
  BY DEF Launch
<1>3. pc' = pc /\ target' = target /\ missed' = missed /\ versions' = versions /\ enums' = enums
  BY DEF Launch
<1>4. Now' = Now /\ AtPool' = AtPool
  BY <1>3, PoolStays
<1>5. \A i : Reported(Now, i)' = Reported(Now, i)
  <2>1. PICK t : t = Now
    OBVIOUS
  <2>2. \A i : Outcome(t, i)' = Outcome(t, i)
    BY <1>3, SameOutcome
  <2>3. \A i : Reported(t, i)' = Reported(t, i)
    BY <1>3, <2>2 DEF Reported, Lost
  <2>4. \A i : Reported(Now, i)' = Reported(t, i)'
    BY <1>4, <2>1 DEF Reported
  <2> QED BY <2>1, <2>3, <2>4
<1> DEFINE n == pool.next
           run == pool.running
<1>6. /\ pool \in [next : Nat, running : SUBSET Nat, out : Seq([item : Nat, says : Answers]), kept : Seq(Nat)]
      /\ n \in 1..(Len(Items(Now)) + 1) /\ run \subseteq 1..(n - 1)
      /\ \A i \in 1..(n - 1) : i \in run \/ i \in Back
      /\ \A k \in DOMAIN pool.out : pool.out[k].item \in 1..(n - 1) /\ pool.out[k].item \notin run
  BY <1>1 DEF PoolSound
<1>7. Len(Items(Now)) \in Nat
  BY <1>1, ItemsAre DEF AtPool
<1>8. pool'.next = n + 1 /\ pool'.running = run \cup {n} /\ pool'.out = pool.out /\ pool'.kept = pool.kept
  BY <1>2, <1>6
<1>t. pool' \in [next : Nat, running : SUBSET Nat, out : Seq([item : Nat, says : Answers]), kept : Seq(Nat)]
  <2>1. n + 1 \in Nat /\ run \cup {n} \in SUBSET Nat
    BY <1>6
  <2> HIDE DEF n, run
  <2> QED BY <1>2, <1>6, <2>1 DEF n, run
<1>9. Back' = Back
  BY <1>8 DEF Back
<1>10. Cardinality(run \cup {n}) <= Limit
  <2>0. 1 \in Int /\ n - 1 \in Int
    BY <1>6, <1>7
  <2>1. IsFiniteSet(1..(n - 1))
    BY <2>0, FS_Interval, Zenon
  <2>2. IsFiniteSet(run)
    BY <1>6, <2>1, FS_Subset
  <2>3. Cardinality(run \cup {n}) = IF n \in run THEN Cardinality(run) ELSE Cardinality(run) + 1
    BY <2>2, FS_AddElement
  <2>4. Cardinality(run) \in Nat
    BY <2>2, FS_CardinalityType
  <2> QED BY <1>1, <2>3, <2>4, BoundsAssumption
<1>11. /\ pool'.next \in 1..(Len(Items(Now')) + 1) /\ pool'.running \subseteq 1..(pool'.next - 1)
       /\ \A i \in 1..(pool'.next - 1) : i \in pool'.running \/ i \in Back'
       /\ \A k \in DOMAIN pool'.out : pool'.out[k].item \in 1..(pool'.next - 1) /\ pool'.out[k].item \notin pool'.running
  <2>1. \A i \in 1..((n + 1) - 1) : i \in 1..(n - 1) \/ i = n
    BY <1>6
  <2>2. \A i \in 1..(n - 1) : i \in 1..((n + 1) - 1) /\ i # n
    BY <1>6
  <2>3. n \in 1..((n + 1) - 1) /\ n + 1 \in 1..(Len(Items(Now)) + 1)
    BY <1>1, <1>6, <1>7
  <2> HIDE DEF n, run
  <2>4. run \cup {n} \subseteq 1..((n + 1) - 1)
    BY <1>6, <2>2, <2>3
  <2> QED BY <1>4, <1>6, <1>8, <1>9, <2>1, <2>2, <2>3, <2>4
<1>12. /\ \A k, l \in DOMAIN pool'.out : pool'.out[k].item = pool'.out[l].item => k = l
       /\ IsInjective(pool'.kept)
  BY <1>1, <1>8 DEF PoolSound
<1>14. (\A k \in DOMAIN pool.out : pool.out[k].says = Reported(Now, pool.out[k].item))'
  BY <1>1, <1>5, <1>8 DEF PoolSound
<1>15. ToSet(pool'.kept) = {i \in Back' : Reported(Now, i)' = "yes"}
  BY <1>1, <1>5, <1>8, <1>9 DEF PoolSound
<1>13. Cardinality(pool'.running) <= Limit
  BY <1>8, <1>10
<1> QED BY <1>1, <1>4, <1>t, <1>11, <1>12, <1>13, <1>14, <1>15 DEF PoolInv, PoolSound

(* The record of a pool.                                                   *)
PoolShape == [next : Nat, running : SUBSET Nat, out : Seq([item : Nat, says : Answers]), kept : Seq(Nat)]

(* A goroutine that answers is on record with what it hands over, and      *)
(* nobody else's record changes.                                           *)
LEMMA AnswerRecords ==
  ASSUME Shapes, LossesPast, PoolInv, Answer
  PROVE  \E i \in pool.running : \E says \in Answers :
           /\ pool' = Answered(i, says) /\ says = Reported(Now, i)'
           /\ \A j : j # i => Reported(Now, j)' = Reported(Now, j)
<1>1. AtPool /\ PoolSound /\ pc \in 1..18 /\ Now.task \in Pools
  BY ScriptIs DEF Answer, PoolInv, AtPool, Shapes
<1>2. pc' = pc /\ target' = target /\ versions' = versions /\ enums' = enums
  BY DEF Answer
<1>3. Now' = Now
  BY <1>2, PoolStays
<1>4. PICK t : t = Now
  OBVIOUS
<1>5. PICK i \in pool.running :
        \/ pool' = Answered(i, Outcome(Now, i)) /\ missed' = missed
        \/ /\ Outcome(Now, i) # Unanswered(Now)
           /\ pool' = Answered(i, Unanswered(Now))
           /\ missed' = missed \cup {<<Now.task, Now.version, i>>}
  BY DEF Answer
<1>6. \A j : Outcome(t, j)' = Outcome(t, j)
  BY <1>2, SameOutcome
<1>7. \A j : Reported(Now, j)' = Reported(t, j)'
  BY <1>3, <1>4 DEF Reported
<1>8. i \notin Back
  BY <1>1 DEF PoolSound, Back
<1>9. ~Lost(t.task, t.version, i)
  BY <1>1, <1>4, <1>8 DEF LossesPast, Now
<1>10. \A j : j # i => Reported(Now, j)' = Reported(Now, j)
  <2>1. \A j : j # i => Lost(t.task, t.version, j)' = Lost(t.task, t.version, j)
    BY <1>5 DEF Lost
  <2> QED BY <1>4, <1>6, <1>7, <2>1 DEF Reported
<1>11. Outcome(Now, i) \in Answers /\ Unanswered(Now) \in Answers
  BY <1>1, OutcomeIs DEF Shapes
<1>12. CASE pool' = Answered(i, Outcome(Now, i)) /\ missed' = missed
  <2>1. ~Lost(t.task, t.version, i)'
    BY <1>9, <1>12 DEF Lost
  <2>2. Reported(t, i)' = Outcome(t, i)
    BY <1>6, <2>1 DEF Reported
  <2> QED BY <1>4, <1>7, <1>10, <1>11, <1>12, <2>2
<1>13. CASE /\ Outcome(Now, i) # Unanswered(Now)
            /\ pool' = Answered(i, Unanswered(Now))
            /\ missed' = missed \cup {<<Now.task, Now.version, i>>}
  <2>1. Lost(t.task, t.version, i)'
    BY <1>4, <1>13 DEF Lost
  <2>2. Reported(t, i)' = Unanswered(t)
    BY <2>1 DEF Reported
  <2> QED BY <1>4, <1>7, <1>10, <1>11, <1>13, <2>2
<1> QED BY <1>5, <1>12, <1>13

(* The pool is sound after an answer.                                      *)
LEMMA AnswerSound ==
  ASSUME Shapes, LossesPast, PoolInv, Answer
  PROVE  PoolInv'
<1>1. AtPool /\ PoolSound
  BY DEF Answer, PoolInv
<1>2. pc' = pc /\ target' = target /\ versions' = versions /\ enums' = enums
  BY DEF Answer
<1>3. Now' = Now /\ AtPool' = AtPool
  BY <1>2, PoolStays
<1>4. PICK i \in pool.running : \E says \in Answers :
           /\ pool' = Answered(i, says) /\ says = Reported(Now, i)'
           /\ \A j : j # i => Reported(Now, j)' = Reported(Now, j)
  BY AnswerRecords
<1>5. PICK says \in Answers :
           /\ pool' = Answered(i, says) /\ says = Reported(Now, i)'
           /\ \A j : j # i => Reported(Now, j)' = Reported(Now, j)
  BY <1>4
<1> DEFINE n == pool.next
           run == pool.running
           out == pool.out
           kept == pool.kept
           got == [item |-> i, says |-> says]
<1>6. /\ pool \in PoolShape
      /\ n \in 1..(Len(Items(Now)) + 1) /\ run \subseteq 1..(n - 1) /\ Cardinality(run) <= Limit
      /\ \A j \in 1..(n - 1) : j \in run \/ j \in Back
      /\ \A k \in DOMAIN out : out[k].item \in 1..(n - 1) /\ out[k].item \notin run
      /\ \A k, l \in DOMAIN out : out[k].item = out[l].item => k = l
      /\ \A k \in DOMAIN out : out[k].says = Reported(Now, out[k].item)
      /\ IsInjective(kept) /\ ToSet(kept) = {j \in Back : Reported(Now, j) = "yes"}
  BY <1>1 DEF PoolSound, PoolShape
<1>7. /\ pool'.next = n /\ pool'.running = run \ {i} /\ pool'.out = Append(out, got)
      /\ pool'.kept = IF says = "yes" THEN Append(kept, i) ELSE kept
  BY <1>5, <1>6 DEF Answered, PoolShape
<1>8. i \in Nat /\ i \in 1..(n - 1) /\ out \in Seq([item : Nat, says : Answers]) /\ kept \in Seq(Nat) /\ got \in [item : Nat, says : Answers]
  BY <1>6 DEF PoolShape
<1>9. pool' \in PoolShape
  <2>1. run \ {i} \in SUBSET Nat /\ Append(out, got) \in Seq([item : Nat, says : Answers])
    BY <1>6, <1>8 DEF PoolShape
  <2>2. Append(kept, i) \in Seq(Nat)
    BY <1>8
  <2>3. (IF says = "yes" THEN Append(kept, i) ELSE kept) \in Seq(Nat)
    BY <1>8, <2>2
  <2> HIDE DEF got
  <2>4. pool' = [pool EXCEPT !.running = @ \ {i}, !.out = Append(@, got), !.kept = IF says = "yes" THEN Append(@, i) ELSE @]
    BY <1>5 DEF Answered, got
  <2> HIDE DEF out, kept, run
  <2> QED BY <1>6, <2>1, <2>2, <2>3, <2>4 DEF PoolShape, out, kept, run
<1> DEFINE L == Len(out)
<1>10. /\ L \in Nat /\ DOMAIN out = 1..L /\ DOMAIN pool'.out = 1..(L + 1) /\ pool'.out[L + 1] = got
       /\ \A k \in 1..L : pool'.out[k] = out[k]
  BY <1>7, <1>8
<1>11. got.item = i /\ got.says = says
  OBVIOUS
<1> HIDE DEF got, L
<1>12. \A k \in 1..(L + 1) : k \in 1..L \/ k = L + 1
  BY <1>10
<1>13. \A k \in 1..L : k \in 1..(L + 1)
  BY <1>10
<1>14. L + 1 \in 1..(L + 1)
  BY <1>10
<1>15. Back' = Back \cup {i}
  <2>1. \A x : x \in Back <=> \E k \in 1..L : out[k].item = x
    BY <1>10 DEF Back
  <2>2. \A x : x \in Back' <=> \E k \in 1..(L + 1) : pool'.out[k].item = x
    BY <1>10 DEF Back
  <2>3. \A x : x \in Back' <=> x \in Back \/ x = i
    BY <2>1, <2>2, <1>10, <1>11, <1>12, <1>13, <1>14, Zenon
  <2> QED BY <2>3
<1>16. i \notin Back /\ \A k \in 1..L : out[k].item # i
  BY <1>6, <1>10 DEF Back
<1>17. \A k \in DOMAIN pool'.out : pool'.out[k].item \in 1..(n - 1) /\ pool'.out[k].item \notin pool'.running
  BY <1>6, <1>7, <1>8, <1>10, <1>11, <1>12
<1>18. \A k, l \in DOMAIN pool'.out : pool'.out[k].item = pool'.out[l].item => k = l
  BY <1>6, <1>10, <1>11, <1>12, <1>16, Zenon
<1>19. (\A k \in DOMAIN pool.out : pool.out[k].says = Reported(Now, pool.out[k].item))'
  <2>1. \A k \in 1..L : \A x : x = pool'.out[k].item => pool'.out[k].says = Reported(Now, x)'
    <3>1. \A k \in 1..L : out[k].says = Reported(Now, out[k].item) /\ out[k].item # i
      BY <1>6, <1>10, <1>16
    <3>2. \A j : j # i => Reported(Now, j)' = Reported(Now, j)
      BY <1>5
    <3>3. \A k \in 1..L : pool'.out[k] = out[k]
      BY <1>10
    <3> QED BY <3>1, <3>2, <3>3, Zenon
  <2>2. \A x : x = pool'.out[L + 1].item => pool'.out[L + 1].says = Reported(Now, x)'
    BY <1>5, <1>10, <1>11
  <2> QED BY <1>10, <1>12, <2>1, <2>2
<1>20. IsInjective(pool'.kept)
  <2>1. CASE says = "yes"
    <3>1. pool'.kept = Append(kept, i) /\ i \notin ToSet(kept)
      BY <1>6, <1>7, <1>16, <2>1
    <3>2. DOMAIN kept = 1..Len(kept) /\ Len(kept) \in Nat /\ DOMAIN pool'.kept = 1..(Len(kept) + 1) /\ pool'.kept[Len(kept) + 1] = i
          /\ \A k \in 1..Len(kept) : pool'.kept[k] = kept[k]
      BY <1>8, <3>1
    <3>3. \A k \in 1..Len(kept) : kept[k] # i
      BY <3>1, <3>2 DEF ToSet
    <3> HIDE DEF kept
    <3> QED BY <1>6, <3>2, <3>3 DEF IsInjective
  <2>2. CASE says # "yes"
    BY <1>6, <1>7, <2>2
  <2> QED BY <2>1, <2>2
<1>21. ToSet(pool'.kept) = {j \in Back' : Reported(Now, j)' = "yes"}
  <2>1. \A x : x \in ToSet(kept) <=> x \in Back /\ Reported(Now, x) = "yes"
    BY <1>6
  <2>2. \A x : x \in {j \in Back' : Reported(Now, j)' = "yes"} <=> x \in ToSet(kept) \/ (x = i /\ says = "yes")
    BY <1>5, <1>15, <1>16, <2>1
  <2>3. CASE says = "yes"
    <3>1. pool'.kept = Append(kept, i)
      BY <1>7, <2>3
    <3>2. DOMAIN kept = 1..Len(kept) /\ Len(kept) \in Nat /\ DOMAIN pool'.kept = 1..(Len(kept) + 1) /\ pool'.kept[Len(kept) + 1] = i
          /\ \A k \in 1..Len(kept) : pool'.kept[k] = kept[k]
      BY <1>8, <3>1
    <3> HIDE DEF kept
    <3>3. \A x : x \in ToSet(pool'.kept) <=> x \in ToSet(kept) \/ x = i
      BY <3>2 DEF ToSet
    <3>4. \A x : x \in ToSet(pool'.kept) <=> x \in {j \in Back' : Reported(Now, j)' = "yes"}
      BY <2>2, <2>3, <3>3
    <3> QED BY <3>4
  <2>4. CASE says # "yes"
    <3>1. ToSet(pool'.kept) = ToSet(kept)
      BY <1>7, <2>4
    <3>2. \A x : x \in ToSet(pool'.kept) <=> x \in {j \in Back' : Reported(Now, j)' = "yes"}
      BY <2>2, <2>4, <3>1
    <3> QED BY <3>2
  <2> QED BY <2>3, <2>4
<1>22. /\ pool'.next \in 1..(Len(Items(Now')) + 1) /\ pool'.running \subseteq 1..(pool'.next - 1)
       /\ \A j \in 1..(pool'.next - 1) : j \in pool'.running \/ j \in Back'
  BY <1>3, <1>6, <1>7, <1>15
<1>23. Cardinality(pool'.running) <= Limit
  <2>1. IsFiniteSet(1..(n - 1))
    BY <1>6, FS_Interval
  <2>2. IsFiniteSet(run)
    BY <1>6, <2>1, FS_Subset
  <2>3. Cardinality(run \ {i}) <= Cardinality(run) /\ IsFiniteSet(run \ {i})
    BY <2>2, FS_Subset
  <2>4. Cardinality(run) \in Nat /\ Cardinality(run \ {i}) \in Nat
    BY <2>2, <2>3, FS_CardinalityType
  <2> QED BY <1>6, <1>7, <2>3, <2>4, BoundsAssumption
<1>24. PoolSound'
  BY <1>7, <1>9, <1>17, <1>18, <1>19, <1>20, <1>21, <1>22, <1>23 DEF PoolSound, PoolShape
<1> QED BY <1>1, <1>3, <1>24 DEF PoolInv

(* The pool is sound after any step.                                       *)
LEMMA PoolStep ==
  ASSUME Shapes, LossesPast, PoolInv, Next, Moves
  PROVE  PoolInv'
<1>1. CASE Launch
  BY <1>1, LaunchSound
<1>2. CASE Answer
  BY <1>2, AnswerSound
<1>3. CASE pc' = pc + 1 /\ pool' = Idle
  BY <1>3, RestIsSound
<1>4. CASE FetchCRL
  <2>1. Now.task = "crl" /\ pool' = pool
    BY <1>4 DEF FetchCRL, At
  <2>2. pool' = Idle
    BY <2>1, AtRest DEF Pools, Moves
  <2> QED BY <2>2, RestIsSound
<1>5. CASE Dial
  <2>1. Now.task = "dial" /\ pool' = pool
    BY <1>5 DEF Dial, At
  <2>2. pool' = Idle
    BY <2>1, AtRest DEF Pools, Moves
  <2> QED BY <2>2, RestIsSound
<1> QED BY <1>1, <1>2, <1>3, <1>4, <1>5 DEF Moves

(* Who answers is back.                                                    *)
LEMMA AnswerIsBack ==
  ASSUME Shapes, PoolInv, Answer
  PROVE  \E i : /\ Back' = Back \cup {i}
                /\ missed' = missed \/ missed' = missed \cup {<<Now.task, Now.version, i>>}
<1>1. PoolSound
  BY DEF Answer, PoolInv
<1>2. PICK i, says :
        /\ i \in pool.running /\ pool' = Answered(i, says)
        /\ missed' = missed \/ missed' = missed \cup {<<Now.task, Now.version, i>>}
  BY DEF Answer
<1>3. pool \in PoolShape
  BY <1>1 DEF PoolSound, PoolShape
<1>4. pool'.out = Append(pool.out, [item |-> i, says |-> says]) /\ pool.out \in Seq([item : Nat, says : Answers])
  BY <1>2, <1>3 DEF PoolShape, Answered
<1> DEFINE L == Len(pool.out)
<1>5. /\ L \in Nat /\ DOMAIN pool.out = 1..L /\ DOMAIN pool'.out = 1..(L + 1) /\ pool'.out[L + 1].item = i
      /\ \A k \in 1..L : pool'.out[k] = pool.out[k]
  BY <1>4
<1> HIDE DEF L
<1>6. \A k : k \in 1..(L + 1) <=> k \in 1..L \/ k = L + 1
  BY <1>5
<1>7. \A x : x \in Back <=> \E k \in 1..L : pool.out[k].item = x
  BY <1>5 DEF Back
<1>8. \A x : x \in Back' <=> \E k \in 1..(L + 1) : pool'.out[k].item = x
  BY <1>5 DEF Back
<1>9. \A x : x \in Back' <=> x \in Back \/ x = i
  BY <1>5, <1>6, <1>7, <1>8, Zenon
<1>10. Back' = Back \cup {i}
  BY <1>9
<1> QED BY <1>2, <1>10

(* Nothing is lost of a step to come, after any step.                      *)
LEMMA LossesStep ==
  ASSUME Shapes, LossesPast, PoolInv, Moves
  PROVE  LossesPast'
<1> SUFFICES ASSUME NEW k \in 1..18, NEW i, Lost(Script[k].task, Script[k].version, i)'
             PROVE  k < pc' \/ (k = pc' /\ (Now'.task \in Pools => i \in Back'))
  BY DEF LossesPast
<1>0. pc \in 1..18 /\ (pc' = pc \/ pc' = pc + 1 \/ pc' = 19)
  BY DEF Moves
<1>1. CASE k # pc
  <2>1. Lost(Script[k].task, Script[k].version, i)
    BY <1>1, SameLoss
  <2>2. k < pc
    BY <1>1, <2>1 DEF LossesPast
  <2> QED BY <1>0, <2>2
<1>2. CASE k = pc /\ pc' # pc
  BY <1>0, <1>2
<1>3. CASE k = pc /\ pc' = pc
  <2>0. Now' = Now
    BY <1>3 DEF Now
  <2>1. CASE Launch
    <3>1. missed' = missed /\ Back' = Back
      <4>1. PoolSound
        BY <2>1 DEF PoolInv, Launch
      <4>2. pool'.out = pool.out
        BY <2>1, <4>1 DEF Launch, PoolSound
      <4> QED BY <2>1, <4>2 DEF Launch, Back
    <3>2. Lost(Script[k].task, Script[k].version, i)
      BY <3>1 DEF Lost
    <3> QED BY <1>3, <2>0, <3>1, <3>2 DEF LossesPast
  <2>2. CASE Answer
    <3>1. PICK j : /\ Back' = Back \cup {j}
                   /\ missed' = missed \/ missed' = missed \cup {<<Now.task, Now.version, j>>}
      BY <2>2, AnswerIsBack
    <3>2. Lost(Script[k].task, Script[k].version, i) \/ i = j
      BY <3>1 DEF Lost
    <3> QED BY <1>3, <2>0, <3>1, <3>2 DEF LossesPast
  <2>3. CASE FetchCRL
    <3>1. Now.task = "crl"
      BY <2>3 DEF FetchCRL, At
    <3> QED BY <1>3, <2>0, <3>1 DEF Pools
  <2>4. Launch \/ Answer \/ FetchCRL
    BY <1>0, <1>3 DEF Moves
  <2> QED BY <2>1, <2>2, <2>3, <2>4
<1> QED BY <1>1, <1>2, <1>3

(* The first step is the handshake.                                        *)
LEMMA FirstStep ==
  ASSUME Next, pc = 1
  PROVE  Dial
<1>1. Now.task = "dial"
  BY ScriptIs, TaskIs DEF Now
<1>2. Applies(Now)
  BY <1>1 DEF Applies
<1> QED BY <1>1, <1>2 DEF Next, At, AtPool, Pools, Collect, Fallback, PassOver, Launch, Answer, GatherALPN, GatherEnum,
      GatherEach, GatherSim, Prefer, FetchCRL, Judge

(* What Go's client offers is a sequence of suites.                        *)
LEMMA OfferIs ==
  ASSUME NEW v
  PROVE  GoOffer(v) \in Seq(Classes)
<1>1. "tls13" \in Classes /\ "ecdheAead" \in Classes /\ "ecdheCbc" \in Classes
  BY DEF Classes
<1>2. <<"tls13">> \in Seq(Classes) /\ <<"ecdheAead", "ecdheCbc">> \in Seq(Classes)
  BY <1>1
<1> QED BY <1>2 DEF GoOffer

(* The session is there from the handshake on.                             *)
LEMMA LivesStep ==
  ASSUME Shapes, Lives, Next, Moves
  PROVE  /\ Lives' /\ (Live' = Live \/ (pc = 1 /\ pc' = 2))
         /\ session.cipher' \in Classes \cup {"none"}
<1>0. pc \in 1..18 /\ target \in Targets /\ session.cipher \in Classes \cup {"none"}
  BY DEF Moves, Shapes
<1>1. CASE Dial
  <2>1. pc = 1
    BY <1>0, <1>1, StepAt DEF Dial, At
  <2> DEFINE common == target.versions \cap GoVersions
             suite  == IF common = {} THEN "none" ELSE Pick(Highest(common), GoOffer(Highest(common)))
  <2>2. \/ suite # "none" /\ session' = [version |-> Highest(common), cipher |-> suite] /\ pc' = pc + 1
        \/ pc' = Return /\ session' = session
    BY <1>1 DEF Dial
  <2>3. CASE suite # "none" /\ session' = [version |-> Highest(common), cipher |-> suite] /\ pc' = pc + 1
    <3>1. common # {} /\ common \in SUBSET VersionSet
      BY <1>0, <2>3, TargetTyped
    <3>2. Highest(common) \in VersionSet
      BY <3>1, HighestIs
    <3>3. GoOffer(Highest(common)) \in Seq(Classes)
      BY OfferIs
    <3>4. suite \in Classes \cup {"none"}
      BY <1>0, <3>1, <3>2, <3>3, PickTyped
    <3> HIDE DEF common, suite
    <3>5. session'.version = Highest(common) /\ session'.cipher = suite
      BY <2>3
    <3>6. session'.version # "none"
      BY <3>2, <3>5 DEF VersionSet
    <3> QED BY <2>1, <2>3, <3>4, <3>5, <3>6 DEF Lives, Live
  <2>4. CASE pc' = Return /\ session' = session
    BY <1>0, <2>1, <2>4, ScriptIs DEF Lives, Live
  <2> QED BY <2>2, <2>3, <2>4
<1>2. CASE ~Dial
  <2>1. session' = session /\ (pc' = pc \/ pc' = pc + 1)
    BY <1>2 DEF Moves
  <2>2. pc # 1
    BY <1>2, FirstStep
  <2> QED BY <1>0, <2>1, <2>2 DEF Lives, Live
<1> QED BY <1>1, <1>2

(* A loss more, where one is allowed, keeps within the bound.              *)
LEMMA OneMore ==
  ASSUME Shapes, MayLose, NEW m
  PROVE  IsFiniteSet(missed \cup {m}) /\ Cardinality(missed \cup {m}) <= Faults
<1>1. IsFiniteSet(missed) /\ Cardinality(missed) < Faults
  BY DEF Shapes, MayLose
<1>2. Cardinality(missed) \in Nat
  BY <1>1, FS_CardinalityType
<1>3. /\ IsFiniteSet(missed \cup {m})
      /\ Cardinality(missed \cup {m}) = IF m \in missed THEN Cardinality(missed) ELSE Cardinality(missed) + 1
  BY <1>1, FS_AddElement
<1> QED BY <1>1, <1>2, <1>3, BoundsAssumption

(* There are finitely many probes.                                         *)
LEMMA ProbesFinite ==
  ASSUME target \in Targets
  PROVE  IsFiniteSet(ProbeNames)
<1>1. IsFiniteSet(VersionSet)
  <2>1. VersionSet = {"TLS10"} \cup {"TLS11"} \cup {"TLS12"} \cup {"TLS13"}
    BY DEF VersionSet
  <2> QED BY <2>1, FS_Singleton, FS_Union
<1>2. IsFiniteSet(target.versions)
  BY <1>1, TargetTyped, FS_Subset
<1> DEFINE names == {e.name : e \in VulnTable \cup LateTable}
           known == {"Heartbleed", "DROWN", "CRIME", "FREAK", "Logjam", "Weak_DH", "Logjam_common_prime", "Weak_DH_1024",
                     "Insecure_renegotiation", "CCS_Injection", "SWEET32", "RC4", "LUCKY13", "BEAST", "POODLE", "Ticketbleed",
                     "GOLDENDOODLE", "Zombie_POODLE", "Sleeping_POODLE", "ROBOT", "renegotiation_DoS", "renegotiation",
                     "Distrusted_CA"}
<1>3. IsFiniteSet(known)
  <2>1. \A x \in known : IsFiniteSet({x})
    BY FS_Singleton
  <2>2. known = {"Heartbleed"} \cup {"DROWN"} \cup {"CRIME"} \cup {"FREAK"} \cup {"Logjam"} \cup {"Weak_DH"}
          \cup {"Logjam_common_prime"} \cup {"Weak_DH_1024"} \cup {"Insecure_renegotiation"} \cup {"CCS_Injection"}
          \cup {"SWEET32"} \cup {"RC4"} \cup {"LUCKY13"} \cup {"BEAST"} \cup {"POODLE"} \cup {"Ticketbleed"}
          \cup {"GOLDENDOODLE"} \cup {"Zombie_POODLE"} \cup {"Sleeping_POODLE"} \cup {"ROBOT"} \cup {"renegotiation_DoS"}
          \cup {"renegotiation"} \cup {"Distrusted_CA"}
    OBVIOUS
  <2> HIDE DEF known
  <2> QED BY <2>2, FS_Singleton, FS_Union
<1>4. names \subseteq known
  BY DEF VulnTable, LateTable
<1>5. IsFiniteSet(target.flaws \ {"Distrusted_CA"})
  <2>1. target.flaws \ {"Distrusted_CA"} \subseteq known
    BY <1>4, TargetTyped
  <2> QED BY <1>3, <2>1, FS_Subset
<1>6. IsFiniteSet({"dh", "extensions"})
  <2>1. {"dh", "extensions"} = {"dh"} \cup {"extensions"}
    OBVIOUS
  <2>2. IsFiniteSet({"dh"}) /\ IsFiniteSet({"extensions"})
    BY FS_Singleton
  <2>3. IsFiniteSet({"dh"} \cup {"extensions"})
    BY <2>2, FS_Union
  <2> QED BY <2>1, <2>3, Zenon
<1> QED BY <1>2, <1>5, <1>6, FS_Union DEF ProbeNames

(* The types after a step.                                                 *)
LEMMA ShapesStep ==
  ASSUME Shapes, Lives, PoolInv, Next, Moves
  PROVE  Shapes'
<1>0. pc \in 1..18 /\ target' = target /\ target \in Targets
  BY DEF Moves, Shapes
<1>1. pc' \in 1..19
  BY <1>0 DEF Moves
<1>2. session.cipher' \in Classes \cup {"none"}
  BY LivesStep
<1>3. tls10' \in Classes \cup {"none"}
  <2>1. CASE Collect
    <3>1. tls10' = "none" \/ tls10' = Pick("TLS10", GoOffer("TLS10"))
      BY <2>1 DEF Collect
    <3>2. Pick("TLS10", GoOffer("TLS10")) \in Classes \cup {"none"}
      BY <1>0, OfferIs, PickTyped DEF VersionSet
    <3> QED BY <3>1, <3>2
  <2>2. CASE ~Collect
    BY <2>2 DEF Moves, Shapes
  <2> QED BY <2>1, <2>2
<1>4. scsv' \in {"unknown", "protected", "open"}
  <2>1. CASE Fallback
    <3>1. scsv' \in {scsv, target.scsv}
      BY <2>1 DEF Fallback
    <3> QED BY <1>0, <3>1, TargetTyped DEF Shapes
  <2>2. CASE ~Fallback
    BY <2>2 DEF Moves, Shapes
  <2> QED BY <2>1, <2>2
<1>5. IsFiniteSet(missed') /\ Cardinality(missed') <= Faults
  <2>1. CASE missed' = missed
    BY <2>1 DEF Shapes
  <2>2. CASE \E m : MayLose /\ missed' = missed \cup {m}
    BY <2>2, OneMore
  <2>3. CASE Collect
    <3>1. PICK lost \in SUBSET ProbeNames :
            Cardinality(lost) <= (IF MayLose THEN 1 ELSE 0) /\ missed' = missed \cup {<<"collect", "none", p>> : p \in lost}
      BY <2>3 DEF Collect
    <3>2. IsFiniteSet(lost)
      BY <1>0, <3>1, ProbesFinite, FS_Subset
    <3>3. CASE lost = {}
      <4>1. missed' = missed
        BY <3>1, <3>3
      <4> QED BY <4>1 DEF Shapes
    <3>4. CASE lost # {}
      <4>1. PICK p : p \in lost
        BY <3>4
      <4>2. Cardinality(lost \ {p}) = Cardinality(lost) - 1 /\ IsFiniteSet(lost \ {p}) /\ Cardinality(lost) \in Nat /\ Cardinality(lost \ {p}) \in Nat
        <5>1. Cardinality(lost \ {p}) = Cardinality(lost) - 1 /\ IsFiniteSet(lost \ {p})
          BY <3>2, <4>1, FS_RemoveElement
        <5> QED BY <3>2, <5>1, FS_CardinalityType
      <4>3. MayLose /\ Cardinality(lost \ {p}) = 0
        BY <3>1, <4>2
      <4>4. lost \ {p} = {}
        BY <4>2, <4>3, FS_EmptySet
      <4>5. missed' = missed \cup {<<"collect", "none", p>>}
        BY <3>1, <4>1, <4>4
      <4> QED BY <2>2, <4>3, <4>5
    <3> QED BY <3>3, <3>4
  <2>4. CASE Dial
    BY <2>1, <2>2, <2>4 DEF Dial
  <2>5. CASE Fallback
    BY <2>1, <2>2, <2>5 DEF Fallback
  <2>6. CASE Answer
    BY <2>1, <2>2, <2>6 DEF Answer
  <2>7. CASE Prefer
    BY <2>1, <2>2, <2>7 DEF Prefer
  <2> QED BY <2>1, <2>3, <2>4, <2>5, <2>6, <2>7 DEF Moves
<1> QED BY <1>0, <1>1, <1>2, <1>3, <1>4, <1>5 DEF Shapes

(* The verdict after a step.                                               *)
LEMMA ResultStep ==
  ASSUME Shapes, Lives, ResultInv, Next, Moves
  PROVE  ResultInv'
<1>0. pc \in 1..18 /\ Return = 19 /\ result = Pending
  BY ScriptIs DEF Moves, ResultInv
<1>1. CASE Dial
  <2>1. pc = 1 /\ ~Live
    BY <1>0, <1>1, StepAt DEF Dial, At, Lives
  <2>2. (pc' = 2 /\ result' = result) \/ (pc' = 19 /\ result' = Verdict("fail") /\ session' = session)
    BY <1>0, <1>1, <2>1 DEF Dial
  <2> QED BY <1>0, <2>1, <2>2 DEF ResultInv, Live
<1>2. CASE Judge
  <2>1. pc = 18 /\ Live
    BY <1>0, <1>2, StepAt DEF Judge, At, Lives
  <2>2. /\ pc' = 19 /\ result' = TheVerdict
        /\ UNCHANGED <<target, session, versions, tls10, probed>>
    BY <1>2, <2>1 DEF Judge, TheVerdict
  <2>3. TheVerdict' = TheVerdict /\ Live'
    BY <2>1, <2>2 DEF TheVerdict, Posture, Live
  <2> QED BY <2>2, <2>3 DEF ResultInv
<1>3. CASE ~Dial /\ ~Judge
  <2>1. result' = Pending /\ (pc' = pc \/ pc' = pc + 1)
    BY <1>0, <1>3 DEF Moves
  <2>2. pc # 18
    <3>1. ASSUME pc = 18 PROVE FALSE
      <4>1. Now.task = "judge"
        BY <3>1, ScriptIs, TaskIs DEF Now
      <4>2. Applies(Now)
        BY <4>1 DEF Applies
      <4> QED BY <1>3, <4>1, <4>2 DEF Next, At, AtPool, Pools, Collect, Fallback, PassOver, Launch, Answer, GatherALPN, GatherEnum,
                 GatherEach, GatherSim, Prefer, FetchCRL
    <3> QED BY <3>1
  <2> QED BY <1>0, <2>1, <2>2 DEF ResultInv
<1> QED BY <1>1, <1>2, <1>3

(* The check goes on step by step while it has a session.                  *)
LEMMA Onward ==
  ASSUME Shapes, Lives, Next, Moves, NEW n \in 2..18, Live', pc' > n
  PROVE  Live /\ (pc > n \/ (pc = n /\ pc' = n + 1))
<1>0. pc \in 1..18
  BY DEF Moves
<1>1. pc # 1
  <2>1. ASSUME pc = 1 PROVE FALSE
    <3>1. Dial /\ ~Live
      BY <2>1, FirstStep DEF Lives
    <3>2. (pc' = 2) \/ (session' = session)
      BY <2>1, <3>1 DEF Dial
    <3> QED BY <3>1, <3>2 DEF Live
  <2> QED BY <2>1
<1>2. ~Dial /\ Live
  BY <1>0, <1>1, StepAt DEF Dial, At, Lives
<1>3. pc' = pc \/ pc' = pc + 1
  BY <1>2 DEF Moves
<1> QED BY <1>0, <1>2, <1>3

(* The revocation list after a step.                                       *)
LEMMA CrlStep ==
  ASSUME Shapes, Lives, CrlInv, Next, Moves
  PROVE  CrlInv'
<1>0. pc \in 1..18 /\ target' = target /\ target.points \in Seq({"ldap", "down", "good", "revoked", "garbled"})
  BY TargetTyped DEF Moves, Shapes
<1>a. Len(target.points) \in Nat /\ DOMAIN target.points = 1..Len(target.points)
  BY <1>0
<1>1. CASE FetchCRL
  <2>1. pc = 13 /\ (pc' = 13 \/ pc' = 14)
    BY <1>0, <1>1, StepAt DEF FetchCRL, At
  <2>2. CASE crl.point > Len(target.points)
    <3>1. crl' = [crl EXCEPT !.status = IF target.points = << >> THEN "none" ELSE "error"]
      BY <1>1, <2>2 DEF FetchCRL
    <3>2. crl'.point = crl.point /\ crl' \in [point : Nat, status : {"none", "error", "good", "revoked"}]
      BY <3>1 DEF CrlInv
    <3> QED BY <1>0, <1>a, <2>2, <3>2 DEF CrlInv
  <2>3. CASE ~(crl.point > Len(target.points)) /\ Skips(target.points[crl.point])
    <3>1. crl' = [crl EXCEPT !.point = @ + 1] /\ pc' = pc
      BY <1>1, <2>3 DEF FetchCRL
    <3>2. crl'.point = crl.point + 1 /\ crl.point \in Nat /\ crl' \in [point : Nat, status : {"none", "error", "good", "revoked"}]
      BY <3>1 DEF CrlInv
    <3>3. crl.point \in 1..Len(target.points)
      BY <1>a, <2>3 DEF CrlInv
    <3>4. crl'.point \in 1..(Len(target.points) + 1)
      BY <1>a, <3>2, <3>3
    <3>5. \A j \in 1..(crl'.point - 1) : j \in 1..(crl.point - 1) \/ j = crl.point
      BY <3>2
    <3>6. \A j \in 1..(crl'.point - 1) : target.points[j] \in {"ldap", "down"}
      BY <2>3, <3>5 DEF CrlInv, Skips
    <3> QED BY <1>0, <2>1, <3>1, <3>2, <3>4, <3>6 DEF CrlInv
  <2>4. CASE ~(crl.point > Len(target.points)) /\ ~Skips(target.points[crl.point])
    <3>1. crl' = [crl EXCEPT !.status = StatusOf(target.points[crl.point])]
      BY <1>1, <2>4 DEF FetchCRL, StatusOf
    <3>a. StatusOf(target.points[crl.point]) \in {"none", "error", "good", "revoked"}
      BY DEF StatusOf
    <3>2. crl'.point = crl.point /\ crl'.status = StatusOf(target.points[crl.point])
          /\ crl' \in [point : Nat, status : {"none", "error", "good", "revoked"}]
      BY <3>1, <3>a DEF CrlInv
    <3> QED BY <1>0, <1>a, <2>4, <3>2 DEF CrlInv, Skips
  <2> QED BY <2>2, <2>3, <2>4
<1>2. CASE ~FetchCRL
  <2>1. crl' = crl
    BY <1>2 DEF Moves
  <2>2. CASE pc = 13
    <3>1. Now.task = "crl"
      BY <2>2, ScriptIs, TaskIs DEF Now
    <3>2. Applies(Now)
      BY <3>1 DEF Applies
    <3> QED BY <1>2, <3>1, <3>2 DEF Next, At, AtPool, Pools, Dial, Judge, Collect, Fallback, PassOver, Launch, Answer, GatherALPN, GatherEnum,
                 GatherEach, GatherSim, Prefer
  <2>3. CASE pc # 13
    <3>1. Live' /\ pc' > 13 => Live /\ pc > 13
      BY <1>0, <2>3, Onward
    <3> QED BY <1>0, <2>1, <3>1 DEF CrlInv
  <2> QED BY <2>2, <2>3
<1> QED BY <1>1, <1>2

(* What the probes overlooked, after any step but theirs.                  *)
LEMMA SameOverlooked ==
  ASSUME Moves, pc # 2, NEW p
  PROVE  Overlooked(p)' = Overlooked(p) /\ Lost("collect", "none", p)' = Lost("collect", "none", p)
<1>1. Script[2].task = "collect" /\ Script[2].version = "none"
  BY ScriptIs, TaskIs
<1>2. \A q : Lost("collect", "none", q)' = Lost("collect", "none", q)
  BY <1>1, SameLoss
<1>3. target' = target
  BY DEF Moves
<1> QED BY <1>2, <1>3 DEF Overlooked

(* What the probes brought back, after a step.                             *)
LEMMA ProbeStep ==
  ASSUME Shapes, Lives, ProbeInv, Next, Moves
  PROVE  ProbeInv'
<1>0. pc \in 1..18 /\ target' = target /\ target \in Targets /\ target.starttls \in BOOLEAN
  BY TargetTyped DEF Moves, Shapes
<1>p. \A v : Pick(v, GoOffer(v))' = Pick(v, GoOffer(v))
  <2>1. \A v, o : Pick(v, o)' = Pick(v, o)
    BY <1>0, SameHello
  <2> QED BY <2>1
<1>1. CASE Collect
  <2>1. pc = 2 /\ pc' = 3
    BY <1>0, <1>1, StepAt DEF Collect, At
  <2>2. PICK lost \in SUBSET ProbeNames :
       LET silent == IF target.starttls THEN ProbeNames ELSE lost
           found  == {v \in target.versions \ silent : Pick(v, GoOffer(v)) # "none"}
           gone   == silent \cup (IF "renegotiation" \in silent THEN {"renegotiation_DoS"} ELSE {})
       IN  /\ versions' = found
           /\ probed' = [flags |-> target.flaws \ gone,
                         dh    |-> IF "dh" \in silent THEN [bits |-> 0, common |-> FALSE] ELSE target.dh,
                         reneg |-> IF "extensions" \in silent THEN "unknown" ELSE target.reneg]
           /\ missed' = missed \cup {<<"collect", "none", p>> : p \in lost}
    BY <1>1 DEF Collect
  <2>3. versions' \subseteq target'.versions
    BY <1>0, <2>2
  <2>a. /\ missed' = missed \cup {<<"collect", "none", p>> : p \in lost}
        /\ probed'.dh = IF "dh" \in (IF target.starttls THEN ProbeNames ELSE lost) THEN [bits |-> 0, common |-> FALSE] ELSE target.dh
    BY <2>2
  <2>b. ASSUME target.starttls
        PROVE  /\ versions' = {v \in target.versions \ ProbeNames : Pick(v, GoOffer(v)) # "none"}
               /\ probed'.flags = target.flaws \ (ProbeNames \cup (IF "renegotiation" \in ProbeNames THEN {"renegotiation_DoS"} ELSE {}))
    BY <2>2, <2>b
  <2>c. ASSUME ~target.starttls
        PROVE  /\ versions' = {v \in target.versions \ lost : Pick(v, GoOffer(v)) # "none"}
               /\ probed'.flags = target.flaws \ (lost \cup (IF "renegotiation" \in lost THEN {"renegotiation_DoS"} ELSE {}))
    BY <2>2, <2>c
  <2>4. \A p : <<"collect", "none", p>> \in missed' <=> p \in lost
    <3>0. pc < 3
      BY <2>1
    <3>1. \A p : ~Lost("collect", "none", p)
      BY <3>0, Zenon DEF ProbeInv
    <3>2. \A p : <<"collect", "none", p>> \in {<<"collect", "none", q>> : q \in lost} => p \in lost
      OBVIOUS
    <3> QED BY <2>a, <3>1, <3>2 DEF Lost
  <2> DEFINE Unseen(p) == \/ target.starttls /\ p # "Distrusted_CA"
                          \/ p \in lost
                          \/ p = "renegotiation_DoS" /\ "renegotiation" \in lost
  <2>5. \A p : Overlooked(p)' <=> Unseen(p)
    BY <1>0, <2>4 DEF Overlooked, Lost
  <2>6. /\ "dh" # "Distrusted_CA" /\ \A v \in target.versions : v # "Distrusted_CA" /\ v # "renegotiation_DoS"
        /\ "Distrusted_CA" \notin ProbeNames /\ "dh" \in ProbeNames /\ target.versions \subseteq ProbeNames
        /\ \A f \in target.flaws : f # "Distrusted_CA" => f \in ProbeNames
    <3>1. \A v \in target.versions : v # "Distrusted_CA" /\ v # "renegotiation_DoS"
      BY <1>0, TargetTyped DEF VersionSet
    <3> QED BY <3>1 DEF ProbeNames
  <2>7. versions' = {v \in target.versions : ~Overlooked(v)' /\ Pick(v, GoOffer(v)) # "none"}
    <3>1. CASE target.starttls
      BY <2>b, <2>5, <2>6, <3>1
    <3>2. CASE ~target.starttls
      BY <2>c, <2>5, <2>6, <3>2
    <3> QED BY <3>1, <3>2
  <2>8. probed'.flags = {f \in target.flaws : ~Overlooked(f)'}
    <3>1. CASE target.starttls
      <4>1. "Distrusted_CA" \notin lost /\ "Distrusted_CA" # "renegotiation_DoS"
        BY <2>6
      <4> QED BY <2>b, <2>5, <2>6, <3>1, <4>1
    <3>2. CASE ~target.starttls
      BY <2>c, <2>5, <3>2
    <3> QED BY <3>1, <3>2
  <2>9. ~Overlooked("dh")' => probed'.dh = target'.dh
    <3>1. ASSUME ~Overlooked("dh")' PROVE ~target.starttls /\ "dh" \notin lost
      BY <2>5, <2>6, <3>1
    <3> QED BY <1>0, <2>a, <3>1
  <2>10. Brought'
    BY <1>0, <1>p, <2>7, <2>8, <2>9 DEF Brought
  <2> QED BY <2>1, <2>3, <2>10 DEF ProbeInv
<1>2. CASE ~Collect
  <2>1. versions' = versions /\ probed' = probed
    BY <1>2 DEF Moves
  <2>2. pc # 2
    <3>1. ASSUME pc = 2 PROVE FALSE
      <4>1. Now.task = "collect"
        BY <3>1, ScriptIs, TaskIs DEF Now
      <4>2. Applies(Now)
        BY <4>1 DEF Applies
      <4> QED BY <1>2, <4>1, <4>2 DEF Next, At, AtPool, Pools, Dial, Judge, Fallback, PassOver, Launch, Answer, GatherALPN, GatherEnum,
                 GatherEach, GatherSim, Prefer, FetchCRL
    <3> QED BY <3>1
  <2>o. \A p : Overlooked(p)' = Overlooked(p) /\ Lost("collect", "none", p)' = Lost("collect", "none", p)
    BY <2>2, SameOverlooked
  <2>3. CASE pc = 1
    <3>1. Dial
      BY <2>3, FirstStep
    <3>2. pc' = 2 \/ (pc' = 19 /\ session' = session)
      BY <2>3, <3>1, ScriptIs DEF Dial
    <3>3. pc' > 2 => ~Live'
      BY <2>3, <3>2 DEF Lives, Live
    <3>4. versions' = {} /\ \A p : ~Lost("collect", "none", p)'
      BY <2>1, <2>3, <2>o DEF ProbeInv
    <3> QED BY <3>3, <3>4 DEF ProbeInv
  <2>4. CASE pc > 2
    <3>1. pc' > 2 /\ (pc' > 2 /\ Live' => Live)
      <4>1. pc' > 2
        BY <1>0, <2>4 DEF Moves
      <4> QED BY <4>1, Onward
    <3>3. ~(pc' < 3)
      BY <1>0, <2>4 DEF Moves
    <3>4. versions' \subseteq target'.versions
      BY <1>0, <2>1, Zenon DEF ProbeInv
    <3>5. ASSUME Live' PROVE Brought'
      <4>1. Brought
        BY <2>4, <3>1, <3>5, Zenon DEF ProbeInv
      <4> QED BY <1>0, <1>p, <2>1, <2>o, <4>1 DEF Brought
    <3> QED BY <3>3, <3>4, <3>5, Zenon DEF ProbeInv
  <2> QED BY <1>0, <2>2, <2>3, <2>4
<1> QED BY <1>1, <1>2

(* When a pool is done, all its items are back, and what it kept is what   *)
(* it owes.                                                                *)
LEMMA PoolDone ==
  ASSUME Shapes, PoolInv, pc \in 1..18, AtPool, AllBack
  PROVE  /\ PoolSound /\ DOMAIN Items(Now) = 1..Len(Items(Now)) /\ Len(Items(Now)) \in Nat
         /\ Back = DOMAIN Items(Now)
         /\ Now.task # "sim" => ToSet(pool.kept) = Due(Now)
<1>1. PoolSound /\ Now.task \in Pools /\ target \in Targets
  BY DEF PoolInv, AtPool, Shapes
<1>2. Len(Items(Now)) \in Nat /\ DOMAIN Items(Now) = 1..Len(Items(Now))
  BY <1>1, ItemsAre
<1>3. pool.next = Len(Items(Now)) + 1 /\ pool.running = {}
  BY <1>1, <1>2 DEF AllBack, AllLaunched, PoolSound
<1>4. \A i : i \in Back <=> i \in 1..Len(Items(Now))
  <2>1. pool.next - 1 = Len(Items(Now))
    BY <1>2, <1>3
  <2>2. \A i \in 1..Len(Items(Now)) : i \in Back
    BY <1>1, <1>3, <2>1 DEF PoolSound
  <2>3. \A i \in Back : i \in 1..Len(Items(Now))
    BY <1>1, <2>1 DEF PoolSound, Back
  <2> QED BY <2>2, <2>3
<1>5. Back = DOMAIN Items(Now)
  BY <1>2, <1>4
<1>6. ASSUME Now.task # "sim" PROVE ToSet(pool.kept) = Due(Now)
  <2>1. ToSet(pool.kept) = {i \in Back : Reported(Now, i) = "yes"}
    BY <1>1 DEF PoolSound
  <2>2. Unanswered(Now) # "yes"
    BY <1>1, OutcomeIs
  <2>3. \A i : Reported(Now, i) = "yes" <=> Outcome(Now, i) = "yes" /\ ~Lost(Now.task, Now.version, i)
    BY <2>2 DEF Reported
  <2> QED BY <1>5, <2>1, <2>3 DEF Due
<1> QED BY <1>1, <1>2, <1>5, <1>6

(* The simulated clients after a step.                                     *)
LEMMA SimStep ==
  ASSUME Shapes, Lives, PoolInv, SimInv, Next, Moves
  PROVE  SimInv'
<1>0. pc \in 1..18 /\ target' = target /\ target \in Targets
  BY DEF Moves, Shapes
<1> SUFFICES ASSUME Live', pc' > 17, NEW i \in DOMAIN Clients PROVE sims'[i] = Reported(Task("sim", "none"), i)'
  BY DEF SimInv
<1>1. Live /\ (pc = 17 \/ pc = 18)
  BY <1>0, Onward
<1>2. Script[17] = Task("sim", "none")
  BY ScriptIs
<1>3. CASE pc = 18
  <2>1. sims' = sims
    <3>1. ~GatherSim
      BY <1>3, StepAt DEF GatherSim, At
    <3> QED BY <3>1 DEF Moves
  <2>2. Reported(Script[17], i)' = Reported(Script[17], i)
    BY <1>3, SameReport
  <2> QED BY <1>1, <1>2, <1>3, <2>1, <2>2 DEF SimInv
<1>4. CASE pc = 17
  <2>1. Now = Task("sim", "none") /\ Now.task = "sim"
    BY <1>4, ScriptIs, TaskIs DEF Now
  <2>2. Applies(Now) /\ AtPool
    BY <1>4, <2>1, ScriptIs DEF Applies, AtPool, Pools
  <2>3. GatherSim
    BY <1>4, <2>1, <2>2, WhoGathers
  <2>4. PoolSound /\ Back = DOMAIN Items(Now) /\ Items(Now) = Clients
    BY <1>0, <2>1, <2>2, <2>3, PoolDone DEF GatherSim, Items
  <2>5. \E k \in DOMAIN pool.out : pool.out[k].item = i
    BY <2>4 DEF Back
  <2> DEFINE k == CHOOSE l \in DOMAIN pool.out : pool.out[l].item = i
  <2>6. k \in DOMAIN pool.out /\ pool.out[k].item = i
    BY <2>5, Zenon
  <2>7. sims'[i] = pool.out[k].says
    BY <2>3 DEF GatherSim
  <2> HIDE DEF k
  <2>8. sims'[i] = Reported(Now, i)
    BY <2>4, <2>6, <2>7 DEF PoolSound
  <2>9. missed' = missed
    BY <2>3 DEF GatherSim
  <2>10. Outcome(Task("sim", "none"), i)' = Outcome(Task("sim", "none"), i)
    BY <1>0, SameOutcome
  <2>11. Reported(Task("sim", "none"), i)' = Reported(Task("sim", "none"), i)
    BY <2>9, <2>10 DEF Reported, Lost
  <2> QED BY <2>1, <2>8, <2>11
<1> QED BY <1>1, <1>3, <1>4

-----------------------------------------------------------------------------
(* What is gathered.                                                       *)

(* The entries of a list whose positions were kept, in the list's order.   *)
Lists(entries, list, kept) ==
  /\ DOMAIN entries = 1..Len(kept)
  /\ \E q \in [1..Len(kept) -> ToSet(kept)] :
       /\ \A i \in 1..Len(kept) : entries[i] = list[q[i]]
       /\ \A x \in ToSet(kept) : \E i \in 1..Len(kept) : q[i] = x
       /\ \A i, j \in 1..Len(kept) : i < j => q[i] < q[j]

(* That is what InListOrder yields.                                        *)
LEMMA InListOrderIs ==
  ASSUME NEW kept \in Seq(Nat), IsInjective(kept), NEW list
  PROVE  Lists(InListOrder(list, kept), list, kept)
<1> DEFINE n == Len(kept)
           R == {p \in Pairs(kept) : kept[p[1]] < kept[p[2]]}
           at == Sorted(kept, R)
<1>1. n \in Nat /\ DOMAIN kept = 1..n /\ \A i \in 1..n : kept[i] \in Nat
  OBVIOUS
<1>2. \A i, j : <<i, j>> \in R <=> i \in 1..n /\ j \in 1..n /\ kept[i] < kept[j]
  <2>1. \A i, j : <<i, j>> \in Pairs(kept) <=> i \in 1..n /\ j \in 1..n
    BY <1>1 DEF Pairs
  <2> QED BY <2>1
<1>3. InListOrder(list, kept) = [i \in DOMAIN at |-> list[at[i]]]
  BY DEF InListOrder
<1>4. \A i, j \in 1..n : kept[i] = kept[j] => i = j
  BY <1>1 DEF IsInjective
<1> HIDE DEF n, R
<1>5. Orders(R, n)
  BY <1>1, <1>2, <1>4 DEF Orders
<1>6. /\ DOMAIN at = 1..n
      /\ \E p \in [1..n -> 1..n] :
           /\ \A i \in 1..n : at[i] = kept[p[i]]
           /\ \A k \in 1..n : \E i \in 1..n : p[i] = k
           /\ \A i, j \in 1..n : i < j => <<p[i], p[j]>> \in R
  BY <1>1, <1>5, SortedIs
<1>7. PICK p \in [1..n -> 1..n] :
           /\ \A i \in 1..n : at[i] = kept[p[i]]
           /\ \A k \in 1..n : \E i \in 1..n : p[i] = k
           /\ \A i, j \in 1..n : i < j => <<p[i], p[j]>> \in R
  BY <1>6
<1> HIDE DEF at
<1>8. \A x : x \in ToSet(kept) <=> \E k \in 1..n : kept[k] = x
  BY <1>1 DEF ToSet
<1> DEFINE q == [i \in 1..n |-> at[i]]
<1>9. q \in [1..n -> ToSet(kept)]
  BY <1>7, <1>8
<1>10. \A i \in 1..n : q[i] = at[i] /\ InListOrder(list, kept)[i] = list[q[i]]
  BY <1>3, <1>6
<1> HIDE DEF q
<1>11. ASSUME NEW x \in ToSet(kept) PROVE \E i \in 1..n : q[i] = x
  <2>1. PICK k \in 1..n : kept[k] = x
    BY <1>8
  <2>2. PICK i \in 1..n : p[i] = k
    BY <1>7
  <2> QED BY <1>7, <1>10, <2>1, <2>2
<1>12. ASSUME NEW i \in 1..n, NEW j \in 1..n, i < j PROVE q[i] < q[j]
  <2>1. <<p[i], p[j]>> \in R
    BY <1>7, <1>12
  <2>2. kept[p[i]] < kept[p[j]]
    BY <1>2, <2>1
  <2> QED BY <1>7, <1>10, <2>2
<1>13. DOMAIN InListOrder(list, kept) = 1..n
  BY <1>3, <1>6
<1> QED BY <1>9, <1>10, <1>11, <1>12, <1>13 DEF n, Lists

(* The protocols after a step.                                             *)
LEMMA AlpnStep ==
  ASSUME Shapes, Lives, PoolInv, AlpnInv, Next, Moves
  PROVE  AlpnInv'
<1>0. pc \in 1..18 /\ target' = target /\ target \in Targets
  BY DEF Moves, Shapes
<1> SUFFICES ASSUME Live', pc' > 3 PROVE ToSet(alpn') = AlpnDue' /\ InOrder(alpn')
  BY DEF AlpnInv, InOrder
<1>1. Live /\ (pc > 3 \/ (pc = 3 /\ pc' = 4))
  BY <1>0, Onward
<1>2. Script[3] = Task("alpn", "none")
  BY ScriptIs
<1>3. CASE pc > 3
  <2>1. alpn' = alpn
    <3>1. ~GatherALPN
      BY <1>0, <1>3, StepAt DEF GatherALPN, At
    <3> QED BY <3>1 DEF Moves
  <2>2. Due(Script[3])' = Due(Script[3])
    BY <1>0, <1>3, SameDue
  <2>3. AlpnDue' = AlpnDue
    BY <1>2, <2>2 DEF AlpnDue
  <2> QED BY <1>1, <1>3, <2>1, <2>3 DEF AlpnInv
<1>4. CASE pc = 3 /\ pc' = 4
  <2>1. Now = Task("alpn", "none") /\ Now.task = "alpn"
    BY <1>4, ScriptIs, TaskIs DEF Now
  <2>2. Applies(Now) /\ AtPool
    BY <1>4, <2>1, ScriptIs DEF Applies, AtPool, Pools
  <2>3. GatherALPN
    BY <1>4, <2>1, <2>2, WhoGathers
  <2>4. PoolSound /\ ToSet(pool.kept) = Due(Now) /\ Items(Now) = Protocols
    BY <1>0, <2>1, <2>2, <2>3, PoolDone DEF GatherALPN, Items
  <2>5. pool.kept \in Seq(Nat) /\ IsInjective(pool.kept)
    BY <2>4 DEF PoolSound
  <2>6. missed' = missed /\ alpn' = InListOrder(Protocols, pool.kept)
    BY <2>3 DEF GatherALPN
  <2>7. \A i : Outcome(Task("alpn", "none"), i)' = Outcome(Task("alpn", "none"), i)
    BY <1>0, SameOutcome
  <2>8. Due(Task("alpn", "none"))' = Due(Task("alpn", "none"))
    BY <2>6, <2>7 DEF Due, Lost
  <2>9. AlpnDue' = {Protocols[i] : i \in ToSet(pool.kept)}
    BY <2>1, <2>4, <2>8 DEF AlpnDue
  <2>10. PICK kept : kept = pool.kept
    OBVIOUS
  <2>a. kept \in Seq(Nat) /\ IsInjective(kept)
    BY <2>5, <2>10
  <2>11. Lists(InListOrder(Protocols, kept), Protocols, kept)
    BY <2>a, InListOrderIs
  <2>b. PICK q \in [1..Len(kept) -> ToSet(kept)] :
              /\ \A i \in 1..Len(kept) : InListOrder(Protocols, kept)[i] = Protocols[q[i]]
              /\ \A x \in ToSet(kept) : \E i \in 1..Len(kept) : q[i] = x
              /\ \A i, j \in 1..Len(kept) : i < j => q[i] < q[j]
    BY <2>11, Zenon DEF Lists
  <2>12. DOMAIN alpn' = 1..Len(kept)
    BY <2>6, <2>10, <2>11 DEF Lists
  <2>13. \A i \in 1..Len(kept) : alpn'[i] = Protocols[q[i]] /\ q[i] \in ToSet(kept)
    BY <2>6, <2>10, <2>b
  <2>14. ToSet(alpn') = AlpnDue'
    <3>1. \A x : x \in ToSet(alpn') <=> \E i \in 1..Len(kept) : alpn'[i] = x
      BY <2>12 DEF ToSet
    <3>2. \A x : x \in AlpnDue' <=> \E i \in ToSet(kept) : Protocols[i] = x
      BY <2>9, <2>10
    <3>a. ASSUME NEW x \in ToSet(alpn') PROVE x \in AlpnDue'
      BY <2>13, <3>1, <3>2
    <3>b. ASSUME NEW x \in AlpnDue' PROVE x \in ToSet(alpn')
      <4>1. PICK j \in ToSet(kept) : Protocols[j] = x
        BY <3>2
      <4>2. PICK i \in 1..Len(kept) : q[i] = j
        BY <2>b
      <4> QED BY <2>13, <3>1, <4>1, <4>2
    <3>3. \A x : x \in ToSet(alpn') <=> x \in AlpnDue'
      BY <3>a, <3>b
    <3> QED BY <3>3
  <2>15. ToSet(kept) \subseteq DOMAIN Protocols
    BY <2>4, <2>10 DEF Due
  <2>16. InOrder(alpn')
    BY <2>b, <2>12, <2>13, <2>15 DEF InOrder
  <2> QED BY <2>14, <2>16
<1> QED BY <1>1, <1>3, <1>4

(* Where a version is enumerated.                                          *)
LEMMA EnumAtIs ==
  ASSUME NEW v \in VersionSet
  PROVE  EnumAt(v) \in 5..11 /\ Script[EnumAt(v)] = Task("enum", v)
<1>1. v \in {"TLS10", "TLS11", "TLS12", "TLS13"}
  BY DEF VersionSet
<1> QED BY <1>1, VersionsAre, ScriptIs DEF EnumAt

(* The grades of the suites, and their ranks.                              *)
LEMMA GradesAre ==
  /\ \A c \in Classes : Grade(c) \in {"A", "B", "C", "F"}
  /\ GradeRank("A") = 4 /\ GradeRank("B") = 3 /\ GradeRank("C") = 2 /\ GradeRank("F") = 0
<1>1. \A c \in Classes : Grade(c) \in {"A", "B", "C", "F"}
  BY DEF Classes, Grade
<1>2. GradeRank("A") = 4 /\ GradeRank("B") = 3 /\ GradeRank("C") = 2 /\ GradeRank("F") = 0
  BY DEF GradeRank
<1> QED BY <1>1, <1>2

(* WorstGrade is the grade of one of the suites, and none is below it.     *)
LEMMA WorstGradeIs ==
  ASSUME NEW ciphers \in Seq(Classes), ToSet(ciphers) # {}
  PROVE  WorstGrade(ciphers) \in {"A", "B", "C", "F"} /\ Worst(WorstGrade(ciphers), ToSet(ciphers))
<1> DEFINE S == ToSet(ciphers)
           G == {"A"} \cup {Grade(c) : c \in S}
<1>1. S \subseteq Classes
  BY DEF ToSet
<1> HIDE DEF S
<1>2. \A c \in S : Grade(c) \in {"A", "B", "C", "F"}
  BY <1>1, GradesAre
<1>3. \E g \in G : \A c \in S : GradeRank(g) <= GradeRank(Grade(c))
  <2>1. CASE \E c \in S : Grade(c) = "F"
    <3>1. "F" \in G
      BY <2>1
    <3>2. \A c \in S : GradeRank("F") <= GradeRank(Grade(c))
      BY <1>2, GradesAre
    <3> QED BY <3>1, <3>2
  <2>2. CASE ~(\E c \in S : Grade(c) = "F") /\ \E c \in S : Grade(c) = "C"
    <3>1. "C" \in G
      BY <2>2
    <3>2. \A c \in S : GradeRank("C") <= GradeRank(Grade(c))
      BY <1>2, <2>2, GradesAre
    <3> QED BY <3>1, <3>2
  <2>3. CASE ~(\E c \in S : Grade(c) \in {"F", "C"}) /\ \E c \in S : Grade(c) = "B"
    <3>1. "B" \in G
      BY <2>3
    <3>2. \A c \in S : GradeRank("B") <= GradeRank(Grade(c))
      BY <1>2, <2>3, GradesAre
    <3> QED BY <3>1, <3>2
  <2>4. CASE ~(\E c \in S : Grade(c) \in {"F", "C", "B"})
    <3>1. "A" \in G
      OBVIOUS
    <3>2. \A c \in S : GradeRank("A") <= GradeRank(Grade(c))
      BY <1>2, <2>4, GradesAre
    <3> QED BY <3>1, <3>2
  <2> QED BY <2>1, <2>2, <2>3, <2>4
<1> DEFINE w == WorstGrade(ciphers)
<1>4. w \in G /\ \A c \in S : GradeRank(w) <= GradeRank(Grade(c))
  <2>1. w = CHOOSE g \in G : \A c \in S : GradeRank(g) <= GradeRank(Grade(c))
    BY DEF WorstGrade, S
  <2> HIDE DEF w, G
  <2> QED BY <1>3, <2>1, Zenon
<1> HIDE DEF w
<1>5. w \in {"A", "B", "C", "F"}
  BY <1>2, <1>4
<1>6. \E c \in S : Grade(c) = w
  <2>1. CASE w = "A"
    <3>1. PICK c \in S : TRUE
      BY DEF S
    <3>2. 4 <= GradeRank(Grade(c))
      BY <1>4, <2>1, GradesAre
    <3>3. Grade(c) = "A"
      BY <1>2, <3>2, GradesAre
    <3> QED BY <2>1, <3>3
  <2>2. CASE w # "A"
    BY <1>4, <2>2
  <2> QED BY <2>1, <2>2
<1> QED BY <1>4, <1>5, <1>6 DEF Worst, S, w

(* The suites a version owes are among those the server has for it.        *)
LEMMA OwedIsAccepted ==
  ASSUME target \in Targets, NEW v \in target.versions
  PROVE  Accepted(v) \subseteq target.suites[v]
<1> SUFFICES ASSUME NEW i \in Due(Task("enum", v)) PROVE Items(Task("enum", v))[i] \in target.suites[v]
  BY DEF Accepted
<1>1. Outcome(Task("enum", v), i) = "yes"
  BY DEF Due
<1>2. ProbeOneCipher(v, Items(Task("enum", v))[i])
  BY <1>1, TaskIs DEF Outcome
<1>3. Highest(Below(v)) = v
  BY OwnVersion
<1> QED BY <1>2, <1>3 DEF ProbeOneCipher

(* The suites a version is asked about are listed once.                    *)
LEMMA CandidatesAre ==
  ASSUME NEW v
  PROVE  Items(Task("enum", v)) \in Seq(Classes) /\ IsInjective(Items(Task("enum", v)))
BY TablesAssumption, TaskIs DEF Items

(* The row of a version that was just enumerated.                          *)
LEMMA Gathered ==
  ASSUME Shapes, PoolInv, GatherEnum
  PROVE  LET v   == Now.version
             got == [i \in DOMAIN pool.kept |-> Items(Now)[pool.kept[i]]]
         IN  /\ v \in VersionSet /\ v \in versions /\ pc = EnumAt(v)
             /\ got \in Seq(Classes) /\ IsInjective(got) /\ ToSet(got) = Accepted(v)
             /\ got = << >> <=> Accepted(v) = {}
<1> DEFINE v   == Now.version
           got == [i \in DOMAIN pool.kept |-> Items(Now)[pool.kept[i]]]
           list == Items(Now)
           kept == pool.kept
<1>1. pc \in 1..18 /\ Now.task = "enum" /\ Applies(Now) /\ AtPool
  BY ScriptIs DEF GatherEnum, At, AtPool, Pools, Shapes
<1>2. v \in VersionSet /\ pc = EnumAt(v) /\ Now = Task("enum", v) /\ v \in versions
  BY <1>1, StepAt DEF EnumAt, Applies
<1>3. PoolSound /\ ToSet(kept) = Due(Now)
  BY <1>1, PoolDone DEF GatherEnum
<1>4. kept \in Seq(Nat) /\ IsInjective(kept)
  BY <1>3 DEF PoolSound
<1>5. list \in Seq(Classes) /\ IsInjective(list) /\ list = Items(Task("enum", v))
  BY <1>2, CandidatesAre
<1> DEFINE n == Len(kept)
<1>6. n \in Nat /\ DOMAIN kept = 1..n
  BY <1>4
<1> HIDE DEF kept, list, v
<1>7. \A i \in 1..n : kept[i] \in DOMAIN list
  <2>1. ToSet(kept) \subseteq DOMAIN list
    BY <1>3 DEF Due, list
  <2> QED BY <1>6, <2>1 DEF ToSet
<1>8. got = [i \in 1..n |-> list[kept[i]]]
  BY <1>6 DEF kept, list
<1> HIDE DEF got
<1>9. got \in Seq(Classes)
  <2>1. \A x \in DOMAIN list : list[x] \in Classes
    BY <1>5
  <2>2. \A i \in 1..n : list[kept[i]] \in Classes
    BY <1>7, <2>1
  <2>3. got \in [1..n -> Classes]
    BY <1>8, <2>2
  <2> QED BY <1>6, <2>3
<1>10. IsInjective(got)
  <2>1. \A i, j \in 1..n : kept[i] = kept[j] => i = j
    BY <1>4, <1>6 DEF IsInjective
  <2>2. \A x, y \in DOMAIN list : list[x] = list[y] => x = y
    BY <1>5 DEF IsInjective
  <2>3. DOMAIN got = 1..n /\ \A i \in 1..n : got[i] = list[kept[i]]
    BY <1>8
  <2> QED BY <1>7, <2>1, <2>2, <2>3 DEF IsInjective
<1>11. ToSet(got) = Accepted(v)
  <2>1. \A x : x \in ToSet(got) <=> \E i \in 1..n : list[kept[i]] = x
    BY <1>8 DEF ToSet
  <2>2. \A y : y \in Due(Task("enum", v)) <=> \E i \in 1..n : kept[i] = y
    BY <1>2, <1>3, <1>6 DEF ToSet
  <2>3. \A x : x \in Accepted(v) <=> \E y \in Due(Task("enum", v)) : list[y] = x
    BY <1>5 DEF Accepted
  <2>4. \A x : x \in ToSet(got) <=> x \in Accepted(v)
    BY <2>1, <2>2, <2>3
  <2> QED BY <2>4
<1>12. got = << >> <=> Accepted(v) = {}
  <2>1. \A x : x \in ToSet(got) <=> \E i \in 1..Len(got) : got[i] = x
    BY <1>9 DEF ToSet
  <2>2. Len(got) \in Nat /\ (got = << >> <=> Len(got) = 0)
    BY <1>9
  <2>3. got # << >> => 1 \in 1..Len(got)
    BY <2>2
  <2>4. got = << >> => ToSet(got) = {}
    BY <2>1, <2>2
  <2>5. got # << >> => ToSet(got) # {}
    BY <2>1, <2>3
  <2> QED BY <1>11, <2>4, <2>5
<1> QED BY <1>2, <1>9, <1>10, <1>11, <1>12 DEF v, got, kept, list

(* A version that was found and is passed was enumerated.                  *)
LEMMA EnumPassed ==
  ASSUME Shapes, Lives, ProbeInv, Next, Moves, ~GatherEnum, NEW v \in versions', EnumAt(v) < pc'
  PROVE  v \in VersionSet /\ v \in versions /\ EnumAt(v) < pc
<1>0. pc \in 1..18 /\ target' = target /\ target \in Targets
  BY DEF Moves, Shapes
<1>1. versions' \subseteq target.versions
  BY <1>0, ProbeStep DEF ProbeInv
<1>2. v \in VersionSet
  BY <1>0, <1>1, TargetTyped
<1>3. EnumAt(v) \in 5..11 /\ Script[EnumAt(v)] = Task("enum", v)
  BY <1>2, EnumAtIs
<1>4. pc # 1
  <2>1. ASSUME pc = 1 PROVE FALSE
    <3>1. Dial
      BY <2>1, FirstStep
    <3>2. versions' = {}
      BY <2>1, <3>1 DEF Dial, ProbeInv
    <3> QED BY <3>2
  <2> QED BY <2>1
<1>5. ~Dial
  BY <1>0, <1>4, StepAt DEF Dial, At
<1>6. pc' = pc \/ pc' = pc + 1
  BY <1>5 DEF Moves
<1>7. ~Collect
  <2>1. ASSUME Collect PROVE FALSE
    <3>1. pc = 2
      BY <1>0, <2>1, StepAt DEF Collect, At
    <3> QED BY <1>3, <1>6, <3>1
  <2> QED BY <2>1
<1>8. versions' = versions
  BY <1>7 DEF Moves
<1>9. EnumAt(v) # pc
  <2>1. ASSUME EnumAt(v) = pc PROVE FALSE
    <3>1. Now = Task("enum", v) /\ Now.task = "enum" /\ Now.version = v
      BY <1>3, <2>1, TaskIs DEF Now
    <3>2. Applies(Now) /\ pc # Return
      BY <1>0, <1>8, <3>1, ScriptIs DEF Applies
    <3>3. pc' # pc
      BY <2>1, <1>3
    <3> QED BY <3>1, <3>2, <3>3, WhoGathers
  <2> QED BY <2>1
<1> QED BY <1>0, <1>2, <1>3, <1>6, <1>8, <1>9

(* What a version owes is settled once its step is over.                   *)
LEMMA SameAccepted ==
  ASSUME Moves, NEW v \in VersionSet, EnumAt(v) # pc
  PROVE  Accepted(v)' = Accepted(v)
<1>1. EnumAt(v) \in 1..18 /\ Script[EnumAt(v)] = Task("enum", v)
  BY EnumAtIs
<1>2. PICK k \in 1..18 : k = EnumAt(v)
  BY <1>1
<1>3. Due(Script[k])' = Due(Script[k])
  BY <1>2, SameDue
<1> QED BY <1>1, <1>2, <1>3 DEF Accepted

(* A sound row stays sound.                                                *)
LEMMA RowStays ==
  ASSUME Shapes, Lives, ProbeInv, Next, Moves, NEW r, RowSound(r)
  PROVE  RowSound(r)'
<1>0. pc \in 1..18 /\ target \in Targets /\ pc' >= pc /\ pc' \in Nat
  BY DEF Moves, Shapes
<1>1. r.version \in VersionSet /\ r.version \in versions /\ EnumAt(r.version) < pc
  BY <1>0, TargetTyped DEF RowSound, ProbeInv
<1>2. PICK v \in VersionSet : v = r.version
  BY <1>1
<1>3. EnumAt(v) \in 5..11 /\ EnumAt(v) < pc
  BY <1>1, <1>2, EnumAtIs
<1>4. Accepted(v)' = Accepted(v)
  BY <1>0, <1>3, SameAccepted
<1>5. versions' = versions
  <2>1. ~Collect
    BY <1>0, <1>3, StepAt DEF Collect, At
  <2> QED BY <2>1 DEF Moves
<1>6. EnumAt(v) < pc'
  BY <1>0, <1>3
<1> QED BY <1>2, <1>4, <1>5, <1>6 DEF RowSound

(* The table of suites after a step.                                       *)
LEMMA EnumStep ==
  ASSUME Shapes, Lives, PoolInv, ProbeInv, EnumInv, Next, Moves
  PROVE  EnumInv'
<1>0. pc \in 1..18 /\ target' = target /\ target \in Targets
  BY DEF Moves, Shapes
<1>v. versions \subseteq VersionSet
  BY <1>0, TargetTyped DEF ProbeInv
<1>1. CASE ~GatherEnum
  <2>1. enums' = enums
    BY <1>1 DEF Moves
  <2>2. \A k \in DOMAIN enums' : \A r : r = enums'[k] => RowSound(r)'
    BY <2>1, RowStays DEF EnumInv
  <2>3. ASSUME NEW v \in versions', EnumAt(v) < pc', Accepted(v)' # {} PROVE \E k \in DOMAIN enums' : enums'[k].version = v
    <3>1. v \in VersionSet /\ v \in versions /\ EnumAt(v) < pc
      BY <1>1, <2>3, EnumPassed
    <3>2. Accepted(v)' = Accepted(v)
      <4>1. EnumAt(v) # pc
        BY <1>0, <3>1, EnumAtIs
      <4> QED BY <3>1, <4>1, SameAccepted
    <3> QED BY <2>1, <2>3, <3>1, <3>2 DEF EnumInv
  <2>4. (\A k \in DOMAIN enums : RowSound(enums[k]))'
    BY <2>2
  <2>5. (\A v \in versions : EnumAt(v) < pc /\ Accepted(v) # {} => \E k \in DOMAIN enums : enums[k].version = v)'
    BY <2>3
  <2>6. enums' \in Seq(Row) /\ \A k, l \in DOMAIN enums' : k < l => EnumAt(enums'[k].version) < EnumAt(enums'[l].version)
    BY <2>1 DEF EnumInv
  <2> QED BY <2>4, <2>5, <2>6 DEF EnumInv
<1>2. CASE GatherEnum
  <2> DEFINE got == [i \in DOMAIN pool.kept |-> Items(Now)[pool.kept[i]]]
             worst == WorstGrade(got)
  <2>a. PICK w : w = Now.version
    OBVIOUS
  <2>1. /\ w \in VersionSet /\ w \in versions /\ pc = EnumAt(w)
        /\ got \in Seq(Classes) /\ IsInjective(got) /\ ToSet(got) = Accepted(w)
        /\ got = << >> <=> Accepted(w) = {}
    BY <1>2, <2>a, Gathered
  <2>2. /\ enums' = IF got = << >> THEN enums ELSE Append(enums, [version |-> w, ciphers |-> got, worst |-> worst])
        /\ pc' = pc + 1 /\ versions' = versions /\ missed' = missed
    BY <1>2, <2>a DEF GatherEnum
  <2>3. EnumAt(w) \in 5..11
    BY <2>1, EnumAtIs
  <2> HIDE DEF got
  <2>4. Accepted(w)' = Accepted(w)
    <3>1. \A i : Outcome(Task("enum", w), i)' = Outcome(Task("enum", w), i)
      BY <1>0, SameOutcome
    <3>2. Due(Task("enum", w))' = Due(Task("enum", w))
      BY <2>2, <3>1 DEF Due, Lost
    <3> QED BY <3>2 DEF Accepted
  <2>5. \A r : RowSound(r) => RowSound(r)'
    BY RowStays
  <2>6. \A v \in versions : EnumAt(v) < pc' => v = w \/ EnumAt(v) < pc
    <3>1. \A v \in VersionSet : EnumAt(v) \in Nat /\ (EnumAt(v) = EnumAt(w) => v = w)
      BY <2>1, VersionsAre DEF EnumAt, VersionSet
    <3> QED BY <1>0, <1>v, <2>1, <2>2, <3>1
  <2>7. \A v \in versions : EnumAt(v) < pc => Accepted(v)' = Accepted(v)
    <3>1. \A v \in VersionSet : EnumAt(v) < pc => EnumAt(v) # pc
      BY <1>0, EnumAtIs
    <3> QED BY <1>v, <3>1, SameAccepted
  <2>8. CASE got = << >>
    <3>1. enums' = enums
      BY <2>2, <2>8
    <3>2. (\A k \in DOMAIN enums : RowSound(enums[k]))'
      <4>1. \A k \in DOMAIN enums' : \A r : r = enums'[k] => RowSound(r)'
        BY <2>5, <3>1 DEF EnumInv
      <4> QED BY <4>1
    <3>3. ASSUME NEW v \in versions', EnumAt(v) < pc', Accepted(v)' # {} PROVE \E k \in DOMAIN enums' : enums'[k].version = v
      <4>1. v # w
        BY <2>1, <2>4, <2>8, <3>3
      <4>2. v \in versions /\ EnumAt(v) < pc
        BY <2>2, <2>6, <3>3, <4>1
      <4>3. Accepted(v) # {}
        BY <2>7, <3>3, <4>2
      <4> QED BY <3>1, <4>2, <4>3 DEF EnumInv
    <3>4. (\A v \in versions : EnumAt(v) < pc /\ Accepted(v) # {} => \E k \in DOMAIN enums : enums[k].version = v)'
      BY <3>3
    <3>5. enums' \in Seq(Row) /\ \A k, l \in DOMAIN enums' : k < l => EnumAt(enums'[k].version) < EnumAt(enums'[l].version)
      BY <3>1 DEF EnumInv
    <3> QED BY <3>2, <3>4, <3>5 DEF EnumInv
  <2>9. CASE got # << >>
    <3> DEFINE row == [version |-> w, ciphers |-> got, worst |-> worst]
               L == Len(enums)
    <3>1. ToSet(got) # {}
      BY <2>1, <2>9
    <3>2. worst \in {"A", "B", "C", "F"} /\ Worst(worst, ToSet(got))
      BY <2>1, <3>1, WorstGradeIs
    <3> HIDE DEF worst
    <3>3. row \in Row /\ row.version = w /\ row.ciphers = got /\ row.worst = worst
      BY <2>1, <3>2 DEF Row
    <3>4. enums' = Append(enums, row) /\ enums \in Seq(Row)
      BY <2>2, <2>9 DEF EnumInv, worst
    <3> HIDE DEF row
    <3>5. /\ L \in Nat /\ enums' \in Seq(Row) /\ DOMAIN enums = 1..L /\ DOMAIN enums' = 1..(L + 1)
          /\ enums'[L + 1] = row /\ \A k \in 1..L : enums'[k] = enums[k]
      BY <3>3, <3>4
    <3> HIDE DEF L
    <3>6. /\ \A k \in 1..(L + 1) : k \in 1..L \/ k = L + 1
          /\ \A k \in 1..L : k \in 1..(L + 1) /\ k < L + 1
          /\ L + 1 \in 1..(L + 1)
      BY <3>5
    <3>7. ASSUME NEW r, r = row PROVE RowSound(r)'
      <4>1. EnumAt(w) < pc'
        BY <1>0, <2>1, <2>2
      <4>2. r.version = w /\ IsInjective(r.ciphers) /\ ToSet(r.ciphers) = Accepted(w) /\ Worst(r.worst, Accepted(w))
        BY <2>1, <3>2, <3>3, <3>7
      <4>3. w \in versions' /\ ToSet(r.ciphers) = Accepted(w)' /\ Worst(r.worst, Accepted(w)')
        BY <2>1, <2>2, <2>4, <4>2
      <4> QED BY <4>1, <4>2, <4>3 DEF RowSound
    <3>8. \A k \in DOMAIN enums' : \A r : r = enums'[k] => RowSound(r)'
      <4>1. ASSUME NEW k \in 1..L, NEW r, r = enums'[k] PROVE RowSound(r)'
        <5>1. RowSound(r)
          BY <3>5, <4>1 DEF EnumInv
        <5> QED BY <2>5, <5>1
      <4> QED BY <3>5, <3>6, <3>7, <4>1
    <3>9. (\A k \in DOMAIN enums : RowSound(enums[k]))'
      BY <3>8
    <3>10. \A k, l \in DOMAIN enums' : k < l => EnumAt(enums'[k].version) < EnumAt(enums'[l].version)
      <4>1. \A k \in 1..L : EnumAt(enums[k].version) < EnumAt(w)
        BY <2>1, <3>5 DEF EnumInv, RowSound
      <4>2. \A k, l \in 1..L : k < l => EnumAt(enums[k].version) < EnumAt(enums[l].version)
        BY <3>5 DEF EnumInv
      <4>3. \A k \in 1..L : ~(L + 1 < k)
        BY <3>5
      <4> QED BY <3>3, <3>5, <3>6, <4>1, <4>2, <4>3
    <3>11. ASSUME NEW v \in versions', EnumAt(v) < pc', Accepted(v)' # {} PROVE \E k \in DOMAIN enums' : enums'[k].version = v
      <4>1. CASE v = w
        BY <3>3, <3>5, <3>6, <4>1
      <4>2. CASE v # w
        <5>1. v \in versions /\ EnumAt(v) < pc
          BY <2>2, <2>6, <3>11, <4>2
        <5>2. Accepted(v) # {}
          BY <2>7, <3>11, <5>1
        <5>3. PICK k \in DOMAIN enums : enums[k].version = v
          BY <5>1, <5>2 DEF EnumInv
        <5> QED BY <3>5, <3>6, <5>3
      <4> QED BY <4>1, <4>2
    <3>12. (\A v \in versions : EnumAt(v) < pc /\ Accepted(v) # {} => \E k \in DOMAIN enums : enums[k].version = v)'
      BY <3>11
    <3> QED BY <3>5, <3>9, <3>10, <3>12 DEF EnumInv
  <2> QED BY <2>8, <2>9
<1> QED BY <1>1, <1>2

(* The suites offered to a version that is asked for its preference are    *)
(* the ones just found for it.                                             *)
LEMMA OfferFound ==
  ASSUME Shapes, ProbeInv, EnumInv, Prefer
  PROVE  LET offer == Last(enums).ciphers
         IN  /\ Now.version \in VersionSet /\ offer \in Seq(Classes) /\ Len(offer) >= 2 /\ IsInjective(offer)
             /\ ToSet(offer) \subseteq target.suites[Now.version]
<1>1. pc \in 1..18 /\ Now.task = "prefer" /\ Applies(Now) /\ target \in Targets
  BY ScriptIs DEF Prefer, At, Shapes
<1>2. PICK v : v = Now.version
  OBVIOUS
<1>3. v \in VersionSet /\ pc = EnumAt(v) + 1 /\ EnumAt(v) \in 5..11
  BY <1>1, <1>2, StepAt, EnumAtIs, VersionsAre DEF EnumAt, VersionSet
<1>4. PICK i \in DOMAIN enums : enums[i].version = v /\ Len(enums[i].ciphers) >= 2
  BY <1>1, <1>2 DEF Applies
<1> DEFINE L == Len(enums)
<1>5. enums \in Seq(Row) /\ L \in Nat /\ DOMAIN enums = 1..L /\ i \in 1..L /\ L \in 1..L
  <2>1. enums \in Seq(Row)
    BY DEF EnumInv
  <2>2. L \in Nat /\ DOMAIN enums = 1..L
    BY <2>1
  <2> QED BY <1>4, <2>1, <2>2
<1>6. \A k \in DOMAIN enums : enums[k] \in Row /\ EnumAt(enums[k].version) \in Nat /\ EnumAt(enums[k].version) < pc
  <2>1. \A k \in DOMAIN enums : enums[k] \in Row
    BY <1>5
  <2>2. \A r \in Row : r.version \in VersionSet
    BY DEF Row
  <2> QED BY <2>1, <2>2, EnumAtIs DEF EnumInv, RowSound
<1>7. i = L
  <2>1. ASSUME i # L PROVE FALSE
    <3>1. i < L
      BY <1>5, <2>1
    <3>2. EnumAt(v) < EnumAt(enums[L].version)
      BY <1>4, <1>5, <3>1 DEF EnumInv
    <3> QED BY <1>1, <1>3, <1>5, <1>6, <3>2
  <2> QED BY <2>1
<1>8. Last(enums) = enums[i]
  BY <1>7 DEF Last
<1>9. enums[i].ciphers \in Seq(Classes) /\ RowSound(enums[i])
  BY <1>4, <1>6 DEF Row, EnumInv
<1>10. IsInjective(enums[i].ciphers) /\ ToSet(enums[i].ciphers) = Accepted(v) /\ v \in target.versions
  BY <1>4, <1>9 DEF RowSound, ProbeInv
<1>11. Accepted(v) \subseteq target.suites[v]
  BY <1>1, <1>10, OwedIsAccepted
<1> QED BY <1>2, <1>3, <1>4, <1>8, <1>9, <1>10, <1>11

(* The preferences after a step.                                           *)
LEMMA PrefStep ==
  ASSUME Shapes, ProbeInv, EnumInv, PrefInv, Moves
  PROVE  PrefInv'
<1>0. target' = target /\ target \in Targets /\ prefs \in Seq([version : VersionSet, order : {"server", "client", "indeterminate"}])
  BY DEF Moves, Shapes, PrefInv
<1>1. CASE prefs' = prefs
  BY <1>0, <1>1 DEF PrefInv
<1>2. CASE Prefer /\ prefs' # prefs
  <2> DEFINE offer == Last(enums).ciphers
             v == Now.version
             order == PreferenceOrder(offer, Pick(v, offer), Pick(v, SecondOffer(offer)))
             new == [version |-> v, order |-> order]
             L == Len(prefs)
  <2>1. prefs' = Append(prefs, new) /\ order # "none"
    BY <1>2 DEF Prefer
  <2>2. /\ v \in VersionSet /\ offer \in Seq(Classes) /\ Len(offer) >= 2 /\ IsInjective(offer)
        /\ ToSet(offer) \subseteq target.suites[v]
    BY <1>2, OfferFound
  <2> HIDE DEF offer, v
  <2>3. target.policy \in {"server", "client"} => order = target.policy
    BY <1>0, <2>2, TwoHellos
  <2>4. order \in {"server", "client", "indeterminate"}
    BY <2>1 DEF PreferenceOrder
  <2> HIDE DEF order
  <2>5. new \in [version : VersionSet, order : {"server", "client", "indeterminate"}] /\ new.order = order
    BY <2>2, <2>4
  <2> HIDE DEF new
  <2>6. /\ prefs' \in Seq([version : VersionSet, order : {"server", "client", "indeterminate"}])
        /\ L \in Nat /\ DOMAIN prefs = 1..L /\ DOMAIN prefs' = 1..(L + 1) /\ prefs'[L + 1] = new
        /\ \A k \in 1..L : prefs'[k] = prefs[k]
    BY <1>0, <2>1, <2>5
  <2> HIDE DEF L
  <2>7. \A k \in 1..(L + 1) : k \in 1..L \/ k = L + 1
    BY <2>6
  <2>8. ASSUME NEW k \in DOMAIN prefs', target'.policy \in {"server", "client"} PROVE prefs'[k].order = target'.policy
    <3>1. CASE k \in 1..L
      BY <1>0, <2>6, <2>8, <3>1 DEF PrefInv
    <3>2. CASE k = L + 1
      BY <1>0, <2>3, <2>5, <2>6, <2>8, <3>2
    <3> QED BY <2>6, <2>7, <3>1, <3>2
  <2> QED BY <2>6, <2>8 DEF PrefInv
<1> QED BY <1>1, <1>2 DEF Moves

-----------------------------------------------------------------------------
(* The --each-cipher table.                                                *)

(* The rank of a severity.                                                 *)
LEMMA SeveritiesAre ==
  /\ \A s \in Severities : SeverityOrder(s) \in 1..6
  /\ \A s, t \in Severities : SeverityOrder(s) = SeverityOrder(t) => s = t
<1> DEFINE order == <<"broken", "weak", "policy", "info", "modern", "unrated">>
<1>1. /\ order[1] = "broken" /\ order[2] = "weak" /\ order[3] = "policy" /\ order[4] = "info" /\ order[5] = "modern"
      /\ order[6] = "unrated"
  OBVIOUS
<1>2. \A s \in Severities : SeverityOrder(s) = CHOOSE i \in 1..6 : order[i] = s
  BY DEF SeverityOrder
<1> HIDE DEF order
<1>3. \A s \in Severities : \E i \in 1..6 : order[i] = s
  BY <1>1 DEF Severities
<1>4. \A s \in Severities : SeverityOrder(s) \in 1..6 /\ order[SeverityOrder(s)] = s
  BY <1>2, <1>3, Zenon
<1> QED BY <1>4

(* The rank of a version is a number that tells versions apart.            *)
LEMMA RanksTell ==
  /\ \A v \in VersionSet : VersionRank(v) \in 1..4
  /\ \A v, w \in VersionSet : VersionRank(v) = VersionRank(w) => v = w
BY VersionsAre DEF VersionSet

(* EachBefore is a strict order of rows, and total.                        *)
LEMMA EachBeforeIs ==
  /\ \A a \in EachRow : ~EachBefore(a, a)
  /\ \A a, b, c \in EachRow : EachBefore(a, b) /\ EachBefore(b, c) => EachBefore(a, c)
  /\ \A a, b \in EachRow : a = b \/ EachBefore(a, b) \/ EachBefore(b, a)
<1>1. \A a \in EachRow : a.version \in VersionSet /\ a.sev \in Severities /\ a.code \in Nat
  <2> SUFFICES ASSUME NEW a \in EachRow PROVE a.version \in VersionSet /\ a.sev \in Severities /\ a.code \in Nat
    OBVIOUS
  <2>1. a.version \in VersionSet /\ a.sev \in Severities /\ a.code \in Codes
    BY DEF EachRow
  <2>2. \A c \in Codes : c \in Nat
    BY DEF Codes
  <2> QED BY <2>1, <2>2
<1>2. \A a \in EachRow : VersionRank(a.version) \in 1..4 /\ SeverityOrder(a.sev) \in 1..6
  BY <1>1, RanksTell, SeveritiesAre
<1>3. \A a, b \in EachRow : VersionRank(a.version) = VersionRank(b.version) => a.version = b.version
  BY <1>1, RanksTell
<1>4. \A a, b \in EachRow : SeverityOrder(a.sev) = SeverityOrder(b.sev) => a.sev = b.sev
  BY <1>1, SeveritiesAre
<1>5. \A a, b \in EachRow : a.version = b.version /\ a.sev = b.sev /\ a.code = b.code => a = b
  <2> SUFFICES ASSUME NEW a \in EachRow, NEW b \in EachRow, a.version = b.version, a.sev = b.sev, a.code = b.code PROVE a = b
    OBVIOUS
  <2>1. /\ a = [version |-> a.version, sev |-> a.sev, code |-> a.code]
        /\ b = [version |-> b.version, sev |-> b.sev, code |-> b.code]
    BY DEF EachRow
  <2> QED BY <2>1, Zenon
<1>6. \A a \in EachRow : ~EachBefore(a, a)
  BY <1>1, <1>2 DEF EachBefore
<1>7. ASSUME NEW a \in EachRow, NEW b \in EachRow, NEW c \in EachRow, EachBefore(a, b), EachBefore(b, c)
      PROVE  EachBefore(a, c)
  BY <1>1, <1>2, <1>7 DEF EachBefore
<1>8. ASSUME NEW a \in EachRow, NEW b \in EachRow, a # b PROVE EachBefore(a, b) \/ EachBefore(b, a)
  <2>1. CASE a.version # b.version
    BY <1>2, <1>3, <2>1 DEF EachBefore
  <2>2. CASE a.version = b.version /\ a.sev # b.sev
    BY <1>2, <1>4, <2>2 DEF EachBefore
  <2>3. CASE a.version = b.version /\ a.sev = b.sev
    BY <1>1, <1>5, <1>8, <2>3 DEF EachBefore
  <2> QED BY <2>1, <2>2, <2>3
<1> QED BY <1>6, <1>7, <1>8

(* A table of distinct rows, sorted: the same rows, strictly in order.     *)
LEMMA EachSorted ==
  ASSUME NEW rows \in Seq(EachRow), IsInjective(rows)
  PROVE  LET sorted == Sorted(rows, EachOrder(rows))
         IN  /\ sorted \in Seq(EachRow) /\ IsInjective(sorted) /\ ToSet(sorted) = ToSet(rows)
             /\ \A i \in 1..(Len(sorted) - 1) : EachBefore(sorted[i], sorted[i + 1])
<1> DEFINE n == Len(rows)
           R == EachOrder(rows)
           sorted == Sorted(rows, R)
<1>1. n \in Nat /\ DOMAIN rows = 1..n /\ \A i \in 1..n : rows[i] \in EachRow
  OBVIOUS
<1>2. \A i, j \in 1..n : rows[i] = rows[j] => i = j
  BY <1>1 DEF IsInjective
<1> HIDE DEF n
<1>3. \A i, j \in 1..n : <<i, j>> \in R <=> EachBefore(rows[i], rows[j]) \/ (~EachBefore(rows[j], rows[i]) /\ i < j)
  <2>1. \A i, j \in 1..n : <<i, j>> \in Pairs(rows)
    BY <1>1 DEF Pairs
  <2> QED BY <2>1 DEF EachOrder
<1>4. \A i, j \in 1..n : <<i, j>> \in R <=> EachBefore(rows[i], rows[j])
  <2> SUFFICES ASSUME NEW i \in 1..n, NEW j \in 1..n PROVE <<i, j>> \in R <=> EachBefore(rows[i], rows[j])
    OBVIOUS
  <2>1. CASE i = j
    <3>1. ~(i < j)
      BY <2>1
    <3> QED BY <1>3, <3>1
  <2>2. CASE i # j
    <3>1. EachBefore(rows[i], rows[j]) \/ EachBefore(rows[j], rows[i])
      BY <1>1, <1>2, <2>2, EachBeforeIs
    <3> QED BY <1>3, <3>1
  <2> QED BY <2>1, <2>2
<1> HIDE DEF R
<1>5. Orders(R, n)
  <2>1. \A i \in 1..n : <<i, i>> \notin R
    BY <1>1, <1>4, EachBeforeIs
  <2>2. \A i, j, k \in 1..n : <<i, j>> \in R /\ <<j, k>> \in R => <<i, k>> \in R
    BY <1>1, <1>4, EachBeforeIs
  <2>3. \A i, j \in 1..n : i # j => <<i, j>> \in R \/ <<j, i>> \in R
    BY <1>1, <1>2, <1>4, EachBeforeIs
  <2> QED BY <2>1, <2>2, <2>3 DEF Orders
<1>6. /\ DOMAIN sorted = 1..n
      /\ \E p \in [1..n -> 1..n] :
           /\ \A i \in 1..n : sorted[i] = rows[p[i]]
           /\ \A k \in 1..n : \E i \in 1..n : p[i] = k
           /\ \A i, j \in 1..n : i < j => <<p[i], p[j]>> \in R
  BY <1>1, <1>5, SortedIs
<1>7. PICK p \in [1..n -> 1..n] :
           /\ \A i \in 1..n : sorted[i] = rows[p[i]]
           /\ \A k \in 1..n : \E i \in 1..n : p[i] = k
           /\ \A i, j \in 1..n : i < j => <<p[i], p[j]>> \in R
  BY <1>6
<1>f. sorted = [i \in 1..n |-> sorted[i]]
  BY <1>6 DEF Sorted
<1> HIDE DEF sorted
<1>8. sorted \in Seq(EachRow) /\ Len(sorted) = n
  <2>1. sorted \in [1..n -> EachRow]
    BY <1>1, <1>7, <1>f
  <2> QED BY <1>1, <2>1
<1>9. ASSUME NEW i \in 1..n, NEW j \in 1..n, i < j PROVE EachBefore(sorted[i], sorted[j])
  <2>1. <<p[i], p[j]>> \in R /\ p[i] \in 1..n /\ p[j] \in 1..n
    BY <1>7, <1>9
  <2>2. EachBefore(rows[p[i]], rows[p[j]])
    BY <1>4, <2>1
  <2> QED BY <1>7, <2>2
<1>10. IsInjective(sorted)
  <2>1. \A i, j \in 1..n : i < j => sorted[i] # sorted[j]
    BY <1>1, <1>7, <1>9, EachBeforeIs
  <2> QED BY <1>6, <2>1 DEF IsInjective
<1>11. ToSet(sorted) = ToSet(rows)
  <2>1. \A x : x \in ToSet(sorted) <=> \E i \in 1..n : sorted[i] = x
    BY <1>6 DEF ToSet
  <2>2. \A x : x \in ToSet(rows) <=> \E i \in 1..n : rows[i] = x
    BY <1>1 DEF ToSet
  <2>a. ASSUME NEW x \in ToSet(sorted) PROVE x \in ToSet(rows)
    BY <1>7, <2>1, <2>2
  <2>b. ASSUME NEW x \in ToSet(rows) PROVE x \in ToSet(sorted)
    <3>1. PICK k \in 1..n : rows[k] = x
      BY <2>2
    <3>2. PICK i \in 1..n : p[i] = k
      BY <1>7
    <3> QED BY <1>7, <2>1, <3>1, <3>2
  <2>3. \A x : x \in ToSet(sorted) <=> x \in ToSet(rows)
    BY <2>a, <2>b
  <2> QED BY <2>3
<1>12. \A i \in 1..(n - 1) : i \in 1..n /\ i + 1 \in 1..n /\ i < i + 1
  BY <1>1
<1> QED BY <1>8, <1>9, <1>10, <1>11, <1>12 DEF sorted, R

(* Where the rows of a version are gathered.                               *)
LEMMA EachAtIs ==
  ASSUME NEW v \in EachVersions
  PROVE  EachAt(v) \in 14..16 /\ Script[EachAt(v)] = Task("each", v) /\ v \in VersionSet
<1>1. v \in {"TLS10", "TLS11", "TLS12"}
  BY DEF EachVersions
<1> QED BY <1>1, VersionsAre, ScriptIs DEF EachAt, VersionSet

(* The rows of a version are settled once its step is over.                *)
LEMMA SameEachDue ==
  ASSUME Moves, NEW v \in EachVersions, EachAt(v) # pc
  PROVE  EachDue(v)' = EachDue(v)
<1>1. EachAt(v) \in 1..18 /\ Script[EachAt(v)] = Task("each", v)
  BY EachAtIs
<1>2. PICK k \in 1..18 : k = EachAt(v)
  BY <1>1
<1>3. Due(Script[k])' = Due(Script[k])
  BY <1>2, SameDue
<1> QED BY <1>1, <1>2, <1>3 DEF EachDue

(* What has been gathered so far, row by row.                              *)
LEMMA SoFarIs ==
  \A x : x \in EachSoFar <=> \E v \in EachVersions : target.each /\ EachAt(v) < pc /\ x \in EachDue(v)
BY DEF EachSoFar

(* A row names its version.                                                *)
LEMMA EachDueIs ==
  ASSUME NEW v, NEW x \in EachDue(v)
  PROVE  x.version = v
BY DEF EachDue

(* The rows of the version that was just probed.                           *)
LEMMA EachGathered ==
  ASSUME Shapes, PoolInv, GatherEach
  PROVE  LET v    == Now.version
             rows == [i \in DOMAIN pool.kept |->
                        [version |-> v, sev |-> Registry[pool.kept[i]].sev, code |-> Registry[pool.kept[i]].code]]
         IN  /\ v \in EachVersions /\ target.each /\ pc = EachAt(v)
             /\ rows \in Seq(EachRow) /\ IsInjective(rows) /\ ToSet(rows) = EachDue(v)
<1> DEFINE v == Now.version
           row(j) == [version |-> v, sev |-> Registry[j].sev, code |-> Registry[j].code]
           rows == [i \in DOMAIN pool.kept |->
                        [version |-> v, sev |-> Registry[pool.kept[i]].sev, code |-> Registry[pool.kept[i]].code]]
           kept == pool.kept
           n == Len(kept)
<1>1. pc \in 1..18 /\ Now.task = "each" /\ Applies(Now) /\ AtPool
  BY ScriptIs DEF GatherEach, At, AtPool, Pools, Shapes
<1>2. v \in EachVersions /\ pc = EachAt(v) /\ Now = Task("each", v) /\ target.each /\ v \in VersionSet
  BY <1>1, StepAt, EachAtIs DEF EachAt, Applies, EachVersions
<1>3. PoolSound /\ ToSet(kept) = Due(Now) /\ Items(Now) = Registry
  BY <1>1, PoolDone DEF GatherEach, Items
<1>4. kept \in Seq(Nat) /\ IsInjective(kept)
  BY <1>3 DEF PoolSound
<1>6. n \in Nat /\ DOMAIN kept = 1..n
  BY <1>4
<1>5. \A j \in DOMAIN Registry : Registry[j] \in Entry
  BY TablesAssumption
<1>7. \A i \in 1..n : kept[i] \in DOMAIN Registry
  <2>1. ToSet(kept) \subseteq DOMAIN Registry
    BY <1>3 DEF Due
  <2> HIDE DEF kept
  <2> QED BY <1>6, <2>1 DEF ToSet
<1> HIDE DEF kept, v
<1>8. rows = [i \in 1..n |-> row(kept[i])]
  BY <1>6 DEF kept, v
<1>9. \A j \in DOMAIN Registry : row(j) \in EachRow /\ row(j).code = Registry[j].code
  <2> SUFFICES ASSUME NEW j \in DOMAIN Registry PROVE row(j) \in EachRow /\ row(j).code = Registry[j].code
    OBVIOUS
  <2>1. Registry[j].sev \in Severities /\ Registry[j].code \in Codes
    BY <1>5 DEF Entry
  <2> QED BY <1>2, <2>1 DEF EachRow
<1> HIDE DEF rows, row
<1>10. DOMAIN rows = 1..n /\ \A i \in 1..n : rows[i] = row(kept[i])
  BY <1>8
<1>11. rows \in Seq(EachRow)
  <2>1. \A i \in 1..n : row(kept[i]) \in EachRow
    BY <1>7, <1>9
  <2>2. rows \in [1..n -> EachRow]
    BY <1>8, <2>1
  <2> QED BY <1>6, <2>2
<1>12. IsInjective(rows)
  <2>1. \A i, j \in 1..n : kept[i] = kept[j] => i = j
    BY <1>4, <1>6 DEF IsInjective
  <2>2. \A x, y \in DOMAIN Registry : Registry[x].code = Registry[y].code => x = y
    BY TablesAssumption
  <2>3. \A x, y \in DOMAIN Registry : row(x) = row(y) => x = y
    BY <1>9, <2>2
  <2> QED BY <1>7, <1>10, <2>1, <2>3 DEF IsInjective
<1>13. ToSet(rows) = EachDue(v)
  <2>1. \A x : x \in ToSet(rows) <=> \E i \in 1..n : row(kept[i]) = x
    BY <1>10 DEF ToSet
  <2>2. \A y : y \in Due(Task("each", v)) <=> \E i \in 1..n : kept[i] = y
    BY <1>2, <1>3, <1>6 DEF ToSet
  <2>3. \A x : x \in EachDue(v) <=> \E y \in Due(Task("each", v)) : row(y) = x
    BY DEF EachDue, row
  <2>4. \A x : x \in ToSet(rows) <=> x \in EachDue(v)
    BY <2>1, <2>2, <2>3
  <2> QED BY <2>4
<1> QED BY <1>2, <1>11, <1>12, <1>13 DEF v, rows

(* Two tables without a row in common, one after the other.                *)
LEMMA Joined ==
  ASSUME NEW S, NEW a \in Seq(S), NEW b \in Seq(S), IsInjective(a), IsInjective(b), ToSet(a) \cap ToSet(b) = {}
  PROVE  a \o b \in Seq(S) /\ IsInjective(a \o b) /\ ToSet(a \o b) = ToSet(a) \cup ToSet(b)
<1> DEFINE m == Len(a)
           n == Len(b)
           c == a \o b
<1>1. m \in Nat /\ n \in Nat /\ DOMAIN a = 1..m /\ DOMAIN b = 1..n /\ c \in Seq(S) /\ DOMAIN c = 1..(m + n)
  OBVIOUS
<1>2. /\ \A i \in 1..m : c[i] = a[i]
      /\ \A i \in (m + 1)..(m + n) : c[i] = b[i - m]
  BY <1>1
<1> HIDE DEF m, n, c
<1>3. /\ \A i \in 1..(m + n) : i \in 1..m \/ i \in (m + 1)..(m + n)
      /\ \A i \in 1..m : i \in 1..(m + n)
      /\ \A i \in (m + 1)..(m + n) : i \in 1..(m + n) /\ i - m \in 1..n
      /\ \A k \in 1..n : m + k \in (m + 1)..(m + n) /\ (m + k) - m = k
      /\ \A i, j \in (m + 1)..(m + n) : i - m = j - m => i = j
  BY <1>1
<1>4. /\ \A x : x \in ToSet(a) <=> \E i \in 1..m : a[i] = x
      /\ \A x : x \in ToSet(b) <=> \E i \in 1..n : b[i] = x
      /\ \A x : x \in ToSet(c) <=> \E i \in 1..(m + n) : c[i] = x
  BY <1>1 DEF ToSet
<1>5. /\ \A i, j \in 1..m : a[i] = a[j] => i = j
      /\ \A i, j \in 1..n : b[i] = b[j] => i = j
  BY <1>1 DEF IsInjective
<1>6. \A i \in 1..m : \A j \in 1..n : a[i] # b[j]
  BY <1>4
<1>7. \A i, j \in 1..(m + n) : c[i] = c[j] => i = j
  <2> SUFFICES ASSUME NEW i \in 1..(m + n), NEW j \in 1..(m + n), c[i] = c[j] PROVE i = j
    OBVIOUS
  <2>1. CASE i \in 1..m /\ j \in 1..m
    BY <1>2, <1>5, <2>1
  <2>2. CASE i \in (m + 1)..(m + n) /\ j \in (m + 1)..(m + n)
    <3>1. b[i - m] = b[j - m] /\ i - m \in 1..n /\ j - m \in 1..n
      BY <1>2, <1>3, <2>2
    <3>2. i - m = j - m
      BY <1>5, <3>1
    <3> QED BY <1>3, <2>2, <3>2
  <2>3. CASE i \in 1..m /\ j \in (m + 1)..(m + n)
    BY <1>2, <1>3, <1>6, <2>3
  <2>4. CASE i \in (m + 1)..(m + n) /\ j \in 1..m
    BY <1>2, <1>3, <1>6, <2>4
  <2> QED BY <1>3, <2>1, <2>2, <2>3, <2>4
<1>8. ASSUME NEW x \in ToSet(c) PROVE x \in ToSet(a) \cup ToSet(b)
  <2>1. PICK i \in 1..(m + n) : c[i] = x
    BY <1>4
  <2>2. CASE i \in 1..m
    BY <1>2, <1>4, <2>1, <2>2
  <2>3. CASE i \in (m + 1)..(m + n)
    BY <1>2, <1>3, <1>4, <2>1, <2>3
  <2> QED BY <1>3, <2>2, <2>3
<1>9. ASSUME NEW x \in ToSet(a) PROVE x \in ToSet(c)
  <2>1. PICK i \in 1..m : a[i] = x
    BY <1>4
  <2> QED BY <1>2, <1>3, <1>4, <2>1
<1>10. ASSUME NEW x \in ToSet(b) PROVE x \in ToSet(c)
  <2>1. PICK k \in 1..n : b[k] = x
    BY <1>4
  <2>2. m + k \in (m + 1)..(m + n) /\ (m + k) - m = k /\ m + k \in 1..(m + n)
    BY <1>3
  <2>3. c[m + k] = x
    BY <1>2, <2>1, <2>2
  <2> QED BY <1>4, <2>2, <2>3
<1>11. ToSet(c) = ToSet(a) \cup ToSet(b)
  BY <1>8, <1>9, <1>10
<1>12. IsInjective(c)
  BY <1>1, <1>7 DEF IsInjective
<1> QED BY <1>1, <1>11, <1>12 DEF c

(* The --each-cipher table after a step.                                   *)
LEMMA EachStep ==
  ASSUME Shapes, Lives, PoolInv, EachInv, Next, Moves
  PROVE  EachInv'
<1>0. pc \in 1..18 /\ target' = target /\ target \in Targets
  BY DEF Moves, Shapes
<1> SUFFICES ASSUME pc' < 19 \/ Live'
             PROVE  /\ each' \in Seq(EachRow) /\ IsInjective(each')
                    /\ ToSet(each') = EachSoFar'
                    /\ pc' > 16 => \A i \in 1..(Len(each') - 1) : EachBefore(each'[i], each'[i + 1])
  BY DEF EachInv
<1>1. pc' = pc \/ pc' = pc + 1
  <2>1. CASE Dial
    <3>1. pc = 1 /\ ~Live
      BY <1>0, <2>1, StepAt DEF Dial, At, Lives
    <3>2. pc' = pc + 1 \/ (pc' = 19 /\ session' = session)
      BY <2>1, <3>1, ScriptIs DEF Dial
    <3> QED BY <3>1, <3>2 DEF Live
  <2>2. CASE ~Dial
    BY <2>2 DEF Moves
  <2> QED BY <2>1, <2>2
<1>2. /\ each \in Seq(EachRow) /\ IsInjective(each)
      /\ ToSet(each) = EachSoFar
      /\ pc > 16 => \A i \in 1..(Len(each) - 1) : EachBefore(each[i], each[i + 1])
  BY <1>0 DEF EachInv
<1>3. \A v \in EachVersions : EachAt(v) \in 14..16 /\ (EachAt(v) # pc => EachDue(v)' = EachDue(v))
  BY EachAtIs, SameEachDue
<1>4. \A x : x \in EachSoFar <=> \E v \in EachVersions : target.each /\ EachAt(v) < pc /\ x \in EachDue(v)
  BY SoFarIs
<1>5. \A x : x \in EachSoFar' <=> \E v \in EachVersions : target.each /\ EachAt(v) < pc' /\ x \in EachDue(v)'
  <2>1. \A x : x \in EachSoFar' <=> \E v \in EachVersions : target'.each /\ EachAt(v) < pc' /\ x \in EachDue(v)'
    BY DEF EachSoFar
  <2> QED BY <1>0, <2>1
<1>6. CASE ~GatherEach
  <2>1. each' = each
    BY <1>6 DEF Moves
  <2>2. ASSUME pc' # pc, NEW v \in EachVersions, EachAt(v) = pc PROVE ~target.each
    <3>1. Now.task = "each" /\ pc # Return
      BY <1>0, <2>2, EachAtIs, TaskIs, ScriptIs DEF Now
    <3>2. ~Applies(Now)
      BY <1>6, <2>2, <3>1, WhoGathers
    <3> QED BY <3>1, <3>2 DEF Applies
  <2>3. \A v \in EachVersions : target.each => (EachAt(v) < pc' <=> EachAt(v) < pc)
    BY <1>0, <1>1, <1>3, <2>2
  <2>4. \A v \in EachVersions : EachAt(v) < pc => EachDue(v)' = EachDue(v)
    BY <1>0, <1>3
  <2>5. \A x : x \in EachSoFar' <=> x \in EachSoFar
    BY <1>4, <1>5, <2>3, <2>4
  <2>6. ToSet(each') = EachSoFar'
    BY <1>2, <2>1, <2>5
  <2>7. ASSUME pc' > 16 PROVE \A i \in 1..(Len(each') - 1) : EachBefore(each'[i], each'[i + 1])
    <3>1. CASE pc > 16
      BY <1>2, <2>1, <3>1
    <3>2. CASE pc = 16
      <4>1. "TLS12" \in EachVersions /\ EachAt("TLS12") = 16
        BY VersionsAre DEF EachVersions, EachAt
      <4>2. ~target.each
        BY <2>2, <2>7, <3>2, <4>1
      <4>3. ToSet(each) = {}
        BY <1>2, <1>4, <4>2
      <4>4. Len(each) \in Nat /\ DOMAIN each = 1..Len(each)
        BY <1>2
      <4>5. ~(1 \in 1..Len(each))
        BY <4>3, <4>4 DEF ToSet
      <4>6. Len(each) = 0
        BY <4>4, <4>5
      <4> QED BY <2>1, <4>6
    <3> QED BY <1>0, <1>1, <2>7, <3>1, <3>2
  <2> QED BY <1>2, <2>1, <2>6, <2>7
<1>7. CASE GatherEach
  <2> DEFINE rows == [i \in DOMAIN pool.kept |->
                [version |-> Now.version, sev |-> Registry[pool.kept[i]].sev, code |-> Registry[pool.kept[i]].code]]
             all == each \o rows
  <2>a. PICK w : w = Now.version
    OBVIOUS
  <2>1. /\ w \in EachVersions /\ target.each /\ pc = EachAt(w)
        /\ rows \in Seq(EachRow) /\ IsInjective(rows) /\ ToSet(rows) = EachDue(w)
    BY <1>7, <2>a, EachGathered
  <2>2. /\ each' = IF w = "TLS12" THEN Sorted(all, EachOrder(all)) ELSE all
        /\ pc' = pc + 1 /\ missed' = missed
    BY <1>7, <2>a DEF GatherEach
  <2> HIDE DEF rows
  <2>3. ToSet(each) \cap ToSet(rows) = {}
    <3>1. ASSUME NEW x \in ToSet(each), x \in ToSet(rows) PROVE FALSE
      <4>1. x.version = w
        BY <2>1, <3>1, EachDueIs
      <4>2. PICK v \in EachVersions : EachAt(v) < pc /\ x \in EachDue(v)
        BY <1>2, <1>4, <3>1
      <4>3. x.version = v
        BY <4>2, EachDueIs
      <4> QED BY <1>0, <2>1, <4>1, <4>2, <4>3
    <3> QED BY <3>1
  <2>4. all \in Seq(EachRow) /\ IsInjective(all) /\ ToSet(all) = ToSet(each) \cup ToSet(rows)
    BY <1>2, <2>1, <2>3, Joined
  <2> HIDE DEF all
  <2>5. EachDue(w)' = EachDue(w)
    <3>1. \A i : Outcome(Task("each", w), i)' = Outcome(Task("each", w), i)
      BY <1>0, SameOutcome
    <3>2. Due(Task("each", w))' = Due(Task("each", w))
      BY <2>2, <3>1 DEF Due, Lost
    <3> QED BY <3>2 DEF EachDue
  <2>6. \A v \in EachVersions : EachAt(v) < pc' <=> v = w \/ EachAt(v) < pc
    <3>1. \A v \in EachVersions : EachAt(v) = EachAt(w) => v = w
      BY <2>1, VersionsAre DEF EachAt, EachVersions
    <3> QED BY <1>0, <1>3, <2>1, <2>2, <3>1
  <2>7. \A x : x \in EachSoFar' <=> x \in EachSoFar \/ x \in EachDue(w)
    <3>1. \A v \in EachVersions : EachAt(v) < pc => EachDue(v)' = EachDue(v)
      BY <1>0, <1>3
    <3> QED BY <1>4, <1>5, <2>1, <2>5, <2>6, <3>1
  <2>8. ToSet(all) = EachSoFar'
    BY <1>2, <2>1, <2>4, <2>7
  <2>9. CASE w = "TLS12"
    <3> DEFINE sorted == Sorted(all, EachOrder(all))
    <3>1. /\ sorted \in Seq(EachRow) /\ IsInjective(sorted) /\ ToSet(sorted) = ToSet(all)
          /\ \A i \in 1..(Len(sorted) - 1) : EachBefore(sorted[i], sorted[i + 1])
      BY <2>4, EachSorted
    <3>2. each' = sorted
      BY <2>2, <2>9
    <3> HIDE DEF sorted
    <3> QED BY <2>8, <3>1, <3>2
  <2>10. CASE w # "TLS12"
    <3>1. each' = all
      BY <2>2, <2>10
    <3>2. ~(pc' > 16)
      <4>1. w \in {"TLS10", "TLS11"}
        BY <2>1, <2>10 DEF EachVersions
      <4>2. EachAt(w) \in {14, 15}
        BY <4>1, VersionsAre DEF EachAt
      <4> QED BY <1>0, <2>1, <2>2, <4>2
    <3> QED BY <2>4, <2>8, <3>1, <3>2
  <2> QED BY <2>9, <2>10
<1> QED BY <1>6, <1>7

(* The invariant holds at the start.                                       *)
LEMMA InitIInv ==
  ASSUME Init
  PROVE  IInv
<1>0. /\ target \in Targets /\ pc = 1 /\ session = [version |-> "none", cipher |-> "none"]
      /\ versions = {} /\ tls10 = "none" /\ pool = Idle /\ enums = << >> /\ prefs = << >> /\ each = << >>
      /\ scsv = "unknown" /\ crl = [point |-> 1, status |-> "none"] /\ missed = {} /\ result = Pending
  BY DEF Init
<1>1. Shapes
  <2>1. IsFiniteSet({}) /\ Cardinality({}) = 0
    BY FS_EmptySet
  <2> QED BY <1>0, <2>1, BoundsAssumption DEF Shapes
<1>2. Lives /\ ~Live
  BY <1>0 DEF Lives, Live
<1>3. LossesPast
  BY <1>0 DEF LossesPast, Lost
<1>4. PoolInv
  <2>1. Now.task = "dial"
    BY <1>0, ScriptIs, TaskIs DEF Now
  <2> QED BY <1>0, <2>1 DEF PoolInv, AtPool, Pools
<1>5. ProbeInv
  BY <1>0 DEF ProbeInv, Lost
<1>6. AlpnInv /\ SimInv
  BY <1>2 DEF AlpnInv, SimInv
<1>7. EnumInv
  BY <1>0 DEF EnumInv
<1>8. PrefInv
  BY <1>0 DEF PrefInv
<1>9. CrlInv
  <2>1. Len(target.points) \in Nat
    BY <1>0, TargetTyped
  <2> QED BY <1>0, <1>2, <2>1 DEF CrlInv
<1>10. EachInv
  <2>1. \A v \in EachVersions : ~(EachAt(v) < pc)
    BY <1>0, EachAtIs
  <2>2. \A x : ~(x \in EachSoFar)
    BY <2>1, SoFarIs
  <2>3. ToSet(each) = {} /\ IsInjective(each) /\ each \in Seq(EachRow)
    BY <1>0 DEF ToSet, IsInjective
  <2>4. EachSoFar = {}
    BY <2>2
  <2>5. ~(pc > 16)
    BY <1>0
  <2> QED BY <2>3, <2>4, <2>5, Zenon DEF EachInv
<1>11. ResultInv
  BY <1>0 DEF ResultInv
<1> QED BY <1>1, <1>2, <1>3, <1>4, <1>5, <1>6, <1>7, <1>8, <1>9, <1>10, <1>11 DEF IInv

(* Every step keeps it.                                                    *)
LEMMA StepIInv ==
  ASSUME IInv, Next
  PROVE  IInv'
<1>1. Moves
  BY EveryMove DEF IInv
<1>2. Shapes' /\ Lives' /\ LossesPast' /\ PoolInv'
  BY <1>1, ShapesStep, LivesStep, LossesStep, PoolStep DEF IInv
<1>3. ProbeInv' /\ AlpnInv' /\ SimInv' /\ ResultInv'
  BY <1>1, ProbeStep, AlpnStep, SimStep, ResultStep DEF IInv
<1>4. EnumInv' /\ PrefInv' /\ CrlInv' /\ EachInv'
  BY <1>1, EnumStep, PrefStep, CrlStep, EachStep DEF IInv
<1> QED BY <1>2, <1>3, <1>4 DEF IInv

(* So does standing still.                                                 *)
LEMMA StutterIInv ==
  ASSUME IInv, UNCHANGED vars
  PROVE  IInv'
<1>0. /\ target' = target /\ pc' = pc /\ session' = session /\ versions' = versions /\ tls10' = tls10 /\ probed' = probed
      /\ pool' = pool /\ alpn' = alpn /\ enums' = enums /\ prefs' = prefs /\ each' = each /\ sims' = sims /\ scsv' = scsv
      /\ crl' = crl /\ missed' = missed /\ result' = result
  BY DEF vars
<1>1. Now' = Now /\ AtPool' = AtPool /\ Live' = Live /\ Back' = Back
  BY <1>0 DEF Now, AtPool, Applies, Live, Back
<1>2. \A t, i : Outcome(t, i)' = Outcome(t, i)
  BY <1>0, SameOutcome
<1>3. \A a, b, i : Lost(a, b, i)' = Lost(a, b, i)
  BY <1>0 DEF Lost
<1>4. \A t : Due(t)' = Due(t)
  BY <1>2, <1>3, Zenon DEF Due
<1>5. \A t, i : Reported(t, i)' = Reported(t, i)
  BY <1>2, <1>3, Zenon DEF Reported
<1>6. AlpnDue' = AlpnDue /\ (\A v : Accepted(v)' = Accepted(v)) /\ (\A v : EachDue(v)' = EachDue(v))
  BY <1>4, Zenon DEF AlpnDue, Accepted, EachDue
<1>7. EachSoFar' = EachSoFar
  BY <1>0, <1>6 DEF EachSoFar
<1>8. \A v, o : Pick(v, o)' = Pick(v, o)
  BY <1>0, SameHello
<1>9. Shapes' /\ Lives' /\ LossesPast'
  BY <1>0, <1>1, <1>3 DEF IInv, Shapes, Lives, LossesPast
<1>10. PoolInv'
  <2>1. CASE AtPool
    <3>1. PoolSound
      BY <2>1 DEF IInv, PoolInv
    <3>2. PoolSound'
      BY <1>0, <1>1, <1>5, <3>1 DEF PoolSound
    <3> QED BY <1>1, <2>1, <3>2 DEF PoolInv
  <2>2. CASE ~AtPool
    BY <1>0, <1>1, <2>2 DEF IInv, PoolInv
  <2> QED BY <2>1, <2>2
<1>11. ProbeInv'
  <2>1. \A p : Overlooked(p)' = Overlooked(p)
    BY <1>0, <1>3 DEF Overlooked
  <2>2. Brought' = Brought
    BY <1>0, <1>8, <2>1 DEF Brought
  <2> QED BY <1>0, <1>1, <1>3, <2>2 DEF IInv, ProbeInv
<1>12. AlpnInv'
  BY <1>0, <1>1, <1>6 DEF IInv, AlpnInv, InOrder
<1>13. EnumInv'
  <2>1. \A r : RowSound(r)' = RowSound(r)
    BY <1>0, <1>6 DEF RowSound
  <2> QED BY <1>0, <1>6, <2>1 DEF IInv, EnumInv
<1>14. PrefInv' /\ CrlInv'
  BY <1>0, <1>1 DEF IInv, PrefInv, CrlInv
<1>15. EachInv' /\ SimInv'
  BY <1>0, <1>1, <1>5, <1>7 DEF IInv, EachInv, SimInv
<1>16. ResultInv'
  BY <1>0, <1>1 DEF IInv, ResultInv, TheVerdict, Posture
<1> QED BY <1>9, <1>10, <1>11, <1>12, <1>13, <1>14, <1>15, <1>16 DEF IInv

(* The check keeps its invariant in every state it can reach.              *)
THEOREM TlsInvariant == Spec => []IInv
<1>1. Init => IInv
  BY InitIInv
<1>2. IInv /\ [Next]_vars => IInv'
  BY StepIInv, StutterIInv
<1> QED BY <1>1, <1>2, PTL DEF Spec

-----------------------------------------------------------------------------
(* What the invariant gives.                                               *)

(* A verdict of the check.                                                 *)
LEMMA VerdictIs ==
  ASSUME NEW a, NEW b, NEW c, NEW d, NEW e
  PROVE  TLSVerdict(a, b, c, d, e) \in {Verdict(s) : s \in Statuses}
<1>1. TLSVerdict(a, b, c, d, e) \in {Verdict("ok"), Verdict("warn"), Verdict("fail")}
  BY DEF TLSVerdict
<1> QED BY <1>1 DEF Statuses

(* The invariant implies the types.                                        *)
LEMMA TypeFollows ==
  ASSUME IInv
  PROVE  TypeOK
<1>1. Shapes /\ PoolInv /\ ProbeInv /\ ResultInv
  BY DEF IInv
<1>2. versions \subseteq ToSet(Versions)
  BY <1>1, TargetTyped, VersionsAre DEF Shapes, ProbeInv
<1>3. pool.next \in Nat /\ Cardinality(pool.running) <= Limit
  <2>1. CASE AtPool
    BY <1>1, <2>1 DEF PoolInv, PoolSound
  <2>2. CASE ~AtPool
    <3>1. pool.next = 1 /\ pool.running = {} /\ Cardinality({}) = 0
      BY <1>1, <2>2, FS_EmptySet DEF PoolInv, Idle
    <3> QED BY <3>1, BoundsAssumption
  <2> QED BY <2>1, <2>2
<1>4. result \in {Pending} \cup {Verdict(s) : s \in Statuses}
  <2>1. TheVerdict \in {Verdict(s) : s \in Statuses} /\ Verdict("fail") \in {Verdict(s) : s \in Statuses}
    BY VerdictIs DEF TheVerdict, Statuses
  <2>2. result \in {Pending, TheVerdict, Verdict("fail")}
    BY <1>1 DEF ResultInv, Shapes
  <2> QED BY <2>1, <2>2
<1> QED BY <1>1, <1>2, <1>3, <1>4 DEF TypeOK, Shapes

(* At the end of a check that had a session, all is gathered.              *)
LEMMA AtTheEnd ==
  ASSUME IInv, Judged
  PROVE  Live /\ pc = 19 /\ target \in Targets /\ versions \subseteq VersionSet
BY ScriptIs, TargetTyped DEF Judged, Done, Live, IInv, Shapes, ProbeInv

(* At the end there is one row for every version that has a suite to show, *)
(* with the suites that answered, each once, and the worst of their grades. *)
LEMMA EnumerationFollows ==
  ASSUME IInv
  PROVE  EnumerationComplete
<1> SUFFICES ASSUME Judged, NEW v \in versions
             PROVE  LET due  == Accepted(v)
                        rows == {k \in DOMAIN enums : enums[k].version = v}
                    IN  IF due = {} THEN rows = {}
                        ELSE \E k \in DOMAIN enums :
                               /\ rows = {k} /\ IsInjective(enums[k].ciphers) /\ ToSet(enums[k].ciphers) = due
                               /\ \E c \in due : Grade(c) = enums[k].worst
                               /\ \A c \in due : GradeRank(enums[k].worst) <= GradeRank(Grade(c))
  BY DEF EnumerationComplete
<1>1. Live /\ pc = 19 /\ target \in Targets /\ v \in VersionSet /\ EnumInv
  BY AtTheEnd DEF IInv
<1> DEFINE rows == {k \in DOMAIN enums : enums[k].version = v}
<1>2. EnumAt(v) < pc
  BY <1>1, EnumAtIs
<1>3. \A k \in rows : RowSound(enums[k]) /\ enums[k].version = v
  BY <1>1 DEF EnumInv
<1>4. CASE Accepted(v) = {}
  <2>1. \A k : k \notin rows
    BY <1>3, <1>4 DEF RowSound, Worst
  <2>2. rows = {}
    BY <2>1
  <2> QED BY <1>4, <2>2
<1>5. CASE Accepted(v) # {}
  <2>1. PICK k \in DOMAIN enums : enums[k].version = v
    BY <1>1, <1>2, <1>5 DEF EnumInv
  <2>2. \A l \in rows : l = k
    <3> SUFFICES ASSUME NEW l \in rows, l # k PROVE FALSE
      OBVIOUS
    <3>1. enums[l].version = v /\ l \in DOMAIN enums
      OBVIOUS
    <3>2. k \in Nat /\ l \in Nat
      BY <1>1, <2>1, <3>1 DEF EnumInv
    <3>3. l < k \/ k < l
      BY <3>2
    <3>4. EnumAt(v) < EnumAt(v)
      BY <1>1, <2>1, <3>1, <3>3 DEF EnumInv
    <3> QED BY <1>1, <3>4, EnumAtIs
  <2>3. rows = {k}
    BY <2>1, <2>2
  <2>4. RowSound(enums[k])
    BY <1>3, <2>1
  <2> QED BY <1>5, <2>1, <2>3, <2>4 DEF RowSound, Worst
<1> QED BY <1>4, <1>5

(* At the end the protocols, the suites of --each-cipher and the clients   *)
(* are what was owed, in an order the goroutines had no say in.            *)
LEMMA OrderFollows ==
  ASSUME IInv
  PROVE  OrderFree
<1> SUFFICES ASSUME Judged
             PROVE
    /\ ToSet(alpn) = AlpnDue /\ InOrder(alpn)
    /\ ToSet(each) = IF target.each THEN EachDue("TLS10") \cup EachDue("TLS11") \cup EachDue("TLS12") ELSE {}
    /\ \A i \in 1..(Len(each) - 1) : EachBefore(each[i], each[i + 1])
    /\ \A i \in DOMAIN Clients : sims[i] = IF Lost("sim", "none", i) THEN "fail" ELSE SimulateOneClient(Clients[i])
  BY DEF OrderFree, AlpnDue, InOrder
<1>1. Live /\ pc = 19 /\ target \in Targets /\ AlpnInv /\ EachInv /\ SimInv
  BY AtTheEnd DEF IInv
<1>2. ToSet(alpn) = AlpnDue /\ InOrder(alpn)
  BY <1>1 DEF AlpnInv
<1>3. /\ ToSet(each) = EachSoFar
      /\ \A i \in 1..(Len(each) - 1) : EachBefore(each[i], each[i + 1])
  BY <1>1 DEF EachInv
<1>4. \A v \in EachVersions : EachAt(v) < pc
  BY <1>1, EachAtIs
<1>5. EachSoFar = IF target.each THEN EachDue("TLS10") \cup EachDue("TLS11") \cup EachDue("TLS12") ELSE {}
  <2>1. \A x : x \in EachSoFar <=> target.each /\ \E v \in EachVersions : x \in EachDue(v)
    BY <1>4, SoFarIs
  <2>2. \A x : (\E v \in EachVersions : x \in EachDue(v)) <=> x \in EachDue("TLS10") \cup EachDue("TLS11") \cup EachDue("TLS12")
    BY DEF EachVersions
  <2> QED BY <2>1, <2>2
<1>6. ASSUME NEW i \in DOMAIN Clients PROVE sims[i] = IF Lost("sim", "none", i) THEN "fail" ELSE SimulateOneClient(Clients[i])
  <2>1. sims[i] = Reported(Task("sim", "none"), i)
    BY <1>1, <1>6 DEF SimInv
  <2>2. Unanswered(Task("sim", "none")) = "fail" /\ Outcome(Task("sim", "none"), i) = SimulateOneClient(Clients[i])
    BY TaskIs DEF Unanswered, Outcome
  <2> QED BY <2>1, <2>2, TaskIs DEF Reported
<1> QED BY <1>2, <1>3, <1>5, <1>6

(* However the goroutines of the four pools of checkTLS interleave, and    *)
(* whatever connections are lost: at most Limit are at work, and what the  *)
(* check prints is what the probes that answered said, each item once and  *)
(* in an order the interleaving does not change.                           *)
THEOREM TlsPoolsFaithful == Spec => []PoolsFaithful
<1>1. IInv => PoolsFaithful
  BY TypeFollows, EnumerationFollows, OrderFollows DEF PoolsFaithful
<1> QED BY <1>1, TlsInvariant, PTL

(* probeCipherPreference never misreports a server that strictly orders    *)
(* the suites itself or strictly follows the client.                       *)
THEOREM TlsPreferenceTrue == Spec => []PreferenceTrue
<1>1. IInv => PreferenceTrue
  BY DEF IInv, PrefInv, PreferenceTrue
<1> QED BY <1>1, TlsInvariant, PTL

-----------------------------------------------------------------------------
(* The judgement.                                                          *)

(* The severity of a vulnerability of the tables.                          *)
LEMMA SeverityIs ==
  ASSUME NEW e \in VulnTable \cup LateTable
  PROVE  /\ SeverityRank(e.sev) \in 1..4
         /\ e.sev \in {"high", "critical"} <=> SeverityRank(e.sev) >= 3
<1>1. e.sev \in {"critical", "high", "medium", "low"}
  BY DEF VulnTable, LateTable
<1>2. /\ SeverityRank("critical") = 4 /\ SeverityRank("high") = 3
      /\ SeverityRank("medium") = 2 /\ SeverityRank("low") = 1
  BY DEF SeverityRank
<1> QED BY <1>1, <1>2

(* WorstRank is the rank of the worst of them, and zero only for none.     *)
LEMMA WorstRankIs ==
  ASSUME NEW vulns \in SUBSET (VulnTable \cup LateTable)
  PROVE  /\ WorstRank(vulns) \in 0..4
         /\ \A e \in vulns : SeverityRank(e.sev) <= WorstRank(vulns)
         /\ WorstRank(vulns) = 0 => vulns = {}
<1> DEFINE S == {0} \cup {SeverityRank(v.sev) : v \in vulns}
<1>1. \A v \in vulns : SeverityRank(v.sev) \in 1..4
  BY SeverityIs
<1>2. S \in SUBSET (0..4) /\ S # {} /\ \A v \in vulns : SeverityRank(v.sev) \in S
  BY <1>1
<1>3. WorstRank(vulns) = Max(S)
  BY DEF WorstRank
<1> HIDE DEF S
<1>4. Max(S) \in S /\ \A m \in S : m <= Max(S)
  BY <1>2, MaxIs
<1>5. Max(S) \in 0..4 /\ \A e \in vulns : SeverityRank(e.sev) <= Max(S)
  BY <1>2, <1>4
<1>6. Max(S) = 0 => vulns = {}
  BY <1>1, <1>5
<1> QED BY <1>3, <1>5, <1>6

(* A serious flaw that a probe saw is on the list of vulnerabilities.      *)
LEMMA SeriousIsListed ==
  ASSUME NEW p, NEW f \in p.flags \cup {DHFinding(p.dh)}, NEW e \in VulnTable \cup LateTable,
         e.name = f, e.sev \in {"high", "critical"}
  PROVE  e \in Vulns(p)
<1>1. CASE e \in VulnTable
  <2>1. e \in DetectTLSVulns(p)
    BY <1>1 DEF DetectTLSVulns
  <2> QED BY <2>1 DEF Vulns
<1>2. CASE e \in LateTable
  <2>1. e.name # "renegotiation"
    BY <1>2 DEF LateTable
  <2>2. e.name \in p.flags
    <3>1. DHFinding(p.dh) \in {"Weak_DH", "Logjam_common_prime", "Weak_DH_1024", "none"}
      BY DEF DHFinding
    <3>2. e.name \notin {"Weak_DH", "Logjam_common_prime", "Weak_DH_1024", "none"}
      BY <1>2 DEF LateTable
    <3> QED BY <3>1, <3>2
  <2>3. e \in LateVulns(p)
    BY <1>2, <2>1, <2>2 DEF LateVulns
  <2> QED BY <2>3 DEF Vulns
<1> QED BY <1>1, <1>2

(* A flaw of the tables that a probe saw leaves something on the list.     *)
LEMMA SeenIsListed ==
  ASSUME NEW p, NEW f \in p.flags, f \in {e.name : e \in VulnTable \cup LateTable}
  PROVE  Vulns(p) # {}
<1>1. PICK e \in VulnTable \cup LateTable : e.name = f
  OBVIOUS
<1>2. CASE e \in VulnTable
  <2>1. e \in DetectTLSVulns(p)
    BY <1>1, <1>2 DEF DetectTLSVulns
  <2> QED BY <2>1 DEF Vulns
<1>3. CASE e \in LateTable /\ ~(e.name = "renegotiation" /\ "renegotiation_DoS" \in p.flags)
  <2>1. e \in LateVulns(p)
    BY <1>1, <1>3 DEF LateVulns
  <2> QED BY <2>1 DEF Vulns
<1>4. CASE "renegotiation_DoS" \in p.flags
  <2> DEFINE d == [name |-> "renegotiation_DoS", sev |-> "medium"]
  <2>1. d \in LateTable /\ d.name = "renegotiation_DoS" /\ d.name # "renegotiation"
    BY DEF LateTable
  <2> HIDE DEF d
  <2>2. d \in LateVulns(p)
    BY <1>4, <2>1 DEF LateVulns
  <2> QED BY <2>2 DEF Vulns
<1> QED BY <1>1, <1>2, <1>3, <1>4

(* The verdict is no milder than the worst of what was there to be seen.   *)
LEMMA VerdictFollows ==
  ASSUME IInv
  PROVE  VerdictByWorst
<1> SUFFICES ASSUME Judged, target.cert.verifies, target.cert.daysLeft >= 21
             PROVE
    /\ \A f \in target.flaws : Serious(f) /\ ~Overlooked(f) => result.status = "fail"
    /\ Serious(DHFinding(target.dh)) /\ ~Overlooked("dh") => result.status = "fail"
    /\ result.status = "ok" => \A x \in target.flaws \cup Deprecated : Overlooked(x)
  BY DEF VerdictByWorst
<1>1. Live /\ pc = 19 /\ target \in Targets /\ versions \subseteq VersionSet /\ ResultInv /\ Brought
  BY AtTheEnd DEF IInv, ProbeInv
<1>2. result = TheVerdict
  BY <1>1 DEF ResultInv
<1> DEFINE r == WorstRank(Vulns(Posture))
           weak == versions \cap {"TLS10", "TLS11"} # {}
<1>3. Vulns(Posture) \in SUBSET (VulnTable \cup LateTable)
  BY DEF Vulns, DetectTLSVulns, LateVulns
<1>4. /\ r \in 0..4 /\ \A e \in Vulns(Posture) : SeverityRank(e.sev) <= r
      /\ r = 0 => Vulns(Posture) = {}
  BY <1>3, WorstRankIs
<1>5. target.cert.daysLeft \in Int
  BY <1>1, TargetTyped
<1> HIDE DEF r, weak
<1>6. TheVerdict = IF r >= 3 THEN Verdict("fail") ELSE IF r > 0 THEN Verdict("warn")
                   ELSE IF IsWeak(session.cipher) THEN Verdict("warn") ELSE IF weak THEN Verdict("warn") ELSE Verdict("ok")
  <2>1. ~(target.cert.daysLeft < 0) /\ ~(target.cert.daysLeft < 21)
    BY <1>5
  <2> QED BY <2>1, Zenon DEF TheVerdict, TLSVerdict, r, weak
<1>7. /\ Verdict("fail").status = "fail" /\ Verdict("warn").status = "warn" /\ Verdict("ok").status = "ok"
  BY DEF Verdict, Check
<1>f. Posture.flags = probed.flags /\ Posture.dh = probed.dh
  BY DEF Posture
<1>8. ASSUME NEW f \in probed.flags \cup {DHFinding(probed.dh)}, Serious(f)
      PROVE  result.status = "fail"
  <2>1. PICK e \in VulnTable \cup LateTable : e.name = f /\ e.sev \in {"high", "critical"}
    BY <1>8 DEF Serious
  <2>2. e \in Vulns(Posture)
    BY <1>8, <1>f, <2>1, SeriousIsListed
  <2>3. SeverityRank(e.sev) >= 3 /\ SeverityRank(e.sev) \in 1..4
    BY <2>1, SeverityIs
  <2>4. r >= 3
    BY <1>4, <2>2, <2>3
  <2> QED BY <1>2, <1>6, <1>7, <2>4
<1>9. ASSUME NEW f \in target.flaws, Serious(f), ~Overlooked(f) PROVE result.status = "fail"
  <2>1. f \in probed.flags
    BY <1>1, <1>9 DEF Brought
  <2> QED BY <1>8, <1>9, <2>1
<1>10. ASSUME Serious(DHFinding(target.dh)), ~Overlooked("dh") PROVE result.status = "fail"
  <2>1. probed.dh = target.dh
    BY <1>1, <1>10 DEF Brought
  <2> QED BY <1>8, <1>10, <2>1
<1>11. ASSUME result.status = "ok", NEW x \in target.flaws \cup Deprecated PROVE Overlooked(x)
  <2>1. ~(r >= 3) /\ ~(r > 0) /\ ~weak
    BY <1>2, <1>6, <1>7, <1>11
  <2>2. Vulns(Posture) = {}
    BY <1>4, <2>1
  <2>3. versions \cap {"TLS10", "TLS11"} = {}
    BY <2>1 DEF weak
  <2>4. CASE x \in target.flaws
    <3>1. x \in {e.name : e \in VulnTable \cup LateTable}
      BY <1>1, <2>4, TargetTyped
    <3>2. x \notin probed.flags
      BY <1>f, <2>2, <3>1, SeenIsListed
    <3> QED BY <1>1, <2>4, <3>2 DEF Brought
  <2>5. CASE x \in Deprecated
    <3>1. x \in target.versions /\ Pick(x, GoOffer(x)) # "none" /\ x \in {"TLS10", "TLS11"}
      BY <1>1, <2>5, TargetTyped DEF Deprecated, GoVersions, VersionSet
    <3>2. x \notin versions
      BY <2>3, <3>1
    <3> QED BY <1>1, <3>1, <3>2 DEF Brought
  <2> QED BY <1>11, <2>4, <2>5
<1> QED BY <1>9, <1>10, <1>11

-----------------------------------------------------------------------------
(* The letter.                                                             *)

(* The letters a score and a cap can leave.                                *)
LEMMA LettersAre ==
  /\ \A s : ScoreToLetter(s) \in {0, 1, 2, 3, 5}
  /\ \A e \in CapTable : e.cap \in {0, 2, 3, 5}
<1>1. \A s : ScoreToLetter(s) \in {0, 1, 2, 3, 5}
  BY DEF ScoreToLetter
<1>2. \A e \in CapTable : e.cap \in {0, 2, 3, 5}
  BY DEF CapTable
<1> QED BY <1>1, <1>2

(* The cap is the lowest of the letter and the caps.                       *)
LEMMA CapIs ==
  ASSUME NEW letter \in {0, 1, 2, 3, 5}, NEW caps \in SUBSET CapTable
  PROVE  /\ CapLetter(letter, caps) \in {0, 1, 2, 3, 5} /\ CapLetter(letter, caps) <= letter
         /\ \A e \in caps : CapLetter(letter, caps) <= e.cap
         /\ CapLetter(letter, caps) = letter \/ \E e \in caps : CapLetter(letter, caps) = e.cap
<1> DEFINE S == {letter} \cup {e.cap : e \in caps}
<1>1. \A e \in caps : e.cap \in {0, 2, 3, 5}
  BY LettersAre
<1>2. S \in SUBSET Nat /\ S # {} /\ S \subseteq {0, 1, 2, 3, 5}
  BY <1>1
<1>3. Min(S) \in S /\ \A m \in S : Min(S) <= m
  BY <1>2, MinIs
<1>4. CapLetter(letter, caps) = Min(S)
  BY DEF CapLetter
<1>5. letter \in S /\ \A e \in caps : e.cap \in S
  OBVIOUS
<1>6. Min(S) = letter \/ \E e \in caps : Min(S) = e.cap
  BY <1>3
<1> HIDE DEF S
<1> QED BY <1>2, <1>3, <1>4, <1>5, <1>6

(* More caps never leave a higher letter.                                  *)
LEMMA CapsLower ==
  ASSUME NEW letter \in {0, 1, 2, 3, 5}, NEW caps \in SUBSET CapTable, NEW more \in SUBSET CapTable, caps \subseteq more
  PROVE  CapLetter(letter, more) <= CapLetter(letter, caps)
<1>1. /\ CapLetter(letter, more) \in Nat /\ CapLetter(letter, caps) \in Nat
      /\ CapLetter(letter, more) <= letter /\ \A e \in more : CapLetter(letter, more) <= e.cap
  BY CapIs
<1>2. CapLetter(letter, caps) = letter \/ \E e \in caps : CapLetter(letter, caps) = e.cap
  BY CapIs
<1> QED BY <1>1, <1>2

(* A weakness added to what gradeTLS is handed.                            *)
LEMMA WeakerIsLower ==
  ASSUME NEW g, NEW h, h.versions = g.versions, h.ciphers = g.ciphers, h.key = g.key, h.hsts = g.hsts,
         NEW e \in CapTable, h.weak = g.weak \cup {e.of}
  PROVE  Letter(h) <= Letter(g) /\ Letter(h) < 6
<1> DEFINE base == ScoreToLetter(Score(g))
           cg == CapLetter(base, Caps(g))
           ch == CapLetter(base, Caps(h))
<1>1. Score(h) = Score(g)
  BY DEF Score
<1>2. Caps(g) \in SUBSET CapTable /\ Caps(h) \in SUBSET CapTable /\ Caps(g) \subseteq Caps(h) /\ e \in Caps(h)
  BY DEF Caps, Weaknesses
<1>3. base \in {0, 1, 2, 3, 5}
  BY LettersAre
<1> HIDE DEF base
<1>4. cg \in {0, 1, 2, 3, 5} /\ ch \in {0, 1, 2, 3, 5}
  BY <1>2, <1>3, CapIs
<1>5. ch <= cg
  BY <1>2, <1>3, CapsLower
<1>6. Letter(g) = IF cg # 5 THEN cg ELSE IF "TLS13" \notin g.versions \/ ~g.hsts THEN 4 ELSE IF Caps(g) = {} THEN 6 ELSE 5
  BY DEF Letter, base
<1>7. Letter(h) = IF ch # 5 THEN ch ELSE IF "TLS13" \notin g.versions \/ ~g.hsts THEN 4 ELSE 5
  <2>1. Letter(h) = IF ch # 5 THEN ch ELSE IF "TLS13" \notin h.versions \/ ~h.hsts THEN 4 ELSE IF Caps(h) = {} THEN 6 ELSE 5
    BY <1>1 DEF Letter, base
  <2>2. Caps(h) # {}
    BY <1>2
  <2> QED BY <2>1, <2>2
<1> HIDE DEF cg, ch
<1>8. CASE ch # 5
  BY <1>4, <1>5, <1>6, <1>7, <1>8
<1>9. CASE ch = 5
  <2>1. cg = 5
    BY <1>4, <1>5, <1>9
  <2>2. CASE "TLS13" \notin g.versions \/ ~g.hsts
    BY <1>6, <1>7, <1>9, <2>1, <2>2
  <2>3. CASE ~("TLS13" \notin g.versions \/ ~g.hsts)
    BY <1>6, <1>7, <1>9, <2>1, <2>3
  <2> QED BY <2>2, <2>3
<1> QED BY <1>8, <1>9

(* One weakness more never raises the letter.                              *)
LEMMA GradeFollows == GradeMonotone
<1> SUFFICES ASSUME NEW e \in CapTable
             PROVE  /\ Letter([GradeInput EXCEPT !.weak = @ \cup {e.of}]) <= Letter(GradeInput)
                    /\ Letter([GradeInput EXCEPT !.weak = @ \cup {e.of}]) < 6
  BY DEF GradeMonotone
<1> DEFINE g == GradeInput
           h == [GradeInput EXCEPT !.weak = @ \cup {e.of}]
<1>1. h.versions = g.versions /\ h.ciphers = g.ciphers /\ h.key = g.key /\ h.hsts = g.hsts /\ h.weak = g.weak \cup {e.of}
  BY DEF GradeInput
<1> HIDE DEF g, h
<1>2. Letter(h) <= Letter(g) /\ Letter(h) < 6
  BY <1>1, WeakerIsLower
<1> QED BY <1>2 DEF g, h

(* An A+ leaves no cap.                                                    *)
LEMMA TopIs ==
  ASSUME NEW g, Letter(g) = 6
  PROVE  "TLS13" \in g.versions /\ g.hsts /\ \A e \in CapTable : e.of \notin Weaknesses(g)
<1> DEFINE base == ScoreToLetter(Score(g))
           cg == CapLetter(base, Caps(g))
<1>1. Caps(g) \in SUBSET CapTable
  BY DEF Caps
<1>2. base \in {0, 1, 2, 3, 5}
  BY LettersAre
<1> HIDE DEF base
<1>3. cg \in {0, 1, 2, 3, 5}
  BY <1>1, <1>2, CapIs
<1>4. Letter(g) = IF cg # 5 THEN cg ELSE IF "TLS13" \notin g.versions \/ ~g.hsts THEN 4 ELSE IF Caps(g) = {} THEN 6 ELSE 5
  BY DEF Letter, base
<1> HIDE DEF cg
<1>5. cg = 5
  BY <1>3, <1>4
<1>6. ~("TLS13" \notin g.versions \/ ~g.hsts)
  BY <1>4, <1>5
<1>7. Caps(g) = {}
  BY <1>4, <1>5, <1>6
<1>8. \A e \in CapTable : e.of \notin Weaknesses(g)
  BY <1>7 DEF Caps
<1> QED BY <1>6, <1>8

(* An A+ says that every flaw that caps the grade was overlooked.          *)
LEMMA TopFollows ==
  ASSUME IInv
  PROVE  TopGradeEarned
<1> SUFFICES ASSUME Judged, Letter(GradeInput) = 6
             PROVE
    /\ \A x \in Deprecated \cup (target.flaws \cap {"Heartbleed", "ROBOT", "renegotiation"}) : Overlooked(x)
    /\ target.dh.bits \in 1..2047 => Overlooked("dh")
    /\ \A c \in AllCiphers : ~NamesRC4(c)
    /\ "TLS13" \in target.versions /\ IsForwardSecret(session.cipher)
    /\ target.hsts \notin {"none", "zero"} /\ ~target.cert.weakSignature
  BY DEF TopGradeEarned
<1>1. Live /\ pc = 19 /\ target \in Targets /\ versions \subseteq VersionSet /\ Brought
  BY AtTheEnd DEF IInv, ProbeInv
<1>2. "TLS13" \in GradeInput.versions /\ GradeInput.hsts /\ \A e \in CapTable : e.of \notin Weaknesses(GradeInput)
  BY TopIs
<1>3. /\ GradeInput.versions = versions /\ GradeInput.hsts = HstsValid /\ GradeInput.weak = HandedWeaknesses
      /\ GradeInput.ciphers = AllCiphers
  BY DEF GradeInput
<1>6. \A w \in {"heartbleed", "robot", "renegotiation", "TLS10", "TLS11", "weakDH", "weakSignature", "noFS", "rc4"} :
        w \notin Weaknesses(GradeInput)
  <2>1. \A w \in {"heartbleed", "robot", "renegotiation", "TLS10", "TLS11", "weakDH", "weakSignature", "noFS", "rc4"} :
          \E e \in CapTable : e.of = w
    BY DEF CapTable
  <2> QED BY <1>2, <2>1
<1>7. \A w \in {"heartbleed", "robot", "renegotiation", "weakDH", "weakSignature", "noFS"} : w \notin HandedWeaknesses
  BY <1>3, <1>6 DEF Weaknesses
<1>8. "TLS10" \notin versions /\ "TLS11" \notin versions
  BY <1>3, <1>6 DEF Weaknesses
<1>9. /\ "Heartbleed" \in probed.flags => "heartbleed" \in HandedWeaknesses
      /\ "ROBOT" \in probed.flags => "robot" \in HandedWeaknesses
      /\ "renegotiation" \in probed.flags => "renegotiation" \in HandedWeaknesses
      /\ probed.dh.bits > 0 /\ probed.dh.bits < 2048 => "weakDH" \in HandedWeaknesses
      /\ ~IsForwardSecret(session.cipher) => "noFS" \in HandedWeaknesses
      /\ target.cert.weakSignature => "weakSignature" \in HandedWeaknesses
  BY DEF HandedWeaknesses, Given
<1>10. ASSUME NEW x \in target.flaws \cap {"Heartbleed", "ROBOT", "renegotiation"} PROVE Overlooked(x)
  <2>1. x \notin probed.flags
    BY <1>7, <1>9, <1>10
  <2> QED BY <1>1, <1>10, <2>1 DEF Brought
<1>11. ASSUME target.dh.bits \in 1..2047, ~Overlooked("dh") PROVE FALSE
  <2>1. probed.dh = target.dh
    BY <1>1, <1>11 DEF Brought
  <2>2. PICK b : b = target.dh.bits
    OBVIOUS
  <2>3. b \in 1..2047
    BY <1>11, <2>2
  <2>4. b > 0 /\ b < 2048
    BY <2>3
  <2> QED BY <1>7, <1>9, <2>1, <2>2, <2>4
<1>12. "TLS13" \in target.versions
  BY <1>1, <1>2, <1>3 DEF Brought
<1>13. ASSUME NEW v \in Deprecated PROVE Overlooked(v)
  <2>1. v \in target.versions /\ Pick(v, GoOffer(v)) # "none" /\ v \in {"TLS10", "TLS11"}
    BY <1>1, <1>13, TargetTyped DEF Deprecated, GoVersions, VersionSet
  <2> QED BY <1>1, <1>8, <2>1 DEF Brought
<1>14. \A c \in AllCiphers : ~NamesRC4(c)
  BY <1>3, <1>6 DEF Weaknesses
<1>15. target.hsts \notin {"none", "zero"}
  BY <1>2, <1>3 DEF HstsValid
<1> QED BY <1>7, <1>9, <1>10, <1>11, <1>12, <1>13, <1>14, <1>15

(* What passes the intermediate profile shows nothing it denies.           *)
LEMMA ProfileFollows ==
  ASSUME IInv
  PROVE  ProfileEarned
<1> SUFFICES ASSUME Judged, PassesProfile(Intermediate, versions, enums)
             PROVE  /\ versions # {} /\ \A v \in Deprecated : Overlooked(v)
                    /\ \A v \in versions : Accepted(v) \subseteq {"tls13", "ecdheAead", "dheAead"}
  BY DEF ProfileEarned
<1>1. Live /\ pc = 19 /\ target \in Targets /\ versions \subseteq VersionSet /\ EnumInv /\ Brought
  BY AtTheEnd DEF IInv, ProbeInv
<1>2. Intermediate.floor = "TLS12" /\ Intermediate.tls12 = {"ecdheAead", "dheAead"}
  BY DEF Intermediate
<1>3. \A v \in versions : v = "TLS12" \/ v = "TLS13"
  BY <1>1, <1>2, VersionsAre DEF PassesProfile, VersionSet
<1>4. versions # {}
  BY DEF PassesProfile, Required
<1>5. ASSUME NEW v \in Deprecated PROVE Overlooked(v)
  <2>1. v \in target.versions /\ Pick(v, GoOffer(v)) # "none" /\ v # "TLS12" /\ v # "TLS13"
    BY <1>5 DEF Deprecated, GoVersions
  <2> QED BY <1>1, <1>3, <2>1 DEF Brought
<1>6. ASSUME NEW v \in versions, NEW c \in Accepted(v) PROVE c \in {"tls13", "ecdheAead", "dheAead"}
  <2>1. v \in VersionSet /\ EnumAt(v) < pc
    BY <1>1, EnumAtIs
  <2>2. PICK k \in DOMAIN enums : enums[k].version = v
    BY <1>1, <1>6, <2>1 DEF EnumInv
  <2>3. c \in ToSet(enums[k].ciphers)
    BY <1>1, <2>2 DEF EnumInv, RowSound
  <2>4. (v = "TLS13" => c = "tls13") /\ (v = "TLS12" => c \in {"ecdheAead", "dheAead"})
    BY <1>2, <2>2, <2>3 DEF PassesProfile
  <2> QED BY <1>3, <2>4
<1> QED BY <1>4, <1>5, <1>6

(* The status is the one of the first list that could be fetched.          *)
LEMMA RevocationFollows ==
  ASSUME IInv
  PROVE  RevocationSeen
<1> DEFINE skipped == {"ldap", "down"}
           isFirst(i) == target.points[i] \notin skipped /\ \A j \in 1..(i - 1) : target.points[j] \in skipped
           first == CHOOSE i \in DOMAIN target.points : isFirst(i)
<1> SUFFICES ASSUME Judged, ~(ToSet(target.points) \subseteq skipped)
             PROVE  crl.status = IF target.points[first] = "garbled" THEN "error" ELSE target.points[first]
  BY DEF RevocationSeen
<1>1. Live /\ pc = 19 /\ target \in Targets /\ CrlInv
  BY AtTheEnd DEF IInv
<1> DEFINE n == Len(target.points)
           k == crl.point
<1>2. /\ target.points \in Seq({"ldap", "down", "good", "revoked", "garbled"}) /\ n \in Nat /\ DOMAIN target.points = 1..n
  BY <1>1, TargetTyped
<1>3. k \in 1..(n + 1) /\ \A j \in 1..(k - 1) : target.points[j] \in skipped
  BY <1>1 DEF CrlInv
<1>4. k \in 1..n
  <2>1. PICK i \in 1..n : target.points[i] \notin skipped
    BY <1>2 DEF ToSet
  <2>2. ~(i \in 1..(k - 1))
    BY <1>3, <2>1
  <2> QED BY <1>2, <1>3, <2>2
<1>5. target.points[k] \notin skipped /\ crl.status = StatusOf(target.points[k])
  BY <1>1, <1>2, <1>4 DEF CrlInv
<1>6. isFirst(k)
  BY <1>3, <1>5
<1>7. \A i \in 1..n : isFirst(i) => i = k
  <2> SUFFICES ASSUME NEW i \in 1..n, isFirst(i), i # k PROVE FALSE
    OBVIOUS
  <2>1. i \in 1..(k - 1) \/ k \in 1..(i - 1)
    BY <1>2, <1>4
  <2> QED BY <1>3, <1>5, <2>1
<1> HIDE DEF isFirst
<1>8. first \in 1..n /\ isFirst(first)
  <2>1. \E i \in DOMAIN target.points : isFirst(i)
    BY <1>2, <1>4, <1>6
  <2>2. first \in DOMAIN target.points /\ isFirst(first)
    BY <2>1, Zenon
  <2> HIDE DEF first
  <2> QED BY <1>2, <2>2
<1> HIDE DEF first
<1>9. first = k
  BY <1>7, <1>8
<1>10. target.points[k] \in {"good", "revoked", "garbled"}
  BY <1>2, <1>4, <1>5
<1> QED BY <1>5, <1>9, <1>10 DEF StatusOf

(* Whatever the check concludes (verdict of checkTLS, letter of gradeTLS,  *)
(* Mozilla profiles, revocation status) follows from what its probes saw,  *)
(* the worst of it included.                                               *)
THEOREM TlsJudgementSound == Spec => []JudgementSound
<1>1. IInv => JudgementSound
  BY VerdictFollows, GradeFollows, TopFollows, ProfileFollows, RevocationFollows DEF JudgementSound
<1> QED BY <1>1, TlsInvariant, PTL
===============================================================================
