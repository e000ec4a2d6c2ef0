----------------------------- MODULE HistoryProofs -----------------------------
(***************************************************************************)
(* Proofs about History, for any number of processes, scans and targets    *)
(* and any buffer of the reader.                                           *)
(*                                                                         *)
(* None of the properties is inductive: they speak of what a reader makes  *)
(* of the file, and an append says nothing of that.  The invariant is      *)
(* about the file itself.  A piece is stored once (Once), after the pieces *)
(* before it of its record (Ordered), and only by the scan that is under   *)
(* way (Attributed); and every place where a record breaks off (Tears) is  *)
(* the end of a write(2) that was cut short.                               *)
(***************************************************************************)
EXTENDS History, FiniteSetTheorems, FunctionTheorems, SequenceTheorems, WellFoundedInduction, TLAPS

Holds(piece) == \E p \in 1..Len(file) : file[p] = piece

(* No piece is in the file twice.                                          *)
Once == \A p, q \in 1..Len(file) : file[p] = file[q] => p = q

(* A piece comes after the ones before it of the same record.              *)
Ordered ==
  \A r \in Records : \A i \in {2, 3} : \A q \in 1..Len(file) :
    file[q] = Piece(r, i) => \E p \in 1..Len(file) : p < q /\ file[p] = Piece(r, i - 1)

(* A process that appends does it for its current scan.                    *)
Current ==
  \A w \in Writers :
    writer[w] \in {"open", "write"} => rec[w].w = w /\ rec[w].k = scan[w]

(* Where the pieces in the file come from.                                 *)
Attributed ==
  \A r \in Records : \A i \in 1..3 :
    Holds(Piece(r, i)) =>
      /\ r.k <= scan[r.w]
      /\ r.k = scan[r.w] => writer[r.w] # "open"
      /\ r.k = scan[r.w] /\ writer[r.w] = "write" => r = rec[r.w] /\ i <= done[r.w]

(* What a process has stored of its record is in the file.                 *)
InFile ==
  /\ \A w \in Writers : writer[w] = "write" => \A i \in 1..done[w] : Holds(Piece(rec[w], i))
  /\ \A r \in acked : Holds(Piece(r, 1))

(* The places where a record breaks off.                                   *)
Follows(p) == \E r \in Records : \E i \in {1, 2} : file[p] = Piece(r, i) /\ file[p + 1] = Piece(r, i + 1)
Tears == {p \in 1..Len(file) : ~IsNewline(p) /\ (p = Len(file) \/ ~Follows(p))}

Torn == Cardinality(Tears) <= short

IInv == HistoryTypeOK /\ Once /\ Ordered /\ Current /\ Attributed /\ InFile /\ Torn

-------------------------------------------------------------------------------
(***************************************************************************)
(* What InOrder computes.  The prover has no induction over an operator,   *)
(* so the argument is by a least counterexample.                           *)
(***************************************************************************)

(* The order of the naturals is well-founded.                              *)
LEMMA LessThan == \E R : IsWellFoundedOn(R, Nat) /\ \A x, y \in Nat : <<y, x>> \in R <=> y < x
<1>1. \A x, y \in Nat : <<y, x>> \in OpToRel(<, Nat) <=> y < x
  BY Zenon DEF OpToRel
<1> WITNESS OpToRel(<, Nat)
<1> QED BY <1>1, NatLessThanWellFounded, Zenon

(* A set of naturals has a least element.                                  *)
LEMMA LeastNatural ==
  ASSUME NEW S \in SUBSET Nat, S # {}
  PROVE  \E n \in S : \A m \in S : n <= m
<1>1. PICK R : IsWellFoundedOn(R, Nat) /\ \A x, y \in Nat : <<y, x>> \in R <=> y < x
  BY LessThan
<1>2. PICK n \in S : \A y \in S : ~(<<y, n>> \in R)
  BY <1>1, WFMin
<1>3. \A y \in S : ~(y < n)
  BY <1>1, <1>2
<1>4. \A y \in S : n <= y
  BY <1>3
<1> QED BY <1>4

Sortable(S) == \E s \in [1..Cardinality(S) -> S] : Ascending(s)

(* Sets of positions are finite, and no larger than the file.              *)
LEMMA Positions ==
  ASSUME NEW n \in Nat, NEW S \in SUBSET (1..n)
  PROVE  IsFiniteSet(S) /\ Cardinality(S) \in Nat /\ Cardinality(S) <= n
<1>1. IsFiniteSet(1..n) /\ Cardinality(1..n) = n
  BY FS_Interval
<1>2. IsFiniteSet(S) /\ Cardinality(S) <= n
  BY <1>1, FS_Subset
<1> QED BY <1>2, FS_CardinalityType

(* One position is put behind the ones before it.                          *)
LEMMA SortOneMore ==
  ASSUME NEW n \in Nat, n # 0, NEW S \in SUBSET (1..n), n \in S, Sortable(S \ {n})
  PROVE  Sortable(S)
<1> DEFINE c == Cardinality(S)
           U == S \ {n}
<1>1. IsFiniteSet(S) /\ c \in Nat
  BY Positions
<1>2. Cardinality(U) = c - 1 /\ Cardinality(U) \in Nat
  BY <1>1, FS_RemoveElement, FS_CardinalityType
<1>3. PICK s \in [1..c - 1 -> U] : Ascending(s)
  BY <1>2 DEF Sortable
<1> DEFINE t == [i \in 1..c |-> IF i = c THEN n ELSE s[i]]
<1> HIDE DEF c
<1>4. t \in [1..c -> S]
  BY <1>1, <1>3
<1>5. ASSUME NEW i \in 1..c, NEW j \in 1..c, i < j PROVE t[i] < t[j]
  <2>1. i \in 1..c - 1 /\ t[i] = s[i] /\ s[i] \in U
    BY <1>1, <1>3, <1>5
  <2>2. CASE j = c
    <3>1. t[j] = n
      BY <2>2
    <3>2. s[i] \in 1..n /\ s[i] # n
      BY <2>1
    <3> QED BY <2>1, <3>1, <3>2
  <2>3. CASE j # c
    <3>1. j \in 1..c - 1 /\ t[j] = s[j]
      BY <1>1, <2>3
    <3>2. s[i] < s[j]
      BY <1>3, <1>5, <2>1, <3>1 DEF Ascending
    <3> QED BY <2>1, <3>1, <3>2
  <2> QED BY <2>2, <2>3
<1>6. Ascending(t)
  BY <1>5 DEF Ascending
<1> HIDE DEF t
<1> QED BY <1>4, <1>6 DEF Sortable, c

(* Every set of positions can be put in order.                             *)
LEMMA AllSortable ==
  ASSUME NEW n \in Nat, NEW S \in SUBSET (1..n)
  PROVE  Sortable(S)
<1> DEFINE Bad == {m \in Nat : \E T \in SUBSET (1..m) : ~Sortable(T)}
<1>1. SUFFICES ASSUME Bad # {} PROVE FALSE
  OBVIOUS
<1>2. PICK m \in Bad : \A k \in Bad : m <= k
  BY <1>1, LeastNatural
<1>3. PICK T \in SUBSET (1..m) : ~Sortable(T)
  BY <1>2
<1>4. T # {}
  <2>1. SUFFICES ASSUME T = {} PROVE FALSE
    OBVIOUS
  <2>2. Cardinality(T) = 0
    BY <2>1, FS_EmptySet
  <2>3. [i \in 1..0 |-> i] \in [1..Cardinality(T) -> T]
    BY <2>2
  <2>4. Ascending([i \in 1..0 |-> i])
    BY DEF Ascending
  <2> QED BY <1>3, <2>3, <2>4 DEF Sortable
<1>5. m \in Nat /\ m # 0
  <2>1. m \in Nat
    BY <1>2
  <2>2. m = 0 => 1..m = {}
    OBVIOUS
  <2> QED BY <1>4, <2>1, <2>2
<1>6. m - 1 \in Nat /\ m - 1 \notin Bad
  BY <1>2, <1>5
<1>7. \A U \in SUBSET (1..m - 1) : Sortable(U)
  BY <1>6
<1>8. CASE m \notin T
  <2>1. T \in SUBSET (1..m - 1)
    BY <1>5, <1>8
  <2> QED BY <1>3, <1>7, <2>1
<1>9. CASE m \in T
  <2>1. T \ {m} \in SUBSET (1..m - 1)
    BY <1>5
  <2>2. Sortable(T \ {m})
    BY <1>7, <2>1
  <2> QED BY <1>3, <1>5, <1>9, <2>2, SortOneMore
<1> QED BY <1>8, <1>9

(* InOrder lists every position of a set, once, in the order of the file.  *)
LEMMA InOrderLists ==
  ASSUME NEW n \in Nat, NEW S \in SUBSET (1..n)
  PROVE  /\ InOrder(S) \in [1..Cardinality(S) -> S]
         /\ Len(InOrder(S)) = Cardinality(S)
         /\ InOrder(S) \in Seq(S)
         /\ Ascending(InOrder(S))
         /\ \A p \in S : \E i \in 1..Cardinality(S) : InOrder(S)[i] = p
<1> DEFINE c == Cardinality(S)
           s == InOrder(S)
<1>1. IsFiniteSet(S) /\ c \in Nat
  BY Positions
<1>2. s \in [1..c -> S] /\ Ascending(s)
  BY AllSortable DEF Sortable, InOrder
<1>3. \A i, j \in 1..c : s[i] = s[j] => i = j
  <2>1. SUFFICES ASSUME NEW i \in 1..c, NEW j \in 1..c, s[i] = s[j], i # j PROVE FALSE
    OBVIOUS
  <2>2. s[i] \in 1..n /\ s[j] \in 1..n
    BY <1>2
  <2>3. i < j \/ j < i
    BY <1>1, <2>1
  <2>4. s[i] < s[j] \/ s[j] < s[i]
    BY <1>2, <2>3 DEF Ascending
  <2> QED BY <2>1, <2>2, <2>4
<1>4. IsFiniteSet(1..c) /\ Cardinality(1..c) = c
  BY <1>1, FS_Interval
<1> HIDE DEF c, s
<1>5. s \in Injection(1..c, S)
  BY <1>2, <1>3, Fun_IsInj
<1>6. s \in Surjection(1..c, S)
  BY <1>1, <1>4, <1>5, FS_Injection DEF c
<1>7. \A p \in S : \E i \in 1..c : s[i] = p
  BY <1>6 DEF Surjection
<1>8. Len(s) = c /\ s \in Seq(S)
  BY <1>1, <1>2
<1> QED BY <1>2, <1>7, <1>8 DEF c, s

-------------------------------------------------------------------------------
(***************************************************************************)
(* Pieces.                                                                 *)
(***************************************************************************)

(* A piece says which record it is of, and which part.                     *)
LEMMA PieceFacts ==
  /\ \A r : \A i \in 1..3 : /\ Piece(r, i).rec = r
                            /\ Piece(r, i).part = "open" <=> i = 1
                            /\ Piece(r, i).part = "newline" <=> i = 3
  /\ \A r, t : \A i, j \in 1..3 : Piece(r, i) = Piece(t, j) => r = t /\ i = j
  /\ \A r \in Records : \A i \in 1..3 : Piece(r, i) \in Pieces
  /\ \A x \in Pieces : x.rec \in Records /\ \E i \in 1..3 : x = Piece(x.rec, i)
<1>1. \A i \in 1..3 : i = 1 \/ i = 2 \/ i = 3
  OBVIOUS
<1>2. Parts[1] = "open" /\ Parts[2] = "close" /\ Parts[3] = "newline"
  BY DEF Parts
<1>3. \A i, j \in 1..3 : Parts[i] = Parts[j] => i = j
  BY <1>1, <1>2
<1>4. \A r : \A i \in 1..3 : Piece(r, i).rec = r /\ Piece(r, i).part = Parts[i]
  BY DEF Piece
<1>5. \A r : \A i \in 1..3 : (Piece(r, i).part = "open" <=> i = 1) /\ (Piece(r, i).part = "newline" <=> i = 3)
  BY <1>1, <1>2, <1>4
<1>6. \A r, t : \A i, j \in 1..3 : Piece(r, i) = Piece(t, j) => r = t /\ i = j
  <2>1. SUFFICES ASSUME NEW r, NEW t, NEW i \in 1..3, NEW j \in 1..3, Piece(r, i) = Piece(t, j)
                 PROVE  r = t /\ i = j
    OBVIOUS
  <2>2. r = t /\ Parts[i] = Parts[j]
    BY <1>4, <2>1
  <2> QED BY <1>3, <2>2
<1>7. \A r \in Records : \A i \in 1..3 : Piece(r, i) \in Pieces
  BY DEF Piece, Pieces
<1>8. \A x \in Pieces : x.rec \in Records /\ \E i \in 1..3 : x = Piece(x.rec, i)
  BY DEF Piece, Pieces
<1> QED BY <1>4, <1>5, <1>6, <1>7, <1>8

(* What one write(2) does to the file.                                     *)
Appends(w, u) ==
  /\ Len(file') = Len(file) + (u - done[w])
  /\ \A p \in 1..Len(file) : file'[p] = file[p]
  /\ \A i \in 1..u - done[w] : file'[Len(file) + i] = Piece(rec[w], done[w] + i)
  /\ \A p \in 1..Len(file') : p \in 1..Len(file) \/ \E i \in 1..u - done[w] : p = Len(file) + i

LEMMA AppendFacts ==
  ASSUME HistoryTypeOK, NEW w \in Writers, NEW u \in done[w] + 1..3, file' = file \o Stored(w, u)
  PROVE  file' \in Seq(Pieces) /\ Appends(w, u)
<1> DEFINE st == Stored(w, u)
           d == done[w]
<1>1. d \in 0..3 /\ u \in 1..3 /\ u - d \in Nat
  BY DEF HistoryTypeOK
<1>2. \A i \in 1..u - d : d + i \in 1..3 /\ Piece(rec[w], d + i) \in Pieces
  BY <1>1, PieceFacts DEF HistoryTypeOK
<1>3. st \in Seq(Pieces) /\ Len(st) = u - d /\ \A i \in 1..u - d : st[i] = Piece(rec[w], d + i)
  <2>1. st = [i \in 1..u - d |-> Piece(rec[w], d + i)]
    BY DEF Stored
  <2>2. st \in [1..u - d -> Pieces]
    BY <1>2, <2>1
  <2> QED BY <1>1, <2>1, <2>2
<1>4. file \in Seq(Pieces)
  BY DEF HistoryTypeOK
<1> HIDE DEF st, d
<1>5. /\ file' \in Seq(Pieces)
      /\ Len(file') = Len(file) + (u - d)
      /\ \A p \in 1..Len(file) + (u - d) : file'[p] = IF p <= Len(file) THEN file[p] ELSE st[p - Len(file)]
  BY <1>3, <1>4, ConcatProperties DEF st
<1>6. \A p \in 1..Len(file) : file'[p] = file[p]
  BY <1>1, <1>4, <1>5
<1>7. ASSUME NEW i \in 1..u - d PROVE file'[Len(file) + i] = Piece(rec[w], d + i)
  <2>1. Len(file) + i \in 1..Len(file) + (u - d) /\ ~(Len(file) + i <= Len(file))
    BY <1>1, <1>4
  <2>2. file'[Len(file) + i] = st[(Len(file) + i) - Len(file)]
    BY <1>5, <2>1
  <2>3. (Len(file) + i) - Len(file) = i
    BY <1>4
  <2> QED BY <1>3, <2>2, <2>3
<1>8. ASSUME NEW p \in 1..Len(file'), p \notin 1..Len(file)
      PROVE  \E i \in 1..u - d : p = Len(file) + i
  <2>1. p - Len(file) \in 1..u - d /\ p = Len(file) + (p - Len(file))
    BY <1>1, <1>4, <1>5, <1>8
  <2> QED BY <2>1
<1> QED BY <1>5, <1>6, <1>7, <1>8 DEF Appends, d

-------------------------------------------------------------------------------
(***************************************************************************)
(* A write(2) preserves the parts of the invariant, one lemma each.        *)
(***************************************************************************)
Writes(w, u) ==
  /\ writer[w] = "write"
  /\ u \in done[w] + 1..3
  /\ file' \in Seq(Pieces) /\ Appends(w, u)
  /\ done' = [done EXCEPT ![w] = u]
  /\ IF u = 3 THEN /\ acked' = acked \cup {rec[w]}
                   /\ writer' = [writer EXCEPT ![w] = "idle"]
                   /\ short' = short
              ELSE short' = short + 1 /\ acked' = acked /\ writer' = writer
  /\ scan' = scan /\ rec' = rec

HoldsNext(piece) == \E p \in 1..Len(file') : file'[p] = piece

(* What is stored is new.                                                  *)
LEMMA StoresNew ==
  ASSUME IInv, NEW w \in Writers, NEW u, Writes(w, u), NEW i \in 1..u - done[w]
  PROVE  /\ done[w] + i \in 1..3
         /\ ~Holds(Piece(rec[w], done[w] + i))
<1>1. done[w] \in 0..3 /\ u \in 1..3 /\ done[w] + i \in 1..3 /\ rec[w] \in Records /\ ~(done[w] + i <= done[w])
  BY DEF IInv, HistoryTypeOK, Writes
<1>2. rec[w].w = w /\ rec[w].k = scan[w] /\ writer[w] = "write"
  BY DEF IInv, Current, Writes
<1> QED BY <1>1, <1>2 DEF IInv, Attributed

LEMMA WriteOnce ==
  ASSUME IInv, NEW w \in Writers, NEW u, Writes(w, u)
  PROVE  Once'
<1>1. SUFFICES ASSUME NEW p \in 1..Len(file'), NEW q \in 1..Len(file'), file'[p] = file'[q] PROVE p = q
  BY DEF Once
<1>2. Appends(w, u) /\ done[w] \in 0..3 /\ u \in 1..3 /\ Len(file) \in Nat
  BY DEF IInv, HistoryTypeOK, Writes
<1>3. ASSUME NEW a \in 1..Len(file), NEW i \in 1..u - done[w] PROVE file'[a] # file'[Len(file) + i]
  <2>1. file'[a] = file[a] /\ file'[Len(file) + i] = Piece(rec[w], done[w] + i)
    BY <1>2 DEF Appends
  <2>2. file[a] # Piece(rec[w], done[w] + i)
    BY StoresNew DEF Holds
  <2> QED BY <2>1, <2>2
<1>4. CASE p \in 1..Len(file) /\ q \in 1..Len(file)
  BY <1>1, <1>2, <1>4 DEF IInv, Once, Appends
<1>5. CASE p \in 1..Len(file) /\ \E i \in 1..u - done[w] : q = Len(file) + i
  BY <1>1, <1>3, <1>5
<1>6. CASE q \in 1..Len(file) /\ \E i \in 1..u - done[w] : p = Len(file) + i
  BY <1>1, <1>3, <1>6
<1>7. ASSUME NEW i \in 1..u - done[w], NEW j \in 1..u - done[w], p = Len(file) + i, q = Len(file) + j
      PROVE  p = q
  <2>1. Piece(rec[w], done[w] + i) = Piece(rec[w], done[w] + j)
    BY <1>1, <1>2, <1>7 DEF Appends
  <2>2. done[w] + i \in 1..3 /\ done[w] + j \in 1..3
    BY <1>2
  <2>3. done[w] + i = done[w] + j
    BY <2>1, <2>2, PieceFacts
  <2> QED BY <1>2, <1>7, <2>3
<1> QED BY <1>2, <1>4, <1>5, <1>6, <1>7 DEF Appends

LEMMA WriteOrdered ==
  ASSUME IInv, NEW w \in Writers, NEW u, Writes(w, u)
  PROVE  Ordered'
<1>1. SUFFICES ASSUME NEW r \in Records, NEW i \in {2, 3}, NEW q \in 1..Len(file'), file'[q] = Piece(r, i)
               PROVE  \E p \in 1..Len(file') : p < q /\ file'[p] = Piece(r, i - 1)
  BY DEF Ordered
<1>2. Appends(w, u) /\ done[w] \in 0..3 /\ u \in 1..3 /\ Len(file) \in Nat /\ u - done[w] \in Nat
  BY DEF IInv, HistoryTypeOK, Writes
<1>3. \A p \in 1..Len(file) : p \in 1..Len(file')
  BY <1>2 DEF Appends
<1>4. CASE q \in 1..Len(file)
  <2>1. file[q] = Piece(r, i)
    BY <1>1, <1>2, <1>4 DEF Appends
  <2>2. PICK p \in 1..Len(file) : p < q /\ file[p] = Piece(r, i - 1)
    BY <1>4, <2>1 DEF IInv, Ordered
  <2>3. file'[p] = file[p]
    BY <1>2 DEF Appends
  <2> QED BY <1>3, <2>2, <2>3
<1>5. ASSUME NEW j \in 1..u - done[w], q = Len(file) + j
      PROVE  \E p \in 1..Len(file') : p < q /\ file'[p] = Piece(r, i - 1)
  <2>1. Piece(r, i) = Piece(rec[w], done[w] + j)
    BY <1>1, <1>2, <1>5 DEF Appends
  <2>2. r = rec[w] /\ i = done[w] + j
    <3>1. i \in 1..3 /\ done[w] + j \in 1..3
      BY <1>2
    <3> QED BY <2>1, <3>1, PieceFacts
  <2>3. CASE j = 1
    <3>1. i - 1 = done[w] /\ i - 1 \in 1..done[w]
      <4>1. i = done[w] + 1
        BY <2>2, <2>3
      <4>2. \A d \in 0..3 : i = d + 1 => i - 1 = d /\ i - 1 \in 1..d
        OBVIOUS
      <4>3. done[w] \in 0..3
        BY <1>2
      <4> QED BY <4>1, <4>2, <4>3
    <3>2. PICK p \in 1..Len(file) : file[p] = Piece(r, i - 1)
      BY <2>2, <3>1 DEF IInv, InFile, Holds, Writes
    <3>3. file'[p] = file[p] /\ p < q
      BY <1>2, <1>5 DEF Appends
    <3> QED BY <1>3, <3>2, <3>3
  <2>4. CASE j # 1
    <3>1. j - 1 \in 1..u - done[w] /\ Len(file) + (j - 1) \in 1..Len(file') /\ Len(file) + (j - 1) < q
      BY <1>2, <1>5, <2>4 DEF Appends
    <3>2. file'[Len(file) + (j - 1)] = Piece(rec[w], done[w] + (j - 1))
      BY <1>2, <3>1 DEF Appends
    <3>3. done[w] + (j - 1) = i - 1
      BY <1>2, <2>2
    <3> QED BY <2>2, <3>1, <3>2, <3>3
  <2> QED BY <2>3, <2>4
<1> QED BY <1>2, <1>4, <1>5 DEF Appends

(* A piece in the file after the write was there, or is one of those.      *)
LEMMA WriteHolds ==
  ASSUME IInv, NEW w \in Writers, NEW u, Writes(w, u)
  PROVE  /\ \A x : Holds(x) => HoldsNext(x)
         /\ \A i \in 1..u - done[w] : HoldsNext(Piece(rec[w], done[w] + i))
         /\ \A x : HoldsNext(x) => Holds(x) \/ \E i \in 1..u - done[w] : x = Piece(rec[w], done[w] + i)
<1>1. Appends(w, u) /\ done[w] \in 0..3 /\ u \in 1..3 /\ Len(file) \in Nat /\ u - done[w] \in Nat
  BY DEF IInv, HistoryTypeOK, Writes
<1>2. \A p \in 1..Len(file) : p \in 1..Len(file') /\ file'[p] = file[p]
  BY <1>1 DEF Appends
<1>3. \A i \in 1..u - done[w] : /\ Len(file) + i \in 1..Len(file')
                                /\ file'[Len(file) + i] = Piece(rec[w], done[w] + i)
  BY <1>1 DEF Appends
<1>4. \A x : Holds(x) => \E p \in 1..Len(file') : file'[p] = x
  BY <1>2 DEF Holds
<1>5. \A x : (\E p \in 1..Len(file') : file'[p] = x) => Holds(x) \/ \E i \in 1..u - done[w] : x = Piece(rec[w], done[w] + i)
  BY <1>1, <1>2, <1>3 DEF Holds, Appends
<1> QED BY <1>3, <1>4, <1>5 DEF HoldsNext

LEMMA WriteAttributed ==
  ASSUME IInv, NEW w \in Writers, NEW u, Writes(w, u)
  PROVE  Attributed'
<1>1. SUFFICES ASSUME NEW r \in Records, NEW i \in 1..3, HoldsNext(Piece(r, i))
               PROVE  /\ r.k <= scan[r.w]
                      /\ r.k = scan[r.w] => writer'[r.w] # "open"
                      /\ r.k = scan[r.w] /\ writer'[r.w] = "write" => r = rec[r.w] /\ i <= done'[r.w]
  BY DEF Attributed, Holds, HoldsNext, Writes
<1>2. /\ done[w] \in 0..3 /\ u \in 1..3 /\ done[w] < u /\ rec[w] \in Records /\ r.w \in Writers
      /\ writer \in [Writers -> {"idle", "open", "write", "dead"}] /\ done \in [Writers -> 0..3]
  BY DEF IInv, HistoryTypeOK, Writes, Records
<1>3. rec[w].w = w /\ rec[w].k = scan[w] /\ writer[w] = "write" /\ scan[w] \in 0..Scans /\ Scans \in Nat
  BY ScansAssumption DEF IInv, HistoryTypeOK, Current, Writes
<1>4. /\ \A v \in Writers : v # w => writer'[v] = writer[v] /\ done'[v] = done[v]
      /\ writer'[w] \in {"idle", "write"} /\ done'[w] = u
  BY <1>2, <1>3 DEF Writes
<1>5. CASE Holds(Piece(r, i))
  <2>1. /\ r.k <= scan[r.w]
        /\ r.k = scan[r.w] => writer[r.w] # "open"
        /\ r.k = scan[r.w] /\ writer[r.w] = "write" => r = rec[r.w] /\ i <= done[r.w]
    BY <1>5 DEF IInv, Attributed
  <2>2. CASE r.w = w
    BY <1>2, <1>3, <1>4, <2>1, <2>2
  <2>3. CASE r.w # w
    BY <1>2, <1>4, <2>1, <2>3
  <2> QED BY <2>2, <2>3
<1>6. ASSUME NEW j \in 1..u - done[w], Piece(r, i) = Piece(rec[w], done[w] + j)
      PROVE  /\ r.k <= scan[r.w]
             /\ r.k = scan[r.w] => writer'[r.w] # "open"
             /\ r.k = scan[r.w] /\ writer'[r.w] = "write" => r = rec[r.w] /\ i <= done'[r.w]
  <2>1. done[w] + j \in 1..3 /\ done[w] + j <= u
    BY <1>2
  <2>2. r = rec[w] /\ i = done[w] + j
    BY <1>6, <2>1, PieceFacts
  <2>3. r.w = w /\ r.k = scan[w]
    BY <1>3, <2>2
  <2> QED BY <1>3, <1>4, <2>1, <2>2, <2>3
<1> QED BY <1>1, <1>5, <1>6, WriteHolds

LEMMA WriteInFile ==
  ASSUME IInv, NEW w \in Writers, NEW u, Writes(w, u)
  PROVE  InFile'
<1>1. /\ done[w] \in 0..3 /\ u \in 1..3 /\ done[w] < u /\ rec' = rec /\ writer[w] = "write"
      /\ writer \in [Writers -> {"idle", "open", "write", "dead"}] /\ done \in [Writers -> 0..3]
  BY DEF IInv, HistoryTypeOK, Writes
<1>2. ASSUME NEW i \in 1..u PROVE HoldsNext(Piece(rec[w], i))
  <2>1. CASE i <= done[w]
    <3>1. Holds(Piece(rec[w], i))
      BY <1>1, <2>1 DEF IInv, InFile
    <3> QED BY <3>1, WriteHolds
  <2>2. CASE ~(i <= done[w])
    <3>1. i - done[w] \in 1..u - done[w] /\ done[w] + (i - done[w]) = i
      BY <1>1, <2>2
    <3>2. HoldsNext(Piece(rec[w], done[w] + (i - done[w])))
      BY <3>1, WriteHolds
    <3> QED BY <3>1, <3>2
  <2> QED BY <2>1, <2>2
<1>3. ASSUME NEW v \in Writers, writer'[v] = "write", NEW i \in 1..done'[v] PROVE HoldsNext(Piece(rec[v], i))
  <2>1. CASE v = w
    BY <1>1, <1>2, <1>3, <2>1 DEF Writes
  <2>2. CASE v # w
    <3>1. writer[v] = "write" /\ i \in 1..done[v]
      BY <1>1, <1>3, <2>2 DEF Writes
    <3>2. Holds(Piece(rec[v], i))
      BY <3>1 DEF IInv, InFile
    <3> QED BY <3>2, WriteHolds
  <2> QED BY <2>1, <2>2
<1>4. ASSUME NEW r \in acked' PROVE HoldsNext(Piece(r, 1))
  <2>1. r \in acked \/ r = rec[w]
    BY <1>4 DEF Writes
  <2>2. CASE r \in acked
    BY <2>2, WriteHolds DEF IInv, InFile
  <2>3. CASE r = rec[w]
    BY <1>1, <1>2, <2>3
  <2> QED BY <2>1, <2>2, <2>3
<1> QED BY <1>1, <1>3, <1>4 DEF InFile, Holds, HoldsNext

(* No place but the end of the write is a new tear, and that one only when *)
(* the write was cut short.                                                *)
LEMMA WriteTears ==
  ASSUME IInv, NEW w \in Writers, NEW u, Writes(w, u)
  PROVE  Tears' \subseteq Tears \cup (IF u = 3 THEN {} ELSE {Len(file')})
<1>1. SUFFICES ASSUME NEW p \in 1..Len(file'), ~IsNewline(p)', p = Len(file') \/ ~Follows(p)'
               PROVE  p \in Tears \/ (u # 3 /\ p = Len(file'))
  BY DEF Tears
<1>2. /\ Appends(w, u) /\ done[w] \in 0..3 /\ u \in 1..3 /\ Len(file) \in Nat /\ u - done[w] \in Nat
      /\ u - done[w] >= 1 /\ rec[w] \in Records
  BY DEF IInv, HistoryTypeOK, Writes
<1>3. CASE p \in 1..Len(file)
  <2>1. file'[p] = file[p] /\ ~IsNewline(p) /\ p # Len(file')
    BY <1>1, <1>2, <1>3 DEF Appends, IsNewline
  <2>2. ASSUME p # Len(file) PROVE ~Follows(p)
    <3>1. p + 1 \in 1..Len(file)
      BY <1>2, <1>3, <2>2
    <3>2. file'[p + 1] = file[p + 1]
      BY <1>2, <3>1 DEF Appends
    <3> QED BY <1>1, <2>1, <3>2 DEF Follows
  <2> QED BY <1>3, <2>1, <2>2 DEF Tears
<1>4. ASSUME NEW i \in 1..u - done[w], p = Len(file) + i PROVE u # 3 /\ p = Len(file')
  <2>1. file'[p] = Piece(rec[w], done[w] + i) /\ done[w] + i \in 1..3 /\ done[w] + i <= u
    <3>1. file'[p] = Piece(rec[w], done[w] + i)
      BY <1>2, <1>4 DEF Appends
    <3>2. done[w] + i \in 1..3 /\ done[w] + i <= u
      BY <1>2
    <3> QED BY <3>1, <3>2
  <2>2. done[w] + i # 3
    BY <1>1, <2>1, PieceFacts DEF IsNewline
  <2>3. ASSUME i # u - done[w] PROVE FALSE
    <3>1. i + 1 \in 1..u - done[w] /\ Len(file) + (i + 1) = p + 1 /\ done[w] + (i + 1) = (done[w] + i) + 1
      BY <1>2, <1>4, <2>3
    <3>2. file'[p + 1] = Piece(rec[w], (done[w] + i) + 1)
      BY <1>2, <3>1 DEF Appends
    <3>3. done[w] + i \in {1, 2} /\ p # Len(file')
      BY <1>2, <1>4, <2>1, <2>2, <2>3 DEF Appends
    <3>4. Follows(p)'
      BY <1>2, <2>1, <3>2, <3>3 DEF Follows
    <3> QED BY <1>1, <3>3, <3>4
  <2>4. done[w] + i = u /\ p = Len(file')
    BY <1>2, <1>4, <2>3 DEF Appends
  <2> QED BY <2>2, <2>4
<1> QED BY <1>2, <1>3, <1>4 DEF Appends

LEMMA WriteTorn ==
  ASSUME IInv, NEW w \in Writers, NEW u, Writes(w, u)
  PROVE  Torn'
<1>1. Len(file) \in Nat /\ Tears \in SUBSET (1..Len(file)) /\ short \in Nat
  BY DEF IInv, HistoryTypeOK, Tears
<1>2. IsFiniteSet(Tears) /\ Cardinality(Tears) \in Nat /\ Cardinality(Tears) <= short
  BY <1>1, Positions DEF IInv, Torn
<1>3. CASE u = 3
  <2>1. Tears' \in SUBSET Tears
    BY <1>3, WriteTears
  <2>2. IsFiniteSet(Tears') /\ Cardinality(Tears') <= Cardinality(Tears)
    BY <1>2, <2>1, FS_Subset
  <2>3. Cardinality(Tears') \in Nat /\ short' = short
    BY <1>3, <2>2, FS_CardinalityType DEF Writes
  <2> QED BY <1>1, <1>2, <2>2, <2>3 DEF Torn
<1>4. CASE u # 3
  <2> DEFINE more == Tears \cup {Len(file')}
  <2>1. Tears' \in SUBSET more
    BY <1>4, WriteTears
  <2>2. IsFiniteSet(more) /\ Cardinality(more) <= Cardinality(Tears) + 1
    <3>1. /\ IsFiniteSet(more)
          /\ Cardinality(more) = IF Len(file') \in Tears THEN Cardinality(Tears) ELSE Cardinality(Tears) + 1
      BY <1>2, FS_AddElement
    <3> QED BY <1>2, <3>1
  <2>3. Cardinality(more) \in Nat
    BY <2>2, FS_CardinalityType
  <2> HIDE DEF more
  <2>4. IsFiniteSet(Tears') /\ Cardinality(Tears') <= Cardinality(more)
    BY <2>1, <2>2, FS_Subset
  <2>5. Cardinality(Tears') \in Nat /\ short' = short + 1
    BY <1>4, <2>4, FS_CardinalityType DEF Writes
  <2> QED BY <1>1, <1>2, <2>2, <2>3, <2>4, <2>5 DEF Torn
<1> QED BY <1>3, <1>4

-------------------------------------------------------------------------------
(***************************************************************************)
(* The actions, one lemma each.                                            *)
(***************************************************************************)

(* Nothing stored: what speaks of the file alone is kept.                  *)
LEMMA SameFile ==
  ASSUME IInv, file' = file, short' = short
  PROVE  Once' /\ Ordered' /\ Torn'
<1>1. Once' /\ Ordered'
  BY DEF IInv, Once, Ordered
<1>2. \A p : IsNewline(p)' <=> IsNewline(p)
  BY DEF IsNewline
<1>3. \A p : Follows(p)' <=> Follows(p)
  BY DEF Follows
<1>4. Tears' = Tears
  BY <1>2, <1>3 DEF Tears
<1>5. Torn'
  BY <1>4 DEF IInv, Torn
<1> QED BY <1>1, <1>5

LEMMA InitIInv == ASSUME HistoryInit PROVE IInv
<1>1. Tears = {}
  BY DEF HistoryInit, Tears
<1>2. HistoryTypeOK
  BY ScansAssumption DEF HistoryInit, HistoryTypeOK
<1>3. Once /\ Ordered /\ Current /\ Attributed /\ InFile
  BY DEF HistoryInit, Once, Ordered, Current, Attributed, InFile, Holds
<1>4. Torn
  BY <1>1, FS_EmptySet DEF HistoryInit, Torn
<1> QED BY <1>2, <1>3, <1>4 DEF IInv

LEMMA MarshalKeeps ==
  ASSUME IInv, NEW w \in Writers, Marshal(w)
  PROVE  IInv'
<1>1. PICK h \in Hosts : rec' = [rec EXCEPT ![w] = [w |-> w, k |-> scan[w] + 1, host |-> h]]
  BY DEF Marshal
<1>2. /\ writer[w] = "idle" /\ scan[w] < Scans /\ file' = file /\ done' = done /\ acked' = acked /\ short' = short
      /\ scan' = [scan EXCEPT ![w] = scan[w] + 1] /\ writer' = [writer EXCEPT ![w] = "open"]
  BY DEF Marshal
<1>3. /\ scan \in [Writers -> 0..Scans] /\ Scans \in Nat /\ rec \in [Writers -> Records]
      /\ writer \in [Writers -> {"idle", "open", "write", "dead"}]
  BY ScansAssumption DEF IInv, HistoryTypeOK
<1>4. [w |-> w, k |-> scan[w] + 1, host |-> h] \in Records
  BY <1>2, <1>3 DEF Records
<1>5. HistoryTypeOK'
  BY <1>1, <1>2, <1>3, <1>4 DEF IInv, HistoryTypeOK
<1>6. /\ scan'[w] = scan[w] + 1 /\ writer'[w] = "open" /\ rec'[w] = [w |-> w, k |-> scan[w] + 1, host |-> h]
      /\ \A v \in Writers : v # w => scan'[v] = scan[v] /\ writer'[v] = writer[v] /\ rec'[v] = rec[v]
  BY <1>1, <1>2, <1>3
<1>7. Once' /\ Ordered' /\ Torn'
  BY <1>2, SameFile
<1>8. Current'
  BY <1>6 DEF IInv, Current
<1>9. Attributed'
  <2>1. SUFFICES ASSUME NEW r \in Records, NEW i \in 1..3, Holds(Piece(r, i))
                 PROVE  /\ r.k <= scan'[r.w]
                        /\ r.k = scan'[r.w] => writer'[r.w] # "open"
                        /\ r.k = scan'[r.w] /\ writer'[r.w] = "write" => r = rec'[r.w] /\ i <= done[r.w]
    BY <1>2 DEF Attributed, Holds
  <2>2. /\ r.k <= scan[r.w]
        /\ r.k = scan[r.w] => writer[r.w] # "open"
        /\ r.k = scan[r.w] /\ writer[r.w] = "write" => r = rec[r.w] /\ i <= done[r.w]
    BY <2>1 DEF IInv, Attributed
  <2>3. r.w \in Writers /\ r.k \in Nat /\ scan[r.w] \in Nat
    BY <1>3 DEF Records
  <2>4. CASE r.w = w
    BY <1>6, <2>2, <2>3, <2>4
  <2>5. CASE r.w # w
    BY <1>6, <2>2, <2>3, <2>5
  <2> QED BY <2>4, <2>5
<1>10. InFile'
  <2>1. ASSUME NEW v \in Writers, writer'[v] = "write", NEW i \in 1..done[v] PROVE Holds(Piece(rec'[v], i))
    <3>1. v # w /\ writer[v] = "write" /\ rec'[v] = rec[v]
      BY <1>6, <2>1
    <3> QED BY <3>1 DEF IInv, InFile
  <2>2. \A r \in acked : Holds(Piece(r, 1))
    BY DEF IInv, InFile
  <2> QED BY <1>2, <2>1, <2>2 DEF InFile, Holds
<1> QED BY <1>5, <1>7, <1>8, <1>9, <1>10 DEF IInv

(* Open, WriteFails and Kill only move a process on.                       *)
MovesOn(w) ==
  /\ writer[w] # "idle" \/ writer'[w] = "dead"
  /\ writer' \in [Writers -> {"idle", "open", "write", "dead"}]
  /\ \A v \in Writers : v # w => writer'[v] = writer[v] /\ done'[v] = done[v]
  /\ \/ writer'[w] \in {"idle", "dead"} /\ done'[w] \in 0..3
     \/ writer[w] = "open" /\ writer'[w] = "write" /\ done'[w] = 0
  /\ done' \in [Writers -> 0..3]
  /\ file' = file /\ scan' = scan /\ rec' = rec /\ acked' = acked /\ short' = short

LEMMA MovesOnKeeps ==
  ASSUME IInv, NEW w \in Writers, MovesOn(w)
  PROVE  IInv'
<1>1. HistoryTypeOK'
  BY DEF IInv, HistoryTypeOK, MovesOn
<1>2. Once' /\ Ordered' /\ Torn'
  BY SameFile DEF MovesOn
<1>3. Current'
  BY DEF IInv, Current, MovesOn
<1>4. Attributed'
  <2>1. SUFFICES ASSUME NEW r \in Records, NEW i \in 1..3, Holds(Piece(r, i))
                 PROVE  /\ r.k <= scan[r.w]
                        /\ r.k = scan[r.w] => writer'[r.w] # "open"
                        /\ r.k = scan[r.w] /\ writer'[r.w] = "write" => r = rec[r.w] /\ i <= done'[r.w]
    BY DEF Attributed, Holds, MovesOn
  <2>2. /\ r.k <= scan[r.w]
        /\ r.k = scan[r.w] => writer[r.w] # "open"
        /\ r.k = scan[r.w] /\ writer[r.w] = "write" => r = rec[r.w] /\ i <= done[r.w]
    BY <2>1 DEF IInv, Attributed
  <2>3. r.w \in Writers
    BY DEF Records
  <2>4. CASE r.w = w
    BY <2>2, <2>3, <2>4 DEF MovesOn
  <2>5. CASE r.w # w
    BY <2>2, <2>3, <2>5 DEF MovesOn
  <2> QED BY <2>4, <2>5
<1>5. InFile'
  <2>1. ASSUME NEW v \in Writers, writer'[v] = "write", NEW i \in 1..done'[v] PROVE Holds(Piece(rec[v], i))
    <3>1. CASE v = w
      BY <2>1, <3>1 DEF MovesOn
    <3>2. CASE v # w
      BY <2>1, <3>2 DEF MovesOn, IInv, InFile
    <3> QED BY <3>1, <3>2
  <2>2. \A r \in acked : Holds(Piece(r, 1))
    BY DEF IInv, InFile
  <2> QED BY <2>1, <2>2 DEF InFile, Holds, MovesOn
<1> QED BY <1>1, <1>2, <1>3, <1>4, <1>5 DEF IInv

LEMMA OpenKeeps ==
  ASSUME IInv, NEW w \in Writers, Open(w)
  PROVE  IInv'
<1>1. PICK ok \in BOOLEAN : writer' = [writer EXCEPT ![w] = IF ok THEN "write" ELSE "idle"]
  BY DEF Open
<1>2. writer'[w] \in {"write", "idle"} /\ writer' \in [Writers -> {"idle", "open", "write", "dead"}]
  BY <1>1 DEF IInv, HistoryTypeOK
<1>3. MovesOn(w)
  BY <1>1, <1>2 DEF MovesOn, Open, IInv, HistoryTypeOK
<1> QED BY <1>3, MovesOnKeeps

LEMMA WriteFailsKeeps ==
  ASSUME IInv, NEW w \in Writers, WriteFails(w)
  PROVE  IInv'
<1>1. MovesOn(w)
  BY DEF MovesOn, WriteFails, IInv, HistoryTypeOK
<1> QED BY <1>1, MovesOnKeeps

LEMMA KillKeeps ==
  ASSUME IInv, NEW w \in Writers, Kill(w)
  PROVE  IInv'
<1>1. MovesOn(w)
  BY DEF MovesOn, Kill, IInv, HistoryTypeOK
<1> QED BY <1>1, MovesOnKeeps

LEMMA WriteWrites ==
  ASSUME IInv, NEW w \in Writers, Write(w)
  PROVE  \E u : Writes(w, u)
<1>1. PICK u \in done[w] + 1..3 :
         /\ file' = file \o Stored(w, u)
         /\ done' = [done EXCEPT ![w] = u]
         /\ IF u = 3 THEN /\ acked' = acked \cup {rec[w]}
                          /\ writer' = [writer EXCEPT ![w] = "idle"]
                          /\ UNCHANGED short
                     ELSE short' = short + 1 /\ UNCHANGED <<acked, writer>>
  BY DEF Write
<1>2. file' \in Seq(Pieces) /\ Appends(w, u)
  BY <1>1, AppendFacts DEF IInv
<1>3. writer[w] = "write" /\ scan' = scan /\ rec' = rec
  BY DEF Write
<1> QED BY <1>1, <1>2, <1>3 DEF Writes

LEMMA WriteKeeps ==
  ASSUME IInv, NEW w \in Writers, Write(w)
  PROVE  IInv'
<1>1. PICK u : Writes(w, u)
  BY WriteWrites
<1>2. HistoryTypeOK'
  <2>1. done[w] \in 0..3 /\ u \in 0..3
    BY <1>1 DEF IInv, HistoryTypeOK, Writes
  <2>2. CASE u = 3
    BY <1>1, <2>1, <2>2 DEF IInv, HistoryTypeOK, Writes
  <2>3. CASE u # 3
    BY <1>1, <2>1, <2>3 DEF IInv, HistoryTypeOK, Writes
  <2> QED BY <2>2, <2>3
<1>3. Current'
  <2>1. \A v \in Writers : writer'[v] = writer[v] \/ writer'[v] = "idle"
    BY <1>1 DEF IInv, HistoryTypeOK, Writes
  <2> QED BY <1>1, <2>1 DEF IInv, Current, Writes
<1>4. Once' /\ Ordered' /\ Attributed' /\ InFile' /\ Torn'
  BY <1>1, WriteOnce, WriteOrdered, WriteAttributed, WriteInFile, WriteTorn
<1> QED BY <1>2, <1>3, <1>4 DEF IInv

LEMMA NextIInv == ASSUME IInv, [HistoryNext]_historyVars PROVE IInv'
<1>1. CASE UNCHANGED historyVars
  <2>1. Once' /\ Ordered' /\ Torn'
    BY <1>1, SameFile DEF historyVars
  <2>2. HistoryTypeOK' /\ Current' /\ Attributed' /\ InFile'
    BY <1>1 DEF historyVars, IInv, HistoryTypeOK, Current, Attributed, InFile, Holds
  <2> QED BY <2>1, <2>2 DEF IInv
<1>2. ASSUME NEW w \in Writers, Marshal(w) \/ Open(w) \/ Write(w) \/ WriteFails(w) \/ Kill(w)
      PROVE  IInv'
  BY <1>2, MarshalKeeps, OpenKeeps, WriteKeeps, WriteFailsKeeps, KillKeeps
<1> QED BY <1>1, <1>2 DEF HistoryNext

LEMMA Inductive == HistorySpec => []IInv
BY InitIInv, NextIInv, PTL DEF HistorySpec

-------------------------------------------------------------------------------
(***************************************************************************)
(* What readHistory makes of the file.                                     *)
(***************************************************************************)

(* The lines kept, in the order of the file.                               *)
LEMMA MatchingFacts ==
  ASSUME HistoryTypeOK, NEW target
  PROVE  /\ Len(Matching(target)) \in Nat /\ Len(Matching(target)) <= Len(file)
         /\ Matching(target) \in Seq(Hits(target))
         /\ Ascending(Matching(target)) /\ DOMAIN Matching(target) = 1..Len(Matching(target))
         /\ \A p \in Hits(target) : \E i \in 1..Len(Matching(target)) : Matching(target)[i] = p
<1>1. Len(file) \in Nat /\ Hits(target) \in SUBSET (1..Len(file))
  BY DEF HistoryTypeOK, Hits
<1>2. Cardinality(Hits(target)) \in Nat /\ Cardinality(Hits(target)) <= Len(file)
  BY <1>1, Positions
<1>3. /\ InOrder(Hits(target)) \in [1..Cardinality(Hits(target)) -> Hits(target)]
      /\ Len(InOrder(Hits(target))) = Cardinality(Hits(target))
      /\ InOrder(Hits(target)) \in Seq(Hits(target))
      /\ Ascending(InOrder(Hits(target)))
      /\ \A p \in Hits(target) : \E i \in 1..Cardinality(Hits(target)) : InOrder(Hits(target))[i] = p
  BY <1>1, InOrderLists
<1> QED BY <1>2, <1>3 DEF Matching

LEMMA LengthOf ==
  ASSUME NEW n \in Nat, NEW S, NEW f \in [1..n -> S]
  PROVE  f \in Seq(S) /\ Len(f) = n
OBVIOUS

(* A read of more records than there are lines drops none.                 *)
LEMMA FullRead ==
  ASSUME HistoryTypeOK, NEW target, ~ScanFails
  PROVE  /\ ReadHistory(target, Len(file) + 1)
              = [i \in 1..Len(Matching(target)) |-> file[Matching(target)[i]].rec]
         /\ Len(ReadHistory(target, Len(file) + 1)) = Len(Matching(target))
<1>1. Len(file) \in Nat /\ ~(Len(file) + 1 <= 0)
  BY DEF HistoryTypeOK
<1>2. ~(Len(Matching(target)) > Len(file) + 1)
  BY <1>1, MatchingFacts
<1> DEFINE s == Matching(target)
           shown == [i \in 1..Len(s) |-> file[s[i]].rec]
<1>3. ReadHistory(target, Len(file) + 1) = shown
  BY <1>1, <1>2 DEF ReadHistory, LastN
<1>4. Len(s) \in Nat /\ s \in Seq(Hits(target))
  BY MatchingFacts
<1>5. ASSUME NEW i \in 1..Len(s) PROVE file[s[i]].rec \in Records
  <2>1. s[i] \in Hits(target)
    BY <1>4
  <2>2. s[i] \in 1..Len(file)
    BY <2>1 DEF Hits
  <2>3. file[s[i]] \in Pieces
    BY <2>2 DEF HistoryTypeOK
  <2> QED BY <2>3, PieceFacts
<1>6. shown \in [1..Len(s) -> Records]
  BY <1>5
<1> HIDE DEF shown, s
<1>7. Len(shown) = Len(s)
  BY <1>4, <1>6, LengthOf
<1> QED BY <1>3, <1>7 DEF shown, s

LEMMA FailedRead ==
  ASSUME ScanFails, NEW target, NEW n
  PROVE  Len(ReadHistory(target, n)) = 0
<1> DEFINE shown == [i \in 1..0 |-> file[<<>>[i]].rec]
<1>1. ReadHistory(target, n) = shown
  BY DEF ReadHistory
<1>2. shown \in [1..0 -> {}]
  OBVIOUS
<1> HIDE DEF shown
<1>3. Len(shown) = 0
  BY <1>2, LengthOf
<1> QED BY <1>1, <1>3

(* All that can be shown is the records of the lines that parse.           *)
LEMMA AllShown ==
  HistoryTypeOK => All = IF ScanFails THEN {} ELSE {file[p].rec : p \in {q \in 1..Len(file) : Parses(q)}}
<1> SUFFICES ASSUME HistoryTypeOK
             PROVE  All = IF ScanFails THEN {} ELSE {file[p].rec : p \in {q \in 1..Len(file) : Parses(q)}}
  OBVIOUS
<1>1. CASE ScanFails
  <2> DEFINE shown == ReadHistory(NoTarget, Len(file) + 1)
  <2>2. Len(shown) = 0
    BY <1>1, FailedRead
  <2> HIDE DEF shown
  <2>3. {shown[i] : i \in 1..Len(shown)} = {}
    BY <2>2
  <2> QED BY <1>1, <2>3 DEF All, Shown, shown
<1>2. CASE ~ScanFails
  <2> DEFINE shown == ReadHistory(NoTarget, Len(file) + 1)
             s == Matching(NoTarget)
             Whole == {q \in 1..Len(file) : Parses(q)}
  <2>1. Len(s) \in Nat /\ s \in Seq(Hits(NoTarget)) /\ \A p \in Hits(NoTarget) : \E i \in 1..Len(s) : s[i] = p
    BY MatchingFacts
  <2>2. shown = [i \in 1..Len(s) |-> file[s[i]].rec] /\ Len(shown) = Len(s)
    BY <1>2, FullRead
  <2>3. Hits(NoTarget) = Whole
    <3>1. \A p \in 1..Len(file) : Scanned(p)
      BY <1>2 DEF ScanFails, Scanned
    <3> QED BY <3>1 DEF Hits, Selects
  <2> HIDE DEF shown, s, Whole
  <2>4. Len(shown) = Len(s) /\ \A i \in 1..Len(s) : shown[i] = file[s[i]].rec
    BY <2>1, <2>2
  <2>5. \A i \in 1..Len(s) : s[i] \in Whole
    BY <2>1, <2>3
  <2>6. {shown[i] : i \in 1..Len(shown)} = {file[p].rec : p \in Whole}
    BY <2>1, <2>3, <2>4, <2>5
  <2>7. All = {shown[i] : i \in 1..Len(shown)}
    BY DEF All, Shown, shown
  <2> QED BY <1>2, <2>6, <2>7 DEF Whole
<1> QED BY <1>1, <1>2

(* A line that parses holds the two parts of the JSON of one record.       *)
LEMMA ParsedLine ==
  ASSUME HistoryTypeOK, NEW p \in 1..Len(file), Parses(p)
  PROVE  /\ file[p].rec \in Records
         /\ file[p] = Piece(file[p].rec, 1)
         /\ p + 1 \in 1..Len(file)
         /\ file[p + 1] = Piece(file[p].rec, 2)
<1>1. Len(file) \in Nat /\ file[p] \in Pieces
  BY DEF HistoryTypeOK
<1>2. PICK i \in 1..3 : file[p] = Piece(file[p].rec, i)
  BY <1>1, PieceFacts
<1>3. i = 1 /\ file[p].rec \in Records
  BY <1>1, <1>2, PieceFacts DEF Parses
<1>4. p + 1 \in 1..Len(file) /\ file[p + 1] = Piece(file[p].rec, 2)
  BY <1>1 DEF Parses
<1> QED BY <1>2, <1>3, <1>4

LEMMA InventsNothing == ASSUME IInv PROVE NothingInvented
<1> DEFINE shown == ReadHistory(NoTarget, Len(file) + 1)
           s == Matching(NoTarget)
<1>1. HistoryTypeOK
  BY DEF IInv
<1>2. \A i, j \in 1..Len(shown) : i # j => shown[i] # shown[j]
  <2>1. CASE ScanFails
    <3>1. Len(shown) = 0
      BY <2>1, FailedRead
    <3> HIDE DEF shown
    <3> QED BY <3>1
  <2>2. CASE ~ScanFails
    <3>1. /\ Len(s) \in Nat /\ s \in Seq(Hits(NoTarget)) /\ Ascending(s) /\ DOMAIN s = 1..Len(s)
      BY <1>1, MatchingFacts
    <3>2. shown = [i \in 1..Len(s) |-> file[s[i]].rec] /\ Len(shown) = Len(s)
      BY <1>1, <2>2, FullRead
    <3> HIDE DEF shown, s
    <3>4. SUFFICES ASSUME NEW i \in 1..Len(s), NEW j \in 1..Len(s), i # j, shown[i] = shown[j] PROVE FALSE
      BY <3>2
    <3>5. s[i] \in Hits(NoTarget) /\ s[j] \in Hits(NoTarget) /\ file[s[i]].rec = file[s[j]].rec
      BY <3>1, <3>2, <3>4
    <3>6. s[i] \in 1..Len(file) /\ s[j] \in 1..Len(file) /\ Parses(s[i]) /\ Parses(s[j])
      BY <3>5 DEF Hits
    <3>7. file[s[i]] = file[s[j]]
      <4>1. file[s[i]] = Piece(file[s[i]].rec, 1)
        BY <1>1, <3>6, ParsedLine
      <4>2. file[s[j]] = Piece(file[s[j]].rec, 1)
        BY <1>1, <3>6, ParsedLine
      <4> QED BY <3>5, <4>1, <4>2
    <3>8. s[i] = s[j]
      BY <3>6, <3>7 DEF IInv, Once
    <3>9. s[i] < s[j] \/ s[j] < s[i]
      BY <3>1, <3>4 DEF Ascending
    <3> QED BY <1>1, <3>6, <3>8, <3>9 DEF HistoryTypeOK
  <2> QED BY <2>1, <2>2
<1>3. ASSUME NEW r \in All PROVE \A i \in 1..2 : \E p \in 1..Len(file) : file[p] = Piece(r, i)
  <2>1. PICK p \in 1..Len(file) : Parses(p) /\ r = file[p].rec
    BY <1>1, <1>3, AllShown
  <2>2. file[p] = Piece(r, 1) /\ p + 1 \in 1..Len(file) /\ file[p + 1] = Piece(r, 2)
    BY <1>1, <2>1, ParsedLine
  <2>3. \A i \in 1..2 : i = 1 \/ i = 2
    OBVIOUS
  <2> QED BY <2>2, <2>3
<1> QED BY <1>2, <1>3 DEF NothingInvented

LEMMA HidesNothing == ASSUME IInv PROVE NothingHidden
BY AllShown DEF IInv, NothingHidden

LEMMA ShowsNewest == ASSUME IInv PROVE NewestShown
<1>1. SUFFICES ASSUME NEW h \in Hosts, Len(ReadHistory(h, Len(file) + 1)) > 0
               PROVE  ReadHistory(h, 1) = <<ReadHistory(h, Len(file) + 1)[Len(ReadHistory(h, Len(file) + 1))]>>
  BY DEF NewestShown
<1> DEFINE all == ReadHistory(h, Len(file) + 1)
           s == Matching(h)
<1>2. ~ScanFails
  <2>1. SUFFICES ASSUME ScanFails PROVE Len(all) = 0
    BY <1>1
  <2> QED BY <2>1, FailedRead
<1>3. Len(s) \in Nat /\ s \in Seq(Hits(h))
  BY MatchingFacts DEF IInv
<1>4. all = [i \in 1..Len(s) |-> file[s[i]].rec] /\ Len(all) = Len(s)
  BY <1>2, FullRead DEF IInv
<1>5. LastN(s, 1) \in Seq(Hits(h)) /\ Len(LastN(s, 1)) = 1 /\ LastN(s, 1)[1] = s[Len(s)]
  <2> HIDE DEF all, s
  <2>1. Len(s) > 0
    BY <1>1, <1>3, <1>4 DEF all
  <2>2. CASE Len(s) > 1
    <3>1. LastN(s, 1) = SubSeq(s, Len(s), Len(s))
      <4>1. Len(s) - 1 + 1 = Len(s)
        BY <1>3
      <4> QED BY <2>2, <4>1 DEF LastN
    <3>2. Len(s) \in Int /\ \A i \in Len(s)..Len(s) : s[i] \in Hits(h)
      BY <1>3, <2>1
    <3>3. /\ SubSeq(s, Len(s), Len(s)) \in Seq(Hits(h))
          /\ Len(SubSeq(s, Len(s), Len(s))) = IF Len(s) <= Len(s) THEN Len(s) - Len(s) + 1 ELSE 0
          /\ \A i \in 1..Len(s) - Len(s) + 1 : SubSeq(s, Len(s), Len(s))[i] = s[Len(s) + i - 1]
      BY <1>3, <3>2, SubSeqProperties
    <3>4. Len(s) - Len(s) + 1 = 1 /\ Len(s) + 1 - 1 = Len(s) /\ 1 \in 1..1
      BY <1>3
    <3>5. SubSeq(s, Len(s), Len(s))[1] = s[Len(s) + 1 - 1]
      BY <3>3, <3>4
    <3>6. Len(SubSeq(s, Len(s), Len(s))) = 1
      BY <1>3, <3>3, <3>4
    <3> QED BY <3>1, <3>3, <3>4, <3>5, <3>6
  <2>3. CASE ~(Len(s) > 1)
    <3>1. Len(s) = 1
      <4>1. \A n \in Nat : n > 0 /\ ~(n > 1) => n = 1
        OBVIOUS
      <4> QED BY <1>3, <2>1, <2>3, <4>1
    <3>2. LastN(s, 1) = s
      BY <2>3 DEF LastN
    <3> QED BY <1>3, <3>1, <3>2
  <2> QED BY <2>2, <2>3
<1>6. ReadHistory(h, 1) = [i \in 1..Len(LastN(s, 1)) |-> file[LastN(s, 1)[i]].rec]
  BY <1>2 DEF ReadHistory
<1> HIDE DEF all, s
<1>7. Len(all) = Len(s) /\ Len(s) \in 1..Len(s)
  BY <1>1, <1>3, <1>4 DEF all
<1>8. all[Len(all)] = file[s[Len(s)]].rec
  BY <1>4, <1>7
<1>9. ReadHistory(h, 1) = [i \in 1..1 |-> all[Len(all)]]
  BY <1>5, <1>6, <1>8
<1> QED BY <1>9 DEF all

(* Whatever short writes, failures, interleavings and deaths did to the    *)
(* file, readHistory shows exactly the records the file holds whole: none  *)
(* invented, none twice, none hidden, and --history 1 the newest.          *)
THEOREM ReaderIsExact == HistorySpec => []ReaderExact
<1>1. IInv => ReaderExact
  BY InventsNothing, HidesNothing, ShowsNewest DEF IInv, ReaderExact
<1> QED BY <1>1, Inductive, PTL

-------------------------------------------------------------------------------
(***************************************************************************)
(* What a short write costs.                                               *)
(***************************************************************************)

(* An acknowledged record that is not shown is next to a tear: it breaks   *)
(* off there, or it begins behind one.                                     *)
LEMMA LostAtTear ==
  ASSUME IInv, ~ScanFails, NEW r \in acked \ All
  PROVE  \E t \in Tears : r = file[t].rec \/ (t < Len(file) /\ r = file[t + 1].rec)
<1>1. HistoryTypeOK /\ Len(file) \in Nat /\ r \in Records
  BY DEF IInv, HistoryTypeOK
<1>2. PICK p \in 1..Len(file) : file[p] = Piece(r, 1)
  BY DEF IInv, InFile, Holds
<1>3. file[p].rec = r /\ file[p].part = "open" /\ ~IsNewline(p)
  BY <1>2, PieceFacts DEF IsNewline
<1>4. ~Parses(p)
  BY <1>1, <1>3, AllShown
<1>5. CASE ~(p + 1 <= Len(file))
  <2>1. p = Len(file)
    BY <1>1, <1>5
  <2>2. p \in Tears
    BY <1>3, <2>1 DEF Tears
  <2> QED BY <1>3, <2>2
<1>6. CASE p + 1 <= Len(file) /\ file[p + 1] # Piece(r, 2)
  <2>1. ~Follows(p)
    <3>1. SUFFICES ASSUME NEW q \in Records, NEW i \in {1, 2}, file[p] = Piece(q, i), file[p + 1] = Piece(q, i + 1)
                   PROVE  FALSE
      BY DEF Follows
    <3>2. q = r /\ i = 1
      <4>1. i \in 1..3 /\ 1 \in 1..3 /\ Piece(q, i) = Piece(r, 1)
        BY <1>2, <3>1
      <4> QED BY <4>1, PieceFacts
    <3>3. file[p + 1] = Piece(r, 2)
      BY <3>1, <3>2
    <3> QED BY <1>6, <3>3
  <2>2. p \in Tears
    BY <1>3, <2>1 DEF Tears
  <2> QED BY <1>3, <2>2
<1>7. CASE p # 1 /\ ~IsNewline(p - 1)
  <2>1. p - 1 \in 1..Len(file) /\ p - 1 < Len(file) /\ (p - 1) + 1 = p
    BY <1>1, <1>7
  <2>2. ~Follows(p - 1)
    <3>1. SUFFICES ASSUME NEW q \in Records, NEW i \in {1, 2}, file[p] = Piece(q, i + 1) PROVE FALSE
      BY <2>1 DEF Follows
    <3>2. i + 1 \in 1..3 /\ 1 \in 1..3 /\ i + 1 # 1
      OBVIOUS
    <3> QED BY <1>2, <3>1, <3>2, PieceFacts
  <2>3. p - 1 \in Tears
    BY <1>7, <2>1, <2>2 DEF Tears
  <2>4. r = file[(p - 1) + 1].rec
    BY <1>3, <2>1
  <2> QED BY <2>1, <2>3, <2>4
<1>8. CASE p + 1 <= Len(file) /\ file[p + 1] = Piece(r, 2) /\ p + 1 # Len(file) /\ ~IsNewline(p + 2)
  <2>1. p + 1 \in 1..Len(file) /\ (p + 1) + 1 = p + 2
    BY <1>1, <1>8
  <2>2. ~IsNewline(p + 1) /\ file[p + 1].rec = r
    BY <1>8, PieceFacts DEF IsNewline
  <2>3. ~Follows(p + 1)
    <3>1. SUFFICES ASSUME NEW q \in Records, NEW i \in {1, 2},
                          file[p + 1] = Piece(q, i), file[p + 2] = Piece(q, i + 1)
                   PROVE  FALSE
      BY <2>1 DEF Follows
    <3>2. i = 2
      <4>1. i \in 1..3 /\ 2 \in 1..3 /\ Piece(q, i) = Piece(r, 2)
        BY <1>8, <3>1
      <4> QED BY <4>1, PieceFacts
    <3>3. file[p + 2] = Piece(q, 3)
      BY <3>1, <3>2
    <3>4. IsNewline(p + 2)
      BY <3>3, PieceFacts DEF IsNewline
    <3> QED BY <1>8, <3>4
  <2>4. p + 1 \in Tears
    BY <2>1, <2>2, <2>3 DEF Tears
  <2> QED BY <2>2, <2>4
<1>9. \/ ~(p + 1 <= Len(file))
      \/ p + 1 <= Len(file) /\ file[p + 1] # Piece(r, 2)
      \/ p # 1 /\ ~IsNewline(p - 1)
      \/ p + 1 <= Len(file) /\ file[p + 1] = Piece(r, 2) /\ p + 1 # Len(file) /\ ~IsNewline(p + 2)
  BY <1>3, <1>4 DEF Parses
<1> QED BY <1>5, <1>6, <1>7, <1>8, <1>9

(* A function has at most as many values as arguments.                     *)
LEMMA RangeBound ==
  ASSUME NEW S, IsFiniteSet(S), NEW f, DOMAIN f = S, f = [x \in S |-> f[x]]
  PROVE  IsFiniteSet(Range(f)) /\ Cardinality(Range(f)) \in Nat /\ Cardinality(Range(f)) <= Cardinality(S)
<1>1. f \in Surjection(S, Range(f))
  BY DEF Surjection, Range
<1>2. IsFiniteSet(Range(f)) /\ Cardinality(Range(f)) <= Cardinality(S)
  BY <1>1, FS_Surjection
<1> QED BY <1>2, FS_CardinalityType

LEMMA BoundsDamage == ASSUME IInv PROVE DamageBounded
<1> SUFFICES ASSUME ~ScanFails PROVE Cardinality(acked \ All) <= 2 * short
  BY DEF DamageBounded
<1> DEFINE f == [t \in Tears |-> file[t].rec]
           g == [t \in Tears |-> IF t < Len(file) THEN file[t + 1].rec ELSE file[t].rec]
           A == Range(f)
           B == Range(g)
<1>1. Len(file) \in Nat /\ Tears \in SUBSET (1..Len(file)) /\ short \in Nat
  BY DEF IInv, HistoryTypeOK, Tears
<1>2. IsFiniteSet(Tears) /\ Cardinality(Tears) \in Nat /\ Cardinality(Tears) <= short
  BY <1>1, Positions DEF IInv, Torn
<1>3. IsFiniteSet(A) /\ Cardinality(A) \in Nat /\ Cardinality(A) <= Cardinality(Tears)
  BY <1>2, RangeBound
<1>4. IsFiniteSet(B) /\ Cardinality(B) \in Nat /\ Cardinality(B) <= Cardinality(Tears)
  BY <1>2, RangeBound
<1>5. acked \ All \subseteq A \cup B
  <2>1. SUFFICES ASSUME NEW r \in acked \ All PROVE r \in A \cup B
    OBVIOUS
  <2>2. PICK t \in Tears : r = file[t].rec \/ (t < Len(file) /\ r = file[t + 1].rec)
    BY LostAtTear
  <2>3. r = f[t] \/ r = g[t]
    BY <2>2
  <2> QED BY <2>2, <2>3 DEF Range
<1> HIDE DEF A, B
<1>6. IsFiniteSet(A \cup B) /\ Cardinality(A \cup B) = Cardinality(A) + Cardinality(B) - Cardinality(A \cap B)
  BY <1>3, <1>4, FS_Union
<1>7. Cardinality(A \cap B) \in Nat
  BY <1>3, FS_Intersection, FS_CardinalityType
<1>8. IsFiniteSet(acked \ All) /\ Cardinality(acked \ All) <= Cardinality(A \cup B)
  BY <1>5, <1>6, FS_Subset
<1>9. Cardinality(acked \ All) \in Nat
  BY <1>8, FS_CardinalityType
<1> QED BY <1>1, <1>2, <1>3, <1>4, <1>6, <1>7, <1>8, <1>9

(* However the appends of processes without a lock interleave and wherever *)
(* they die, a write(2) that is cut short costs at most two acknowledged   *)
(* scans, and complete writes cost none.                                   *)
THEOREM DamageIsBounded == HistorySpec => []DamageBounded
BY BoundsDamage, Inductive, PTL

-------------------------------------------------------------------------------
(***************************************************************************)
(* Appending takes nothing away.                                           *)
(***************************************************************************)
Grows == Len(file) <= Len(file') /\ \A p \in 1..Len(file) : file'[p] = file[p]

LEMMA StepGrows == ASSUME IInv, [HistoryNext]_historyVars PROVE Grows
<1>1. Len(file) \in Nat
  BY DEF IInv, HistoryTypeOK
<1>2. CASE file' = file
  BY <1>1, <1>2 DEF Grows
<1>3. ASSUME NEW w \in Writers, Write(w) PROVE Grows
  <2>1. PICK u : Writes(w, u)
    BY <1>3, WriteWrites
  <2>2. Appends(w, u) /\ done[w] \in 0..3 /\ u \in done[w] + 1..3
    BY <2>1 DEF Writes, IInv, HistoryTypeOK
  <2> QED BY <1>1, <2>2 DEF Appends, Grows
<1>4. ASSUME NEW w \in Writers, Marshal(w) \/ Open(w) \/ WriteFails(w) \/ Kill(w) PROVE file' = file
  BY <1>4 DEF Marshal, Open, WriteFails, Kill
<1> QED BY <1>2, <1>3, <1>4 DEF HistoryNext, historyVars

(* A line that has ended stays what it is.                                 *)
LEMMA EndedStays ==
  ASSUME IInv, Grows, NEW p \in 1..Len(file), Parses(p), p + 1 # Len(file), file' \in Seq(Pieces)
  PROVE  p \in 1..Len(file') /\ Parses(p)' /\ file'[p] = file[p]
<1>1. Len(file) \in Nat /\ Len(file') \in Nat /\ Len(file) <= Len(file')
  BY DEF IInv, HistoryTypeOK, Grows
<1>2. p + 1 \in 1..Len(file) /\ p + 2 \in 1..Len(file) /\ p \in 1..Len(file')
  BY <1>1 DEF Parses
<1>3. file'[p] = file[p] /\ file'[p + 1] = file[p + 1] /\ file'[p + 2] = file[p + 2]
  BY <1>2 DEF Grows
<1>4. p = 1 \/ file'[p - 1] = file[p - 1]
  BY <1>1 DEF Grows
<1>5. p + 1 <= Len(file')
  BY <1>1, <1>2
<1> QED BY <1>2, <1>3, <1>4, <1>5 DEF Parses, IsNewline

(* AllShown, of the state after a step.                                    *)
LEMMA AllShownNext ==
  (HistoryTypeOK => All = IF ScanFails THEN {} ELSE {file[p].rec : p \in {q \in 1..Len(file) : Parses(q)}})'
<1>1. HistoryTypeOK => All = IF ScanFails THEN {} ELSE {file[p].rec : p \in {q \in 1..Len(file) : Parses(q)}}
  BY AllShown
<1> QED BY <1>1, PTL

LEMMA KeepsEnded ==
  ASSUME IInv, [HistoryNext]_historyVars, NEW r \in EndedRecords, ~ScanFails'
  PROVE  r \in All'
<1>1. HistoryTypeOK /\ Once /\ Ordered /\ Len(file) \in Nat
  BY DEF IInv, HistoryTypeOK
<1>2. HistoryTypeOK' /\ file' \in Seq(Pieces)
  BY NextIInv DEF IInv, HistoryTypeOK
<1>3. r \in All /\ \E q \in 1..Len(file) : file[q] = Piece(r, 3)
  BY DEF EndedRecords
<1>4. PICK q \in 1..Len(file) : file[q] = Piece(r, 3)
  BY <1>3
<1>5. PICK p \in 1..Len(file) : Parses(p) /\ r = file[p].rec
  BY <1>1, <1>3, AllShown
<1>6. r \in Records /\ p + 1 \in 1..Len(file) /\ file[p + 1] = Piece(r, 2)
  BY <1>1, <1>5, ParsedLine
<1>7. PICK e \in 1..Len(file) : e < q /\ file[e] = Piece(r, 2)
  <2>1. 3 - 1 = 2
    OBVIOUS
  <2>2. \E e \in 1..Len(file) : e < q /\ file[e] = Piece(r, 3 - 1)
    BY <1>1, <1>4, <1>6 DEF Ordered
  <2> QED BY <2>1, <2>2
<1>8. e = p + 1
  BY <1>1, <1>6, <1>7 DEF Once
<1>9. p + 1 # Len(file)
  BY <1>1, <1>7, <1>8
<1>10. p \in 1..Len(file') /\ Parses(p)' /\ file'[p] = file[p]
  BY <1>2, <1>5, <1>9, EndedStays, StepGrows
<1>11. All' = {file'[x].rec : x \in {y \in 1..Len(file') : Parses(y)'}}
  BY <1>2, AllShownNext
<1> QED BY <1>5, <1>10, <1>11

(* A record whose line has ended is shown by every later read that does    *)
(* not fail.                                                               *)
THEOREM HistoryOnlyGrows == HistorySpec => HistoryGrows
<1>1. IInv /\ [HistoryNext]_historyVars => [EndedRecords \subseteq All' \/ ScanFails']_historyVars
  BY KeepsEnded
<1> QED BY <1>1, Inductive, PTL DEF HistorySpec, HistoryGrows
===============================================================================
