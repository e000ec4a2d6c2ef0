-------------------------------- MODULE History --------------------------------
(***************************************************************************)
(* The scan history, ~/.netdoc/history.jsonl: netdoc processes that share  *)
(* nothing but the file append one line of JSON per scan, without a lock,  *)
(* and a reader shows the last n records of a target.                      *)
(*                                                                         *)
(* os.File.Write issues write(2), which is atomic among appenders, but may *)
(* store only a part of the buffer (a full disk, a quota, a signal); it    *)
(* then issues another one for the rest, which may fail.  A process may be *)
(* killed between any two steps.                                           *)
(***************************************************************************)
EXTENDS Integers, Sequences, FiniteSets

CONSTANTS Writers,        \* the processes that append
          Scans,          \* the number of scans of each (bound)
          Hosts,          \* the targets they scan
          MaxLine         \* the parts of records that fit the reader's buffer (16 MiB)

ASSUME WritersAssumption == IsFiniteSet(Writers)
ASSUME ScansAssumption == Scans \in Nat \ {0}
ASSUME MaxLineAssumption == MaxLine \in Nat /\ MaxLine >= 2

(* A record is [w |-> its process, k |-> its scan, host |-> its target].   *)
Records == [w : Writers, k : 1..Scans, host : Hosts]

(* What the file holds of a record: the first part of its JSON, the rest   *)
(* of it, and the newline.  A write may stop after any of them.            *)
Parts == <<"open", "close", "newline">>

Piece(r, i) == [rec |-> r, part |-> Parts[i]]
Pieces == [rec : Records, part : {Parts[i] : i \in 1..3}]

VARIABLES
  file,        \* the contents: a sequence of pieces
  writer,      \* [Writers -> "idle", "open", "write", "dead"]
  scan,        \* [Writers -> the scans it has begun to append]
  rec,         \* [Writers -> the record it is appending]
  done,        \* [Writers -> how many parts of rec it has stored]
  acked,       \* the records whose appendHistory returned nil
  short        \* the number of write(2) calls that stored only a part

historyVars == <<file, writer, scan, rec, done, acked, short>>

HistoryInit ==
  /\ file = <<>>
  /\ writer = [w \in Writers |-> "idle"]
  /\ scan = [w \in Writers |-> 0]
  /\ rec \in {f \in [Writers -> Records] : \A w \in Writers : f[w].w = w /\ f[w].k = 1}
  /\ done = [w \in Writers |-> 0]
  /\ acked = {}
  /\ short = 0

-------------------------------------------------------------------------------
(* appendHistory: the record is marshalled with its newline.               *)
Marshal(w) ==
  /\ writer[w] = "idle" /\ scan[w] < Scans
  /\ scan' = [scan EXCEPT ![w] = @ + 1]
  /\ \E h \in Hosts : rec' = [rec EXCEPT ![w] = [w |-> w, k |-> scan[w] + 1, host |-> h]]
  /\ writer' = [writer EXCEPT ![w] = "open"]
  /\ UNCHANGED <<file, done, acked, short>>

(* historyPath or OpenFile may fail; the caller drops the error.           *)
Open(w) ==
  /\ writer[w] = "open"
  /\ \E ok \in BOOLEAN : writer' = [writer EXCEPT ![w] = IF ok THEN "write" ELSE "idle"]
  /\ done' = [done EXCEPT ![w] = 0]
  /\ UNCHANGED <<file, scan, rec, acked, short>>

Stored(w, upto) == [i \in 1..upto - done[w] |-> Piece(rec[w], done[w] + i)]

(* Mutant: the file is opened without O_APPEND and truncated.              *)
MutWrite(w) ==
  /\ writer[w] = "write"
  /\ file' = Stored(w, 3)
  /\ acked' = acked \cup {rec[w]}
  /\ writer' = [writer EXCEPT ![w] = "idle"]
  /\ UNCHANGED <<scan, rec, done, short>>

(* Mutant: the count of what is stored is added twice.                     *)
MutCount(w) ==
  /\ writer[w] = "write"
  /\ \E upto \in done[w] + 1 .. 3 :
       /\ file' = file \o Stored(w, upto)
       /\ done' = [done EXCEPT ![w] = @ + upto]
       /\ writer' = [writer EXCEPT ![w] = IF upto = 3 THEN "idle" ELSE "write"]
  /\ UNCHANGED <<scan, rec, acked, short>>

(* One write(2) at the end of the file: all that is left, or a part of it. *)
Write(w) ==
  /\ writer[w] = "write"
  /\ \E upto \in done[w] + 1 .. 3 :
       /\ file' = file \o Stored(w, upto)
       /\ done' = [done EXCEPT ![w] = upto]
       /\ IF upto = 3
          THEN /\ acked' = acked \cup {rec[w]}
               /\ writer' = [writer EXCEPT ![w] = "idle"]
               /\ UNCHANGED short
          ELSE /\ short' = short + 1
               /\ UNCHANGED <<acked, writer>>
  /\ UNCHANGED <<scan, rec>>

(* The write fails: what it stored before stays in the file.               *)
WriteFails(w) ==
  /\ writer[w] = "write"
  /\ writer' = [writer EXCEPT ![w] = "idle"]
  /\ UNCHANGED <<file, scan, rec, done, acked, short>>

Kill(w) ==
  /\ writer[w] # "dead"
  /\ writer' = [writer EXCEPT ![w] = "dead"]
  /\ UNCHANGED <<file, scan, rec, done, acked, short>>

Settled == \A w \in Writers : writer[w] = "dead" \/ (writer[w] = "idle" /\ scan[w] = Scans)

HistoryNext ==
  \/ \E w \in Writers : Marshal(w) \/ Open(w) \/ Write(w) \/ WriteFails(w) \/ Kill(w)
  \/ Settled /\ UNCHANGED historyVars

HistorySpec == HistoryInit /\ [][HistoryNext]_historyVars

-------------------------------------------------------------------------------
(***************************************************************************)
(* readHistory.                                                            *)
(***************************************************************************)
IsNewline(i) == file[i].part = "newline"

(* Mutant: a line is parsed up to the end of its first JSON value.         *)
MutParses(p) ==
  /\ file[p].part = "open"
  /\ p + 1 <= Len(file) /\ file[p + 1].part = "close"
  /\ p = 1 \/ IsNewline(p - 1)

(* The line that starts at p is one whole JSON value: what follows the     *)
(* value is the end of the line or of the file.                            *)
Parses(p) ==
  /\ file[p].part = "open"
  /\ p + 1 <= Len(file) /\ file[p + 1] = Piece(file[p].rec, 2)
  /\ p = 1 \/ IsNewline(p - 1)
  /\ p + 1 = Len(file) \/ IsNewline(p + 2)

(* Position p is in a line that, up to p, fills the buffer and goes on:    *)
(* records that were torn and never ended run together.                    *)
Overflows(p) == p > MaxLine /\ \A q \in p - MaxLine..p : ~IsNewline(q)

(* Mutant: the error of the scanner is not looked at.                      *)
MutScanFails == FALSE

(* The scanner stops at such a line, and its error fails the read.         *)
ScanFails == \E p \in 1..Len(file) : Overflows(p)

(* What the scanner gets to see: the lines before.                         *)
Scanned(p) == \A q \in 1..Len(file) : Overflows(q) => \E e \in p..q : IsNewline(e)

(* A target argument of "" selects every record.                           *)
NoTarget == ""
Selects(target, r) == target = NoTarget \/ r.host = target

(* Mutant: a malformed line ends the scan of the file.                     *)
MutHits(target) ==
  {p \in 1..Len(file) : /\ Parses(p) /\ Scanned(p) /\ Selects(target, file[p].rec)
                        /\ \A q \in 1..p : file[q].part = "open" => Parses(q)}

(* The lines that are kept; a malformed one is passed over.                *)
Hits(target) == {p \in 1..Len(file) : Parses(p) /\ Scanned(p) /\ Selects(target, file[p].rec)}

(* They are appended one by one, in the order of the file.                 *)
Ascending(s) == \A i, j \in DOMAIN s : i < j => s[i] < s[j]
InOrder(S) == CHOOSE s \in [1..Cardinality(S) -> S] : Ascending(s)

Matching(target) == InOrder(Hits(target))

(* Mutant: the first n records are kept instead of the last.               *)
MutLastN(s, n) == SubSeq(s, 1, IF Len(s) > n THEN n ELSE Len(s))

LastN(s, n) == IF Len(s) > n THEN SubSeq(s, Len(s) - n + 1, Len(s)) ELSE s

ReadHistory(target, n) ==
  LET m == IF n <= 0 THEN 10 ELSE n
      s == IF ScanFails THEN << >> ELSE LastN(Matching(target), m)
  IN  [i \in 1..Len(s) |-> file[s[i]].rec]

-------------------------------------------------------------------------------
(* The file and the writers keep their types.                              *)
HistoryTypeOK ==
  /\ file \in Seq(Pieces)
  /\ writer \in [Writers -> {"idle", "open", "write", "dead"}]
  /\ scan \in [Writers -> 0..Scans]
  /\ rec \in [Writers -> Records]
  /\ done \in [Writers -> 0..3]
  /\ acked \subseteq Records
  /\ short \in Nat

Shown(target, n) == {ReadHistory(target, n)[i] : i \in 1..Len(ReadHistory(target, n))}

All == Shown(NoTarget, Len(file) + 1)

(* Whatever was torn or interleaved, the reader shows no record that was   *)
(* not stored whole, and none twice.                                       *)
NothingInvented ==
  LET shown == ReadHistory(NoTarget, Len(file) + 1)
  IN  /\ \A i, j \in 1..Len(shown) : i # j => shown[i] # shown[j]
      /\ \A r \in All : \A i \in 1..2 : \E p \in 1..Len(file) : file[p] = Piece(r, i)

(* A short write costs at most two acknowledged scans: its own, when the   *)
(* rest of it lands behind another record, and that other record, whose    *)
(* line no longer parses.  Later records are safe again, unless so many    *)
(* torn ones run together that the read fails.                             *)
DamageBounded == Cardinality(acked \ All) <= 2 * short \/ ScanFails

(* The reader never passes a part of the history off as all of it: a read  *)
(* that does not fail shows every whole line, those after an overlong one  *)
(* included.                                                               *)
NothingHidden ==
  ScanFails \/ \A p \in 1..Len(file) : Parses(p) => file[p].rec \in All

(* --history n shows the newest scan of the target that can be shown.      *)
NewestShown ==
  \A h \in Hosts :
    LET all == ReadHistory(h, Len(file) + 1)
    IN  Len(all) > 0 => ReadHistory(h, 1) = <<all[Len(all)]>>

(* What readHistory shows is exactly what the file holds whole: nothing is *)
(* invented, nothing shown twice, nothing hidden, and the newest is last.  *)
ReaderExact == HistoryTypeOK /\ NothingInvented /\ NothingHidden /\ NewestShown

EndedRecords == {r \in All : \E p \in 1..Len(file) : file[p] = Piece(r, 3)}

(* A record whose line has ended is shown by every later read: appending   *)
(* never takes history away, except all at once and with an error.         *)
HistoryGrows == [][EndedRecords \subseteq All' \/ ScanFails']_historyVars
===============================================================================
