------------------------------- MODULE Ledger -------------------------------
(***************************************************************************)
(* The ledger as the code keeps it (internal/spool/ledger.go): every       *)
(* sequence below a watermark, and the spans above it that settled out of  *)
(* order. The operators are the methods of ledger; the state machine makes *)
(* one ledger go through every settlement a queue may ask of it.           *)
(***************************************************************************)
EXTENDS Naturals, FiniteSets, Sequences, SequencesExt

CONSTANT MaxSeq

Seqs == 1..MaxSeq
Kinds == {"delivered", "lost", "expired", "quarantined"}

Span(first, end) == [first |-> first, end |-> end]

(* settled: the binary search finds the first span that ends beyond seq. *)
settled(l, seq) ==
  \/ seq < l.watermark
  \/ \E i \in DOMAIN l.spans :
       /\ seq < l.spans[i].end
       /\ \A j \in 1..(i - 1) : l.spans[j].end <= seq
       /\ l.spans[i].first <= seq

Larger(a, b) == IF a > b THEN a ELSE b
Smaller(a, b) == IF a < b THEN a ELSE b

(* count: how many of [first, end) settled. *)
count(l, first, end) ==
  LET low == IF l.watermark > first THEN Smaller(l.watermark, end) - first ELSE 0
      part(sum, s) ==
        IF Larger(s.first, first) < Smaller(s.end, end)
        THEN sum + (Smaller(s.end, end) - Larger(s.first, first))
        ELSE sum
  IN  IF end <= first THEN 0 ELSE FoldLeft(part, low, l.spans)

highest(l) == IF l.spans # <<>> THEN Last(l.spans).end ELSE l.watermark

covered(l) == FoldLeft(LAMBDA sum, s : sum + (s.end - s.first), l.watermark, l.spans)

(* Slip: spans that touch are not joined. *)
mergeOverlaps(l, added) ==
  LET all == <<Span(0, l.watermark)>> \o l.spans
               \o SelectSeq(added, LAMBDA s : s.first < s.end)
      join(joined, s) ==
        IF joined # <<>> /\ s.first < Last(joined).end
        THEN [joined EXCEPT ![Len(joined)].end = Larger(@, s.end)]
        ELSE Append(joined, s)
      merged == FoldLeft(join, <<>>, SortSeq(all, LAMBDA a, b : a.first < b.first))
  IN  [l EXCEPT !.watermark = Head(merged).end, !.spans = Tail(merged)]

(* settle: merge the watermark, the spans and the ones added, by their first,
   and join what overlaps or touches. *)
merge(l, added) ==
  LET all == <<Span(0, l.watermark)>> \o l.spans
               \o SelectSeq(added, LAMBDA s : s.first < s.end)
      join(joined, s) ==
        IF joined # <<>> /\ s.first <= Last(joined).end
        THEN [joined EXCEPT ![Len(joined)].end = Larger(@, s.end)]
        ELSE Append(joined, s)
      merged == FoldLeft(join, <<>>, SortSeq(all, LAMBDA a, b : a.first < b.first))
  IN  [l EXCEPT !.watermark = Head(merged).end, !.spans = Tail(merged)]

(* Slip: everything added is credited, new or not. *)
settleAll(l, added, kind) ==
  LET updated == merge(l, added)
  IN  [updated EXCEPT !.credit[kind] =
         FoldLeft(LAMBDA sum, s : sum + (IF s.first < s.end THEN s.end - s.first ELSE 0), @, added)]

(* settle with the credit its callers add for what is newly settled. *)
settle(l, added, kind) ==
  LET updated == merge(l, added)
  IN  [updated EXCEPT !.credit[kind] = @ + (covered(updated) - covered(l))]

(* consecutive: the sequences as runs. *)
consecutive(seqs) ==
  LET run(runs, seq) ==
        IF runs # <<>> /\ Last(runs).end = seq
        THEN [runs EXCEPT ![Len(runs)].end = seq + 1]
        ELSE Append(runs, Span(seq, seq + 1))
  IN  FoldLeft(run, <<>>, SetToSortSeq(seqs, <))

(* What decodeLedger takes back: a watermark, and spans that each hold
   something and lie beyond what comes before them. *)
decodes(l) ==
  /\ l.watermark >= 1
  /\ \A i \in DOMAIN l.spans :
       /\ l.spans[i].first > (IF i = 1 THEN l.watermark ELSE l.spans[i - 1].end)
       /\ l.spans[i].end > l.spans[i].first

-----------------------------------------------------------------------------

VARIABLES ledger, base       \* base: auxiliary, what had settled at first

vars == <<ledger, base>>

(* The ledger settled() writes when a stream has none. *)
Init ==
  \E first \in 1..2 :
    /\ ledger = [watermark |-> first, spans |-> <<>>, credit |-> [k \in Kinds |-> 0]]
    /\ base = first - 1

(* Acknowledge and Quarantine: any sequences given out, in any order. *)
Acknowledge ==
  /\ \E seqs \in (SUBSET Seqs) \ {{}}, kind \in {"delivered", "quarantined"} :
       ledger' = settle(ledger, consecutive(seqs), kind)
  /\ UNCHANGED base

(* expire: the runs of the records it found past their age. *)
Expire ==
  /\ \E seqs \in (SUBSET Seqs) \ {{}} :
       ledger' = settle(ledger, consecutive(seqs), "expired")
  /\ UNCHANGED base

(* settleLost: one span, which may be empty and may overlap what settled. *)
Lose ==
  /\ \E first, end \in 1..(MaxSeq + 1) :
       ledger' = settle(ledger, <<Span(first, end)>>, "lost")
  /\ UNCHANGED base

Next == Acknowledge \/ Expire \/ Lose

Spec == Init /\ [][Next]_vars

-----------------------------------------------------------------------------

(* Every ledger store writes is one decodeLedger takes back: a ledger it does
   not take is replaced by a fresh one, and the stream is delivered again. *)
WrittenIsRead == decodes(ledger)

(* The set the spans stand for, read through settled(). *)
SettledSet == {q \in Seqs : settled(ledger, q)}

(* count() agrees with settled() on every interval, and highest() is beyond
   every settled sequence: compaction removes a segment by count(), and a
   stream numbers its records from highest(). *)
CountsAgree ==
  /\ \A first, end \in 1..(MaxSeq + 1) :
       count(ledger, first, end) = Cardinality({q \in SettledSet : first <= q /\ q < end})
  /\ \A q \in Seqs : q \in SettledSet => q < highest(ledger)
  /\ highest(ledger) = 1 \/ settled(ledger, highest(ledger) - 1)

(* The spans implement a set of sequences each settled and credited once. *)
Abstract == INSTANCE AccountSpec WITH
  account <- [settled |-> SettledSet, base |-> base, credit |-> ledger.credit]

ImplementsAccount == Abstract!Spec
=============================================================================
