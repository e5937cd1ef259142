------------------------------ MODULE Accounts ------------------------------
(***************************************************************************)
(* What the ledger of a stream says (internal/spool/ledger.go), free of    *)
(* how it is written: the set of the sequences that settled and how many   *)
(* were credited to each kind of settlement. Ledger.tla models the spans   *)
(* the code keeps and is shown to implement this; SpoolQueue.tla keeps its *)
(* ledgers in this form.                                                   *)
(***************************************************************************)
EXTENDS Naturals, FiniteSets, FiniteSetsExt

CONSTANT MaxSeq          \* the highest sequence a stream gives (maxSequence)

ASSUME MaxSeqAssumption == MaxSeq \in Nat

Seqs == 1..MaxSeq
Kinds == {"delivered", "lost", "expired", "quarantined"}

Account == [settled : SUBSET Seqs, base : 0..MaxSeq, credit : [Kinds -> Nat]]

(* The ledger of a stream that has none: everything below the first record it
   holds has settled, nothing is credited. base is auxiliary: how much had
   settled when the counters began. *)
Fresh(first) ==
  [settled |-> 1..(first - 1), base |-> first - 1, credit |-> [k \in Kinds |-> 0]]

(* settle and credit: what was already settled is not counted again. *)
Settle(a, seqs, kind) ==
  [a EXCEPT !.settled = @ \cup seqs,
            !.credit[kind] = @ + Cardinality(seqs \ a.settled)]

(* highest: the sequence after every one that settled. *)
Highest(a) == IF a.settled = {} THEN 1 ELSE Max(a.settled) + 1

Credited(a) ==
  a.credit["delivered"] + a.credit["lost"] + a.credit["expired"] + a.credit["quarantined"]

(* Every settled record is counted under exactly one reason, from where the
   counters began (ledger.go: "A record settles once"). *)
Balanced(a) == a.base + Credited(a) = Cardinality(a.settled)
=============================================================================
