---------------------------- MODULE AccountSpec ----------------------------
(***************************************************************************)
(* The promise of a ledger, as a specification: sequences settle, each     *)
(* once, and each settlement is credited to one kind.                      *)
(***************************************************************************)
EXTENDS Accounts

VARIABLE account

Init == \E first \in 1..(MaxSeq + 1) : account = Fresh(first)

Next ==
  /\ account' # account
  /\ \E seqs \in SUBSET Seqs, kind \in Kinds :
       seqs # {} /\ account' = Settle(account, seqs, kind)

Spec == Init /\ [][Next]_account
=============================================================================
