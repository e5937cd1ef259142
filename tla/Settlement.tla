----------------------------- MODULE Settlement -----------------------------
(***************************************************************************)
(* How every record comes to be settled: the route that delivers a stream  *)
(* (Settling.tla), and the ledger that says what has settled (Ledger.tla). *)
(* A behaviour is one of a single part, from its initial states, with the  *)
(* other as it started.                                                    *)
(***************************************************************************)
EXTENDS Settling

CONSTANT MaxSettled   \* Ledger.tla

VARIABLES ledger, base

ledgers == <<ledger, base>>
every == <<part, vars, ledgers>>

L == INSTANCE Ledger WITH MaxSeq <- MaxSettled

SettlementInit ==
  /\ SettlingInit
  /\ L!Init
  /\ part # "ledger" => base = 0

SettlementNext ==
  \/ SettlingNext /\ UNCHANGED ledgers
  \/ part = "ledger" /\ L!Next /\ UNCHANGED <<part, vars>>

SettlementSpec == SettlementInit /\ [][SettlementNext]_every /\ SettlingFairness

-----------------------------------------------------------------------------
(* Properties, stated in Ledger. *)

(* Ledger: every ledger the agent writes is one it reads back, and what
   compaction counts in it is what has settled. *)
LedgerIsRead == part = "ledger" => L!WrittenIsRead /\ L!CountsAgree

(* Ledger: the spans stand for a set of sequences each settled and credited
   once. *)
ImplementsAccount == L!ImplementsAccount
=============================================================================
