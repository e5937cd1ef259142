------------------------------ MODULE Settling ------------------------------
(***************************************************************************)
(* The route that delivers a stream (Delivery.tla), with the scheduling    *)
(* its goroutines have and restarts; and the same route with records that  *)
(* expire and a quarantine that may fail. A behaviour is one of a single   *)
(* part. Settlement.tla adds the ledger, a third part.                     *)
(***************************************************************************)
EXTENDS Delivery

VARIABLE part

Parts == {"delivery", "faults", "ledger"}

(* The route where any call fails, and one record expires. *)
FaultsNext ==
  \/ Admit
  \/ \E s \in Seqs : (\A t \in Seqs : fate[t] # "expired") /\ Age(s)
  \/ Composing \/ Delivering
  \/ ReadFails \/ QuarantineLost \/ Unanswered \/ SettleFails
  \/ \E q \in wire : Receive(q) \/ Falter(q)

SettlingInit ==
  /\ part \in Parts
  /\ Init
  /\ part = "ledger" => nature = [s \in Seqs |-> "good"]

SettlingNext ==
  /\ \/ part = "delivery" /\ Next
     \/ part = "faults" /\ FaultsNext
  /\ UNCHANGED part

(* The fairness of the route, as its module gives it; what is asked of the route
   with faults needs none. *)
SettlingFairness ==
  /\ WF_vars(part = "delivery" /\ Composing) /\ WF_vars(part = "delivery" /\ Delivering)
  /\ WF_vars(part = "delivery" /\ \E q \in wire : q.id = request /\ Receive(q))

SettlingSpec == SettlingInit /\ [][SettlingNext]_<<part, vars>> /\ SettlingFairness

-----------------------------------------------------------------------------
(* Properties, stated in Delivery. *)

(* Delivery: the platform gets the records of a stream oldest first, as long as
   no quarantine fails while a batch is composed. *)
ArrivesInOrder == part = "delivery" => OldestFirst

(* Delivery: every record that is admitted settles, whatever is split, refused,
   retried or restarted in between. *)
SettlesInTheEnd == part # "delivery" \/ EveryRecordSettles

(* Delivery: a record counts as delivered only once the platform durably holds
   it, is quarantined only if nothing could deliver it, and is not sent again
   once it settled, whatever fails or expires. *)
SettlesTruly == [](DeliveredIsKept /\ OnlyBadQuarantined) /\ SentOnlyUnsettled
=============================================================================
