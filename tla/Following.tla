----------------------------- MODULE Following -----------------------------
(***************************************************************************)
(* The parts of the agent that go on from what they wrote down and promise *)
(* to catch up: the policy the platform serves (Policy.tla), the journal   *)
(* of the host (Reading.tla) and the assessments of the policy in force    *)
(* (Assessment.tla), each with the scheduling its goroutines have. A       *)
(* behaviour is one of a single part, from its initial states, with the    *)
(* others as they started.                                                 *)
(***************************************************************************)
EXTENDS Naturals

CONSTANTS
  Policies, Files, MaxExpired, MaxRestarts,                             \* Policy.tla
  MaxEntries, MaxBatch, MaxReadings,                                    \* Reading.tla
  Revisions, Checked, Digests, Skew, Refresh, MaxClock, MaxStops        \* Assessment.tla

(* A policy of revision 0 is malformed. *)
ASSUME FollowingAssumption == MaxEntries \in Nat /\ \A p \in Policies : p.revision \in Nat \ {0}

VARIABLES
  part,
  served, expired, local, kept, holder, ask, once, unkept, restarts,
  journal, dropped, aged, place, synced, events, reader, started, forgot, readings,
  policy, telling, again, host, clock, file, durable, held, at, asked, made, admitted, noted, stops

following == <<served, expired, local, kept, holder, ask, once, unkept, restarts>>
reading == <<journal, dropped, aged, place, synced, events, reader, started, forgot, readings>>
assessment == <<policy, telling, again, host, clock, file, durable, held, at, asked, made, admitted, noted, stops>>
every == <<part, following, reading, assessment>>

P == INSTANCE Policy WITH MaxStops <- MaxRestarts, disk <- kept, proc <- holder, stops <- restarts
J == INSTANCE Reading WITH
       MaxStops <- MaxReadings, durable <- synced, admitted <- events, proc <- reader, stops <- readings
A == INSTANCE Assessment

(* Policies of two keys, of which the later two share a revision; files that
   accept the first key, both keys, and the other key with a setting a running
   agent does not change; and one the agent does not run on. *)
Signed(revision, key) == [revision |-> revision, key |-> key, sound |-> TRUE]
SomePolicies == {Signed(1, "k1"), Signed(2, "k1"), Signed(2, "k2")}
File(keys, fits) == [state |-> "valid", fixed |-> 1, keys |-> keys, fits |-> fits]
SomeFiles ==
  {File({"k1"}, SomePolicies), File({"k1", "k2"}, {Signed(2, "k1"), Signed(2, "k2")}),
   [File({"k2"}, SomePolicies) EXCEPT !.fixed = 2], [File({}, {}) EXCEPT !.state = "invalid"]}

Init ==
  /\ part \in {"policy", "reading", "assessment"}
  /\ P!Init /\ J!Init /\ A!Init
  /\ part # "policy" => served = P!None /\ local = CHOOSE f \in Files : TRUE
  /\ part # "assessment" => host = CHOOSE d \in Digests : TRUE

Next ==
  \/ part = "policy" /\ P!Next /\ UNCHANGED <<part, reading, assessment>>
  \/ part = "reading" /\ J!Next /\ UNCHANGED <<part, following, assessment>>
  \/ part = "assessment" /\ A!Next /\ UNCHANGED <<part, following, reading>>

(* The fairness of each part, as its module gives it. *)
Fairness ==
  /\ WF_following(part = "policy" /\ P!hold) /\ WF_following(part = "policy" /\ P!Ask)
  /\ WF_following(part = "policy" /\ P!Reply)
  /\ WF_following(part = "policy" /\ P!adopt) /\ WF_following(part = "policy" /\ P!Apply)
  /\ WF_reading(part = "reading" /\ J!Begin) /\ WF_reading(part = "reading" /\ J!NextEntry)
  /\ WF_reading(part = "reading" /\ J!Flush)
  /\ WF_reading(part = "reading" /\ J!Admit) /\ WF_reading(part = "reading" /\ J!Save)
  /\ WF_assessment(part = "assessment" /\ A!begin) /\ WF_assessment(part = "assessment" /\ A!Drain)
  /\ WF_assessment(part = "assessment" /\ A!Ask) /\ WF_assessment(part = "assessment" /\ A!Assess)
  /\ WF_assessment(part = "assessment" /\ A!Admit) /\ WF_assessment(part = "assessment" /\ A!Save)
  /\ WF_assessment(part = "assessment" /\ A!Sooner) /\ WF_assessment(part = "assessment" /\ A!Again)

Spec == Init /\ [][Next]_every /\ Fairness

-----------------------------------------------------------------------------
(* Properties, stated in the modules of the parts. *)

(* Policy: once a policy was in force, no older one and no other of its
   revision ever is, whatever restarts, reloads and retired keys come between. *)
NeverBelowApplied == P!NeverBelowApplied

(* Policy: a policy the agent would apply is in force in the end, however often
   it was refused under the keys and the file read before. *)
AcceptableIsApplied == P!AcceptableIsApplied

(* Reading: the place the collector wrote down never passes an outcome of sshd
   whose event is not in the spool. *)
NothingSkipped == J!NothingSkipped

(* Reading: every outcome sshd writes once the collection started is admitted in
   the end, or gets too old or is dropped first. *)
ReadInTheEnd == J!ReadInTheEnd

(* Assessment: a policy put in force is assessed, or found to ask for nothing,
   whatever round was under way as it came. *)
PolicyIsAssessed == A!PolicyIsAssessed
=============================================================================
