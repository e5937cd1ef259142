------------------------------ MODULE Records ------------------------------
(***************************************************************************)
(* The parts of the agent that keep an account of something other than     *)
(* themselves and promise that it is true: the bytes the streams share     *)
(* (Budget.tla), the snapshots of the inventory (Inventory.tla), a round   *)
(* of checks (Checks.tla) and the sequence of the reports (Reporting.tla). *)
(* A behaviour is one of a single part, from its initial states, with the  *)
(* others as they started. The parts "network" and "files" are those of    *)
(* HostRecords.tla.                                                        *)
(***************************************************************************)
EXTENDS Budget

CONSTANTS
  Kinds, Digests, Skew, Refresh, MaxClock, MaxRegressions, MaxStops,   \* Inventory.tla
  Tests, Sources, MaxChanges,                                          \* Checks.tla
  MaxWritten, MaxRounds, MaxDamage, MaxSeconds                         \* Reporting.tla

VARIABLES
  part,
  content, clock, file, durable, admitted, wentBack, baseline, at, chosen, said, lost, regressions, stops,
  kind, checks, source, cache, results, late, seen, changes,
  seconds, sequence, synced, last, phase, stopping, failing, report, written, flight, received, rounds, damage

inventory ==
  <<content, clock, file, durable, admitted, wentBack, baseline, at, chosen, said, lost, regressions, stops>>
round == <<kind, checks, source, cache, results, late, seen, changes>>
reporting ==
  <<seconds, sequence, synced, last, phase, stopping, failing, report, written, flight, received, rounds, damage>>
every == <<part, vars, inventory, round, reporting>>

S == INSTANCE Inventory WITH held <- baseline
C == INSTANCE Checks
Q == INSTANCE Reporting WITH MaxClock <- MaxSeconds, clock <- seconds, file <- sequence, durable <- synced

(* Within the five seconds before it starts again, an agent that was asked to
   stop begins a few reports at most: the one select of Run may choose the timer
   over the context again and again. *)
ASSUME RecordsAssumption ==
  /\ MaxClock \in Nat
  /\ C!Shaped
  /\ MaxRounds \in 0..(Q!RestartSec - 2)

Parts == {"budget", "inventory", "checks", "network", "reporting", "files"}

RecordsInit ==
  /\ part \in Parts
  /\ Init
  /\ part # "budget" => limit = CHOOSE most \in Limits : TRUE
  /\ S!Init
  /\ part # "inventory" => content = CHOOSE c \in [Kinds -> Digests] : TRUE
  /\ C!Init
  /\ part # "checks" => /\ kind = "file" /\ checks = CHOOSE c \in [1..2 -> Tests[kind]] : TRUE
                        /\ source = CHOOSE s \in Sources[kind] : TRUE
  /\ Q!Init

RecordsNext ==
  \/ /\ part = "budget" /\ Next
     /\ UNCHANGED <<part, inventory, round, reporting>>
  \/ /\ part = "inventory" /\ S!Next
     /\ UNCHANGED <<part, vars, round, reporting>>
  \/ /\ part = "checks" /\ C!Next
     /\ UNCHANGED <<part, vars, inventory, reporting>>
  \/ /\ part = "reporting" /\ Q!Next
     /\ UNCHANGED <<part, vars, inventory, round>>

RecordsSpec == RecordsInit /\ [][RecordsNext]_every

-----------------------------------------------------------------------------
(* Properties, stated in the modules of the parts; that of the budget goes by
   its own name. *)

(* Inventory: once a round ended, the record the platform orders last of every
   kind says what the host had. *)
LatestIsHeld == S!LatestIsHeld

(* Checks: the verdicts of a round on a source that checks share are true of
   one state the source had. *)
OneStateAnswers == C!OneStateAnswers

(* Reporting: no two reports that left the agent carry one sequence, and the
   one with the higher sequence was written later. *)
NewestIsHighest == Q!NewestIsHighest
=============================================================================
