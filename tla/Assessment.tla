----------------------------- MODULE Assessment -----------------------------
(***************************************************************************)
(* The assessment collector (internal/modules/assessment): it runs the     *)
(* checks of the policy in force as it starts, every interval and whenever *)
(* the policy in force changed, and admits the assessments that say        *)
(* something new. What the checks answer, taken together, is one of        *)
(* Digests (Checks.tla has how each is answered). Times are in units of    *)
(* which MaxClockSkew is Skew and refresh, less half an interval, is       *)
(* Refresh.                                                                *)
(***************************************************************************)
EXTENDS Naturals

CONSTANTS
  Revisions,        \* the revisions of the policy, from 1; 0 is none in force
  Checked,          \* the revisions that carry checks
  Digests,
  Skew, Refresh,
  MaxClock,         \* bound: the times the clock reads
  MaxStops          \* bound: failures, stops and power losses

VARIABLES
  policy,           \* the revision in force
  telling,          \* activate has yet to call Again
  again,            \* the channel of one that Again fills
  host,             \* what the checks would answer now
  clock,
  file, durable,    \* the baseline, as the collector reads it and as a loss of power leaves it
  held, at, asked, made,    \* the collector in Collect
  admitted,         \* the assessments the spool took
  noted,            \* the revision the status says the last round was for
  stops

vars == <<policy, telling, again, host, clock, file, durable, held, at, asked, made, admitted, noted, stops>>
disk == <<file, durable>>
collector == <<held, at, asked, made>>

None == [revision |-> 0, digest |-> "none", at |-> 0]
Damaged == [None EXCEPT !.digest = "damaged"]

Init ==
  /\ policy = 0 /\ telling = FALSE /\ again = FALSE
  /\ host \in Digests /\ clock = 1
  /\ file = None /\ durable = None
  /\ held = None /\ at = "stopped" /\ asked = 0 /\ made = None
  /\ admitted = {} /\ noted = 0 /\ stops = 0

Stop == stops < MaxStops /\ stops' = stops + 1

-----------------------------------------------------------------------------
(* adopt puts a policy in force, or a reload withdraws one, and activate then
   calls Again, which fills the channel or finds it filled. *)
Adopt(revision) ==
  /\ ~telling /\ revision # policy
  /\ policy' = revision /\ telling' = TRUE
  /\ UNCHANGED <<again, host, clock, disk, collector, admitted, noted, stops>>

Again ==
  /\ telling
  /\ telling' = FALSE /\ again' = TRUE
  /\ UNCHANGED <<policy, host, clock, disk, collector, admitted, noted, stops>>

(* load: what the file says, which is nothing when it is damaged. *)
load == IF file = Damaged THEN None ELSE file

begin ==
  /\ at = "stopped"
  /\ held' = load /\ at' = "drain"
  /\ UNCHANGED <<policy, telling, again, host, clock, disk, asked, made, admitted, noted, stops>>

(* Collect drains the channel before it assesses. *)
Drain ==
  /\ at = "drain"
  /\ again' = FALSE
  /\ at' = "asking"
  /\ UNCHANGED <<policy, telling, host, clock, disk, held, asked, made, admitted, noted, stops>>

(* Nothing is assessed without a policy, or for one that asks for no checks
   when the last assessment answered none. *)
idle == policy = 0 \/ (policy \notin Checked /\ held.revision \notin Checked)

(* assess, up to its scan. *)
Ask ==
  /\ at = "asking"
  /\ asked' = policy
  /\ IF idle
     THEN at' = "waiting" /\ noted' = policy
     ELSE at' = "scanning" /\ UNCHANGED noted
  /\ UNCHANGED <<policy, telling, again, host, clock, disk, held, made, admitted, stops>>

ahead == held # None /\ held.at > clock + Skew

(* judge, as the inventory judges a snapshot. *)
judge(digest) ==
  \/ held = None
  \/ ahead
  \/ /\ <<asked, digest>> # <<held.revision, held.digest>> \/ clock >= held.at + Refresh
     /\ clock > held.at

(* Make: the assessment of a round, whose digest says what the checks found. *)
Make(digest) == [revision |-> asked, digest |-> digest, at |-> clock]

\* Slip: the channel is drained once the round was made.
AssessDraining ==
  /\ at = "scanning"
  /\ \/ LET digest == IF asked \in Checked THEN host ELSE "none"
        IN /\ noted' = asked
           /\ again' = FALSE
           /\ \/ /\ judge(digest)
                 /\ made' = Make(digest)
                 /\ at' = "admitting"
              \/ /\ made' = None
                 /\ at' = "waiting"
           /\ UNCHANGED <<held, stops>>
     \/ /\ Stop
        /\ at' = "stopped" /\ held' = None
        /\ UNCHANGED <<again, made, noted>>
  /\ UNCHANGED <<policy, telling, host, clock, disk, asked, admitted>>

(* The scan answers every check; the round is noted, and admitted when it says
   something new, unless it is one the platform would not take or too large
   for a batch. A scan the governor does not start returns its error. *)
Assess ==
  /\ at = "scanning"
  /\ \/ LET digest == IF asked \in Checked THEN host ELSE "none"
        IN /\ noted' = asked
           /\ \/ /\ judge(digest)
                 /\ made' = Make(digest)
                 /\ at' = "admitting"
              \/ /\ made' = None
                 /\ at' = "waiting"
           /\ UNCHANGED <<held, stops>>
     \/ /\ Stop
        /\ at' = "stopped" /\ held' = None
        /\ UNCHANGED <<made, noted>>
  /\ UNCHANGED <<policy, telling, again, host, clock, disk, asked, admitted>>

(* admit: the spool takes the assessment durably, once it has room. *)
Admit ==
  /\ at = "admitting"
  /\ \/ /\ admitted' = admitted \cup {made}
        /\ at' = "saving"
        /\ UNCHANGED <<held, made, stops>>
     \/ /\ Stop
        /\ at' = "stopped" /\ held' = None /\ made' = None
        /\ UNCHANGED admitted
  /\ UNCHANGED <<policy, telling, again, host, clock, disk, asked, noted>>

Save ==
  /\ at = "saving"
  /\ \/ /\ held' = made /\ file' = made /\ at' = "waiting"
        /\ UNCHANGED stops
     \/ /\ Stop
        /\ at' = "stopped" /\ held' = None
        /\ UNCHANGED file
  /\ made' = None
  /\ UNCHANGED <<policy, telling, again, host, clock, durable, asked, admitted, noted>>

(* Until: the turn of the module comes, or Again asked for one. *)
Turn ==
  /\ at = "waiting"
  /\ at' = "drain"
  /\ UNCHANGED <<policy, telling, again, host, clock, disk, held, asked, made, admitted, noted, stops>>

Sooner ==
  /\ at = "waiting" /\ again
  /\ again' = FALSE /\ at' = "drain"
  /\ UNCHANGED <<policy, telling, host, clock, disk, held, asked, made, admitted, noted, stops>>

-----------------------------------------------------------------------------
Change(digest) ==
  /\ host # digest
  /\ host' = digest
  /\ UNCHANGED <<policy, telling, again, clock, disk, collector, admitted, noted, stops>>

Tick ==
  /\ clock < MaxClock
  /\ clock' = clock + 1
  /\ UNCHANGED <<policy, telling, again, host, disk, collector, admitted, noted, stops>>

(* The kernel writes back the directory, which the collector does not sync. *)
WriteBack ==
  /\ durable # file
  /\ durable' = file
  /\ UNCHANGED <<policy, telling, again, host, clock, file, collector, admitted, noted, stops>>

(* The module is stopped, the agent is killed, or the host loses its power. *)
Kill ==
  /\ at # "stopped" /\ Stop
  /\ at' = "stopped" /\ held' = None /\ made' = None /\ asked' = 0
  /\ UNCHANGED <<policy, telling, again, host, clock, disk, admitted, noted>>

LosePower ==
  /\ Stop
  /\ file' = durable
  /\ at' = "stopped" /\ held' = None /\ made' = None /\ asked' = 0
  /\ again' = FALSE /\ telling' = FALSE /\ noted' = 0
  /\ UNCHANGED <<policy, host, clock, durable, admitted>>

Damage ==
  /\ at = "stopped" /\ file # None /\ Stop
  /\ file' = Damaged /\ durable' = Damaged
  /\ UNCHANGED <<policy, telling, again, host, clock, collector, admitted, noted>>

Environment ==
  \/ \E revision \in Revisions \cup {0} : Adopt(revision)
  \/ \E digest \in Digests : Change(digest)
  \/ Tick \/ WriteBack \/ Kill \/ LosePower \/ Damage

Next == begin \/ Drain \/ Ask \/ Assess \/ Admit \/ Save \/ Turn \/ Sooner \/ Again \/ Environment

(* The module runs, and is started again after it returned an error; its turn
   is left out, since a change of the policy does not have to wait for it. *)
Fairness ==
  /\ WF_vars(begin) /\ WF_vars(Drain) /\ WF_vars(Ask) /\ WF_vars(Assess)
  /\ WF_vars(Admit) /\ WF_vars(Save) /\ WF_vars(Sooner) /\ WF_vars(Again)

Spec == Init /\ [][Next]_vars /\ Fairness

-----------------------------------------------------------------------------
(* Properties. *)

(* A policy put in force is assessed, or found to ask for nothing, without
   waiting for the turn of the module: a change that comes while a round runs,
   whichever policy that round is for, is not taken for the one it is for. *)
PolicyIsAssessed ==
  \A revision \in Revisions : []<>(policy = revision => noted = revision)
=============================================================================
