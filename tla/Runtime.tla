------------------------------ MODULE Runtime ------------------------------
(***************************************************************************)
(* The runtime of internal/runtime/runtime.go, which runs the components   *)
(* of the agent, each in a goroutine, and decides when the agent stops and *)
(* what is reported of it. When a component returns is up to it: Agent.tla *)
(* composes the runtime with two of them. Logging is left out.             *)
(***************************************************************************)
EXTENDS Naturals, Sequences, Functions

CONSTANTS
  Essential,   \* components the agent cannot do without
  Optional     \* components it can

Components == Essential \cup Optional

VARIABLES
  ended,      \* the context given to Run has ended
  phase,      \* Run: "starting", "running", "stopping", "returned"
  work,       \* the context given to the components has ended
  alive,      \* components whose Run has not returned
  exits,      \* the channel of exits: components and errors
  running,    \* what Run takes as running, pending is how many
  failures,   \* the components that failed the agent
  stuck,      \* the components named when the deadline passed
  early       \* auxiliary: essential components that returned unasked

vars == <<ended, phase, work, alive, exits, running, failures, stuck, early>>

Errors == {"nil", "cancelled", "error"}
Exits == [component : Components, err : Errors]

(* What Run holds keeps its type, and exits, which is as long as there are
   components, is never full: no component waits to say that it returned. *)
TypeOK ==
  /\ ended \in BOOLEAN /\ work \in BOOLEAN
  /\ phase \in {"starting", "running", "stopping", "returned"}
  /\ alive \subseteq Components /\ running \subseteq Components
  /\ exits \in Seq(Exits) /\ IsInjective([i \in DOMAIN exits |-> exits[i].component])
  /\ failures \subseteq Components /\ stuck \subseteq Components
  /\ early \subseteq Essential

Init ==
  /\ ended = FALSE /\ phase = "starting" /\ work = FALSE
  /\ alive = {} /\ exits = <<>> /\ running = {}
  /\ failures = {} /\ stuck = {} /\ early = {}

(* The agent is asked to stop, before it runs or as it does. *)
Signal ==
  /\ ~ended
  /\ ended' = TRUE
  /\ work' = (work \/ phase # "starting")
  /\ UNCHANGED <<phase, alive, exits, running, failures, stuck, early>>

Start ==
  /\ phase = "starting"
  /\ phase' = "running"
  /\ work' = ended
  /\ alive' = (IF ended THEN {} ELSE Components)
  /\ running' = alive'
  /\ UNCHANGED <<ended, exits, failures, stuck, early>>

(* A component returns, with an error of its own, with one that says its
   context or a deadline of its own ended, or with none. *)
Exit(c, err) ==
  /\ c \in alive
  /\ alive' = alive \ {c}
  /\ exits' = Append(exits, [component |-> c, err |-> err])
  /\ early' = IF work THEN early ELSE early \cup ({c} \cap Essential)
  /\ UNCHANGED <<ended, phase, work, running, failures, stuck>>

(* settle: whether the return of a component fails the agent. *)
settle(exit, stopping) ==
  /\ exit.component \in Essential
  /\ ~(stopping /\ exit.err \in {"nil", "cancelled"})

(* record. *)
record(stopping) ==
  LET exit == Head(exits)
  IN /\ exits # <<>>
     /\ exits' = Tail(exits)
     /\ running' = running \ {exit.component}
     /\ failures' = failures \cup (IF settle(exit, stopping) THEN {exit.component} ELSE {})

(* The first loop takes an exit, or learns that its context ended: a select
   takes either when both are there. *)
TakeExit ==
  /\ phase = "running"
  /\ record(ended)
  /\ LET stops == settle(Head(exits), ended) /\ ~ended
     IN /\ phase' = IF stops THEN "stopping" ELSE "running"
        /\ work' = (work \/ stops)
  /\ UNCHANGED <<ended, alive, stuck, early>>

TakeStop ==
  /\ phase = "running" /\ ended
  /\ phase' = "stopping" /\ work' = TRUE
  /\ UNCHANGED <<ended, alive, exits, running, failures, stuck, early>>

(* The second loop takes the exits that are left. *)
Drain ==
  /\ phase = "stopping" /\ running # {}
  /\ record(TRUE)
  /\ UNCHANGED <<ended, phase, work, alive, stuck, early>>

(* Slip: nothing bounds the stop. *)
NoDeadline == FALSE /\ UNCHANGED vars

(* shutdownTimeout has passed. *)
Deadline ==
  /\ phase = "stopping" /\ running # {}
  /\ phase' = "returned"
  /\ stuck' = running
  /\ UNCHANGED <<ended, work, alive, exits, running, failures, early>>

(* Slip: Run returns with what it knows as it stops. *)
ReturnAtOnce ==
  /\ phase = "stopping"
  /\ phase' = "returned"
  /\ UNCHANGED <<ended, work, alive, exits, running, failures, stuck, early>>

Return ==
  /\ phase = "stopping" /\ running = {}
  /\ phase' = "returned"
  /\ UNCHANGED <<ended, work, alive, exits, running, failures, stuck, early>>

(* Every step of Run but the first. *)
Loop == TakeExit \/ TakeStop \/ Drain \/ Deadline \/ Return

-----------------------------------------------------------------------------

(* Run returns once every component has, or names those that have not: nothing
   the agent closes after Run is in use by a component nobody was told of. *)
NothingLeftRunning == phase = "returned" => alive \subseteq stuck

(* "An essential component stops the agent whenever it returns before the stop,
   even without an error": and the agent says so, unless it was asked to stop
   before it heard of it. "An optional one that fails is reported and the
   agent carries on without it": nothing else stops the agent. *)
EssentialIsReported ==
  /\ phase \in {"stopping", "returned"} /\ ~ended => early \cap failures # {}
  /\ failures \subseteq Essential
=============================================================================
