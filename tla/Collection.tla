----------------------------- MODULE Collection -----------------------------
(***************************************************************************)
(* The collection of internal/modules/modules.go: a goroutine for each     *)
(* module that is wanted, which starts it again when it fails, and Apply,  *)
(* which changes what is wanted while they run. Apply is called by the     *)
(* configuration component of cmd/seagull-agent alone, one call at a time; *)
(* when it fails the component does, and as an essential one it stops the  *)
(* agent. Who ends the context and when is left open: Agent.tla composes   *)
(* the collection with the runtime, which does.                            *)
(*                                                                         *)
(* What a module collects is its own: it may fail or return at any time,   *)
(* and nothing here makes it return. How long a wait lasts and how often a *)
(* module was restarted are left out.                                      *)
(***************************************************************************)
EXTENDS Naturals

CONSTANTS
  Modules,   \* the modules this build has
  Budget     \* Policy.Budget, failures in a row

ASSUME CollectionAssumption == Budget \in Nat \ {0}

VARIABLES
  ended,     \* the context of the agent's components has ended
  phase,     \* Run: "composed", "running", "stopping", "returned"
  awaited,   \* the goroutines Run waits for as it stops
  stuck,     \* what Run returned as still running
  applying,  \* the configuration component: "idle", "awaiting", "failed"
  releasing, \* the modules Apply disabled and waits for
  desired,   \* module.desired
  spent,     \* module.spent
  running,   \* module.running
  failures,  \* module.failures
  step,      \* where the goroutine of a module is, "none" when done is nil
  cancelled, \* module.cancel was called
  last,      \* collect: its failure was the last of the budget
  live       \* auxiliary: goroutines of a module

run == <<phase, awaited, stuck>>
apply == <<applying, releasing>>
module == <<desired, spent, running, failures, step, cancelled, last, live>>
vars == <<ended, run, apply, module>>

Steps == {"none", "collecting", "returned", "failing", "waiting", "stopping", "ending"}

(* The fields of Collection and module keep their types, and no module is
   counted to have failed more often in a row than its budget. *)
TypeOK ==
  /\ ended \in BOOLEAN
  /\ phase \in {"composed", "running", "stopping", "returned"}
  /\ awaited \subseteq Modules /\ stuck \subseteq Modules
  /\ applying \in {"idle", "awaiting", "failed"}
  /\ releasing \subseteq Modules
  /\ desired \in [Modules -> BOOLEAN] /\ spent \in [Modules -> BOOLEAN]
  /\ running \in [Modules -> BOOLEAN] /\ cancelled \in [Modules -> BOOLEAN]
  /\ last \in [Modules -> BOOLEAN]
  /\ failures \in [Modules -> 0..Budget]
  /\ step \in [Modules -> Steps]
  /\ live \in [Modules -> Nat]

None == [m \in Modules |-> FALSE]

Init ==
  /\ ended = FALSE /\ phase = "composed" /\ awaited = {} /\ stuck = {}
  /\ applying = "idle" /\ releasing = {}
  /\ desired \in [Modules -> BOOLEAN]
  /\ spent = None /\ running = None /\ cancelled = None /\ last = None
  /\ failures = [m \in Modules |-> 0]
  /\ step = [m \in Modules |-> "none"]
  /\ live = [m \in Modules |-> 0]

Ended(m) == ended \/ cancelled[m]
Alive == {m \in Modules : step[m] # "none"}

(* start, for each of some modules. *)
start(started) ==
  /\ step' = [m \in Modules |-> IF m \in started THEN "collecting" ELSE step[m]]
  /\ running' = [m \in Modules |-> running[m] \/ m \in started]
  /\ last' = [m \in Modules |-> last[m] /\ m \notin started]
  /\ live' = [m \in Modules |-> IF m \in started THEN live[m] + 1 ELSE live[m]]

-----------------------------------------------------------------------------
(* Run. *)

Run ==
  /\ phase = "composed"
  /\ phase' = "running"
  /\ start({m \in Modules : desired[m]})
  /\ UNCHANGED <<ended, awaited, stuck, apply, desired, spent, failures, cancelled>>

Stop ==
  /\ phase = "running" /\ ended
  /\ phase' = "stopping"
  /\ awaited' = Alive
  /\ UNCHANGED <<ended, stuck, apply, module>>

Return ==
  /\ phase = "stopping" /\ awaited \cap Alive = {}
  /\ phase' = "returned"
  /\ UNCHANGED <<ended, awaited, stuck, apply, module>>

(* Policy.Stop has passed. *)
ReturnLate ==
  /\ phase = "stopping" /\ awaited \cap Alive # {}
  /\ phase' = "returned"
  /\ stuck' = awaited \cap Alive
  /\ UNCHANGED <<ended, awaited, apply, module>>

(* The agent is asked to stop. *)
Signal ==
  /\ ~ended
  /\ ended' = TRUE
  /\ UNCHANGED <<run, apply, module>>

-----------------------------------------------------------------------------
(* Apply. *)

Again(enabled) == {m \in enabled : ~desired[m] \/ spent[m]}
Dropped(enabled) == {m \in Modules \ enabled : desired[m]}

(* What Apply starts: the collection runs, and no goroutine has the module. *)
Startable(enabled) == IF phase = "running" THEN Again(enabled) \ Alive ELSE {}

Apply(enabled) ==
  /\ applying = "idle"
  /\ phase \in {"composed", "running"}
  /\ desired' = [m \in Modules |-> m \in enabled]
  /\ spent' = [m \in Modules |-> spent[m] /\ m \notin Again(enabled)]
  /\ failures' = [m \in Modules |-> IF m \in Again(enabled) THEN 0 ELSE failures[m]]
  /\ start(Startable(enabled))
  /\ cancelled' = [m \in Modules |->
       IF m \in Startable(enabled) THEN FALSE
       ELSE cancelled[m] \/ m \in Dropped(enabled) \cap Alive]
  /\ releasing' = Dropped(enabled) \cap Alive
  /\ applying' = IF releasing' = {} THEN "idle" ELSE "awaiting"
  /\ UNCHANGED <<ended, run>>

Applied ==
  /\ applying = "awaiting" /\ releasing \cap Alive = {}
  /\ applying' = "idle" /\ releasing' = {}
  /\ UNCHANGED <<ended, run, module>>

(* Slip: the configuration goes on after an Apply that failed. *)
ApplyForgiven ==
  /\ applying = "awaiting" /\ releasing \cap Alive # {}
  /\ applying' = "idle" /\ releasing' = {}
  /\ UNCHANGED <<ended, run, module>>

(* Policy.Stop has passed and a module still runs: Apply fails, and so does the
   configuration, unless the agent is stopping. *)
ApplyLate ==
  /\ applying = "awaiting" /\ releasing \cap Alive # {}
  /\ applying' = IF ended THEN "idle" ELSE "failed"
  /\ releasing' = {}
  /\ UNCHANGED <<ended, run, module>>

(* The runtime stops the agent, as the configuration is essential. *)
Fail ==
  /\ applying = "failed" /\ ~ended
  /\ ended' = TRUE
  /\ UNCHANGED <<run, apply, module>>

-----------------------------------------------------------------------------
(* collect, the goroutine of a module. *)

Go(m, from, to) == step[m] = from /\ step' = [step EXCEPT ![m] = to]

(* Collect returns, with an error or without. *)
Collected(m) ==
  /\ Go(m, "collecting", "returned")
  /\ UNCHANGED <<ended, run, apply, desired, spent, running, failures, cancelled, last, live>>

(* It looks at its context. *)
Judged(m) ==
  /\ Go(m, "returned", IF Ended(m) THEN "stopping" ELSE "failing")
  /\ UNCHANGED <<ended, run, apply, desired, spent, running, failures, cancelled, last, live>>

(* How many failures in a row a failure makes: those before are forgiven once
   the module collected for Recovered. *)
Failures(m) == {1, failures[m] + 1}

(* Slip: it has failed for good as soon as its budget is spent. *)
failedAtOnce(m) ==
  \E n \in Failures(m) :
    /\ failures' = [failures EXCEPT ![m] = n]
    /\ running' = [running EXCEPT ![m] = FALSE]
    /\ last' = [last EXCEPT ![m] = n >= Budget]
    /\ spent' = [spent EXCEPT ![m] = n >= Budget]
    /\ Go(m, "failing", IF n >= Budget THEN "ending" ELSE "waiting")
    /\ UNCHANGED <<ended, run, apply, desired, cancelled, live>>

(* failed: spent only once the goroutine lets the module go. *)
failed(m) ==
  \E n \in Failures(m) :
    /\ failures' = [failures EXCEPT ![m] = n]
    /\ running' = [running EXCEPT ![m] = FALSE]
    /\ last' = [last EXCEPT ![m] = n >= Budget]
    /\ Go(m, "failing", IF n >= Budget THEN "ending" ELSE "waiting")
    /\ UNCHANGED <<ended, run, apply, desired, spent, cancelled, live>>

(* The wait is over and the module is started again. A select may see that
   before it sees that the context ended. *)
Restart(m) ==
  /\ Go(m, "waiting", "collecting")
  /\ running' = [running EXCEPT ![m] = TRUE]
  /\ UNCHANGED <<ended, run, apply, desired, spent, failures, cancelled, last, live>>

GiveUp(m) ==
  /\ Ended(m)
  /\ Go(m, "waiting", "stopping")
  /\ UNCHANGED <<ended, run, apply, desired, spent, running, failures, cancelled, last, live>>

stopped(m) ==
  /\ Go(m, "stopping", "ending")
  /\ running' = [running EXCEPT ![m] = FALSE]
  /\ UNCHANGED <<ended, run, apply, desired, spent, failures, cancelled, last, live>>

released(m) ==
  /\ Go(m, "ending", "none")
  /\ running' = [running EXCEPT ![m] = FALSE]
  /\ spent' = [spent EXCEPT ![m] = @ \/ last[m]]
  /\ live' = [live EXCEPT ![m] = @ - 1]
  /\ UNCHANGED <<ended, run, apply, desired, failures, cancelled, last>>

Goroutine(m) == Judged(m) \/ failed(m) \/ Restart(m) \/ GiveUp(m) \/ stopped(m) \/ released(m)

-----------------------------------------------------------------------------

Next ==
  \/ Run \/ Stop \/ Return \/ ReturnLate \/ Signal
  \/ \E enabled \in SUBSET Modules : Apply(enabled)
  \/ Applied \/ ApplyLate \/ Fail
  \/ \E m \in Modules : Collected(m) \/ Goroutine(m)

Spec == Init /\ [][Next]_vars

-----------------------------------------------------------------------------

(* module.state. *)
state(m) ==
  CASE ~desired[m] -> "disabled"
    [] desired[m] /\ running[m] -> "running"
    [] desired[m] /\ ~running[m] /\ spent[m] -> "failed"
    [] OTHER -> "degraded"

(* No module is ever collected by two goroutines: Run and Apply both start
   modules, in any order, and a module may be asked for again as its goroutine
   ends. *)
OneCollector == \A m \in Modules : live[m] = IF step[m] = "none" THEN 0 ELSE 1

(* Once Apply has returned, what was asked for is what there is, until the agent
   is asked to stop: a module that is wanted has a goroutine nobody cancelled,
   or has spent its budget, and one that is not has none. A module asked for
   while its last goroutine is being released is not started by Apply, and
   nothing else would start it. *)
AppliedIsInForce ==
  phase = "running" /\ applying = "idle" /\ ~ended =>
    \A m \in Modules :
      /\ desired[m] /\ ~spent[m] => step[m] # "none" /\ ~cancelled[m]
      /\ ~desired[m] => step[m] = "none"

(* Run returns once every goroutine has ended, or names those that have not:
   no Apply that races the stop starts one it does not wait for. *)
NothingLeftBehind == phase = "returned" => Alive \subseteq stuck

(* "An operator who reads that a module failed and asks for it again gets it
   started again, however soon after the failure the request arrives." *)
AskedAgainIsStarted ==
  [][\A enabled \in SUBSET Modules : Apply(enabled) /\ phase = "running" =>
       \A m \in enabled : state(m) = "failed" => step'[m] = "collecting" /\ ~cancelled'[m]]_vars

(* A module that is degraded is started again or has failed for good, and is
   never left in between. *)
DegradedEnds ==
  \A m \in Modules :
    []<>(phase = "running" /\ state(m) = "degraded" => ended)
=============================================================================
