------------------------------ MODULE Progress ------------------------------
(***************************************************************************)
(* The parts of the agent that share what there is of something, and       *)
(* promise that nobody waits for it for ever: the runtime and the          *)
(* collection it stops (Agent.tla), the turns of the routes (Link.tla) and *)
(* the slots of the governor (Pool.tla), each with the scheduling its      *)
(* goroutines have. A behaviour is one of a single part, from its initial  *)
(* states, with the others as they started.                                *)
(***************************************************************************)
EXTENDS Agent, FiniteSets

CONSTANTS
  Routes, MaxEpoch,                        \* Link.tla
  Critical, Bulk, Scanning, MaxCapacity    \* Pool.tla

(* A worker is of one class. *)
ASSUME ProgressAssumption ==
  /\ Critical \cap Bulk = {}
  /\ IsFiniteSet(Critical) /\ IsFiniteSet(Bulk)
  /\ MaxCapacity \in Nat \ {0}

VARIABLES
  part,
  epoch, failing, probing, listener, due, route, turn, woken, timed, probes,
  pool, worker

link == <<epoch, failing, probing, listener, due, route, turn, woken, timed, probes>>
slots == <<pool, worker>>
every == <<part, all, link, slots>>

L == INSTANCE Link WITH failures <- listener, phase <- route
G == INSTANCE Pool WITH Modules <- Scanning, phase <- worker

ProgressInit ==
  /\ part \in {"agent", "link", "pool"}
  /\ AgentInit /\ L!Init /\ G!Init
  /\ part # "agent" => desired = None
  /\ part # "pool" => pool.work = "scans" /\ pool.capacity = 1

ProgressNext ==
  \/ part = "agent" /\ AgentNext /\ UNCHANGED <<part, link, slots>>
  \/ part = "link" /\ L!Next /\ UNCHANGED <<part, all, slots>>
  \/ part = "pool" /\ G!Next /\ UNCHANGED <<part, all, link>>

(* The fairness of each part, as its module gives it. *)
ProgressFairness ==
  /\ WF_all(part = "agent" /\ R!Start /\ Supervising)
  /\ WF_all(part = "agent" /\ (R!TakeExit \/ R!TakeStop) /\ Supervising)
  /\ WF_all(part = "agent" /\ (R!Return \/ R!Deadline) /\ Supervising)
  /\ WF_all(part = "agent" /\ ConfigurationReturns)
  /\ WF_all(part = "agent" /\ Configuring /\ (Applied \/ ApplyLate))
  /\ WF_all(part = "agent" /\ Collecting)
  /\ \A m \in Modules : WF_all(part = "agent" /\ Module(m))
  /\ WF_link(part = "link" /\ L!Due)
  /\ \A r \in Routes :
       /\ WF_link(part = "link" /\ (L!Take(r) \/ L!Wait(r)))
       /\ WF_link(part = "link" /\ L!Wake(r))
       /\ WF_link(part = "link" /\ (L!Send(r) \/ L!Held(r)))
       /\ WF_link(part = "link" /\ (L!Answered(r) \/ L!Failed(r)))
  /\ \A w \in Critical \cup Bulk :
       /\ WF_slots(part = "pool" /\ G!Enter(w))
       /\ WF_slots(part = "pool" /\ G!Release(w))

ProgressSpec == ProgressInit /\ [][ProgressNext]_every /\ ProgressFairness

-----------------------------------------------------------------------------
(* Properties, stated in the modules of the parts. AppliedIsInForce,
   AskedAgainIsStarted and ImplementsCollection go by their own names. *)

(* Collection, Runtime: when they return, everything they started has ended or
   is named, and a stop nobody asked for is reported as the failure of an
   essential component. *)
ReturnsRightly == NothingLeftBehind /\ NothingLeftRunning /\ EssentialIsReported

(* Collection, Runtime: a module that is degraded is started again or has failed
   for good, and an essential component that returned unasked, or an Apply that
   failed, brings the agent to its end. *)
AgentMovesOn == DegradedEnds /\ EssentialStops

(* Link: while the listener fails there is one probe at most and the flag says
   whether it is out, and an outage several requests ran into is counted once,
   plus once for every probe since. *)
OneOutage == L!OneProbe /\ L!CountedOnce

(* Link: nothing but the probe is sent to a listener that fails, and no request
   sent before an answer undoes it. *)
AnswersStand == L!AnswerStands /\ L!OnlyProbesSent

(* Pool: a slot is held by whoever works and by nobody else, none is free while
   work that may have it waits, critical work waits on critical work alone, and
   no grant goes past the budget. *)
SlotsAreKept ==
  [](G!NoSlotLeaks /\ G!NoSlotIdles /\ G!CriticalWaitsOnCritical) /\ G!GrantsWithinBudget

(* Link, Pool: nobody waits for ever, neither a route for its turn nor a worker
   for its slot. *)
WaitsEnd == L!TurnComes /\ G!EveryWaitEnds
=============================================================================
