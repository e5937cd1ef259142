------------------------------- MODULE Agent -------------------------------
(***************************************************************************)
(* The runtime with the components that change what the agent collects:    *)
(* the configuration, which is essential and calls Apply, the collection,  *)
(* which is optional, and the delivery for every other essential component *)
(* (serve of cmd/seagull-agent/main.go composes them). The context of the  *)
(* components is the one the runtime ends: "ended" of Collection is "work" *)
(* of Runtime. Collection leaves open who ends it and when; here the       *)
(* runtime does, and only what it was told makes it.                       *)
(***************************************************************************)
EXTENDS Collection, Sequences

VARIABLES
  asked,    \* the agent was asked to stop
  agent,    \* Run of the runtime
  alive, exits, pending, reported, named, early

runtime == <<asked, agent, alive, exits, pending, reported, named, early>>
all == <<vars, runtime>>

R == INSTANCE Runtime WITH
       Essential <- {"configuration", "delivery"}, Optional <- {"collection"},
       ended <- asked, phase <- agent, work <- ended, running <- pending,
       failures <- reported, stuck <- named

AgentInit == Init /\ R!Init

(* The steps of the runtime, which end the context of the components. *)
Supervising ==
  /\ R!Signal \/ R!Start \/ R!Loop
  /\ UNCHANGED <<run, apply, module>>

(* The configuration returns the error of an Apply, or, once its context ended
   and no Apply is under way, nothing. *)
ConfigurationReturns ==
  /\ \/ applying = "failed" /\ R!Exit("configuration", "error")
     \/ applying = "idle" /\ ended /\ R!Exit("configuration", "nil")
  /\ UNCHANGED vars

(* The collection returns what Run does. *)
CollectionReturns ==
  /\ phase = "returned"
  /\ R!Exit("collection", IF stuck = {} THEN "nil" ELSE "error")
  /\ UNCHANGED vars

(* Any other essential component returns at any time, or never. *)
DeliveryReturns ==
  /\ \E err \in R!Errors : R!Exit("delivery", err)
  /\ UNCHANGED vars

(* The configuration component applies what it was asked for. *)
Configuring ==
  /\ "configuration" \in alive
  /\ Applied \/ ApplyLate \/ \E enabled \in SUBSET Modules : Apply(enabled)
  /\ UNCHANGED runtime

(* Slip: a collection that returned is composed anew. *)
CollectingAnew ==
  /\ "collection" \in alive
  /\ \/ Run \/ Stop \/ Return \/ ReturnLate
     \/ /\ phase = "returned" /\ phase' = "composed"
        /\ UNCHANGED <<ended, awaited, stuck, apply, module>>
  /\ UNCHANGED runtime

(* The collection component runs, and so do the goroutines of its modules,
   which go on for as long as the process does. *)
Collecting ==
  /\ "collection" \in alive
  /\ Run \/ Stop \/ Return \/ ReturnLate
  /\ UNCHANGED runtime

Module(m) == Goroutine(m) /\ UNCHANGED runtime

AgentNext ==
  \/ Supervising \/ ConfigurationReturns \/ CollectionReturns \/ DeliveryReturns
  \/ Configuring \/ Collecting
  \/ \E m \in Modules : Module(m) \/ (Collected(m) /\ UNCHANGED runtime)

(* The goroutines of the agent run and their timers fire. Neither a module nor
   the delivery is assumed to return, and nothing makes an operator ask. *)
AgentFairness ==
  /\ WF_all(R!Start /\ Supervising)
  /\ WF_all((R!TakeExit \/ R!TakeStop) /\ Supervising)
  /\ WF_all((R!Return \/ R!Deadline) /\ Supervising)
  /\ WF_all(ConfigurationReturns)
  /\ WF_all(Configuring /\ (Applied \/ ApplyLate))
  /\ WF_all(Collecting)
  /\ \A m \in Modules : WF_all(Module(m))

AgentSpec == AgentInit /\ [][AgentNext]_all /\ AgentFairness

-----------------------------------------------------------------------------

(* What Collection and Run of the runtime hold keeps its type, and the channel
   of exits, as long as there are components, is never full: no component waits
   to say that it returned. *)
AgentTypeOK == TypeOK /\ R!TypeOK

(* The agent does to the collection what Collection says its surroundings may
   do, so what is proved of Collection holds in the agent: the configuration is
   the one to call Apply, calls it one at a time, and calls it no more once it
   failed. *)
ImplementsCollection == Spec

(* Runtime: when the agent returns, every component has or is named. *)
NothingLeftRunning == R!NothingLeftRunning

(* Runtime: a stop nobody asked for is the failure of an essential component,
   and is reported as that. An Apply that fails is one. *)
EssentialIsReported == R!EssentialIsReported

(* An essential component that returned unasked brings the agent to its end,
   and so does an Apply that failed, whatever the other components and the
   modules do. *)
EssentialStops ==
  []<>(early # {} \/ applying = "failed" => agent = "returned")
=============================================================================
