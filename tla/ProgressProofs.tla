--------------------------- MODULE ProgressProofs ---------------------------
(***************************************************************************)
(* Proofs about the agent, for any set of modules and any budget, and about *)
(* the link, for any set of routes and any bound on the epoch. Those about *)
(* the slots of the governor are in PoolProofs.tla.                        *)
(***************************************************************************)
EXTENDS Progress, TLAPS

(* What a goroutine is, wherever it has come: it fails only within its budget,
   it ends because its context did or its budget is spent, and a module says
   that it failed for good only once its goroutine let it go. *)
GoroutineInv ==
  \A m \in Modules :
    /\ step[m] \in {"collecting", "returned", "failing", "waiting"} => failures[m] < Budget
    /\ step[m] = "stopping" => Ended(m)
    /\ step[m] = "ending" => last[m] \/ Ended(m)
    /\ step[m] # "none" => ~spent[m]

(* What holds while the agent is not asked to stop: AppliedIsInForce, but for
   the goroutines Apply still waits for. *)
ForceInv ==
  phase = "running" /\ ~ended /\ applying # "failed" =>
    \A m \in Modules :
      /\ desired[m] /\ ~spent[m] => step[m] # "none" /\ ~cancelled[m]
      /\ ~desired[m] => step[m] = "none" \/ (applying = "awaiting" /\ m \in releasing)

(* Before Run there are no goroutines and nothing has failed. Once it stops,
   those there are it waits for, and once it has returned it has named them. *)
RunInv ==
  /\ phase = "composed" =>
       /\ applying = "idle"
       /\ \A m \in Modules : step[m] = "none" /\ failures[m] = 0 /\ ~spent[m] /\ ~cancelled[m]
  /\ phase = "stopping" => Alive \subseteq awaited
  /\ phase = "returned" => Alive \subseteq stuck

CollectionInv == TypeOK /\ OneCollector /\ GoroutineInv /\ ForceInv /\ RunInv

LEMMA InitInv == Init => CollectionInv
<1> SUFFICES ASSUME Init PROVE CollectionInv
  BY Zenon
<1> USE DEF Init, None
<1>1. TypeOK
  <2>1. 0 \in 0..Budget BY CollectionAssumption
  <2> QED BY <2>1, Zenon DEF TypeOK, Steps
<1>2. OneCollector BY Zenon DEF OneCollector
<1>3. GoroutineInv BY Zenon DEF GoroutineInv
<1>4. ForceInv BY Zenon DEF ForceInv
<1>5. RunInv BY Zenon DEF RunInv
<1> QED BY <1>1, <1>2, <1>3, <1>4, <1>5, Zenon DEF CollectionInv

(* Run and the end of it. *)
LEMMA RunStep ==
  ASSUME CollectionInv, Run \/ Stop \/ Return \/ ReturnLate \/ Signal \/ Applied \/ ApplyLate \/ Fail
  PROVE  CollectionInv'
<1> USE DEF CollectionInv, run, apply, module
<1>1. CASE Run
  <2>1. TypeOK' BY <1>1 DEF Run, TypeOK, start, Steps
  <2>2. OneCollector' BY <1>1 DEF Run, TypeOK, start, OneCollector, RunInv
  <2>3. GoroutineInv' BY <1>1, CollectionAssumption DEF Run, start, TypeOK, GoroutineInv, RunInv, Ended
  <2>4. ForceInv' BY <1>1, Zenon DEF Run, start, TypeOK, ForceInv, RunInv
  <2>5. RunInv' BY <1>1, Zenon DEF Run, RunInv
  <2> QED BY <2>1, <2>2, <2>3, <2>4, <2>5, Zenon
<1>2. CASE Stop \/ Return \/ ReturnLate
  <2> USE <1>2 DEF Stop, Return, ReturnLate
  <2>1. TypeOK' BY Zenon DEF TypeOK, Alive
  <2>2. OneCollector' BY Zenon DEF OneCollector
  <2>3. GoroutineInv' BY DEF GoroutineInv, Ended
  <2>4. ForceInv' BY Zenon DEF ForceInv, Alive
  <2>5. RunInv' BY Zenon DEF RunInv, Alive
  <2> QED BY <2>1, <2>2, <2>3, <2>4, <2>5, Zenon
<1>3. CASE Signal \/ Fail
  <2> USE <1>3 DEF Signal, Fail
  <2>1. TypeOK' BY Zenon DEF TypeOK, Alive
  <2>2. OneCollector' BY Zenon DEF OneCollector
  <2>3. GoroutineInv' BY Zenon DEF GoroutineInv, Ended
  <2>4. ForceInv' BY Zenon DEF ForceInv, Alive
  <2>5. RunInv' BY Zenon DEF RunInv, Alive
  <2> QED BY <2>1, <2>2, <2>3, <2>4, <2>5, Zenon
<1>4. CASE Applied \/ ApplyLate
  <2> USE <1>4 DEF Applied, ApplyLate
  <2>1. TypeOK' BY Zenon DEF TypeOK, Alive
  <2>2. OneCollector' BY Zenon DEF OneCollector
  <2>3. GoroutineInv' BY DEF GoroutineInv, Ended
  <2>4. ForceInv' BY DEF ForceInv, Alive
  <2>5. RunInv' BY Zenon DEF RunInv, Alive
  <2> QED BY <2>1, <2>2, <2>3, <2>4, <2>5, Zenon
<1> QED BY <1>1, <1>2, <1>3, <1>4, Zenon

(* A change of what is wanted. *)
LEMMA ApplyStep ==
  ASSUME CollectionInv, NEW enabled \in SUBSET Modules, Apply(enabled)
  PROVE  CollectionInv'
<1> USE DEF CollectionInv, Apply, run
<1> DEFINE started == Startable(enabled)
<1>1. started \subseteq Again(enabled) \ Alive
  BY Zenon DEF Startable
<1>2. phase # "running" => started = {}
  BY Zenon DEF Startable
<1>3. phase = "running" => started = Again(enabled) \ Alive
  BY Zenon DEF Startable
<1>4. TypeOK'
  <2>1. desired' \in [Modules -> BOOLEAN] /\ spent' \in [Modules -> BOOLEAN]
    <3>1. \A m \in Modules : (m \in enabled) \in BOOLEAN
      OBVIOUS
    <3>2. \A m \in Modules : (spent[m] /\ m \notin Again(enabled)) \in BOOLEAN
      BY Zenon
    <3>3. desired' \in [Modules -> BOOLEAN]
      BY <3>1, Zenon
    <3>4. spent' \in [Modules -> BOOLEAN]
      BY <3>2, Zenon
    <3> QED BY <3>3, <3>4, Zenon
  <2>6. cancelled' \in [Modules -> BOOLEAN]
    <3>1. \A m \in Modules :
            (IF m \in Startable(enabled) THEN FALSE
             ELSE cancelled[m] \/ m \in Dropped(enabled) \cap Alive) \in BOOLEAN
      BY Zenon
    <3> QED BY <3>1, Zenon
  <2>2. running' \in [Modules -> BOOLEAN] /\ last' \in [Modules -> BOOLEAN]
    BY Zenon DEF TypeOK, start
  <2>3. failures' \in [Modules -> 0..Budget]
    BY CollectionAssumption DEF TypeOK
  <2>4. step' \in [Modules -> Steps] /\ live' \in [Modules -> Nat]
    BY DEF TypeOK, start, Steps
  <2>5. releasing' \subseteq Modules
    BY Zenon DEF Dropped
  <2> QED
    BY <2>1, <2>2, <2>3, <2>4, <2>5, <2>6, Zenon DEF TypeOK
<1>5. OneCollector'
  BY <1>1 DEF OneCollector, start, TypeOK, Again, Alive
<1>6. GoroutineInv'
  <2> SUFFICES ASSUME NEW m \in Modules
               PROVE  /\ step'[m] \in {"collecting", "returned", "failing", "waiting"} => failures'[m] < Budget
                      /\ step'[m] = "stopping" => Ended(m)'
                      /\ step'[m] = "ending" => last'[m] \/ Ended(m)'
                      /\ step'[m] # "none" => ~spent'[m]
    BY Zenon DEF GoroutineInv
  <2>1. CASE m \in started
    <3>1. failures'[m] = 0 /\ step'[m] = "collecting"
      BY <1>1, <2>1, Zenon DEF start
    <3>2. ~spent'[m]
      BY <1>1, <2>1, Zenon
    <3> QED BY <3>1, <3>2, CollectionAssumption
  <2>2. CASE m \notin started
    <3>1. step'[m] = step[m] /\ last'[m] = last[m]
      BY <2>2, Zenon DEF start, TypeOK
    <3>2. failures'[m] = 0 \/ failures'[m] = failures[m]
      BY Zenon
    <3>3. Ended(m) => Ended(m)'
      BY <2>2, Zenon DEF Ended
    <3>4. spent'[m] => spent[m]
      BY Zenon
    <3> QED BY <3>1, <3>2, <3>3, <3>4, CollectionAssumption DEF GoroutineInv
  <2> QED BY <2>1, <2>2, Zenon
<1>7. ForceInv'
  <2> SUFFICES ASSUME phase = "running", ~ended, NEW m \in Modules
               PROVE  /\ desired'[m] /\ ~spent'[m] => step'[m] # "none" /\ ~cancelled'[m]
                      /\ ~desired'[m] => step'[m] = "none" \/ (applying' = "awaiting" /\ m \in releasing')
    BY Zenon DEF ForceInv
  <2>1. /\ desired[m] /\ ~spent[m] => step[m] # "none" /\ ~cancelled[m]
        /\ ~desired[m] => step[m] = "none"
    BY Zenon DEF ForceInv
  <2>2. started = Again(enabled) \ Alive
    BY <1>3, Zenon
  <2>3. CASE m \in started
    <3>1. step'[m] = "collecting" /\ ~cancelled'[m]
      BY <2>3, Zenon DEF start
    <3>2. desired'[m]
      BY <2>2, <2>3, Zenon DEF Again
    <3> QED BY <3>1, <3>2, Zenon
  <2>4. CASE m \notin started
    <3>1. step'[m] = step[m]
      BY <2>4, Zenon DEF start
    <3>2. CASE m \in enabled
      <4>1. m \in Alive \/ (desired[m] /\ ~spent[m])
        BY <2>2, <2>4, <3>2, Zenon DEF Again
      <4>2. desired'[m]
        BY <3>2, Zenon
      <4>3. step[m] # "none"
        BY <4>1, <2>1, Zenon DEF Alive
      <4>4. desired[m]
        BY <4>1, <4>3, <2>1, Zenon
      <4>5. ~cancelled[m]
        BY <2>1, <4>3, <4>4, Zenon DEF GoroutineInv
      <4>6. ~cancelled'[m]
        BY <2>4, <3>2, <4>5, Zenon DEF Dropped
      <4> QED BY <3>1, <4>2, <4>3, <4>6, Zenon
    <3>3. CASE m \notin enabled
      <4>1. ~desired'[m]
        BY <3>3, Zenon
      <4>2. desired[m] /\ step[m] # "none" => m \in releasing'
        BY <3>3, Zenon DEF Dropped, Alive
      <4>3. m \in releasing' => applying' = "awaiting"
        BY Zenon
      <4> QED BY <2>1, <3>1, <4>1, <4>2, <4>3, Zenon
    <3> QED BY <3>2, <3>3, Zenon
  <2> QED BY <2>3, <2>4, Zenon
<1>8. RunInv'
  BY <1>1, <1>2, Zenon DEF RunInv, start, TypeOK, Again, Dropped, Alive
<1> QED BY <1>4, <1>5, <1>6, <1>7, <1>8, Zenon

(* The goroutine of a module. *)
LEMMA GoroutineStep ==
  ASSUME CollectionInv, NEW m \in Modules, Collected(m) \/ Goroutine(m)
  PROVE  CollectionInv'
<1> USE DEF CollectionInv, run, apply, Go
<1>1. CASE Collected(m) \/ Judged(m) \/ Restart(m) \/ GiveUp(m) \/ stopped(m)
  <2> USE <1>1 DEF Collected, Judged, Restart, GiveUp, stopped
  <2>1. TypeOK' BY Zenon DEF TypeOK, Steps
  <2>2. OneCollector' BY Zenon DEF OneCollector, TypeOK
  <2>3. GoroutineInv' BY DEF GoroutineInv, TypeOK, Ended
  <2>4. ForceInv' BY DEF ForceInv, TypeOK
  <2>5. RunInv' BY Zenon DEF RunInv, TypeOK, Alive
  <2> QED BY <2>1, <2>2, <2>3, <2>4, <2>5, Zenon
<1>2. CASE failed(m)
  <2>1. PICK n \in Failures(m) :
          /\ failures' = [failures EXCEPT ![m] = n]
          /\ running' = [running EXCEPT ![m] = FALSE]
          /\ last' = [last EXCEPT ![m] = n >= Budget]
          /\ step[m] = "failing"
          /\ step' = [step EXCEPT ![m] = IF n >= Budget THEN "ending" ELSE "waiting"]
          /\ UNCHANGED <<ended, phase, awaited, stuck, applying, releasing, desired, spent, cancelled, live>>
    BY <1>2, Zenon DEF failed
  <2>2. n \in 0..Budget
    BY <2>1, CollectionAssumption DEF Failures, GoroutineInv, TypeOK
  <2>3. TypeOK'
    <3>1. (n >= Budget) \in BOOLEAN OBVIOUS
    <3>2. last' \in [Modules -> BOOLEAN] BY <2>1, <3>1, Zenon DEF TypeOK
    <3>3. failures' \in [Modules -> 0..Budget] BY <2>1, <2>2, Zenon DEF TypeOK
    <3>4. step' \in [Modules -> Steps] BY <2>1, Zenon DEF TypeOK, Steps
    <3> QED BY <2>1, <3>2, <3>3, <3>4, Zenon DEF TypeOK
  <2>4. OneCollector' BY <2>1, Zenon DEF OneCollector, TypeOK
  <2>5. GoroutineInv'
    <3> SUFFICES ASSUME NEW k \in Modules
                 PROVE  /\ step'[k] \in {"collecting", "returned", "failing", "waiting"} => failures'[k] < Budget
                        /\ step'[k] = "stopping" => Ended(k)'
                        /\ step'[k] = "ending" => last'[k] \/ Ended(k)'
                        /\ step'[k] # "none" => ~spent'[k]
      BY Zenon DEF GoroutineInv
    <3>1. CASE k = m
      <4>1. failures'[k] = n /\ ~spent'[k]
        BY <2>1, <3>1, Zenon DEF GoroutineInv, TypeOK
      <4>2. step'[k] = IF n >= Budget THEN "ending" ELSE "waiting"
        BY <2>1, <3>1, Zenon DEF TypeOK
      <4>3. n >= Budget => last'[k]
        BY <2>1, <3>1, Zenon DEF TypeOK
      <4> QED BY <2>2, <4>1, <4>2, <4>3, CollectionAssumption
    <3>2. CASE k # m
      <4>1. /\ step'[k] = step[k] /\ failures'[k] = failures[k] /\ last'[k] = last[k]
            /\ spent'[k] = spent[k]
        BY <2>1, <3>2, Zenon DEF TypeOK
      <4>2. Ended(k)' <=> Ended(k)
        BY <2>1, Zenon DEF Ended
      <4> QED BY <4>1, <4>2, Zenon DEF GoroutineInv
    <3> QED BY <3>1, <3>2, Zenon
  <2>6. ForceInv' BY <2>1, Zenon DEF ForceInv, TypeOK
  <2>7. RunInv' BY <2>1, Zenon DEF RunInv, TypeOK, Alive
  <2> QED BY <2>3, <2>4, <2>5, <2>6, <2>7, Zenon
<1>3. CASE released(m)
  <2> USE <1>3 DEF released
  <2>1. live[m] = 1 BY Zenon DEF OneCollector
  <2>2. TypeOK' BY <2>1 DEF TypeOK, Steps
  <2>3. OneCollector' BY <2>1 DEF OneCollector, TypeOK
  <2>4. GoroutineInv' BY Zenon DEF GoroutineInv, TypeOK, Ended
  <2>5. ForceInv' BY Zenon DEF ForceInv, GoroutineInv, TypeOK, Ended
  <2>6. RunInv' BY Zenon DEF RunInv, TypeOK, Alive
  <2> QED BY <2>2, <2>3, <2>4, <2>5, <2>6, Zenon
<1> QED BY <1>1, <1>2, <1>3, Zenon DEF Goroutine

LEMMA CollectionStep == CollectionInv /\ [Next]_vars => CollectionInv'
<1> SUFFICES ASSUME CollectionInv, [Next]_vars PROVE CollectionInv'
  BY Zenon
<1>1. CASE UNCHANGED vars
  BY <1>1, Zenon DEF vars, run, apply, module, CollectionInv, TypeOK, OneCollector, GoroutineInv, ForceInv, RunInv,
     Alive, Ended
<1>2. CASE Next
  BY <1>2, RunStep, ApplyStep, GoroutineStep, Zenon DEF Next
<1> QED BY <1>1, <1>2, Zenon

LEMMA CollectionInvariant == Spec => []CollectionInv
BY InitInv, CollectionStep, PTL DEF Spec

-----------------------------------------------------------------------------

(* However Run, Apply and failures interleave, no module is collected by two
   goroutines. *)
THEOREM CollectedByOne == Spec => []OneCollector
<1>1. CollectionInv => OneCollector BY Zenon DEF CollectionInv
<1> QED BY <1>1, CollectionInvariant, PTL

(* Once Apply has returned, a module that is wanted is collected or has spent
   its budget, and one that is not wanted has been released. *)
THEOREM AppliedHolds == Spec => []AppliedIsInForce
<1>1. CollectionInv => AppliedIsInForce
  BY Zenon DEF CollectionInv, ForceInv, AppliedIsInForce
<1> QED BY <1>1, CollectionInvariant, PTL

(* When Run returns, every goroutine has ended or is named in its error. *)
THEOREM NoneLeftBehind == Spec => []NothingLeftBehind
<1>1. CollectionInv => NothingLeftBehind
  BY Zenon DEF CollectionInv, RunInv, NothingLeftBehind
<1> QED BY <1>1, CollectionInvariant, PTL

-----------------------------------------------------------------------------
(* The agent. *)

(* The context of the components is not ended before the runtime starts. *)
ContextInv == ended \in BOOLEAN /\ asked \in BOOLEAN /\ (agent = "starting" => ~ended)

(* The runtime ends the context of the components, once, and does nothing else
   to the collection. *)
LEMMA SupervisingStep ==
  ASSUME ContextInv, Supervising
  PROVE  ContextInv' /\ [Next]_vars
<1>1. CASE R!Signal
  BY <1>1, Zenon DEF R!Signal, Supervising, ContextInv, Next, Signal, vars
<1>2. CASE R!Start
  BY <1>2, Zenon DEF R!Start, Supervising, ContextInv, Next, Signal, vars
<1>3. CASE R!TakeExit
  <2>1. UNCHANGED <<run, apply, module>> BY Zenon DEF Supervising
  <2>2. agent' # "starting" /\ asked' = asked BY <1>3, Zenon DEF R!TakeExit
  <2>3. \E stops \in BOOLEAN : ended' = (ended \/ stops)
    <3> DEFINE stops == R!settle(Head(exits), asked) /\ ~asked
    <3>1. stops \in BOOLEAN BY Zenon
    <3>2. ended' = (ended \/ stops) BY <1>3, Zenon DEF R!TakeExit
    <3> HIDE DEF stops
    <3> QED BY <3>1, <3>2, Zenon
  <2>4. ended' = ended \/ (~ended /\ ended' = TRUE) BY <2>3, Zenon DEF ContextInv
  <2> QED BY <2>1, <2>2, <2>4, Zenon DEF ContextInv, Next, Signal, vars
<1>4. CASE R!TakeStop
  BY <1>4, Zenon DEF R!TakeStop, Supervising, ContextInv, Next, Signal, vars
<1>5. CASE R!Drain \/ R!Deadline \/ R!Return
  BY <1>5, Zenon DEF R!Drain, R!Deadline, R!Return, Supervising, ContextInv, vars
<1> QED BY <1>1, <1>2, <1>3, <1>4, <1>5, Zenon DEF Supervising, R!Loop

LEMMA AgentStep ==
  ASSUME ContextInv, [AgentNext]_all
  PROVE  ContextInv' /\ [Next]_vars
<1>1. CASE Supervising BY <1>1, SupervisingStep, Zenon
<1>2. CASE ConfigurationReturns \/ CollectionReturns \/ DeliveryReturns
  <2>1. UNCHANGED vars
    BY <1>2, Zenon DEF ConfigurationReturns, CollectionReturns, DeliveryReturns
  <2>2. UNCHANGED <<agent, asked>>
    BY <1>2, Zenon DEF ConfigurationReturns, CollectionReturns, DeliveryReturns, R!Exit
  <2> QED BY <2>1, <2>2, Zenon DEF ContextInv, vars
<1>3. CASE Configuring
  <2>1. Next BY <1>3, Zenon DEF Configuring, Next
  <2>2. UNCHANGED <<agent, asked, ended>>
    BY <1>3, Zenon DEF Configuring, Applied, ApplyLate, Apply, runtime
  <2> QED BY <2>1, <2>2, Zenon DEF ContextInv
<1>4. CASE Collecting
  BY <1>4 DEF Collecting, Run, Stop, Return, ReturnLate, Next, ContextInv, runtime
<1>5. ASSUME NEW m \in Modules, Module(m) \/ (Collected(m) /\ UNCHANGED runtime)
      PROVE  ContextInv' /\ [Next]_vars
  <2>1. UNCHANGED runtime /\ (Collected(m) \/ Goroutine(m)) BY <1>5, Zenon DEF Module
  <2>2. ended' = ended
    BY <2>1, Zenon DEF Collected, Goroutine, Judged, failed, Restart, GiveUp, stopped, released
  <2>3. Next BY <2>1, Zenon DEF Next
  <2> QED BY <2>1, <2>2, <2>3, Zenon DEF ContextInv, runtime
<1>6. CASE UNCHANGED all
  <2>1. UNCHANGED vars /\ UNCHANGED runtime BY <1>6, Zenon DEF all
  <2> QED BY <2>1, Zenon DEF vars, runtime, ContextInv
<1> QED BY <1>1, <1>2, <1>3, <1>4, <1>5, <1>6, Zenon DEF AgentNext

-----------------------------------------------------------------------------
(* The runtime. *)

Essential == {"configuration", "delivery"}

(* Whoever has said that it returned is not alive. Until the agent stops, an
   essential component that has said so and was not asked to is one that returned
   early, since nothing ends the context of the components before the agent
   stops or is asked to. *)
RuntimeInv ==
  /\ exits \in Seq(R!Exits)
  /\ agent \in {"starting", "running", "stopping", "returned"}
  /\ alive \subseteq pending
  /\ \A i \in 1 .. Len(exits) : exits[i].component \notin alive
  /\ agent = "starting" => alive = {} /\ exits = <<>>
  /\ agent \in {"starting", "running"} /\ ~asked =>
       /\ ~ended
       /\ \A i \in 1 .. Len(exits) : exits[i].component \in Essential => exits[i].component \in early
  /\ R!NothingLeftRunning
  /\ R!EssentialIsReported

LEMMA RuntimeStarts == AgentInit => RuntimeInv
BY DEF AgentInit, R!Init, Init, RuntimeInv, R!NothingLeftRunning, R!EssentialIsReported

(* A component returns. *)
LEMMA ExitKeeps ==
  ASSUME ContextInv, RuntimeInv, NEW c \in R!Components, NEW err \in R!Errors, R!Exit(c, err), UNCHANGED ended
  PROVE  RuntimeInv'
<1> USE DEF RuntimeInv
<1>1. /\ c \in alive /\ alive' = alive \ {c}
      /\ exits' = Append(exits, [component |-> c, err |-> err])
      /\ UNCHANGED <<asked, agent, pending, reported, named>>
  BY Zenon DEF R!Exit
<1>2. early' = IF ended THEN early ELSE early \cup ({c} \cap Essential)
  BY Zenon DEF R!Exit, Essential
<1>3. [component |-> c, err |-> err] \in R!Exits
  BY Zenon DEF R!Exits
<1>4. /\ exits' \in Seq(R!Exits) /\ Len(exits') = Len(exits) + 1
      /\ \A i \in 1 .. Len(exits) : exits'[i] = exits[i]
      /\ exits'[Len(exits) + 1].component = c
  BY <1>1, <1>3
<1>5. \A i \in 1 .. Len(exits') : i \in 1 .. Len(exits) \/ i = Len(exits) + 1
  BY <1>4
<1>6. \A i \in 1 .. Len(exits') : exits'[i].component \notin alive'
  BY <1>1, <1>4, <1>5, Zenon
<1>7. agent' \in {"starting", "running"} /\ ~asked' =>
        \A i \in 1 .. Len(exits') : exits'[i].component \in Essential => exits'[i].component \in early'
  BY <1>1, <1>2, <1>4, <1>5, Zenon
<1>8. early \subseteq early'
  BY <1>2, Zenon
<1>9. R!NothingLeftRunning' /\ R!EssentialIsReported'
  BY <1>1, <1>8, Zenon DEF R!NothingLeftRunning, R!EssentialIsReported
<1> QED
  BY <1>1, <1>4, <1>6, <1>7, <1>9, Zenon

(* Run takes an exit, from the loop it is in. *)
LEMMA RecordKeeps ==
  ASSUME RuntimeInv, NEW stopping, R!record(stopping), UNCHANGED alive
  PROVE  /\ exits' \in Seq(R!Exits) /\ Len(exits) > 0 /\ exits[1] = Head(exits)
         /\ Len(exits') = Len(exits) - 1 /\ \A i \in 1 .. Len(exits') : exits'[i] = exits[i + 1]
         /\ alive' \subseteq pending'
         /\ \A i \in 1 .. Len(exits') : exits'[i].component \notin alive'
         /\ reported \subseteq reported' /\ reported' \subseteq Essential
         /\ R!settle(Head(exits), stopping) => Head(exits).component \in reported'
<1> USE DEF RuntimeInv
<1>1. /\ exits # <<>> /\ exits' = Tail(exits) /\ pending' = pending \ {Head(exits).component}
      /\ reported' = reported \cup (IF R!settle(Head(exits), stopping) THEN {Head(exits).component} ELSE {})
  BY Zenon DEF R!record
<1>2. /\ exits' \in Seq(R!Exits) /\ Len(exits) > 0 /\ exits[1] = Head(exits)
      /\ Len(exits') = Len(exits) - 1 /\ \A i \in 1 .. Len(exits') : exits'[i] = exits[i + 1]
  BY <1>1
<1>3. \A i \in 1 .. Len(exits') : i + 1 \in 1 .. Len(exits)
  BY <1>2
<1>4. R!settle(Head(exits), stopping) => Head(exits).component \in Essential
  BY Zenon DEF R!settle, Essential
<1>5. reported \subseteq Essential
  BY Zenon DEF R!EssentialIsReported, Essential
<1> QED
  BY <1>1, <1>2, <1>3, <1>4, <1>5

(* A step of the runtime itself. *)
LEMMA SupervisingKeeps ==
  ASSUME ContextInv, RuntimeInv, Supervising
  PROVE  RuntimeInv'
<1> USE DEF RuntimeInv, R!NothingLeftRunning, R!EssentialIsReported
<1>1. CASE R!Signal
  BY <1>1, Zenon DEF R!Signal, ContextInv
<1>2. CASE R!Start
  BY <1>2 DEF R!Start, ContextInv
<1>3. CASE R!TakeExit
  <2>1. /\ agent = "running" /\ R!record(asked) /\ UNCHANGED <<asked, alive, named, early>>
    BY <1>3, Zenon DEF R!TakeExit
  <2>2. CASE R!settle(Head(exits), asked) /\ ~asked
    <3>1. agent' = "stopping"
      BY <1>3, <2>2, Zenon DEF R!TakeExit
    <3>2. Head(exits).component \in Essential
      BY <2>2, Zenon DEF R!settle, Essential
    <3>3. Head(exits).component \in early
      BY <2>1, <2>2, <3>2, RecordKeeps
    <3> QED BY <2>1, <2>2, <3>1, <3>3, RecordKeeps, Zenon DEF Essential
  <2>3. CASE ~(R!settle(Head(exits), asked) /\ ~asked)
    <3>1. agent' = "running" /\ (~ended => ~ended')
      BY <1>3, <2>3, Zenon DEF R!TakeExit
    <3>2. /\ exits' \in Seq(R!Exits) /\ alive' \subseteq pending' /\ reported' \subseteq Essential
          /\ \A i \in 1 .. Len(exits') : exits'[i].component \notin alive'
      BY <2>1, RecordKeeps, Zenon
    <3>3. Len(exits') = Len(exits) - 1 /\ \A i \in 1 .. Len(exits') : exits'[i] = exits[i + 1]
      BY <2>1, RecordKeeps, Zenon
    <3>4. \A i \in 1 .. Len(exits') : i + 1 \in 1 .. Len(exits)
      BY <3>2, <3>3
    <3> QED BY <2>1, <3>1, <3>2, <3>3, <3>4, Zenon DEF Essential
  <2> QED BY <2>2, <2>3, Zenon
<1>4. CASE R!TakeStop
  BY <1>4, Zenon DEF R!TakeStop, ContextInv
<1>5. CASE R!Drain
  <2>1. /\ agent = "stopping" /\ R!record(TRUE) /\ UNCHANGED <<asked, agent, ended, alive, named, early>>
    BY <1>5, Zenon DEF R!Drain
  <2> QED BY <2>1, RecordKeeps, Zenon DEF Essential
<1>6. CASE R!Deadline \/ R!Return
  BY <1>6, Zenon DEF R!Deadline, R!Return, ContextInv
<1> QED BY <1>1, <1>2, <1>3, <1>4, <1>5, <1>6, Zenon DEF Supervising, R!Loop

LEMMA RuntimeKeeps ==
  ASSUME ContextInv, RuntimeInv, [AgentNext]_all
  PROVE  RuntimeInv'
<1>1. CASE Supervising BY <1>1, SupervisingKeeps, Zenon
<1>2. CASE ConfigurationReturns \/ CollectionReturns \/ DeliveryReturns
  <2>1. UNCHANGED ended
    BY <1>2, Zenon DEF ConfigurationReturns, CollectionReturns, DeliveryReturns, vars
  <2>2. \E c \in R!Components, err \in R!Errors : R!Exit(c, err)
    BY <1>2, Zenon DEF ConfigurationReturns, CollectionReturns, DeliveryReturns, R!Components, R!Errors
  <2> QED BY <2>1, <2>2, ExitKeeps, Zenon
<1>3. CASE UNCHANGED <<runtime, ended>>
  BY <1>3, Zenon DEF runtime, RuntimeInv, R!NothingLeftRunning, R!EssentialIsReported
<1>4. CASE Configuring
  <2>1. UNCHANGED <<runtime, ended>>
    BY <1>4, Zenon DEF Configuring, Applied, ApplyLate, Apply
  <2> QED BY <1>3, <2>1, Zenon
<1>5. CASE Collecting
  <2>1. UNCHANGED <<runtime, ended>>
    BY <1>5, Zenon DEF Collecting, Run, Stop, Return, ReturnLate
  <2> QED BY <1>3, <2>1, Zenon
<1>6. ASSUME NEW m \in Modules, Module(m) \/ (Collected(m) /\ UNCHANGED runtime)
      PROVE  UNCHANGED <<runtime, ended>>
  BY <1>6, Zenon DEF Module, Collected, Goroutine, Judged, failed, Restart, GiveUp, stopped, released
<1>7. CASE UNCHANGED all
  <2>1. UNCHANGED <<runtime, ended>> BY <1>7, Zenon DEF all, vars
  <2> QED BY <1>3, <2>1, Zenon
<1> QED BY <1>1, <1>2, <1>3, <1>4, <1>5, <1>6, <1>7, Zenon DEF AgentNext

-----------------------------------------------------------------------------
(* The link. *)

(* What OneProbe and CountedOnce need to be inductive: no turn is of an epoch
   the link has not reached, so every change of the link leaves no turn of it
   as it stands; and while a probe is out the failures counted are no more
   than the probes made, since the one that is out has not failed yet. *)
LinkInv ==
  /\ L!TypeOK
  /\ L!OneProbe
  /\ L!CountedOnce
  /\ \A r \in Routes : L!Out(r) => turn[r].epoch <= epoch
  /\ probing => listener <= probes
  /\ ~failing => probes = 0 /\ \A r \in Routes : L!Current(r) => ~turn[r].probe

LEMMA InitLinkInv == L!Init => LinkInv
<1>. SUFFICES ASSUME L!Init PROVE LinkInv
  BY Zenon
<1>1. L!TypeOK BY Zenon DEF L!Init, L!TypeOK, L!NoTurn, L!Phases
<1>2. L!OneProbe BY Zenon DEF L!Init, L!OneProbe
<1>3. L!CountedOnce BY Zenon DEF L!Init, L!CountedOnce
<1>4. \A r \in Routes : ~L!Out(r) BY Zenon DEF L!Init, L!Out
<1>. QED BY <1>1, <1>2, <1>3, <1>4, Zenon DEF L!Init, LinkInv, L!Current

(* Every change of the link keeps its types. *)
LEMMA TypeStep == ASSUME LinkInv, L!Next \/ UNCHANGED link PROVE L!TypeOK'
<1> USE DEF LinkInv, L!TypeOK, L!Phases
<1>0. L!NoTurn \in [epoch : Nat, probe : BOOLEAN] BY Zenon DEF L!NoTurn
<1>a. L!announce => woken' \subseteq Routes BY Zenon DEF L!announce
<1>1. CASE L!Due BY <1>1, Zenon DEF L!Due
<1>2. ASSUME NEW r \in Routes,
             L!Ask(r) \/ L!Take(r) \/ L!Wait(r) \/ L!Wake(r) \/ L!Send(r) \/ L!Stop(r)
      PROVE L!TypeOK'
  BY <1>2 DEF L!Ask, L!Take, L!Wait, L!Wake, L!Send, L!Stop
<1>3. ASSUME NEW r \in Routes, L!Held(r) \/ L!Abandon(r) PROVE L!TypeOK'
  <2>a. turn[r].probe /\ turn[r].epoch = epoch => probes >= 1
    BY <1>3 DEF L!Held, L!Abandon, L!Out, L!Current, L!OneProbe, L!CountedOnce, L!Stands
  <2>1. epoch' \in Nat BY <1>3, Zenon DEF L!Held, L!Abandon, L!Abandoned
  <2>2. failing' \in BOOLEAN BY <1>3, Zenon DEF L!Held, L!Abandon, L!Abandoned
  <2>3. probing' \in BOOLEAN BY <1>3, Zenon DEF L!Held, L!Abandon, L!Abandoned
  <2>4. listener' \in Nat BY <1>3, Zenon DEF L!Held, L!Abandon, L!Abandoned
  <2>5. due' \in BOOLEAN BY <1>3, Zenon DEF L!Held, L!Abandon, L!Abandoned
  <2>6. route' \in [Routes -> L!Phases] BY <1>3, Zenon DEF L!Held, L!Abandon, L!Abandoned
  <2>7. turn' \in [Routes -> [epoch : Nat, probe : BOOLEAN]] BY <1>0, <1>3, Zenon DEF L!Held, L!Abandon, L!Abandoned
  <2>8. woken' \subseteq Routes BY <1>a, <1>3, Zenon DEF L!Held, L!Abandon, L!Abandoned
  <2>9. timed' \subseteq Routes BY <1>3, Zenon DEF L!Held, L!Abandon, L!Abandoned
  <2>10. probes' \in Nat BY <2>a, <1>3 DEF L!Held, L!Abandon, L!Abandoned
  <2>. QED BY <2>1, <2>2, <2>3, <2>4, <2>5, <2>6, <2>7, <2>8, <2>9, <2>10, Zenon
<1>4. ASSUME NEW r \in Routes, L!Answered(r) PROVE L!TypeOK'
  <2>1. epoch' \in Nat BY <1>4 DEF L!Answered
  <2>2. failing' \in BOOLEAN BY <1>4, Zenon DEF L!Answered
  <2>3. probing' \in BOOLEAN BY <1>4, Zenon DEF L!Answered
  <2>4. listener' \in Nat BY <1>4 DEF L!Answered
  <2>5. due' \in BOOLEAN BY <1>4, Zenon DEF L!Answered
  <2>6. route' \in [Routes -> L!Phases] BY <1>4, Zenon DEF L!Answered
  <2>7. turn' \in [Routes -> [epoch : Nat, probe : BOOLEAN]] BY <1>0, <1>4, Zenon DEF L!Answered
  <2>8. woken' \subseteq Routes BY <1>a, <1>4, Zenon DEF L!Answered
  <2>9. timed' \subseteq Routes BY <1>4, Zenon DEF L!Answered
  <2>10. probes' \in Nat BY <1>4 DEF L!Answered
  <2>. QED BY <2>1, <2>2, <2>3, <2>4, <2>5, <2>6, <2>7, <2>8, <2>9, <2>10, Zenon
<1>5. ASSUME NEW r \in Routes, L!Failed(r) PROVE L!TypeOK'
  <2>1. epoch' \in Nat BY <1>5 DEF L!Failed, L!FailedLate, L!FailedNow
  <2>2. failing' \in BOOLEAN BY <1>5, Zenon DEF L!Failed, L!FailedLate, L!FailedNow
  <2>3. probing' \in BOOLEAN BY <1>5, Zenon DEF L!Failed, L!FailedLate, L!FailedNow
  <2>4. listener' \in Nat BY <1>5 DEF L!Failed, L!FailedLate, L!FailedNow
  <2>5. due' \in BOOLEAN BY <1>5, Zenon DEF L!Failed, L!FailedLate, L!FailedNow
  <2>6. route' \in [Routes -> L!Phases] BY <1>5, Zenon DEF L!Failed, L!FailedLate, L!FailedNow
  <2>7. turn' \in [Routes -> [epoch : Nat, probe : BOOLEAN]] BY <1>0, <1>5, Zenon DEF L!Failed, L!FailedLate, L!FailedNow
  <2>8. woken' \subseteq Routes BY <1>a, <1>5, Zenon DEF L!Failed, L!FailedLate, L!FailedNow
  <2>9. timed' \subseteq Routes BY <1>5, Zenon DEF L!Failed, L!FailedLate, L!FailedNow
  <2>10. probes' \in Nat BY <1>5, Zenon DEF L!Failed, L!FailedLate, L!FailedNow
  <2>. QED BY <2>1, <2>2, <2>3, <2>4, <2>5, <2>6, <2>7, <2>8, <2>9, <2>10, Zenon
<1>6. CASE UNCHANGED link BY <1>6, Zenon DEF link
<1>. QED
  <2>1. CASE L!Next BY <1>1, <1>2, <1>3, <1>4, <1>5, <2>1, Zenon DEF L!Next
  <2>. QED BY <1>6, <2>1, Zenon

(* A step that settles the turn of r takes it away and leaves the others. *)
Less(r) ==
  /\ ~L!Out(r)'
  /\ \A q \in Routes : q # r => route'[q] = route[q] /\ turn'[q] = turn[q]

LEMMA TurnSettled ==
  ASSUME L!TypeOK, NEW r \in Routes, L!Held(r) \/ L!Abandon(r) \/ L!Answered(r) \/ L!Failed(r)
  PROVE Less(r)
<1>1. CASE L!Held(r) BY <1>1, Zenon DEF Less, L!Out, L!TypeOK, L!Held
<1>2. CASE L!Abandon(r) BY <1>2, Zenon DEF Less, L!Out, L!TypeOK, L!Abandon
<1>3. CASE L!Answered(r) BY <1>3, Zenon DEF Less, L!Out, L!TypeOK, L!Answered
<1>4. CASE L!Failed(r) BY <1>4, Zenon DEF Less, L!Out, L!TypeOK, L!Failed, L!FailedLate, L!FailedNow
<1>. QED BY <1>1, <1>2, <1>3, <1>4, Zenon

(* The invariant is preserved: by the steps that leave the turns as they are,
   by a turn taken, and by a turn settled. *)
LEMMA LinkStep == ASSUME LinkInv, L!Next \/ UNCHANGED link PROVE LinkInv'
<1> USE DEF LinkInv, L!OneProbe, L!CountedOnce, L!Current, L!Out
<1>0. L!TypeOK' BY TypeStep, Zenon
<1>1. CASE L!Due BY <1>0, <1>1, Zenon DEF L!Due
<1>2. ASSUME NEW r \in Routes, L!Ask(r) \/ L!Wait(r) \/ L!Wake(r) \/ L!Send(r) \/ L!Stop(r) PROVE LinkInv'
  <2>1. \A q \in Routes : L!Out(q)' <=> L!Out(q)
    BY <1>2, Zenon DEF L!Ask, L!Wait, L!Wake, L!Send, L!Stop, L!TypeOK
  <2>2. UNCHANGED <<epoch, failing, probing, listener, probes, turn>>
    BY <1>2, Zenon DEF L!Ask, L!Wait, L!Wake, L!Send, L!Stop
  <2>. QED BY <1>0, <2>1, <2>2, Zenon
<1>3. ASSUME NEW r \in Routes, L!Take(r) PROVE LinkInv'
  BY <1>0, <1>3 DEF L!Take, L!Open, L!TypeOK, L!Phases
<1>4. ASSUME NEW r \in Routes, L!Held(r) \/ L!Abandon(r) PROVE LinkInv'
  <2>1. Less(r) BY <1>4, TurnSettled, Zenon
  <2>2. UNCHANGED <<epoch, failing, listener>> BY <1>4, Zenon DEF L!Held, L!Abandon
  <2>4. L!Out(r) BY <1>4, Zenon DEF L!Held, L!Abandon
  <2>5. CASE L!Current(r) /\ failing
    <3>2. probing' = FALSE /\ probes' = probes - 1
      BY <1>4, <2>5, Zenon DEF L!Held, L!Abandon, L!Abandoned
    <3>. QED BY <1>0, <2>1, <2>2, <2>5, <3>2 DEF Less, L!TypeOK
  <2>6. CASE ~(L!Current(r) /\ failing)
    <3>1. UNCHANGED <<probing, probes>>
      BY <1>4, <2>4, <2>6, Zenon DEF L!Held, L!Abandon, L!Abandoned
    <3>. QED BY <1>0, <2>1, <2>2, <2>6, <3>1 DEF Less, L!TypeOK
  <2>. QED BY <2>5, <2>6, Zenon
<1>5. ASSUME NEW r \in Routes, L!Answered(r) PROVE LinkInv'
  <2>1. Less(r) BY <1>5, TurnSettled, Zenon
  <2>2. CASE failing
    <3>1. epoch' = epoch + 1 /\ ~failing' /\ ~probing' /\ listener' = 0 /\ probes' = 0
      BY <1>5, <2>2, Zenon DEF L!Answered
    <3>. QED BY <1>0, <2>1, <3>1 DEF Less, L!TypeOK
  <2>3. CASE ~failing
    <3>1. UNCHANGED <<epoch, failing, probing, listener, probes>> BY <1>5, <2>3, Zenon DEF L!Answered
    <3>. QED BY <1>0, <2>1, <2>3, <3>1, Zenon DEF Less, L!TypeOK
  <2>. QED BY <2>2, <2>3, Zenon
<1>6. ASSUME NEW r \in Routes, L!Failed(r) PROVE LinkInv'
  <2>1. Less(r) BY <1>6, TurnSettled, Zenon
  <2>2. CASE L!FailedLate(r)
    <3>1. UNCHANGED <<epoch, failing, probing, listener, probes>> /\ ~L!Current(r)
      BY <2>2, Zenon DEF L!FailedLate
    <3>2. \A q \in Routes : L!Out(q)' => L!Out(q) /\ turn'[q] = turn[q] BY <2>1, Zenon DEF Less
    <3>3. \A q \in Routes : L!Current(q)' <=> L!Current(q) BY <2>1, <3>1, <3>2, Zenon DEF Less
    <3>4. L!OneProbe' BY <3>1, <3>2, <3>3, Zenon
    <3>5. L!CountedOnce' BY <3>1, Zenon
    <3>. QED BY <1>0, <3>1, <3>2, <3>3, <3>4, <3>5, Zenon
  <2>3. CASE L!FailedNow(r)
    <3>1. epoch' = epoch + 1 /\ failing' /\ ~probing' /\ listener' = listener + 1 /\ probes' = probes
      BY <2>3, Zenon DEF L!FailedNow
    <3>2. L!Current(r) BY <2>3, Zenon DEF L!FailedNow
    <3>3. failing => listener <= probes BY <3>2, Zenon
    <3>4. \A q \in Routes : L!Out(q)' => turn'[q].epoch <= epoch BY <2>1, Zenon DEF Less
    <3>5. \A q \in Routes : L!Out(q)' => turn'[q].epoch <= epoch' /\ turn'[q].epoch # epoch'
      BY <1>0, <3>1, <3>4 DEF L!TypeOK
    <3>6. L!CountedOnce' BY <3>1, <3>3 DEF L!TypeOK
    <3>7. L!OneProbe' BY <3>1, <3>5, Zenon
    <3>. QED BY <1>0, <3>1, <3>5, <3>6, <3>7, Zenon
  <2>. QED BY <1>6, <2>2, <2>3, Zenon DEF L!Failed
<1>7. CASE UNCHANGED link BY <1>0, <1>7, Zenon DEF link
<1>. QED
  <2>1. CASE L!Next BY <1>1, <1>2, <1>3, <1>4, <1>5, <1>6, <2>1, Zenon DEF L!Next
  <2>. QED BY <1>7, <2>1, Zenon

-----------------------------------------------------------------------------
(* The two together. A step of one part leaves what the others hold as it is, so
   what is true of a part is true in every behaviour. *)

ProgressInv == CollectionInv /\ ContextInv /\ RuntimeInv /\ LinkInv

LEMMA ProgressStarts == ProgressInit => ProgressInv
<1>1. AgentInit => CollectionInv /\ ContextInv /\ RuntimeInv
  BY InitInv, RuntimeStarts, Zenon DEF AgentInit, Init, R!Init, ContextInv
<1> QED BY <1>1, InitLinkInv, Zenon DEF ProgressInit, ProgressInv

(* A step is one of the agent and of the link, or leaves them alone. *)
LEMMA ProgressSteps == [ProgressNext]_every => [AgentNext]_all /\ (L!Next \/ UNCHANGED link)
BY Zenon DEF ProgressNext, every

LEMMA ProgressKeeps == ProgressInv /\ [ProgressNext]_every => ProgressInv'
BY ProgressSteps, AgentStep, CollectionStep, RuntimeKeeps, LinkStep, Zenon DEF ProgressInv

LEMMA ProgressAlways == ProgressSpec => []ProgressInv
BY ProgressStarts, ProgressKeeps, PTL DEF ProgressSpec

(* The agent implements the collection: its runtime, its configuration and its
   other components do to it only what Collection leaves open, so what is proved
   of Collection holds in the agent. *)
THEOREM AgentImplementsCollection == ProgressSpec => ImplementsCollection
<1>1. ProgressInit => Init
  BY Zenon DEF ProgressInit, AgentInit
<1>2. ProgressInv /\ [ProgressNext]_every => [Next]_vars
  BY ProgressSteps, AgentStep, Zenon DEF ProgressInv
<1> QED BY <1>1, <1>2, ProgressAlways, PTL DEF ProgressSpec, ImplementsCollection, Spec

(* Of the agent: once Apply has returned, what was asked for is in force, for as
   long as the runtime has not ended the context of the components. *)
THEOREM AgentAppliedHolds == ProgressSpec => []AppliedIsInForce
BY AgentImplementsCollection, AppliedHolds, PTL DEF ImplementsCollection

(* When Run of the collection or of the runtime returns, everything it started
   has ended or is named, and a stop nobody asked for is the reported failure of
   an essential component: modules.go's Run and Apply, runtime.go's Run, settle
   and record. *)
THEOREM AgentReturnsRightly == ProgressSpec => []ReturnsRightly
<1>1. ProgressInv => ReturnsRightly
  BY Zenon DEF ProgressInv, CollectionInv, RunInv, NothingLeftBehind, RuntimeInv, NothingLeftRunning, EssentialIsReported,
     ReturnsRightly
<1> QED BY <1>1, ProgressAlways, PTL

(* Whatever the routes do and however the listener answers, one request at a
   time probes a listener that fails, Link.probing says exactly whether it is
   out, and an outage is counted once and then once for every probe that fails:
   link.go's Take, Answered, Failed and Abandoned. *)
THEOREM OneOutageAtATime == ProgressSpec => []OneOutage
<1>1. ProgressInv => OneOutage
  BY Zenon DEF ProgressInv, LinkInv, OneOutage
<1> QED BY <1>1, ProgressAlways, PTL

(* A module that says it failed is started again by the Apply that asks for it,
   however soon: it says so only once its goroutine has let it go, so Apply
   finds no goroutine in its way. modules.go's failed, released and Apply. *)
THEOREM AskedAgainStarts == ProgressSpec => AskedAgainIsStarted
<1>1. ASSUME CollectionInv, NEW enabled \in SUBSET Modules, Apply(enabled), phase = "running",
             NEW m \in enabled, state(m) = "failed"
      PROVE  step'[m] = "collecting" /\ ~cancelled'[m]
  <2>1. spent[m]
    BY <1>1, Zenon DEF state
  <2>2. step[m] = "none"
    BY <1>1, <2>1, Zenon DEF CollectionInv, GoroutineInv
  <2>3. m \in Startable(enabled)
    BY <1>1, <2>1, <2>2, Zenon DEF Startable, Again, Alive
  <2> QED BY <1>1, <2>3, Zenon DEF Apply, start
<1>2. ProgressInv =>
        [\A enabled \in SUBSET Modules : Apply(enabled) /\ phase = "running" =>
           \A m \in enabled : state(m) = "failed" => step'[m] = "collecting" /\ ~cancelled'[m]]_vars
  BY <1>1, Zenon DEF ProgressInv
<1> QED BY <1>2, ProgressAlways, PTL DEF AskedAgainIsStarted

(* The link goes to failing only on the word of a request of the link as it
   stands, and nothing is sent to a listener that fails but the probe that is
   out: link.go's Stands and Failed, delivery.go's send. *)
THEOREM AnswersAlwaysStand == ProgressSpec => AnswersStand
<1>1. ASSUME LinkInv, L!Next \/ UNCHANGED link, ~failing, failing'
      PROVE  \E r \in Routes : route[r] = "sending" /\ route'[r] = "idle" /\ turn[r].epoch = epoch
  <2>1. PICK r \in Routes : L!FailedNow(r)
    <3>1. failing' # failing
      BY <1>1, Zenon
    <3>2. ASSUME NEW r \in Routes PROVE ~(L!Ask(r) \/ L!Take(r) \/ L!Wait(r) \/ L!Wake(r) \/ L!Send(r) \/ L!Stop(r))
      BY <3>1, Zenon DEF L!Ask, L!Take, L!Wait, L!Wake, L!Send, L!Stop
    <3>3. ASSUME NEW r \in Routes PROVE ~(L!Held(r) \/ L!Abandon(r) \/ L!Answered(r) \/ L!FailedLate(r))
      BY <1>1, <3>1, Zenon DEF L!Held, L!Abandon, L!Answered, L!FailedLate
    <3>4. ~L!Due /\ ~UNCHANGED link
      BY <3>1, Zenon DEF L!Due, link
    <3> QED BY <1>1, <3>2, <3>3, <3>4, Zenon DEF L!Next, L!Failed
  <2> QED BY <1>1, <2>1, Zenon DEF L!FailedNow, LinkInv, L!TypeOK
<1>2. ASSUME LinkInv, L!Next \/ UNCHANGED link, NEW r \in Routes, route[r] # "sending", route'[r] = "sending", failing
      PROVE  turn[r].probe /\ probing /\ turn[r].epoch = epoch
  <2>1. L!Send(r)
    <3>1. ASSUME NEW q \in Routes,
                 \/ L!Ask(q) \/ L!Take(q) \/ L!Wait(q) \/ L!Wake(q) \/ L!Stop(q)
                 \/ L!Held(q) \/ L!Abandon(q) \/ L!Answered(q) \/ L!Failed(q)
          PROVE  FALSE
      BY <1>2, <3>1, Zenon DEF L!Ask, L!Take, L!Wait, L!Wake, L!Stop, L!Held, L!Abandon, L!Answered, L!Failed, L!FailedLate,
         L!FailedNow, LinkInv, L!TypeOK
    <3>2. ASSUME NEW q \in Routes, L!Send(q) PROVE q = r
      BY <1>2, <3>2, Zenon DEF L!Send, LinkInv, L!TypeOK
    <3>3. ~L!Due /\ ~UNCHANGED link
      BY <1>2, Zenon DEF L!Due, link
    <3> QED BY <1>2, <3>1, <3>2, <3>3, Zenon DEF L!Next
  <2>2. L!Current(r)
    BY <1>2, <2>1, Zenon DEF L!Send, L!Stands, L!Current, L!Out
  <2> QED BY <1>2, <2>2, Zenon DEF LinkInv, L!OneProbe, L!Current
<1>3. ProgressInv /\ [ProgressNext]_every =>
        [~failing /\ failing' =>
           \E r \in Routes : route[r] = "sending" /\ route'[r] = "idle" /\ turn[r].epoch = epoch]_(L!vars)
  BY <1>1, ProgressSteps, Zenon DEF ProgressInv
<1>4. ProgressInv /\ [ProgressNext]_every =>
        [\A r \in Routes : route[r] # "sending" /\ route'[r] = "sending" /\ failing
           => turn[r].probe /\ probing /\ turn[r].epoch = epoch]_(L!vars)
  BY <1>2, ProgressSteps, Zenon DEF ProgressInv
<1> QED BY <1>3, <1>4, ProgressAlways, PTL DEF ProgressSpec, AnswersStand, L!AnswerStands, L!OnlyProbesSent

=============================================================================
