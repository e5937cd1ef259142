-------------------------------- MODULE Link --------------------------------
(***************************************************************************)
(* The link to one listener (internal/link/link.go) and the routes that    *)
(* share it (deliver and send of internal/delivery/delivery.go). A route   *)
(* takes a turn, waits for an upload slot, checks that its turn stands,    *)
(* sends, and settles the turn with what the request learnt: the listener  *)
(* answered, or it failed. While the listener fails, one request at a time *)
(* probes it.                                                              *)
(*                                                                         *)
(* Every action is one critical section of Link.mu. Time is abstracted to  *)
(* "due": whether the clock has reached Link.until. A channel that         *)
(* announce closes is abstracted to "woken": whether the channel the route *)
(* waits on is closed.                                                     *)
(***************************************************************************)
EXTENDS Naturals

CONSTANTS
  Routes,        \* the routes that share the link
  MaxEpoch       \* bound: the listener fails no more once the epoch is here

VARIABLES
  epoch,         \* Link.epoch: counts the changes of the link
  failing,       \* Link.failing
  probing,       \* Link.probing: a turn to probe is out
  failures,      \* Link.failures
  due,           \* now is not before Link.until
  phase,         \* where each route is in deliver
  turn,          \* the Turn each route holds, NoTurn once it is settled
  woken,         \* the routes that wait on a channel announce has closed
  timed,         \* the routes that wait with a timer for Link.until
  probes         \* auxiliary: turns to probe taken since the link failed and
                 \* not abandoned

vars == <<epoch, failing, probing, failures, due, phase, turn, woken, timed, probes>>

Phases == {"idle", "asking", "waiting", "taken", "sending", "stopped"}
NoTurn == [epoch |-> 0, probe |-> FALSE]

(* The fields of Link, and the turn each route holds, keep their types. *)
TypeOK ==
  /\ epoch \in Nat
  /\ failing \in BOOLEAN
  /\ probing \in BOOLEAN
  /\ failures \in Nat
  /\ due \in BOOLEAN
  /\ phase \in [Routes -> Phases]
  /\ turn \in [Routes -> [epoch : Nat, probe : BOOLEAN]]
  /\ woken \subseteq Routes
  /\ timed \subseteq Routes
  /\ probes \in Nat

Init ==
  /\ epoch = 0 /\ failures = 0 /\ probes = 0
  /\ failing = FALSE /\ probing = FALSE /\ due = TRUE
  /\ phase = [r \in Routes |-> "idle"]
  /\ turn = [r \in Routes |-> NoTurn]
  /\ woken = {} /\ timed = {}

(* A route has a batch pending and asks for its turn. *)
Ask(r) ==
  /\ phase[r] = "idle"
  /\ phase' = [phase EXCEPT ![r] = "asking"]
  /\ UNCHANGED <<epoch, failing, probing, failures, due, probes, turn, woken, timed>>

Open == ~failing \/ (~probing /\ due)

(* Take, the branch that grants the turn. *)
Take(r) ==
  /\ phase[r] = "asking"
  /\ Open
  /\ turn' = [turn EXCEPT ![r] = [epoch |-> epoch, probe |-> failing]]
  /\ probing' = failing
  /\ probes' = IF failing THEN probes + 1 ELSE probes
  /\ phase' = [phase EXCEPT ![r] = "taken"]
  /\ UNCHANGED <<epoch, failing, failures, due, woken, timed>>

(* Take, the branch that waits: on the channel, and on a timer unless another
   request is probing the listener. *)
Wait(r) ==
  /\ phase[r] = "asking"
  /\ ~Open
  /\ phase' = [phase EXCEPT ![r] = "waiting"]
  /\ timed' = IF probing THEN timed ELSE timed \cup {r}
  /\ UNCHANGED <<epoch, failing, probing, failures, due, probes, turn, woken>>

(* pause returns: announce closed the channel, or the timer fired. *)
Wake(r) ==
  /\ phase[r] = "waiting"
  /\ r \in woken \/ (r \in timed /\ due)
  /\ phase' = [phase EXCEPT ![r] = "asking"]
  /\ woken' = woken \ {r}
  /\ timed' = timed \ {r}
  /\ UNCHANGED <<epoch, failing, probing, failures, due, probes, turn>>

(* announce closes the channel of every route that waits. *)
announce == woken' = woken \cup {r \in Routes : phase[r] = "waiting"}

(* Slip: a turn stands once it is taken. *)
StandsAlways(r) == turn[r].epoch <= epoch

Stands(r) == ~failing \/ turn[r].epoch = epoch

(* send has its upload slot and its turn stands: the request goes out. *)
Send(r) ==
  /\ phase[r] = "taken"
  /\ Stands(r)
  /\ phase' = [phase EXCEPT ![r] = "sending"]
  /\ UNCHANGED <<epoch, failing, probing, failures, due, probes, turn, woken, timed>>

(* Slip: nobody is told that a probe was given back. *)
AbandonedSilently(r) ==
  IF turn[r].probe /\ turn[r].epoch = epoch
  THEN probing' = FALSE /\ probes' = probes - 1 /\ UNCHANGED woken
  ELSE UNCHANGED <<probing, woken, probes>>

(* Abandoned: the turn is given back, and a probe that still is the link's own
   lets another one be made. *)
Abandoned(r) ==
  IF turn[r].probe /\ turn[r].epoch = epoch
  THEN probing' = FALSE /\ announce /\ probes' = probes - 1
  ELSE UNCHANGED <<probing, woken, probes>>

(* send returns errHeld: the turn no longer stands. The route asks again. *)
Held(r) ==
  /\ phase[r] = "taken"
  /\ ~Stands(r)
  /\ Abandoned(r)
  /\ phase' = [phase EXCEPT ![r] = "idle"]
  /\ turn' = [turn EXCEPT ![r] = NoTurn]
  /\ UNCHANGED <<epoch, failing, failures, due, timed>>

(* The context of the route ends before it has a turn. *)
Stop(r) ==
  /\ phase[r] \in {"idle", "asking", "waiting"}
  /\ phase' = [phase EXCEPT ![r] = "stopped"]
  /\ woken' = woken \ {r}
  /\ timed' = timed \ {r}
  /\ UNCHANGED <<epoch, failing, probing, failures, due, probes, turn>>

(* The context of the route ends as it waits for a slot or sends. *)
Abandon(r) ==
  /\ phase[r] \in {"taken", "sending"}
  /\ Abandoned(r)
  /\ phase' = [phase EXCEPT ![r] = "stopped"]
  /\ turn' = [turn EXCEPT ![r] = NoTurn]
  /\ UNCHANGED <<epoch, failing, failures, due, timed>>

(* Answered: whatever the answer, the listener is reached. *)
Answered(r) ==
  /\ phase[r] = "sending"
  /\ phase' = [phase EXCEPT ![r] = "idle"]
  /\ IF failing
     THEN /\ failing' = FALSE /\ probing' = FALSE /\ failures' = 0 /\ probes' = 0
          /\ due' = TRUE
          /\ epoch' = epoch + 1
          /\ announce
     ELSE UNCHANGED <<epoch, failing, probing, failures, due, probes, woken>>
  /\ turn' = [turn EXCEPT ![r] = NoTurn]
  /\ UNCHANGED timed

(* Failed of a turn taken before the link last changed: it says nothing new. *)
FailedLate(r) ==
  /\ phase[r] = "sending"
  /\ turn[r].epoch # epoch
  /\ phase' = [phase EXCEPT ![r] = "idle"]
  /\ turn' = [turn EXCEPT ![r] = NoTurn]
  /\ UNCHANGED <<epoch, failing, probing, failures, due, probes, woken, timed>>

(* Slip: every failure counts, whenever its turn was taken. *)
FailedAnytime(r) ==
  /\ phase[r] = "sending"
  /\ failures' = failures + 1
  /\ failing' = TRUE /\ probing' = FALSE /\ due' = FALSE
  /\ epoch' = epoch + 1
  /\ announce
  /\ phase' = [phase EXCEPT ![r] = "idle"]
  /\ turn' = [turn EXCEPT ![r] = NoTurn]
  /\ UNCHANGED <<timed, probes>>

(* Failed of a turn of the link as it stands. *)
FailedNow(r) ==
  /\ phase[r] = "sending"
  /\ turn[r].epoch = epoch
  /\ failures' = failures + 1
  /\ failing' = TRUE /\ probing' = FALSE /\ due' = FALSE
  /\ epoch' = epoch + 1
  /\ announce
  /\ phase' = [phase EXCEPT ![r] = "idle"]
  /\ turn' = [turn EXCEPT ![r] = NoTurn]
  /\ UNCHANGED <<timed, probes>>

Failed(r) == epoch < MaxEpoch /\ (FailedLate(r) \/ FailedNow(r))

(* The clock reaches Link.until. *)
Due ==
  /\ ~due
  /\ due' = TRUE
  /\ UNCHANGED <<epoch, failing, probing, failures, probes, phase, turn, woken, timed>>

Next ==
  \/ Due
  \/ \E r \in Routes :
       \/ Ask(r) \/ Take(r) \/ Wait(r) \/ Wake(r) \/ Send(r) \/ Held(r)
       \/ Stop(r) \/ Abandon(r) \/ Answered(r) \/ Failed(r)

(* The clock runs, a goroutine that can run runs, and a request that went out
   ends: transport.request_timeout bounds it. Nothing makes a route ask, and
   nothing makes a context end. *)
Fairness ==
  /\ WF_vars(Due)
  /\ \A r \in Routes :
       /\ WF_vars(Take(r) \/ Wait(r))
       /\ WF_vars(Wake(r))
       /\ WF_vars(Send(r) \/ Held(r))
       /\ WF_vars(Answered(r) \/ Failed(r))

Spec == Init /\ [][Next]_vars /\ Fairness

-----------------------------------------------------------------------------

Out(r) == phase[r] \in {"taken", "sending"}

(* The turn of r is one of the link as it stands. *)
Current(r) == Out(r) /\ turn[r].epoch = epoch

(* While the listener fails, at most one turn of the link as it stands is out
   (README: "tries again, one request at a time"), it was taken as a probe,
   and Link.probing says exactly whether there is one. A probing flag no turn
   stands behind would leave every route waiting without a timer. *)
OneProbe ==
  /\ ~failing => ~probing
  /\ failing => /\ \A r, s \in Routes : Current(r) /\ Current(s) => r = s
                /\ probing <=> \E r \in Routes : Current(r)
                /\ \A r \in Routes : Current(r) => turn[r].probe

(* An outage several requests ran into is counted once: beyond the failure
   that began it, Link.failures grows by the probes made since and no more,
   however many requests were out when it began. *)
CountedOnce ==
  /\ failing => failures \in 1..(probes + 1)
  /\ ~failing => failures = 0

(* An answer given since stands: the link never goes back to failing on the
   word of a request that took its turn before the link last changed. *)
AnswerStands ==
  [][~failing /\ failing' =>
       \E r \in Routes : phase[r] = "sending" /\ phase'[r] = "idle" /\ turn[r].epoch = epoch]_vars

(* While the listener fails, nothing is sent to it but the probe of the link
   as it stands: a route that waited for its upload slot while another one
   found the listener failing learns of it before it sends. *)
OnlyProbesSent ==
  [][\A r \in Routes : phase[r] # "sending" /\ phase'[r] = "sending" /\ failing
       => turn[r].probe /\ probing /\ turn[r].epoch = epoch]_vars

(* A route that asked for its turn gets it or is stopped: no wake-up of
   Take is lost, neither to a probe that is abandoned nor to an answer that
   arrives as the route goes to wait. Failures end with the bound MaxEpoch, so
   the listener does answer. *)
TurnComes == \A r \in Routes : []<>(phase[r] \notin {"asking", "waiting"})
=============================================================================
