------------------------------ MODULE Network ------------------------------
(***************************************************************************)
(* The network collector (internal/modules/network): every round it reads  *)
(* the sockets of the network namespaces it is shown, reports what changed *)
(* since the last round, and then writes down what it saw for the next     *)
(* start to compare with.                                                  *)
(*                                                                         *)
(* Namespace 1 is the agent's own; a namespace that went does not come     *)
(* back as the same one, as the collector tells it by the processes in it. *)
(* A port is held by an account or by none, and a flow is one of Talks, in *)
(* the order the collector goes through them. Which processes hold a       *)
(* socket, and how many of the reports the journal takes, are left out.    *)
(***************************************************************************)
EXTENDS Naturals, FiniteSets, Functions

CONSTANTS
  MaxSpaces,        \* the network namespaces, the first of them the agent's own
  Ports,
  Sockets,          \* what a reading may show of each namespace: its ports and its flows
  MaxTalks,         \* the flows of a namespace are among 1..MaxTalks
  Linger,           \* linger: the rounds a flow is unseen before it ended
  MaxFlows,         \* maxFlows
  MaxBoot,          \* bound: times the host starts
  MaxStops          \* bound: failures, stops and power losses

VARIABLES
  present,          \* whether each namespace is yet to come, there or gone
  boot,             \* the boot of the host
  held, whole, at,  \* the collector: its state and whether its last reading was whole
  file,             \* the state file
  told,             \* what the reports say of every namespace
  lost,             \* the collector started from a state that is not its last
  stops

vars == <<present, boot, held, whole, at, file, told, lost, stops>>

Own == 1
Spaces == 1..MaxSpaces
Talks == 1..MaxTalks
InOrder(step(_, _), start, most) ==
  LET done[i \in 0..most] == IF i = 0 THEN start ELSE step(done[i - 1], i) IN done[most]

Unseen == Linger
NoSpace == [known |-> FALSE, pending |-> FALSE, listeners |-> [p \in Ports |-> "none"], flows |-> [t \in Talks |-> Unseen]]
NoState == [boot |-> 0, spaces |-> [s \in Spaces |-> NoSpace]]
Untold == [space |-> "unknown", listeners |-> [p \in Ports |-> "unknown"], flows |-> [t \in Talks |-> "unknown"]]
NothingTold == [s \in Spaces |-> Untold]
Gone == [space |-> "gone", listeners |-> [p \in Ports |-> "none"], flows |-> [t \in Talks |-> "ended"]]

Flows(space) == {t \in Talks : space.flows[t] # Unseen}
Held(state) == InOrder(LAMBDA n, s : n + Cardinality(Flows(state.spaces[s])), 0, MaxSpaces)

Init ==
  /\ present = [s \in Spaces |-> IF s = Own THEN "there" ELSE "unborn"] /\ boot = 1
  /\ held = NoState /\ whole = TRUE /\ at = "stopped"
  /\ file = NoState
  /\ told = NothingTold
  /\ lost = FALSE /\ stops = 0

Stop == stops < MaxStops /\ stops' = stops + 1

-----------------------------------------------------------------------------
(* decode: a state that holds more flows than the module keeps is damaged. *)
Decodes(state) == Held(state) <= MaxFlows

(* load: the state written down, or none when there is none or it is damaged. *)
load == IF Decodes(file) THEN file ELSE NoState

begin ==
  /\ at = "stopped"
  /\ held' = load
  /\ whole' = TRUE
  /\ at' = "start"
  /\ UNCHANGED <<present, boot, file, told, lost, stops>>

(* What a reading shows: the namespaces it found, those of them it could not
   read, and the sockets of the others. It is whole when nothing kept it from
   finding every namespace, and hidden when procfs hides the processes of
   other accounts. *)
There == {s \in Spaces : present[s] = "there"}
Readings ==
  {r \in [found : SUBSET There, unread : SUBSET There, how : {"whole", "partial", "hidden"}] :
     /\ Own \in r.found /\ r.unread \subseteq r.found
     /\ r.how = "whole" => r.found = There
     /\ r.how = "hidden" => r.found = {Own}}

Shown(reading) ==
  {f \in [reading.found \ reading.unread -> UNION Range(Sockets)] :
     \A s \in reading.found \ reading.unread : f[s] \in Sockets[s]}

(* viewed: the namespace as a round shows it, before any of its flows is
   tracked. *)
viewed(seen) == [NoSpace EXCEPT !.known = TRUE, !.listeners = seen.listeners]

(* The comparison so far: the flows left to the budget, what the round holds
   and what was told. *)
Comparison(left, spaces, says) == [left |-> left, spaces |-> spaces, told |-> says]
less(left, by) == IF by > left THEN 0 ELSE left - by
kept(c, s, space) == [c EXCEPT !.left = less(@, Cardinality(Flows(space))), !.spaces[s] = space]

(* track: a new flow is kept while the budget lasts. *)
track(acc, t, says) ==
  IF acc.left = 0 THEN acc
  ELSE [left |-> acc.left - 1, flows |-> [acc.flows EXCEPT ![t] = 0],
        told |-> IF says THEN [acc.told EXCEPT ![t] = "started"] ELSE acc.told]

(* arrive: a namespace found first. *)
arrive(c, s, seen, adopting) ==
  LET tracked == InOrder(LAMBDA acc, t : IF t \in seen.flows THEN track(acc, t, ~adopting) ELSE acc,
                          [left |-> c.left, flows |-> NoSpace.flows, told |-> c.told[s].flows], MaxTalks)
  IN Comparison(tracked.left, [c.spaces EXCEPT ![s] = [viewed(seen) EXCEPT !.flows = tracked.flows]],
       IF adopting THEN c.told
       ELSE [c.told EXCEPT ![s] = [space |-> "seen", listeners |-> seen.listeners, flows |-> tracked.told]])

(* merge: a namespace the last round held too. A flow both rounds saw stays,
   whatever is left to the budget, and so does one that is yet to linger. *)
merge(c, s, was, seen, quiet, ending) ==
  LET step(acc, t) ==
        IF t \notin seen.flows THEN acc
        ELSE IF was.flows[t] # Unseen THEN [acc EXCEPT !.left = less(@, 1), !.flows[t] = 0]
        ELSE track(acc, t, ~quiet)
      tracked == InOrder(step, [left |-> c.left, flows |-> NoSpace.flows, told |-> c.told[s].flows], MaxTalks)
      missing == Flows(was) \ seen.flows
      ended == {t \in missing : was.flows[t] + 1 >= Linger \/ ending}
      flows == [t \in Talks |-> IF t \in missing \ ended THEN was.flows[t] + 1 ELSE tracked.flows[t]]
      changed(p) == was.listeners[p] # seen.listeners[p]
  IN Comparison(less(tracked.left, Cardinality(missing \ ended)),
       [c.spaces EXCEPT ![s] = [viewed(seen) EXCEPT !.flows = flows]],
       [c.told EXCEPT ![s].listeners = [p \in Ports |-> IF changed(p) THEN seen.listeners[p] ELSE @[p]],
                      ![s].flows = [t \in Talks |-> IF t \in ended /\ ~quiet THEN "ended" ELSE tracked.told[t]]])

(* One namespace of a reading, against what the last round held of it. *)
found(c, s, was, reading, sockets, how) ==
  CASE s \in reading.unread /\ was.known -> kept(c, s, was)
    [] s \in reading.unread /\ ~was.known -> [c EXCEPT !.spaces[s] = [NoSpace EXCEPT !.known = TRUE, !.pending = TRUE]]
    [] s \notin reading.unread /\ (~was.known \/ was.pending) -> arrive(c, s, sockets[s], how.adopting \/ was.known)
    [] OTHER -> merge(c, s, was, sockets[s], how.quiet, how.ending)

\* Slip: a namespace that is not found is gone, whatever kept it from being found.
missedGone(c, s, was, reading) ==
  CASE ~was.known -> c
    [] was.known /\ ~was.pending -> [c EXCEPT !.told[s] = Gone]
    [] OTHER -> [c EXCEPT !.told[s] = Untold]

(* One it did not find: gone when the reading was whole, forgotten when it is
   hidden or was never read, and held on to otherwise. *)
missed(c, s, was, reading) ==
  CASE ~was.known -> c
    [] was.known /\ reading.how = "whole" /\ ~was.pending -> [c EXCEPT !.told[s] = Gone]
    [] was.known /\ ((reading.how = "whole" /\ was.pending) \/ (reading.how = "hidden" /\ s # Own)) ->
         [c EXCEPT !.told[s] = Untold]
    [] OTHER -> kept(c, s, was)

compare(previous, reading, sockets, how, says) ==
  LET onto(c, s) == IF s \in reading.found THEN found(c, s, previous[s], reading, sockets, how) ELSE c
      rest(c, s) == IF s \in reading.found THEN c ELSE missed(c, s, previous[s], reading)
      start == Comparison(MaxFlows, NoState.spaces, says)
  IN InOrder(rest, InOrder(onto, start, MaxSpaces), MaxSpaces)

(* rebooted: of the state of another boot, only the listeners of the agent's
   own namespace are compared. *)
rebooted(spaces) ==
  [s \in Spaces |-> IF s = Own THEN [spaces[Own] EXCEPT !.flows = NoSpace.flows] ELSE NoSpace]
retold == [s \in Spaces |-> IF s = Own THEN [told[Own] EXCEPT !.flows = Untold.flows] ELSE Untold]

(* A round: the reading is compared with the last state and what changed is
   reported. A reading that fails changes nothing. *)
round ==
  /\ at \in {"start", "waiting"}
  /\ \E reading \in Readings : \E sockets \in Shown(reading) :
       LET first == held = NoState
           again == at = "start" /\ ~first /\ held.boot # boot
           how == [adopting |-> first \/ at = "start" \/ ~whole, ending |-> at = "start", quiet |-> again]
           compared == compare(IF again THEN rebooted(held.spaces) ELSE held.spaces, reading, sockets, how,
                               IF first THEN NothingTold ELSE IF again THEN retold ELSE told)
       IN /\ held' = [boot |-> boot, spaces |-> compared.spaces]
          /\ told' = compared.told
          /\ lost' = (lost /\ ~first)
          /\ whole' = (reading.how = "whole")
  /\ at' = "saving"
  /\ UNCHANGED <<present, boot, file, stops>>

(* save: the state replaces the file, or the collector returns why not. *)
save ==
  /\ at = "saving"
  /\ \/ /\ file' = held /\ at' = "waiting"
        /\ UNCHANGED <<held, lost, stops>>
     \/ /\ Stop
        /\ at' = "stopped" /\ held' = NoState /\ lost' = TRUE
        /\ UNCHANGED file
  /\ UNCHANGED <<present, boot, whole, told>>

-----------------------------------------------------------------------------
Come(s) ==
  /\ present[s] = "unborn"
  /\ present' = [present EXCEPT ![s] = "there"]
  /\ UNCHANGED <<boot, held, whole, at, file, told, lost, stops>>

Go(s) ==
  /\ s # Own /\ present[s] = "there"
  /\ present' = [present EXCEPT ![s] = "gone"]
  /\ UNCHANGED <<boot, held, whole, at, file, told, lost, stops>>

(* The agent stops or is killed. *)
Kill ==
  /\ at # "stopped" /\ Stop
  /\ at' = "stopped" /\ held' = NoState
  /\ lost' = (lost \/ at = "saving")
  /\ UNCHANGED <<present, boot, whole, file, told>>

(* The host goes down and starts again without the namespaces it had. What a
   loss of power takes of the file, which is replaced without a sync of its
   directory, is what a kill before the save takes. *)
Reboot ==
  /\ boot < MaxBoot /\ Stop
  /\ boot' = boot + 1
  /\ present' = [s \in Spaces |-> IF s # Own /\ present[s] = "there" THEN "gone" ELSE present[s]]
  /\ at' = "stopped" /\ held' = NoState
  /\ lost' = (lost \/ at = "saving")
  /\ UNCHANGED <<whole, file, told>>

Next ==
  \/ begin \/ round \/ save
  \/ \E s \in Spaces : Come(s) \/ Go(s)
  \/ Kill \/ Reboot

Spec == Init /\ [][Next]_vars

-----------------------------------------------------------------------------
(* Properties. *)

(* A reader of the reports is never wrong about what they told of: a namespace
   said to be gone is gone, a port is held by the account last said to hold it,
   a flow said to have started is one the module still holds, and one said to
   have ended is not. This is while the module compares with its last state;
   what it adopts without a word is not told of. *)
ToldIsTrue ==
  at = "waiting" /\ ~lost =>
    \A s \in Spaces :
      /\ told[s].space = "gone" => present[s] # "there"
      /\ held.spaces[s].known /\ ~held.spaces[s].pending =>
           /\ \A p \in Ports : told[s].listeners[p] \in {"unknown", held.spaces[s].listeners[p]}
           /\ \A t \in Talks : told[s].flows[t] = "started" => t \in Flows(held.spaces[s])
           /\ \A t \in Talks : told[s].flows[t] = "ended" => t \notin Flows(held.spaces[s])

(* Every state the module writes down it reads back: what it holds of the flows
   is within what it keeps. *)
ReadsBack == Decodes(file)
=============================================================================
