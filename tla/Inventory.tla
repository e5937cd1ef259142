------------------------------ MODULE Inventory ------------------------------
(***************************************************************************)
(* The inventory collector (internal/modules/inventory): every round it    *)
(* takes a snapshot of each kind of thing the host has, admits the ones    *)
(* that say something new, and then writes down what it last admitted of   *)
(* each kind, the baseline it judges the next snapshots by.                *)
(*                                                                         *)
(* What a snapshot says of the host is its digest, one of Digests; a kind  *)
(* that cannot be taken whole is not taken at all. The clock the collector *)
(* reads may be set forward and back. Times are in units of which          *)
(* MaxClockSkew is Skew and refresh, less half an interval, is Refresh.    *)
(***************************************************************************)
EXTENDS Naturals

CONSTANTS
  Kinds, Digests,
  Skew, Refresh,
  MaxClock,         \* bound: the times the clock reads
  MaxRegressions,   \* bound: times the clock is set back
  MaxStops          \* bound: failures, stops and power losses

VARIABLES
  content,          \* what the host has of each kind, "none" when it cannot be taken
  clock,            \* the clock of the host
  file,             \* the baseline file as the collector reads it
  durable,          \* the baseline file as a loss of power leaves it
  admitted,         \* the records the spool took, in any order
  wentBack,         \* one was admitted because the clock went back
  held,             \* take's baseline, in memory
  at,               \* where the collector is in Collect
  chosen,           \* what the round admits, by kind
  said,             \* what the last whole round read of each kind it judged
  lost,             \* the baseline fell behind what was admitted
  regressions, stops

vars == <<content, clock, file, durable, admitted, wentBack, held, at, chosen, said, lost, regressions, stops>>
host == <<content, clock, regressions>>

None == [digest |-> "none", at |-> 0]
Records == [kind : Kinds, digest : Digests, at : 0..MaxClock]
Empty == [k \in Kinds |-> None]
Damaged == [k \in Kinds |-> [None EXCEPT !.digest = "damaged"]]
Nothing == [k \in Kinds |-> "none"]

Init ==
  /\ content \in [Kinds -> Digests] /\ clock = 1
  /\ file = Empty /\ durable = Empty
  /\ admitted = {} /\ wentBack = FALSE
  /\ held = Empty /\ at = "stopped" /\ chosen = Empty /\ said = Nothing
  /\ lost = FALSE /\ regressions = 0 /\ stops = 0

Stop == stops < MaxStops /\ stops' = stops + 1

-----------------------------------------------------------------------------
(* load: what the file says, which is nothing when it is damaged. *)
load == IF file = Damaged THEN Empty ELSE file

(* begin: the baseline as it was written down, and none when it is not there
   or cannot be read. *)
Begin ==
  /\ at = "stopped"
  /\ held' = load
  /\ at' = "taking"
  /\ lost' = (lost \/ \E k \in Kinds : \E r \in admitted : r.kind = k /\ r.at > load[k].at)
  /\ UNCHANGED <<host, file, durable, admitted, wentBack, chosen, said, stops>>

ahead(last) == last # None /\ last.at > clock + Skew

\* Slip: a snapshot taken no later than the last one is admitted.
judgeAnyTime(digest, last) ==
  /\ digest # "none"
  /\ \/ last = None
     \/ ahead(last)
     \/ digest # last.digest \/ clock >= last.at + Refresh

(* judge: a snapshot is admitted when it is the first, when the last one was
   dated further ahead than any platform admits, and when it says something
   new or the last is due to be said again, once the clock passed the last. *)
judge(digest, last) ==
  /\ digest # "none"
  /\ \/ last = None
     \/ ahead(last)
     \/ /\ digest # last.digest \/ clock >= last.at + Refresh
        /\ clock > last.at

(* The taker of a kind: what the host has of it, if it can be read. *)
items(k) == content[k]

(* Take: the items of the kind, in order and each once, as of now. *)
Snapshot(k) == [digest |-> items(k), at |-> clock]

(* The scan of a round: every kind is taken and judged by the baseline. *)
Take ==
  /\ at = "taking"
  /\ chosen' = [k \in Kinds |-> IF judge(items(k), held[k]) THEN Snapshot(k) ELSE None]
  /\ said' = [k \in Kinds |-> IF chosen'[k] = None /\ held[k] # None /\ clock <= held[k].at
                              THEN "none" ELSE items(k)]
  /\ at' = IF \E k \in Kinds : chosen'[k] # None THEN "admitting" ELSE "waiting"
  /\ UNCHANGED <<host, file, durable, admitted, wentBack, held, lost, stops>>

Chosen == {k \in Kinds : chosen[k] # None}
Admitting == {[kind |-> k, digest |-> chosen[k].digest, at |-> chosen[k].at] : k \in Chosen}

(* admit: the spool takes every record of the round durably, after it waited
   for room, or the collector returns why not. *)
Admit ==
  /\ at = "admitting"
  /\ \/ /\ admitted' = admitted \cup Admitting
        /\ wentBack' = (wentBack \/ \E k \in Chosen : held[k].at > chosen[k].at + Skew)
        /\ at' = "saving"
        /\ UNCHANGED stops
        /\ UNCHANGED <<held, chosen>>
     \/ /\ Stop
        /\ at' = "stopped" /\ held' = Empty /\ chosen' = Empty
        /\ UNCHANGED <<admitted, wentBack>>
  /\ UNCHANGED <<host, file, durable, said, lost>>

(* The baseline takes what was admitted, and save replaces the file. *)
Save ==
  /\ at = "saving"
  /\ \/ /\ held' = [k \in Kinds |-> IF k \in Chosen THEN chosen[k] ELSE held[k]]
        /\ file' = held'
        /\ at' = "waiting"
        /\ UNCHANGED stops
     \/ /\ Stop
        /\ at' = "stopped" /\ held' = Empty
        /\ UNCHANGED file
  /\ chosen' = Empty
  /\ UNCHANGED <<host, durable, admitted, wentBack, said, lost>>

(* The schedule of the module wakes it for the next round. *)
Wake ==
  /\ at = "waiting"
  /\ at' = "taking"
  /\ UNCHANGED <<host, file, durable, admitted, wentBack, held, chosen, said, lost, stops>>

-----------------------------------------------------------------------------
Change(k, digest) ==
  /\ content[k] # digest
  /\ content' = [content EXCEPT ![k] = digest]
  /\ UNCHANGED <<clock, file, durable, admitted, wentBack, held, at, chosen, said, lost, regressions, stops>>

Tick ==
  /\ clock < MaxClock
  /\ clock' = clock + 1
  /\ UNCHANGED <<content, file, durable, admitted, wentBack, held, at, chosen, said, lost, regressions, stops>>

SetBack(to) ==
  /\ to < clock /\ regressions < MaxRegressions
  /\ clock' = to /\ regressions' = regressions + 1
  /\ UNCHANGED <<content, file, durable, admitted, wentBack, held, at, chosen, said, lost, stops>>

(* The kernel writes back the directory, which the collector does not sync. *)
WriteBack ==
  /\ durable # file
  /\ durable' = file
  /\ UNCHANGED <<host, file, admitted, wentBack, held, at, chosen, said, lost, stops>>

(* The agent is stopped or killed, or the host loses its power. *)
Kill ==
  /\ at # "stopped" /\ Stop
  /\ at' = "stopped" /\ held' = Empty /\ chosen' = Empty
  /\ UNCHANGED <<host, file, durable, admitted, wentBack, said, lost>>

LosePower ==
  /\ Stop
  /\ at' = "stopped" /\ file' = durable /\ held' = Empty /\ chosen' = Empty
  /\ UNCHANGED <<host, durable, admitted, wentBack, said, lost>>

Damage ==
  /\ at = "stopped" /\ file # Empty /\ Stop
  /\ file' = Damaged /\ durable' = Damaged
  /\ UNCHANGED <<host, admitted, wentBack, held, at, chosen, said, lost>>

Environment ==
  \/ \E k \in Kinds, digest \in Digests \cup {"none"} : Change(k, digest)
  \/ \E to \in 1..MaxClock : SetBack(to)
  \/ Tick \/ WriteBack \/ Kill \/ LosePower \/ Damage

Next == Begin \/ Take \/ Admit \/ Save \/ Wake \/ Environment

Spec == Init /\ [][Next]_vars

-----------------------------------------------------------------------------
(* Properties. *)

(* The record of a kind the platform holds: it orders them by when they were
   taken. *)
Standing(k) ==
  {r \in admitted : r.kind = k /\ \A o \in admitted : o.kind = k => o.at <= r.at}

Agrees == \A k \in Kinds : said[k] # "none" => \E r \in Standing(k) : r.digest = said[k]

(* Once a round ended, the record the platform orders last of every kind the
   round took says what the host had, or the kind waits for the clock to pass
   the last one; this is while the baseline is what was admitted last and the
   clock was not set back by more than any platform admits. *)
LatestIsHeld == at = "waiting" /\ ~lost /\ ~wentBack => Agrees

(* The same, whatever becomes of the baseline: one lost in a crash has the
   collector admit snapshots again, and nothing worse. *)
LossOnlyRepeats == at = "waiting" /\ regressions = 0 => Agrees
=============================================================================
