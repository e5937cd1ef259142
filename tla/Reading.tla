------------------------------- MODULE Reading -------------------------------
(***************************************************************************)
(* The authentication collector (internal/modules/authentication) reading  *)
(* the system journal: it reads on from the place it wrote down, admits    *)
(* what sshd decided to the spool, and only then writes down how far it    *)
(* came. An entry is its position in the journal; what the message says is *)
(* left out but for whether it becomes an event. What is counted and       *)
(* logged is left out. The journal is external, read by journalctl.        *)
(***************************************************************************)
EXTENDS Naturals, Sequences, FiniteSets, FiniteSetsExt

CONSTANTS
  MaxEntries,       \* bound: entries journald writes
  MaxBatch,         \* maxRecords, the most records a batch holds
  MaxStops          \* bound: failures, stops, power losses and damage

VARIABLES
  journal,          \* what journald wrote, each "outcome", "unrelated" or "unreadable"
  dropped,          \* journald no longer holds the entries up to this one
  aged,             \* the entries up to this one are older than MaxEventAge
  place,            \* the position file as the collector reads it
  durable,          \* the position file as a loss of power leaves it
  admitted,         \* the entries whose events the spool holds
  proc,             \* the collector, while it runs
  started,          \* the last entry before the collection first started
  forgot,           \* the collection started once more as if it were the first time
  stops

vars == <<journal, dropped, aged, place, durable, admitted, proc, started, forgot, stops>>
host == <<journal, dropped, aged>>
history == <<started, forgot>>

Written == Len(journal)
Place(kind, position) == [kind |-> kind, at |-> position]
Unwritten == Place("unwritten", 0)
NoBatch == [cursor |-> 0, records |-> {}]
Stopped == [at |-> "stopped", follow |-> FALSE, from |-> Unwritten, read |-> 0,
            first |-> FALSE, batch |-> NoBatch, after |-> "on"]
Unstarted == MaxEntries + 1

Init ==
  /\ journal = <<>> /\ dropped = 0 /\ aged = 0
  /\ place = Unwritten /\ durable = Unwritten
  /\ admitted = {} /\ proc = Stopped
  /\ started = Unstarted /\ forgot = FALSE /\ stops = 0

Stop == stops < MaxStops /\ stops' = stops + 1

-----------------------------------------------------------------------------
(* Open: journalctl starts at the entry a cursor names, or where it was, and
   otherwise at the first entry written since a moment. *)
Opened(from, follow) ==
  [at |-> "reading", follow |-> follow, from |-> from,
   read |-> IF from.kind = "cursor" THEN from.at - 1 ELSE from.at,
   first |-> TRUE, batch |-> NoBatch, after |-> "on"]

(* The next entry journalctl writes, past what journald dropped. *)
Upcoming == Max({proc.read, dropped}) + 1

(* load: what the position file says, if it can be read. *)
load == place.kind

(* begin, then read: without a place the collector starts from now, and with
   one it cannot read from the oldest entry the platform still admits. *)
Begin ==
  /\ proc.at = "stopped"
  /\ \/ /\ load \in {"since", "cursor"}
        /\ proc' = Opened(place, FALSE)
        /\ UNCHANGED <<place, history>>
     \/ /\ load = "unwritten"
        /\ place' = Place("since", Written)
        /\ proc' = Opened(place', FALSE)
        /\ started' = Min({started, Written})
        /\ forgot' = (forgot \/ started # Unstarted)
     \/ /\ load = "damaged"
        /\ place' = Place("since", aged)
        /\ proc' = Opened(place', FALSE)
        /\ UNCHANGED history
  /\ UNCHANGED <<host, durable, admitted, stops>>

(* The batch has no more room. *)
full == Cardinality(proc.batch.records) >= MaxBatch

(* parse: the message is an outcome of sshd. *)
outcome(i) == journal[i] = "outcome"

(* observe: an entry that is an outcome of sshd, and not too old. *)
observed(i) == outcome(i) /\ i > aged

(* Reader.decode: the line is an entry. *)
readable(i) == journal[i] # "unreadable"

(* take: the entry is the last of the batch, and its event is in it. *)
take(batch, i) ==
  [cursor |-> i, records |-> batch.records \cup {j \in {i} : observed(j)}]

\* Slip: an entry that cannot be read ends the reading.
NextStopping ==
  /\ proc.at = "reading" /\ ~full /\ Upcoming <= Written
  /\ LET i == Upcoming
     IN \/ /\ ~readable(i)
           /\ proc' = Stopped
        \/ /\ readable(i)
           /\ proc.first /\ proc.from = Place("cursor", i)
           /\ proc' = [proc EXCEPT !.read = i, !.first = FALSE]
        \/ /\ readable(i)
           /\ ~(proc.first /\ proc.from = Place("cursor", i))
           /\ proc' = [proc EXCEPT !.read = i, !.first = FALSE, !.batch = take(@, i)]
  /\ UNCHANGED <<host, place, durable, admitted, history, stops>>

(* Next: an entry that cannot be read is passed, the one the place names was
   handled before, and any other is taken. *)
NextEntry ==
  /\ proc.at = "reading" /\ ~full /\ Upcoming <= Written
  /\ LET i == Upcoming
     IN \/ /\ ~readable(i)
           /\ proc' = [proc EXCEPT !.read = i]
        \/ /\ readable(i)
           /\ proc.first /\ proc.from = Place("cursor", i)
           /\ proc' = [proc EXCEPT !.read = i, !.first = FALSE]
        \/ /\ readable(i)
           /\ ~(proc.first /\ proc.from = Place("cursor", i))
           /\ proc' = [proc EXCEPT !.read = i, !.first = FALSE, !.batch = take(@, i)]
  /\ UNCHANGED <<host, place, durable, admitted, history, stops>>

(* The batch is flushed when it is full or nothing more is pending, and before
   the reading ends: at the end of the journal, where the collector goes on to
   follow it, and when journalctl stops, where it returns the error. *)
Flush ==
  /\ proc.at = "reading"
  /\ \/ /\ proc.batch.cursor # 0
        /\ proc' = [proc EXCEPT !.at = "admitting", !.after = "on"]
        /\ UNCHANGED stops
     \/ /\ ~proc.follow /\ Upcoming > Written
        /\ proc' = IF proc.batch.cursor = 0 THEN Opened(proc.from, TRUE)
                   ELSE [proc EXCEPT !.at = "admitting", !.after = "follow"]
        /\ UNCHANGED stops
     \/ /\ Stop
        /\ proc' = IF proc.batch.cursor = 0 THEN Stopped
                   ELSE [proc EXCEPT !.at = "admitting", !.after = "return"]
  /\ UNCHANGED <<host, place, durable, admitted, history>>

\* Slip: the place is written before the events it passes are admitted.
AdmitLater ==
  /\ proc.at = "admitting"
  /\ \/ /\ place' = Place("cursor", proc.batch.cursor)
        /\ proc' = [proc EXCEPT !.at = "saving"]
        /\ UNCHANGED <<admitted, stops>>
     \/ /\ Stop
        /\ proc' = Stopped
        /\ UNCHANGED <<admitted, place>>
  /\ UNCHANGED <<host, durable, history>>

(* admit: the spool takes every record of the batch durably, after it waited
   for room, or the collector returns why not. *)
Admit ==
  /\ proc.at = "admitting"
  /\ \/ /\ admitted' = admitted \cup proc.batch.records
        /\ proc' = [proc EXCEPT !.at = "saving"]
        /\ UNCHANGED <<place, stops>>
     \/ /\ proc.batch.records # {} /\ Stop
        /\ proc' = Stopped
        /\ UNCHANGED <<admitted, place>>
  /\ UNCHANGED <<host, durable, history>>

(* save: the new place replaces the last one, and a write that fails leaves
   the last one; what follows is what the flush was for. *)
Save ==
  /\ proc.at = "saving"
  /\ \/ LET next == Place("cursor", proc.batch.cursor)
        IN /\ place' = next
           /\ proc' = CASE proc.after = "on" -> [proc EXCEPT !.at = "reading", !.from = next, !.batch = NoBatch]
                        [] proc.after = "follow" -> Opened(next, TRUE)
                        [] proc.after = "return" -> Stopped
           /\ UNCHANGED stops
     \/ /\ Stop
        /\ proc' = Stopped
        /\ UNCHANGED place
  /\ UNCHANGED <<host, durable, admitted, history>>

-----------------------------------------------------------------------------
(* The host: journald writes and drops entries, time passes, and the kernel
   writes back the directory, which the collector does not sync. *)
WriteEntry(kind) ==
  /\ Written < MaxEntries
  /\ journal' = Append(journal, kind)
  /\ UNCHANGED <<dropped, aged, place, durable, admitted, proc, history, stops>>

Drop ==
  /\ dropped < Written
  /\ dropped' = dropped + 1
  /\ UNCHANGED <<journal, aged, place, durable, admitted, proc, history, stops>>

Age ==
  /\ aged < Written
  /\ aged' = aged + 1
  /\ UNCHANGED <<journal, dropped, place, durable, admitted, proc, history, stops>>

WriteBack ==
  /\ durable # place
  /\ durable' = place
  /\ UNCHANGED <<host, place, admitted, proc, history, stops>>

(* The agent is stopped or killed, the host loses its power, or the file is
   found damaged. *)
Kill ==
  /\ proc.at # "stopped" /\ Stop
  /\ proc' = Stopped
  /\ UNCHANGED <<host, place, durable, admitted, history>>

LosePower ==
  /\ Stop
  /\ proc' = Stopped
  /\ place' = durable
  /\ UNCHANGED <<host, durable, admitted, history>>

Damage ==
  /\ proc.at = "stopped" /\ place.kind \in {"since", "cursor"} /\ Stop
  /\ place' = Place("damaged", 0) /\ durable' = place'
  /\ UNCHANGED <<host, admitted, proc, history>>

Environment ==
  \/ \E kind \in {"outcome", "unrelated", "unreadable"} : WriteEntry(kind)
  \/ Drop \/ Age \/ WriteBack \/ Kill \/ LosePower \/ Damage

Next == Begin \/ NextEntry \/ Flush \/ Admit \/ Save \/ Environment

(* The collector goes on while it runs, and its module is started again after
   it returned an error (Collection.tla). *)
Fairness ==
  /\ WF_vars(Begin) /\ WF_vars(NextEntry) /\ WF_vars(Flush)
  /\ WF_vars(Admit) /\ WF_vars(Save)

Spec == Init /\ [][Next]_vars /\ Fairness

-----------------------------------------------------------------------------
(* Properties. *)

Reached == IF place.kind \in {"since", "cursor"} THEN place.at ELSE 0
Settled(i) == i \in admitted \/ i <= aged \/ i <= dropped
Passed == {i \in 1..Reached : i > started /\ journal[i] = "outcome"}

(* The place the collector wrote down never passes an outcome of sshd whose
   event is not in the spool, unless it is too old or journald dropped it:
   whatever stops the collector, what it has to read is still before it. *)
NothingSkipped == ~forgot => \A i \in Passed : Settled(i)

(* Every outcome sshd writes once the collection started is admitted in the
   end, or gets too old or is dropped first. *)
ReadInTheEnd ==
  \A i \in 1..MaxEntries :
    []<>(i <= Written /\ i > started /\ journal[i] = "outcome" => Settled(i) \/ forgot)
=============================================================================
