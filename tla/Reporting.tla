----------------------------- MODULE Reporting ------------------------------
(* What the agent reports of itself to the platform (internal/reporting): one
   report at an interval, the same bytes again until it is taken, refused or
   due to be replaced, and one more as the agent stops.  Every report carries a
   sequence that outlives the process, and a count that cannot be read back
   goes on from the clock, in seconds.  What a report says is abstracted to its
   place among the reports written. *)
EXTENDS Integers

CONSTANTS MaxWritten,   (* bound: reports written *)
          MaxRounds,    (* bound: reports a run begins after it was asked to stop *)
          MaxDamage,    (* bound: times the count is damaged *)
          MaxClock      (* bound: the seconds that pass *)

VARIABLES
  clock,      (* in seconds *)
  file,       (* the count sequence.json holds, as the processes see it *)
  durable,    (* the count a power cut leaves *)
  last,       (* sequence.last *)
  phase,      (* where Reporter.Run is *)
  stopping,   (* the context is done *)
  failing,    (* State.Attempts > 0 *)
  report,     (* the report written last *)
  written,    (* how many were written *)
  flight,     (* reports posted that may still arrive *)
  received,   (* reports the platform received *)
  rounds, damage

vars == <<clock, file, durable, last, phase, stopping, failing, report, written,
          flight, received, rounds, damage>>

Missing == -1
Damaged == -2

(* The service starts the agent again after five seconds (RestartSec), and an
   interval is ten seconds or more. *)
RestartSec == 5
Interval == 10

(* The clock of a host is far past any count of reports. *)
Now == 100

None == [sequence |-> 0, count |-> 0, stopping |-> FALSE]

Init ==
  /\ clock = Now
  /\ file = Missing
  /\ durable = Missing
  /\ last = 0
  /\ phase = "off"
  /\ stopping = FALSE
  /\ failing = FALSE
  /\ report = None
  /\ written = 0
  /\ flight = {}
  /\ received = {}
  /\ rounds = 0
  /\ damage = 0

(* sequence.read, and what openSequence makes of it. *)
read(now) ==
  CASE file = Missing -> 0
    [] file = Damaged -> now
    [] OTHER -> file

openSequence ==
  /\ phase = "off"
  /\ clock < Now + MaxClock
  /\ clock' = clock + RestartSec
  /\ last' = read(clock')
  /\ phase' = "write"
  /\ stopping' = FALSE
  /\ failing' = FALSE
  /\ rounds' = 0
  /\ UNCHANGED <<file, durable, report, written, flight, received, damage>>

(* Reporter.write: what is reported now, and whether it is the last of a run. *)
About == phase = "last"

(* A report that is not written: the last one is given up, any other counts as
   a failed attempt. *)
Unwritten ==
  IF About THEN phase' = "off" /\ UNCHANGED failing
           ELSE phase' = "wait" /\ failing' = TRUE

(* Slip: the sequence is used once it is renamed into place, the directory not
   synced. *)
nextUnsynced ==
  /\ phase \in {"write", "last"}
  /\ written < MaxWritten
  /\ file' = last + 1
  /\ last' = last + 1
  /\ written' = written + 1
  /\ report' = [sequence |-> last + 1, count |-> written + 1, stopping |-> About]
  /\ phase' = IF About THEN "lastSend" ELSE "send"
  /\ UNCHANGED <<clock, durable, stopping, failing, flight, received, rounds, damage>>

(* sequence.next up to the rename, the temporary file synced. *)
next ==
  /\ phase \in {"write", "last"}
  /\ written < MaxWritten
  /\ file' = last + 1
  /\ phase' = IF About THEN "lastRenamed" ELSE "renamed"
  /\ UNCHANGED <<clock, durable, last, stopping, failing, report, written, flight, received, rounds, damage>>

nextFails ==
  /\ phase \in {"write", "last"}
  /\ Unwritten
  /\ UNCHANGED <<clock, file, durable, last, stopping, report, written, flight, received, rounds, damage>>

(* The directory is synced, the sequence is taken and the report carries it. *)
Synced ==
  /\ phase \in {"renamed", "lastRenamed"}
  /\ durable' = file
  /\ last' = last + 1
  /\ written' = written + 1
  /\ report' = [sequence |-> last + 1, count |-> written + 1, stopping |-> phase = "lastRenamed"]
  /\ phase' = IF phase = "lastRenamed" THEN "lastSend" ELSE "send"
  /\ UNCHANGED <<clock, file, stopping, failing, flight, received, rounds, damage>>

(* The directory is not synced, or the report is one the platform refuses: the
   file is ahead of the count in the first case, the count is in the second. *)
SyncFails ==
  /\ phase \in {"renamed", "lastRenamed"}
  /\ \/ UNCHANGED <<last, durable>>
     \/ last' = last + 1 /\ durable' = file
  /\ IF phase = "lastRenamed" THEN phase' = "off" /\ UNCHANGED failing
                              ELSE phase' = "wait" /\ failing' = TRUE
  /\ UNCHANGED <<clock, file, stopping, report, written, flight, received, rounds, damage>>

(* Reporter.send posts the report; a context that is done posts nothing. *)
send ==
  \/ /\ phase = "send" /\ ~stopping
     /\ phase' = "asked"
     /\ flight' = flight \cup {report}
     /\ UNCHANGED <<clock, file, durable, last, stopping, failing, report, written, received, rounds, damage>>
  \/ /\ phase = "lastSend"
     /\ phase' = "lastAsked"
     /\ flight' = flight \cup {report}
     /\ UNCHANGED <<clock, file, durable, last, stopping, failing, report, written, received, rounds, damage>>

(* The platform receives a report, now or long after the agent gave it up. *)
Arrive ==
  /\ \E r \in flight :
       /\ flight' = flight \ {r}
       /\ received' = received \cup {r}
  /\ UNCHANGED <<clock, file, durable, last, phase, stopping, failing, report, written, rounds, damage>>

(* Report's loop: the report is taken; it is refused; or it is not taken and is
   sent again, or left for the one that is due.  A context that is done ends
   the loop at once and counts nothing. *)
Report ==
  /\ phase = "asked"
  /\ \/ ~stopping /\ report \in received /\ failing' = FALSE /\ phase' = "wait"
     \/ ~stopping /\ failing' = TRUE /\ phase' \in {"send", "wait"}
     \/ stopping /\ phase' = "wait" /\ UNCHANGED failing
  /\ report' = IF phase' = "wait" THEN None ELSE report
  /\ UNCHANGED <<clock, file, durable, last, stopping, written, flight, received, rounds, damage>>

(* The context is done before anything is posted, or while Report waits to send
   again. *)
Cut ==
  /\ phase = "send" /\ stopping
  /\ phase' = "wait"
  /\ report' = None
  /\ UNCHANGED <<clock, file, durable, last, stopping, failing, written, flight, received, rounds, damage>>

(* Run's select: the timer begins the next report, the context the last one.
   Where Report returned at once because the context is done, both are ready. *)
Due ==
  /\ phase = "wait"
  /\ IF stopping THEN rounds < MaxRounds /\ rounds' = rounds + 1 /\ UNCHANGED clock
                 ELSE clock < Now + MaxClock /\ clock' = clock + Interval /\ UNCHANGED rounds
  /\ phase' = "write"
  /\ UNCHANGED <<file, durable, last, stopping, failing, report, written, flight, received, damage>>

lastOne ==
  /\ phase = "wait" /\ stopping
  /\ phase' = IF failing THEN "off" ELSE "last"
  /\ UNCHANGED <<clock, file, durable, last, stopping, failing, report, written, flight, received, rounds, damage>>

(* The last report is sent once, and the run ends whatever came of it. *)
Stopped ==
  /\ phase = "lastAsked"
  /\ phase' = "off"
  /\ report' = None
  /\ UNCHANGED <<clock, file, durable, last, stopping, failing, written, flight, received, rounds, damage>>

AskToStop ==
  /\ phase # "off" /\ ~stopping
  /\ stopping' = TRUE
  /\ UNCHANGED <<clock, file, durable, last, phase, failing, report, written, flight, received, rounds, damage>>

Die(left) ==
  /\ phase # "off"
  /\ file' = left
  /\ durable' = left
  /\ phase' = "off"
  /\ last' = 0
  /\ report' = None
  /\ UNCHANGED <<clock, stopping, failing, written, flight, received, rounds, damage>>

(* A kill leaves what was written; the kernel writes it back in time. *)
Kill == Die(file)

(* A power cut leaves what was synced, or what was renamed since. *)
LosePower == Die(durable)

Damage ==
  /\ phase = "off" /\ file # Missing
  /\ damage < MaxDamage
  /\ damage' = damage + 1
  /\ file' = Damaged
  /\ durable' = Damaged
  /\ UNCHANGED <<clock, last, phase, stopping, failing, report, written, flight, received, rounds>>

Next ==
  \/ openSequence \/ next \/ nextFails \/ Synced \/ SyncFails \/ send \/ Arrive
  \/ Report \/ Cut \/ Due \/ lastOne \/ Stopped
  \/ AskToStop \/ Kill \/ LosePower \/ Damage

Spec == Init /\ [][Next]_vars

(* No two reports that left the agent carry one sequence, and the one with the
   higher sequence was written later, whatever was cut short, lost, delayed or
   damaged in between: "no sequence is ever written twice" (sequence.go:34), so
   the platform that keeps the highest keeps the newest. *)
NewestIsHighest ==
  \A r, s \in flight \cup received : r.sequence < s.sequence <=> r.count < s.count
=============================================================================
