------------------------------- MODULE Budget -------------------------------
(* The bytes the three streams of the spool share (internal/spool/spool.go).
   Every stream writes under a lock of its own, so the streams interleave, and
   one record of what is held decides which of them may write: all of it within
   the limit, less what is kept back for the acknowledgements, and each stream
   within its share.  SpoolQueue is one stream alone and in detail; here a
   stream is the bytes its files take and the bytes of a write under way. *)
EXTENDS Integers

CONSTANTS Limits,      (* the settings spool.max_bytes takes, the first in force among them *)
          Reserved,    (* what is kept back for acknowledgements *)
          Sizes,       (* the sizes of what is admitted at once *)
          MaxLedger    (* bound: what a stream's acknowledgements take *)

ASSUME BudgetConstants ==
  /\ Limits \subseteq Nat /\ Limits # {} /\ Reserved \in Nat
  /\ Sizes \subseteq Nat \ {0} /\ MaxLedger \in Nat
  /\ \A most \in Limits : 16 * Reserved < most

VARIABLES
  limit,      (* budget.limit *)
  used,       (* budget.used *)
  held,       (* budget.held *)
  crowded,    (* budget.wait > 0 and its end is not reached *)
  segments,   (* the bytes of the segments of each stream *)
  ledger,     (* the bytes of the ledger of each stream *)
  writing     (* the bytes reserved for the write a stream has under way *)

vars == <<limit, used, held, crowded, segments, ledger, writing>>

Streams == {"events", "inventory", "assessments"}
Total(bytes) == bytes["events"] + bytes["inventory"] + bytes["assessments"]

(* Slip: the events may take all but a thirty-second of the budget. *)
shareLarger(s) ==
  CASE s = "events" -> (limit \div 32) * 31
    [] s = "inventory" -> limit \div 2
    [] OTHER -> limit \div 16

(* Stream.share of the limit in force. *)
share(s) ==
  CASE s = "events" -> (limit \div 8) * 7
    [] s = "inventory" -> limit \div 2
    [] OTHER -> limit \div 16

Init ==
  /\ limit \in Limits
  /\ used = 0
  /\ held = [s \in Streams |-> 0]
  /\ crowded = FALSE
  /\ segments = [s \in Streams |-> 0]
  /\ ledger = [s \in Streams |-> 0]
  /\ writing = [s \in Streams |-> 0]

(* budget.add. *)
add(s, bytes) ==
  /\ used' = used + bytes
  /\ held' = [held EXCEPT ![s] = @ + bytes]

Fits(s, bytes) ==
  /\ used + bytes <= limit - Reserved
  /\ held[s] + bytes <= share(s)
  /\ ~crowded

(* queue.admit reserves what it is about to write, the filesystem having room
   for it.  A refusal changes nothing here: the stream notes that it waits. *)
reserve(s, bytes) ==
  /\ writing[s] = 0
  /\ Fits(s, bytes)
  /\ add(s, bytes)
  /\ writing' = [writing EXCEPT ![s] = bytes]
  /\ UNCHANGED <<limit, crowded, segments, ledger>>

(* The write is whole and synced. *)
Written(s) ==
  /\ writing[s] > 0
  /\ segments' = [segments EXCEPT ![s] = @ + writing[s]]
  /\ writing' = [writing EXCEPT ![s] = 0]
  /\ crowded' = FALSE
  /\ UNCHANGED <<limit, used, held, ledger>>

(* The filesystem had no room after all: what was reserved is given back, and
   every stream waits.  (The header of a segment begun for the write stays and
   is left out here, and a stream whose write fails otherwise writes no more:
   what it reserved stays reserved.) *)
crowd(s) ==
  /\ writing[s] > 0
  /\ add(s, -writing[s])
  /\ writing' = [writing EXCEPT ![s] = 0]
  /\ crowded' = TRUE
  /\ UNCHANGED <<limit, segments, ledger>>

(* The wait crowd asks for is over. *)
Waited ==
  /\ crowded
  /\ crowded' = FALSE
  /\ UNCHANGED <<limit, used, held, segments, ledger, writing>>

(* compact removes segments settled whole. *)
compact(s) ==
  /\ writing[s] = 0
  /\ \E bytes \in Sizes :
       /\ bytes <= segments[s]
       /\ add(s, -bytes)
       /\ segments' = [segments EXCEPT ![s] = @ - bytes]
  /\ UNCHANGED <<limit, crowded, ledger, writing>>

(* The ledger is written whole and may grow or shrink; no limit stops it. *)
store(s) ==
  /\ writing[s] = 0
  /\ \E bytes \in 0 .. MaxLedger :
       /\ bytes # ledger[s]
       /\ add(s, bytes - ledger[s])
       /\ ledger' = [ledger EXCEPT ![s] = bytes]
  /\ UNCHANGED <<limit, crowded, segments, writing>>

(* A configuration or a policy sets another limit. *)
set(to) ==
  /\ limit # to
  /\ limit' = to
  /\ UNCHANGED <<used, held, crowded, segments, ledger, writing>>

(* A crash and the start after it: a write that was under way is there whole
   or it is not, and what is held is counted from the files. *)
Recover ==
  /\ \E whole \in SUBSET {s \in Streams : writing[s] > 0} :
       segments' = [s \in Streams |-> segments[s] + IF s \in whole THEN writing[s] ELSE 0]
  /\ held' = [s \in Streams |-> segments'[s] + ledger[s]]
  /\ used' = Total(held')
  /\ crowded' = FALSE
  /\ writing' = [s \in Streams |-> 0]
  /\ UNCHANGED <<limit, ledger>>

Next ==
  \/ \E s \in Streams :
       \/ \E bytes \in Sizes : reserve(s, bytes)
       \/ Written(s) \/ crowd(s) \/ compact(s) \/ store(s)
  \/ Waited
  \/ \E to \in Limits : set(to)
  \/ Recover

Spec == Init /\ [][Next]_vars

-----------------------------------------------------------------------------
(* Properties. *)

(* What the budget and the files count stays a number of bytes. *)
TypeOK ==
  /\ limit \in Limits
  /\ used \in Int
  /\ held \in [Streams -> Int]
  /\ crowded \in BOOLEAN
  /\ segments \in [Streams -> Nat]
  /\ ledger \in [Streams -> Nat]
  /\ writing \in [Streams -> Nat]

(* The budget counts what is on disk and what is about to be, of every stream
   and in all, whichever streams write, fail, compact and acknowledge at once:
   bytes counted and never given back would refuse admissions for good. *)
BooksAgree ==
  /\ used = Total(held)
  /\ \A s \in Streams : held[s] = segments[s] + ledger[s] + writing[s]

(* While no stream holds more than its share, whatever the others hold a stream
   without a record finds room for one: "Each is left room the others cannot
   take" (spool.go:49), here of the events and of the inventory. *)
WithinShares == \A s \in Streams : held[s] <= share(s)

HasRoom(s) == WithinShares /\ held[s] = 0 => used < limit - Reserved

RoomLeft == HasRoom("events") /\ HasRoom("inventory")

(* The same of every stream, the assessments too, as the comment says it. *)
RoomForEach == \A s \in Streams : HasRoom(s)
=============================================================================
