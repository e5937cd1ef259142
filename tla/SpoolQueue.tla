----------------------------- MODULE SpoolQueue -----------------------------
(***************************************************************************)
(* One stream of the spool (internal/spool/queue.go): segment files and a  *)
(* ledger on disk, what the running queue knows of them in memory, and the *)
(* operations on both. The queue has two mutexes. io is held across every  *)
(* change of the files, so one such operation is under way at a time: "op" *)
(* is the one that holds it and how far it has come. mu is held across     *)
(* each access to memory, so a step below is at most one critical section  *)
(* of mu and one change of a file. read and expire look at the files       *)
(* without io, from a snapshot of memory taken before.                     *)
(*                                                                         *)
(* A machine may stop at any step. What it finds on disk then is:          *)
(*   - a directory as it was at some moment since it was last synced;      *)
(*   - of the frames not synced, any that reached the disk whole, and any  *)
(*     that left bytes there which verify as nothing.                      *)
(* A process may be killed at any step, which loses memory alone. The      *)
(* environment also damages frames and the ledger, and fails any write,    *)
(* sync, rename or removal.                                                *)
(*                                                                         *)
(* A record is its sequence. Sizes are counted in frames, and the header   *)
(* of a segment counts as one; the bytes of the ledger are left out.       *)
(***************************************************************************)
EXTENDS Accounts, Integers

CONSTANTS
  SegmentFrames,   \* frames at which a segment is full (budget.segment)
  MaxBatch,        \* records given to one Admit
  MaxRead,         \* records one Read returns at most
  Limit,           \* what the stream may hold (budget.reserve)
  MaxCrashes,      \* bound: crashes and kills
  MaxFaults,       \* bound: operations on files that fail
  MaxDamage,       \* bound: frames the environment damages
  MaxVanished,     \* bound: segments and ledgers it takes away
  MaxAged          \* bound: records that outlive their age

ASSUME BoundsAssumption ==
  /\ SegmentFrames \in Nat \ {0} /\ MaxBatch \in Nat \ {0} /\ MaxRead \in Nat \ {0}
  /\ Limit \in Nat /\ MaxCrashes \in Nat /\ MaxFaults \in Nat
  /\ MaxDamage \in Nat /\ MaxVanished \in Nat /\ MaxAged \in Nat

VARIABLES
  (* The disk. *)
  dir,          \* the directory: its ledger, whether it can be read back, and
                \* its segments, by first sequence
  dirs,         \* directories a crash may bring back, until the next sync
  content,      \* the frames in the file of each segment
  headed,       \* segments whose own header is written whole
  volatile,     \* frames written and not synced
  spoiled,      \* frames whose header verifies and whose body does not
  effaced,      \* frames whose header does not verify either
  (* The memory of the queue. *)
  phase,        \* "down", "opening" until recover has a ledger, "opened", "up"
  segments,     \* the segments it holds, with their sizes in frames
  active,       \* whether the last segment is open for admission
  next,         \* the sequence of the next record
  ledger,       \* what it knows as settled
  broken,       \* it admits no more until it is opened again
  used,         \* what the budget counts as used
  cursor,       \* where the last read stopped: a segment and a sequence
  (* The operations under way. *)
  op,           \* the one that holds io
  reading,      \* the read of the route that delivers the stream
  sweep,        \* what an expire found past its age, before it takes io
  (* What the environment and the users of the queue know. *)
  aged,         \* records past their age
  receipted,    \* records Admit returned a receipt for
  hurt,         \* records the environment damaged
  taken,        \* records Read returned since the queue was opened
  judged,    \* auxiliary: every record ever judged lost
  env           \* crashes, faults and damage so far

disk == <<dir, dirs, content, headed, volatile, spoiled, effaced>>
memory == <<segments, active, next, ledger, broken, used, cursor>>
users == <<aged, receipted, hurt, taken, judged>>
vars == <<disk, phase, memory, op, reading, sweep, users, env>>

-----------------------------------------------------------------------------
(* Helpers. *)

Free == [step |-> "free", owner |-> "none", n |-> 0, ledger |-> Fresh(1), out |-> {},
         todo |-> {}, gone |-> FALSE]

NoCursor == [first |-> 0, prev |-> 0]

Still == [on |-> FALSE, from |-> 0, segments |-> {}, todo |-> {}, next |-> 0, settled |-> {},
          at |-> NoCursor, out |-> {}, losses |-> {}, reached |-> NoCursor, full |-> FALSE]

(* The sequence that follows those of segment s, among the segments held. *)
Upper(held, nxt, s) ==
  LET later == {t \in held : t > s} IN IF later = {} THEN nxt ELSE Min(later)

Span(first, end) == {q \in Seqs : first <= q /\ q < end}

(* The frames a queue of these segments takes, headers included. *)
Size(held) ==
  Cardinality({p \in Seqs \X (0..MaxSeq) : p[1] \in DOMAIN held /\ p[2] <= held[p[1]]})

(* What a walk of segment s finds: every frame whose header verifies and, of
   those it reads whole, whose body does. *)
Frames(s, bodies) == content[s] \ (effaced \cup (spoiled \cap bodies))

Fault == env.faults < MaxFaults /\ env' = [env EXCEPT !.faults = @ + 1]

(* A change of the directory, which a crash may undo until syncDirectory. *)
Change(d) == dirs' = dirs \cup {dir} /\ dir' = d

(* syncDirectory: no earlier directory comes back, nor what only it named. *)
SyncDirectory ==
  /\ dirs' = {}
  /\ content' = [s \in Seqs |-> IF s \in dir.segments THEN content[s] ELSE {}]
  /\ headed' = headed \cap dir.segments
  /\ UNCHANGED <<dir, volatile, spoiled, effaced>>

Init ==
  /\ dir = [ledger |-> Fresh(1), whole |-> FALSE, segments |-> {}]
  /\ dirs = {}
  /\ content = [s \in Seqs |-> {}]
  /\ headed = {} /\ volatile = {} /\ spoiled = {} /\ effaced = {}
  /\ phase = "down"
  /\ segments = [s \in {} |-> 0]
  /\ active = FALSE /\ next = 1 /\ ledger = Fresh(1) /\ broken = FALSE /\ used = 0
  /\ cursor = NoCursor
  /\ op = Free /\ reading = Still /\ sweep = {}
  /\ aged = {} /\ receipted = {} /\ hurt = {} /\ taken = {} /\ judged = {}
  /\ env = [crashes |-> 0, faults |-> 0, damage |-> 0, vanished |-> 0]

-----------------------------------------------------------------------------
(* store and compact, which end every operation that settles records. The
   operation holds io from "rename" to the end of the compaction.            *)

(* The segments compact removes: everything in them settled. *)
Removable(held, nxt, settled) ==
  {s \in held : Span(s, Upper(held, nxt, s)) \subseteq settled}

Recovery == {"ledger", "losses", "recover"}

(* The operation ends: a read hands out what it read. Of recover, "ledger" is
   the store of a ledger written anew, "losses" the settlement of what it found
   missing, which it compacts after once more, and "recover" that compaction:
   the queue is open and the budget counts what it holds. *)
End ==
  /\ op' = IF op.owner = "losses"
            THEN [Free EXCEPT !.step = "compact", !.owner = "recover",
                              !.todo = Removable(DOMAIN segments, next, ledger.settled)]
            ELSE Free
  /\ taken' = taken \cup op.out
  /\ phase' = CASE op.owner = "ledger" -> "opened" [] op.owner = "recover" -> "up" [] OTHER -> phase
  /\ used' = IF op.owner = "recover" THEN Size(segments) ELSE used

(* The operation returns an error: a recover that fails leaves the queue shut. *)
Fail ==
  /\ op' = Free
  /\ phase' = IF op.owner \in Recovery THEN "down" ELSE phase

(* store, up to the rename. *)
StoreRename ==
  /\ op.step = "rename"
  /\ Change([dir EXCEPT !.ledger = op.ledger, !.whole = TRUE])
  /\ op' = [op EXCEPT !.step = "commit"]
  /\ UNCHANGED <<content, headed, volatile, spoiled, effaced, phase, memory, reading, sweep, users, env>>

(* store fails before the rename, which leaves the ledger as it was. *)
StoreFails ==
  /\ op.step = "rename"
  /\ Fault
  /\ Fail
  /\ UNCHANGED <<disk, memory, reading, sweep, users>>

(* store, from the sync of the directory on: memory follows the disk. compact
   then looks for the segments that hold nothing outstanding. *)
StoreCommit ==
  /\ op.step = "commit"
  /\ SyncDirectory
  /\ ledger' = op.ledger
  /\ op' = [op EXCEPT !.step = "compact",
                      !.todo = Removable(DOMAIN segments, next, op.ledger.settled)]
  /\ UNCHANGED <<phase, segments, active, next, broken, used, cursor, reading, sweep, users, env>>

(* The directory cannot be synced: memory keeps the ledger it had, while the
   disk may hold either. *)
StoreCommitFails ==
  /\ op.step = "commit"
  /\ Fault
  /\ Fail
  /\ UNCHANGED <<disk, memory, reading, sweep, users>>

Last(held) == Max(DOMAIN held)

(* compact removes the file of a segment, which is closed first. *)
CompactRemove ==
  /\ op.step = "compact"
  /\ op.todo # {}
  /\ active' = (active /\ Min(op.todo) # Last(segments))
  /\ Change([dir EXCEPT !.segments = @ \ {Min(op.todo)}])
  /\ op' = [op EXCEPT !.step = "forget"]
  /\ UNCHANGED <<content, headed, volatile, spoiled, effaced, phase, segments, next, ledger, broken,
                 used, cursor, reading, sweep, users, env>>

(* The file cannot be removed: the queue keeps the segment and goes on. *)
CompactRemoveFails ==
  /\ op.step = "compact"
  /\ op.todo # {}
  /\ Fault
  /\ active' = (active /\ Min(op.todo) # Last(segments))
  /\ op' = [op EXCEPT !.todo = @ \ {Min(op.todo)}]
  /\ UNCHANGED <<disk, phase, segments, next, ledger, broken, used, cursor, reading, sweep, users>>

(* The queue forgets the segment whose file is gone. *)
CompactForget ==
  /\ op.step = "forget"
  /\ LET s == Min(op.todo) IN
       /\ segments' = [t \in DOMAIN segments \ {s} |-> segments[t]]
       /\ used' = used - (segments[s] + 1)
       /\ cursor' = IF cursor.first = s THEN NoCursor ELSE cursor
       /\ op' = [op EXCEPT !.step = "compact", !.todo = @ \ {s}, !.gone = TRUE]
  /\ UNCHANGED <<disk, phase, active, next, ledger, broken, reading, sweep, users, env>>

(* Nothing is left to remove; the directory is synced if anything was. *)
CompactEnd ==
  /\ op.step = "compact"
  /\ op.todo = {}
  /\ End
  /\ IF op.gone THEN SyncDirectory ELSE UNCHANGED disk
  /\ UNCHANGED <<segments, active, next, ledger, broken, cursor, reading, sweep,
                 aged, receipted, hurt, judged, env>>

(* That sync fails, which is only logged. *)
CompactEndFails ==
  /\ op.step = "compact"
  /\ op.todo = {} /\ op.gone
  /\ Fault
  /\ End
  /\ UNCHANGED <<disk, segments, active, next, ledger, broken, cursor, reading, sweep,
                 aged, receipted, hurt, judged>>

Settling ==
  \/ StoreRename \/ StoreFails \/ StoreCommit \/ StoreCommitFails
  \/ CompactRemove \/ CompactRemoveFails \/ CompactForget \/ CompactEnd \/ CompactEndFails

(* Takes io to settle seqs under a kind, for an owner that then hands out. *)
Begin(owner, seqs, kind, out) ==
  op' = [Free EXCEPT !.step = "rename", !.owner = owner, !.out = out,
                     !.ledger = Settle(ledger, seqs, kind)]

-----------------------------------------------------------------------------
(* Admit. *)

Batch == Span(next, next + op.n)

(* admit takes io and reserves room for the records, and for the header of a
   new segment when the last one is full or closed; a batch there is no room
   for is refused and changes nothing. rotate begins by closing the last. *)
AdmitBegin ==
  /\ phase = "up" /\ op.step = "free" /\ ~broken
  /\ \E n \in 1..MaxBatch :
       LET rotate == ~active \/ segments[Last(segments)] >= SegmentFrames
           needed == IF rotate THEN n + 1 ELSE n
       IN  /\ next + n <= MaxSeq + 1
           /\ used + needed <= Limit
           /\ used' = used + needed
           /\ active' = ~rotate
           /\ op' = [Free EXCEPT !.step = IF rotate THEN "create" ELSE "write",
                                 !.owner = "admit", !.n = n]
  /\ UNCHANGED <<disk, phase, segments, next, ledger, broken, cursor, reading, sweep, users, env>>

(* rotate creates the file; its name must be new. *)
RotateCreate ==
  /\ op.step = "create"
  /\ next \notin dir.segments
  /\ Change([dir EXCEPT !.segments = @ \cup {next}])
  /\ content' = [content EXCEPT ![next] = {}]
  /\ headed' = headed \ {next}
  /\ op' = [op EXCEPT !.step = "header"]
  /\ UNCHANGED <<volatile, spoiled, effaced, phase, memory, reading, sweep, users, env>>

(* rotate writes and syncs the header of the file. *)
RotateHeader ==
  /\ op.step = "header"
  /\ headed' = headed \cup {next}
  /\ op' = [op EXCEPT !.step = "link"]
  /\ UNCHANGED <<dir, dirs, content, volatile, spoiled, effaced, phase, memory, reading, sweep, users, env>>

(* Slip: rotate does not sync the directory. *)
RotateEndUnsynced ==
  /\ op.step = "link"
  /\ segments' = [s \in DOMAIN segments \cup {next} |-> IF s = next THEN 0 ELSE segments[s]]
  /\ active' = TRUE
  /\ op' = [op EXCEPT !.step = "write"]
  /\ UNCHANGED <<disk, phase, next, ledger, broken, used, cursor, reading, sweep, users, env>>

(* rotate syncs the directory: the segment is there to stay. *)
RotateEnd ==
  /\ op.step = "link"
  /\ SyncDirectory
  /\ segments' = [s \in DOMAIN segments \cup {next} |-> IF s = next THEN 0 ELSE segments[s]]
  /\ active' = TRUE
  /\ op' = [op EXCEPT !.step = "write"]
  /\ UNCHANGED <<phase, next, ledger, broken, used, cursor, reading, sweep, users, env>>

(* rejected: a filesystem that is full refuses this batch alone, any other
   error breaks the queue. *)
Rejected == broken' \in BOOLEAN /\ op' = Free

(* The file cannot be created, or one of that name is there. *)
RotateCreateFails ==
  /\ op.step = "create"
  /\ \/ Fault /\ Rejected
     \/ next \in dir.segments /\ broken' = TRUE /\ op' = Free /\ UNCHANGED env
  /\ used' = used - (op.n + 1)
  /\ UNCHANGED <<disk, phase, segments, active, next, ledger, cursor, reading, sweep, users>>

(* The header cannot be written or synced, or the directory synced: the file
   is removed again, and one that cannot be removed breaks the queue. *)
RotateFails ==
  /\ op.step \in {"header", "link"}
  /\ Fault
  /\ \/ Rejected /\ Change([dir EXCEPT !.segments = @ \ {next}])
     \/ broken' = TRUE /\ op' = Free /\ UNCHANGED <<dir, dirs>>
  /\ used' = used - (op.n + 1)
  /\ UNCHANGED <<content, headed, volatile, spoiled, effaced, phase, segments, active, next, ledger,
                 cursor, reading, sweep, users>>

(* The frames go to the file. *)
AdmitWrite ==
  /\ op.step = "write"
  /\ content' = [content EXCEPT ![Last(segments)] = @ \cup Batch]
  /\ volatile' = volatile \cup Batch
  /\ spoiled' = spoiled \ Batch /\ effaced' = effaced \ Batch
  /\ op' = [op EXCEPT !.step = "sync"]
  /\ UNCHANGED <<dir, dirs, headed, phase, memory, reading, sweep, users, env>>

(* Slip: a write that fails keeps what it reserved. *)
AdmitWriteFailsKeeping ==
  /\ op.step = "write"
  /\ Fault
  /\ Rejected
  /\ UNCHANGED <<disk, phase, segments, active, next, ledger, used, cursor, reading, sweep, users>>

(* The write fails. What reached the file is cut off again; when that fails
   too, some of it stays and the queue is broken. *)
AdmitWriteFails ==
  /\ op.step = "write"
  /\ Fault
  /\ used' = used - op.n
  /\ \/ Rejected /\ UNCHANGED <<content, volatile, spoiled, effaced>>
     \/ \E part \in SUBSET Batch :
          /\ content' = [content EXCEPT ![Last(segments)] = @ \cup part]
          /\ volatile' = volatile \cup part
          /\ spoiled' = spoiled \ part /\ effaced' = effaced \ part
          /\ broken' = TRUE /\ op' = Free
  /\ UNCHANGED <<dir, dirs, headed, phase, segments, active, next, ledger, cursor, reading, sweep, users>>

(* The file is synced: the records are admitted and Admit returns a receipt. *)
AdmitEnd ==
  /\ op.step = "sync"
  /\ volatile' = volatile \ content[Last(segments)]
  /\ segments' = [segments EXCEPT ![Last(segments)] = @ + op.n]
  /\ next' = next + op.n
  /\ receipted' = receipted \cup Batch
  /\ hurt' = hurt \ Batch /\ aged' = aged \ Batch /\ judged' = judged \ Batch
  /\ op' = Free
  /\ UNCHANGED <<dir, dirs, content, headed, spoiled, effaced, phase, active, ledger, broken, used,
                 cursor, reading, sweep, taken, env>>

(* The sync fails: the queue is broken, and the frames may be on disk or not. *)
AdmitEndFails ==
  /\ op.step = "sync"
  /\ Fault
  /\ broken' = TRUE
  /\ op' = Free
  /\ UNCHANGED <<disk, phase, segments, active, next, ledger, used, cursor, reading, sweep, users>>

Admitting ==
  \/ AdmitBegin \/ RotateCreate \/ RotateCreateFails \/ RotateHeader \/ RotateEnd \/ RotateFails
  \/ AdmitWrite \/ AdmitWriteFails \/ AdmitEnd \/ AdmitEndFails

-----------------------------------------------------------------------------
(* The route that delivers the stream: it reads, then settles what it read. *)

Idle == phase = "up" /\ ~reading.on /\ op.owner # "route"

(* Acknowledge and Quarantine: settle. *)
SettleBegin ==
  /\ Idle /\ op.step = "free"
  /\ \E seqs \in SUBSET taken, kind \in {"delivered", "quarantined"} :
       /\ ~(seqs \subseteq ledger.settled)
       /\ Begin("route", seqs, kind, {})
  /\ UNCHANGED <<disk, phase, memory, reading, sweep, users, env>>

(* The sequence after which a read begins to walk a segment: where the last one
   stopped, if it stopped there before where this one begins. *)
WalksFrom(s) ==
  IF reading.at.first = s /\ reading.from > reading.at.prev THEN reading.at.prev ELSE s - 1

(* read takes a snapshot of memory. *)
ReadBegin ==
  /\ Idle
  /\ \E from \in 1..next :
       reading' = [Still EXCEPT !.on = TRUE, !.from = from, !.segments = DOMAIN segments,
                                !.todo = DOMAIN segments, !.next = next,
                                !.settled = ledger.settled, !.at = cursor]
  /\ UNCHANGED <<disk, phase, memory, op, sweep, users, env>>

(* read walks the next segment of its snapshot. A segment all settled or all
   before "from" is not opened. A file that is missing is a loss, unless the
   queue no longer holds its segment. Otherwise the frames are walked from the
   cursor, or from the first: a sequence no frame verifies for is a loss, and
   a frame that is wanted is read until the read is full. *)
ReadSegment ==
  /\ phase = "up" /\ reading.on /\ reading.todo # {} /\ ~reading.full
  /\ LET s == Min(reading.todo)
         upper == Upper(reading.segments, reading.next, s)
         start == WalksFrom(s)
         wanted == {q \in Seqs : q >= reading.from /\ q \notin reading.settled}
         whole == {q \in Frames(s, wanted) : start < q /\ q < upper}
         room == MaxRead - Cardinality(reading.out)
         beyond == {q \in whole \cap wanted :
                      Cardinality({p \in whole \cap wanted : p < q}) >= room}
         stop == IF beyond = {} THEN upper ELSE Min(beyond)
         passed == {q \in whole : q < stop}
     IN  reading' =
           IF upper <= reading.from \/ Span(s, upper) \subseteq reading.settled
           THEN [reading EXCEPT !.todo = @ \ {s}]
           ELSE IF s \notin dir.segments
           THEN [reading EXCEPT !.todo = @ \ {s},
                                !.losses = IF s \in DOMAIN segments THEN @ \cup Span(s, upper) ELSE @]
           ELSE [reading EXCEPT !.todo = @ \ {s},
                                !.out = @ \cup (passed \cap wanted),
                                !.losses = @ \cup (Span(start + 1, stop) \ passed),
                                !.reached = [first |-> s, prev |-> Max({start} \cup passed)],
                                !.full = beyond # {}]
  /\ UNCHANGED <<disk, phase, memory, op, sweep, users, env>>

(* read ends: it leaves the cursor where it stopped and hands out what it read,
   after settleLost has written down what it found missing. *)
ReadEnd ==
  /\ phase = "up" /\ reading.on /\ (reading.todo = {} \/ reading.full)
  /\ cursor' = IF reading.reached = NoCursor THEN cursor ELSE reading.reached
  /\ reading' = Still
  /\ IF reading.losses = {}
     THEN taken' = taken \cup reading.out /\ UNCHANGED <<op, judged>>
     ELSE /\ op.step = "free"
          /\ IF reading.losses \subseteq ledger.settled
             THEN taken' = taken \cup reading.out /\ UNCHANGED <<op, judged>>
             ELSE /\ Begin("route", reading.losses, "lost", reading.out)
                  /\ judged' = judged \cup (reading.losses \ ledger.settled)
                  /\ UNCHANGED taken
  /\ UNCHANGED <<disk, phase, segments, active, next, ledger, broken, used, sweep,
                 aged, receipted, hurt, env>>

Delivering == SettleBegin \/ ReadBegin \/ ReadSegment \/ ReadEnd

-----------------------------------------------------------------------------
(* expire: whoever admits or reads sweeps the stream for records past their
   age, from a snapshot, and takes io only once it found some. *)

(* The sweep trusts the headers, and ends at the first record outstanding that
   is within its age. A file missing by now is passed over. *)
ExpireSweep ==
  /\ phase = "up" /\ sweep = {}
  /\ LET seen == {q \in UNION {Frames(s, {}) : s \in DOMAIN segments \cap dir.segments} :
                    q < next /\ q \notin ledger.settled}
     IN  sweep' = {q \in seen : \A p \in seen : p <= q => p \in aged}
  /\ UNCHANGED <<disk, phase, memory, op, reading, users, env>>

(* Slip: the settlement counts all that the sweep found. *)
ExpireBeginBlind ==
  /\ phase = "up" /\ sweep # {} /\ op.step = "free"
  /\ sweep' = {}
  /\ op' = [Free EXCEPT !.step = "rename", !.owner = "sweep",
               !.ledger = [ledger EXCEPT !.settled = @ \cup sweep,
                                         !.credit["expired"] = @ + Cardinality(sweep)]]
  /\ UNCHANGED <<disk, phase, memory, reading, users, env>>

(* The settlement counts what did not settle since the snapshot. *)
ExpireBegin ==
  /\ phase = "up" /\ sweep # {} /\ op.step = "free"
  /\ sweep' = {}
  /\ IF sweep \subseteq ledger.settled THEN UNCHANGED op ELSE Begin("sweep", sweep, "expired", {})
  /\ UNCHANGED <<disk, phase, memory, reading, users, env>>

Expiring == ExpireSweep \/ ExpireBegin

-----------------------------------------------------------------------------
(* recover. *)

(* settled: the ledger is read back, or written anew from the first record the
   stream holds. *)
RecoverLedger ==
  /\ phase = "down"
  /\ IF dir.whole
     THEN phase' = "opened" /\ ledger' = dir.ledger /\ UNCHANGED op
     ELSE /\ phase' = "opening" /\ UNCHANGED ledger
          /\ op' = [Free EXCEPT !.step = "rename", !.owner = "ledger",
                                !.ledger = Fresh(IF dir.segments = {} THEN 1 ELSE Min(dir.segments))]
  /\ UNCHANGED <<disk, segments, active, next, broken, used, cursor, reading, sweep, users, env>>

(* Slip: the segment without a header is passed over and stays. *)
RecoverRemoveNothing ==
  /\ phase = "opened" /\ op.step = "free"
  /\ dir.segments # {} /\ Max(dir.segments) \notin headed
  /\ UNCHANGED vars

(* recoverLast of a segment without a header: its creation was interrupted, so
   it is removed, and the one before is the last. *)
RecoverRemove ==
  /\ phase = "opened" /\ op.step = "free"
  /\ dir.segments # {} /\ Max(dir.segments) \notin headed
  /\ dir' = [dir EXCEPT !.segments = @ \ {Max(dir.segments)}]
  /\ dirs' = {}
  /\ UNCHANGED <<content, headed, volatile, spoiled, effaced, phase, memory, op, reading, sweep, users, env>>

(* Slip: the ledger has no say in the next sequence. *)
NumberedByFiles(held, prev, found) ==
  Max({1} \cup (IF held = {} THEN {} ELSE {prev + 1}) \cup {q + 1 : q \in found})

(* The next sequence: after what settled, what the segments hold and what they
   lost. *)
Numbered(held, prev, found) ==
  Max({Highest(ledger)} \cup (IF held = {} THEN {} ELSE {prev + 1}) \cup {q + 1 : q \in found})

(* Slip: the last segment is taken for the first. *)
MissingBeforeLast(held, nxt) == Span(1, IF held = {} THEN nxt ELSE Max(held))

(* Sequences no segment was found for: those before the first. *)
MissingBefore(held, nxt) == Span(1, IF held = {} THEN nxt ELSE Min(held))

(* What is lost with a tail that was damaged: the record after the last frame
   that verifies, and those up to the highest header found in the tail. *)
CutOff(prev, tail) ==
  IF tail = {} THEN {} ELSE Span(prev + 1, Max({prev + 1} \cup (tail \cap spoiled)) + 1)

(* recoverLast of the last segment cuts off what follows its last frame that
   verifies, and recover then settles as lost every sequence it should hold
   and has no frame for. A tail that is torn is an interrupted write, of which
   nothing is lost: an unsynced tail may read back as one, by the sectors of
   it that are zero, and a damaged record does not. *)
RecoverTail(torn) ==
  /\ phase = "opened" /\ op.step = "free"
  /\ dir.segments # {} => Max(dir.segments) \in headed
  /\ LET held == dir.segments
         last == Max(held)
         whole == IF held = {} THEN {} ELSE Frames(last, Seqs)
         prev == IF held = {} THEN Highest(ledger) - 1 ELSE Max({last - 1} \cup whole)
         tail == IF held = {} THEN {} ELSE {q \in content[last] : q > prev}
         gaps == IF held = {} THEN {} ELSE Span(last, prev + 1) \ whole
         cut == IF torn THEN {} ELSE CutOff(prev, tail)
         nxt == Numbered(held, prev, gaps \cup cut)
         losses == gaps \cup cut \cup MissingBefore(held, nxt) \cup Span(prev + 1, nxt)
     IN  /\ torn => tail \cap hurt = {}
         /\ content' = [s \in Seqs |-> content[s] \ tail]
         /\ volatile' = volatile \ tail
         /\ spoiled' = spoiled \ tail /\ effaced' = effaced \ tail
         /\ segments' = [s \in held |-> Cardinality(content[s] \ tail)]
         /\ next' = nxt
         /\ active' = (held # {} /\ prev + 1 = nxt)
         /\ judged' = judged \cup (losses \ ledger.settled)
         /\ IF losses \subseteq ledger.settled
            THEN op' = [Free EXCEPT !.step = "compact", !.owner = "recover",
                                    !.todo = Removable(held, nxt, ledger.settled)]
            ELSE Begin("losses", losses, "lost", {})
  /\ UNCHANGED <<dir, dirs, headed, phase, ledger, broken, used, cursor, reading, sweep,
                 aged, receipted, hurt, taken, env>>

RecoverLast == \E torn \in BOOLEAN : RecoverTail(torn)

Recovering == RecoverLedger \/ RecoverRemove \/ RecoverLast

-----------------------------------------------------------------------------
(* The environment. *)

Forget ==
  /\ phase' = "down"
  /\ segments' = [s \in {} |-> 0] /\ active' = FALSE /\ next' = 1 /\ ledger' = Fresh(1)
  /\ broken' = FALSE /\ used' = 0 /\ cursor' = NoCursor
  /\ op' = Free /\ reading' = Still /\ sweep' = {} /\ taken' = {}
  /\ UNCHANGED <<aged, receipted, hurt, judged>>

(* The process is killed. *)
Kill ==
  /\ phase # "down"
  /\ env.crashes < MaxCrashes
  /\ env' = [env EXCEPT !.crashes = @ + 1]
  /\ Forget
  /\ UNCHANGED disk

(* close takes io: the queue stops with no operation under way. *)
Close ==
  /\ phase = "up" /\ op.step = "free"
  /\ env.crashes < MaxCrashes
  /\ env' = [env EXCEPT !.crashes = @ + 1]
  /\ Forget
  /\ UNCHANGED disk

(* The machine stops. *)
Crash ==
  /\ env.crashes < MaxCrashes
  /\ env' = [env EXCEPT !.crashes = @ + 1]
  /\ Forget
  /\ \E found \in dirs \cup {dir}, absent \in SUBSET volatile :
       /\ \E garbled \in SUBSET (volatile \ absent) : effaced' = effaced \cup garbled
       /\ dir' = found
       /\ content' = [s \in Seqs |-> IF s \in found.segments THEN content[s] \ absent ELSE {}]
       /\ headed' = headed \cap found.segments
  /\ dirs' = {} /\ volatile' = {}
  /\ UNCHANGED spoiled

OnDisk == UNION {content[s] : s \in dir.segments}

(* A frame no longer verifies, with its header or without. *)
DamageFrame ==
  /\ env.damage < MaxDamage
  /\ env' = [env EXCEPT !.damage = @ + 1]
  /\ \E q \in OnDisk \ (volatile \cup spoiled \cup effaced) :
       /\ hurt' = hurt \cup {q}
       /\ \/ spoiled' = spoiled \cup {q} /\ UNCHANGED effaced
          \/ effaced' = effaced \cup {q} /\ UNCHANGED spoiled
  /\ UNCHANGED <<dir, dirs, content, headed, volatile, phase, memory, op, reading, sweep,
                 aged, receipted, taken, judged>>

Vanish == env.vanished < MaxVanished /\ env' = [env EXCEPT !.vanished = @ + 1]

(* The file of a segment disappears: of any while the queue is shut, of one no
   longer written to while it is open. *)
DamageSegment ==
  /\ Vanish
  /\ \E s \in dir.segments :
       /\ phase = "down" \/ (s \in DOMAIN segments /\ s < Last(segments))
       /\ dir' = [dir EXCEPT !.segments = @ \ {s}]
       /\ dirs' = {[d EXCEPT !.segments = @ \ {s}] : d \in dirs}
       /\ hurt' = hurt \cup content[s]
  /\ UNCHANGED <<content, headed, volatile, spoiled, effaced, phase, memory, op, reading, sweep,
                 aged, receipted, taken, judged>>

(* The ledger can no longer be read back when the queue is opened. What settled
   and is no longer in a file is then beyond what the stream can know of. *)
DamageLedger ==
  /\ phase = "down" /\ dir.whole
  /\ Vanish
  /\ dir' = [dir EXCEPT !.ledger = Fresh(1), !.whole = FALSE]
  /\ dirs' = {[d EXCEPT !.ledger = Fresh(1), !.whole = FALSE] : d \in dirs}
  /\ receipted' = receipted \cap OnDisk
  /\ UNCHANGED <<content, headed, volatile, spoiled, effaced, phase, memory, op, reading, sweep,
                 aged, hurt, taken, judged>>

(* A record outlives its age. *)
Age ==
  /\ Cardinality(aged) < MaxAged
  /\ \E q \in OnDisk \ aged : aged' = aged \cup {q}
  /\ UNCHANGED <<disk, phase, memory, op, reading, sweep, receipted, hurt, taken, judged, env>>

Environment == Kill \/ Close \/ Crash \/ DamageFrame \/ DamageSegment \/ DamageLedger \/ Age

Next == Settling \/ Admitting \/ Delivering \/ Expiring \/ Recovering \/ Environment

(* The queue goes on with what it began: an operation that holds io, and the
   recovery of a queue the agent opens. *)
Fairness == WF_vars(Settling) /\ WF_vars(Recovering)

Spec == Init /\ [][Next]_vars /\ Fairness

-----------------------------------------------------------------------------
(* Properties. *)

Steps == {"free", "create", "header", "link", "write", "sync", "rename", "commit", "compact", "forget"}
Directory == [ledger : Account, whole : BOOLEAN, segments : SUBSET Seqs]
Cursor == [first : 0..MaxSeq, prev : 0..MaxSeq]
Operation ==
  [step : Steps, owner : Recovery \cup {"none", "admit", "route", "sweep"}, n : 0..MaxBatch,
   ledger : Account, out : SUBSET Seqs, todo : SUBSET Seqs, gone : BOOLEAN]
Reading ==
  [on : BOOLEAN, from : 0..(MaxSeq + 1), segments : SUBSET Seqs, todo : SUBSET Seqs,
   next : 0..(MaxSeq + 1), settled : SUBSET Seqs, at : Cursor, out : SUBSET Seqs,
   losses : SUBSET Seqs, reached : Cursor, full : BOOLEAN]

DiskOK ==
  /\ dir \in Directory /\ dirs \subseteq Directory
  /\ content \in [Seqs -> SUBSET Seqs]
  /\ headed \subseteq Seqs /\ volatile \subseteq Seqs
  /\ spoiled \subseteq Seqs /\ effaced \subseteq Seqs

MemoryOK ==
  /\ phase \in {"down", "opening", "opened", "up"}
  /\ DOMAIN segments \subseteq Seqs /\ segments \in [DOMAIN segments -> Nat]
  /\ active \in BOOLEAN /\ broken \in BOOLEAN
  /\ next \in 1..(MaxSeq + 1)
  /\ ledger \in Account
  /\ used \in Int
  /\ cursor \in Cursor

UsersOK ==
  /\ sweep \subseteq Seqs
  /\ aged \subseteq Seqs /\ receipted \subseteq Seqs /\ hurt \subseteq Seqs
  /\ taken \subseteq Seqs /\ judged \subseteq Seqs
  /\ env \in [crashes : 0..MaxCrashes, faults : 0..MaxFaults, damage : 0..MaxDamage,
              vanished : 0..MaxVanished]

(* The files, the fields of queue and the operations under way keep their
   types: queue.next and the cursor stay within the stream, and so does every
   segment of a directory a crash may bring back. *)
TypeOK == DiskOK /\ MemoryOK /\ op \in Operation /\ reading \in Reading /\ UsersOK

(* What a directory keeps of the stream, whatever happens to the machine now. *)
Keeps(d) == d.ledger.settled \cup UNION {content[s] \ volatile : s \in d.segments}

(* A record Admit returned a receipt for is durable from then on: in every
   directory a crash may bring back it is in a file, synced, or the ledger says
   it settled. Rotation, an admission that fails half-way, compaction and
   recovery never break that; only the environment takes a record away. *)
ReceiptIsDurable == \A d \in dirs \cup {dir} : receipted \ hurt \subseteq Keeps(d)

(* No sequence is given twice: an open queue numbers its next record after
   every one it gave a receipt for, across crashes, torn writes and segments
   that were removed. *)
NumbersOnwards == phase = "up" => \A q \in receipted \ hurt : q < next

(* A record is counted as lost only when it was damaged or never had a receipt:
   a read that finds a file missing because a compaction just removed it, or
   that walks from a stale cursor, loses nothing. *)
OnlyDamageIsLost == judged \cap receipted \subseteq hurt

(* Every record settled is counted once, under one reason, in the ledger in
   memory, in the one being written and in any a crash may bring back: an
   acknowledgement that meets an expiry, and a settlement that is written
   again after an error, count no record twice (queue.go: settle, expire and
   settleLost credit what is newly settled under io). *)
CountedOnce ==
  /\ Balanced(ledger) /\ Balanced(op.ledger)
  /\ \A d \in dirs \cup {dir} : Balanced(d.ledger)

(* Between operations, what the budget counts for the stream is what its files
   take: no error path of admit, rotate or compact gives back more or less than
   it reserved. *)
BudgetIsExact ==
  phase = "up" /\ op.step = "free" /\ ~broken =>
    /\ used = Size(segments)
    /\ \A s \in DOMAIN segments \cap dir.segments : segments[s] = Cardinality(content[s])

(* A read passes over nothing: every record outstanding from where it began to
   where it has come, that is on disk as admitted, is in what it returns or has
   settled since. *)
ReadsEverything ==
  reading.on =>
    \A q \in receipted \ hurt :
      /\ reading.from <= q /\ q < reading.next /\ q \notin reading.settled
      /\ \A s \in reading.todo : q < s
      /\ reading.full => \E p \in reading.out : q < p
      => q \in reading.out \cup ledger.settled

(* Whatever damage takes, the queue numbers its records onwards from those it
   gave a receipt for, and reads every one it still can. *)
ReadsOnwards == NumbersOnwards /\ ReadsEverything

(* A queue that is opened gets to admit, once crashes and errors end: whenever
   it is not up it will be, whatever recover found to repair. *)
Opens == []<>(phase = "up")

(* spool.go: a record "leaves the spool only once it settled: delivered, lost,
   expired or quarantined, each counted apart". Every record given a receipt is
   on disk or counted, whenever the queue is open and at rest. *)
LeavesOnlySettled ==
  phase = "up" /\ op.step = "free" => receipted \subseteq ledger.settled \cup OnDisk
=============================================================================
