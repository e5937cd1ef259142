------------------------------ MODULE Delivery ------------------------------
(***************************************************************************)
(* One route of the delivery (route of internal/delivery/delivery.go): it  *)
(* reads its stream from the spool, sends a batch, and settles every       *)
(* record by what the platform answered. The other routes run the same     *)
(* code and share the link (Link.tla) and the upload slots (Pool.tla);     *)
(* here taking the turn and the slot is part of sending.                   *)
(*                                                                         *)
(* The records of a batch are held in the order of their sequences, so a   *)
(* batch is the set of its sequences. The spool is what SpoolQueue.tla     *)
(* shows it to be: it keeps what it admitted, hands out what has not       *)
(* settled in order, and settles a record once. The platform is external:  *)
(* it is modelled from the answers Judge of internal/protocol/answer.go    *)
(* tells apart. Byte limits and limits a policy changes are a free choice  *)
(* of how much is read and framed.                                         *)
(***************************************************************************)
EXTENDS Naturals, FiniteSets, FiniteSetsExt

CONSTANTS
  MaxSeq,            \* bound: records admitted to the stream
  MaxBatch,          \* the most records a batch carries
  Widest,            \* widest, the most the window grows to
  PlatformMost,      \* the most records the platform takes in a batch
  QuarantineFails,   \* whether Quarantine may fail as a batch is composed
  MaxFaults,         \* bound: calls and requests that fail
  MaxRestarts,       \* bound: times the agent stops and starts again
  MaxExpired         \* bound: records that expire

Seqs == 1..MaxSeq

ASSUME DeliveryAssumption ==
  /\ MaxSeq \in Nat /\ MaxBatch \in Nat \ {0} /\ Widest \in Nat \ {0}
  /\ PlatformMost \in Nat \ {0}
  /\ QuarantineFails \in BOOLEAN
  /\ MaxFaults \in Nat /\ MaxRestarts \in Nat /\ MaxExpired \in Nat

VARIABLES
  nature,            \* what each record is, to Identify and to the platform
  admitted,          \* the spool: sequences 1..admitted are admitted
  fate,              \* the spool: how each record settled, or "unsettled"
  phase,             \* where the route is in run
  announced,         \* the channel Admitted gave the route is closed
  next,              \* route.next
  window,            \* route.window
  read,              \* compose: what it read and has not looked at yet
  entries,           \* compose: what it looked at and will frame
  pending,           \* route.pending, {} when there is none
  refused,           \* refuse: the record to quarantine, 0 when there is none
  request,           \* the number of the request the route waits on
  answer,            \* the answer that request was given, NoAnswer before
  wire,              \* requests on their way to the platform
  kept,              \* the platform: the records it durably holds
  faults, restarts

spool == <<nature, admitted, fate>>
platform == <<wire, kept>>
composing == <<read, entries>>
bounds == <<faults, restarts>>
vars == <<nature, admitted, fate, phase, announced, next, window, read, entries, pending,
          refused, request, answer, wire, kept, faults, restarts>>

Fates == {"unsettled", "delivered", "quarantined", "expired"}
(* A record is good, or Identify cannot read it, or the platform cannot decode
   a batch that carries it, or the platform refuses it. *)
Natures == {"good", "unreadable", "undecodable", "refused"}
Unreadable == {s \in Seqs : nature[s] = "unreadable"}
Undecodable == {s \in Seqs : nature[s] = "undecodable"}
Refused == {s \in Seqs : nature[s] = "refused"}

Phases == {"top", "listening", "composing", "idle", "ready", "sent", "settling"}
Outcomes == {"durable", "record_refused", "batch_too_large", "unconfirmed"}
NoAnswer == [outcome |-> "none", record |-> 0]
Answers == [outcome : Outcomes, record : 0..MaxSeq] \cup {NoAnswer}
Requests == [id : Nat, records : SUBSET Seqs]

(* The variables of the route, the spool and the platform keep their types:
   route.next is a sequence or the one after the last, and every batch and
   request carries sequences of the stream. *)
TypeOK ==
  /\ nature \in [Seqs -> Natures]
  /\ admitted \in 0..MaxSeq
  /\ fate \in [Seqs -> Fates]
  /\ phase \in Phases
  /\ announced \in BOOLEAN
  /\ next \in 1..(MaxSeq + 1)
  /\ window \in Nat
  /\ read \subseteq Seqs /\ entries \subseteq Seqs /\ pending \subseteq Seqs
  /\ refused \in 0..MaxSeq
  /\ request \in Nat
  /\ answer \in Answers
  /\ wire \subseteq Requests
  /\ kept \subseteq Seqs
  /\ faults \in 0..MaxFaults
  /\ restarts \in 0..MaxRestarts

Init ==
  /\ nature \in [Seqs -> Natures]
  /\ admitted = 0
  /\ fate = [s \in Seqs |-> "unsettled"]
  /\ phase = "top" /\ announced = FALSE
  /\ next = 1 /\ window = 0
  /\ read = {} /\ entries = {} /\ pending = {} /\ refused = 0
  /\ request = 0 /\ answer = NoAnswer
  /\ wire = {} /\ kept = {}
  /\ faults = 0 /\ restarts = 0

Fault == faults < MaxFaults /\ faults' = faults + 1

-----------------------------------------------------------------------------
(* The spool, as the route meets it. *)

Held == {s \in 1..admitted : fate[s] = "unsettled"}

Settled(seqs, kind) ==
  [s \in Seqs |-> IF s \in seqs /\ fate[s] = "unsettled" THEN kind ELSE fate[s]]

(* Admit: the record is durable, and the channel that waits for one closes. *)
Admit ==
  /\ admitted < MaxSeq
  /\ admitted' = admitted + 1
  /\ announced' = TRUE
  /\ UNCHANGED <<nature, fate, phase, next, window, composing, pending, refused, request, answer, platform, bounds>>

(* A record reaches its age limit, whoever holds a copy of it. *)
Age(s) ==
  /\ s \in Held
  /\ fate' = Settled({s}, "expired")
  /\ UNCHANGED <<nature, admitted, phase, announced, next, window, composing, pending, refused, request, answer, platform, bounds>>

Expire(s) == Cardinality({t \in Seqs : fate[t] = "expired"}) < MaxExpired /\ Age(s)

-----------------------------------------------------------------------------
(* run and compose. *)

(* Admitted is asked for its channel before the spool is read. *)
Listen ==
  /\ phase = "top" /\ pending = {}
  /\ phase' = "listening"
  /\ announced' = FALSE
  /\ UNCHANGED <<spool, next, window, composing, pending, refused, request, answer, platform, bounds>>

Most == IF window > 0 THEN Min({MaxBatch, window}) ELSE MaxBatch

(* What Read may return: the first records from next on that have not settled,
   at most Most of them, and at least one if there is one. *)
Readable ==
  {r \in SUBSET {s \in Held : s >= next} :
     /\ Cardinality(r) <= Most
     /\ \A s \in r, t \in Held : t >= next /\ t < s => t \in r}

(* compose reads and finds something. *)
Read ==
  /\ phase = "listening"
  /\ \E r \in Readable \ {{}} :
       /\ read' = r
       /\ next' = Max(r) + 1
  /\ phase' = "composing"
  /\ UNCHANGED <<spool, announced, window, entries, pending, refused, request, answer, platform, bounds>>

(* compose reads and finds nothing: the route waits for a record. *)
ReadNothing ==
  /\ phase = "listening"
  /\ {s \in Held : s >= next} = {}
  /\ phase' = "idle"
  /\ UNCHANGED <<spool, announced, next, window, composing, pending, refused, request, answer, platform, bounds>>

(* Read fails: the route sleeps and starts over. *)
ReadFails ==
  /\ phase = "listening"
  /\ Fault
  /\ phase' = "top"
  /\ UNCHANGED <<spool, announced, next, window, composing, pending, refused, request, answer, platform, restarts>>

(* The channel the route waits on closes. *)
Woken ==
  /\ phase = "idle" /\ announced
  /\ phase' = "top"
  /\ UNCHANGED <<spool, announced, next, window, composing, pending, refused, request, answer, platform, bounds>>

(* compose looks at the next record it read and adds it to the batch. *)
Pick ==
  /\ phase = "composing" /\ read # {}
  /\ Min(read) \notin Unreadable
  /\ entries' = entries \cup {Min(read)}
  /\ read' = read \ {Min(read)}
  /\ UNCHANGED <<spool, phase, announced, next, window, pending, refused, request, answer, platform, bounds>>

(* The record cannot be read as one of the route: it is quarantined. *)
PickQuarantined ==
  /\ phase = "composing" /\ read # {}
  /\ Min(read) \in Unreadable
  /\ fate' = Settled({Min(read)}, "quarantined")
  /\ read' = read \ {Min(read)}
  /\ UNCHANGED <<nature, admitted, phase, announced, next, window, entries, pending, refused, request, answer, platform, bounds>>

(* Quarantine fails: compose returns the error, with next back at the record. *)
QuarantineLost ==
  /\ phase = "composing" /\ read # {}
  /\ Min(read) \in Unreadable
  /\ Fault
  /\ next' = Min(read)
  /\ read' = {} /\ entries' = {}
  /\ phase' = "top"
  /\ UNCHANGED <<spool, announced, window, pending, refused, request, answer, platform, restarts>>

PickFails == QuarantineFails /\ QuarantineLost

(* The record does not fit in the batch: next goes back to it. *)
Cut ==
  /\ phase = "composing" /\ read # {} /\ entries # {}
  /\ Min(read) \notin Unreadable
  /\ next' = Min(read)
  /\ read' = {}
  /\ UNCHANGED <<spool, phase, announced, window, entries, pending, refused, request, answer, platform, bounds>>

(* Slip: with nothing to frame the route waits for a record to be admitted. *)
FrameWaits ==
  /\ phase = "composing" /\ read = {}
  /\ pending' = entries
  /\ entries' = {}
  /\ phase' = IF entries = {} THEN "idle" ELSE "ready"
  /\ UNCHANGED <<spool, announced, next, window, read, refused, request, answer, platform, bounds>>

(* frame: everything read is looked at, and the batch is pending. With nothing
   to frame compose reads on. *)
Frame ==
  /\ phase = "composing" /\ read = {}
  /\ pending' = entries
  /\ entries' = {}
  /\ phase' = IF entries = {} THEN "listening" ELSE "ready"
  /\ UNCHANGED <<spool, announced, next, window, read, refused, request, answer, platform, bounds>>
-----------------------------------------------------------------------------
(* deliver: the batch is sent. *)

(* The turn and the slot are had and the turn stands: Post. *)
Send ==
  /\ phase = "ready"
  /\ phase' = "sent"
  /\ request' = request + 1
  /\ wire' = wire \cup {[id |-> request + 1, records |-> pending]}
  /\ UNCHANGED <<spool, announced, next, window, composing, pending, refused, answer, kept, bounds>>

(* The platform answers request q, if the route still waits for it. *)
Answer(q, outcome, record) ==
  answer' = IF phase = "sent" /\ q.id = request
            THEN [outcome |-> outcome, record |-> record] ELSE answer

(* The platform decides on a batch: it takes it whole, or refuses it for its
   size, for what it cannot decode, or for the first record it does not take. *)
Receive(q) ==
  LET bad == q.records \cap Refused IN
  /\ q \in wire
  /\ wire' = wire \ {q}
  /\ IF Cardinality(q.records) > PlatformMost \/ q.records \cap Undecodable # {}
     THEN Answer(q, "batch_too_large", 0) /\ UNCHANGED kept
     ELSE IF bad # {}
          THEN Answer(q, "record_refused", Min(bad)) /\ UNCHANGED kept
          ELSE Answer(q, "durable", 0) /\ kept' = kept \cup q.records
  /\ UNCHANGED <<spool, phase, announced, next, window, composing, pending, refused, request, bounds>>

(* The platform answers with anything else: it is busy, does not admit the
   agent, disputes a time, or took the first of the records and says so. *)
Falter(q) ==
  /\ q \in wire
  /\ Fault
  /\ wire' = wire \ {q}
  /\ Answer(q, "unconfirmed", 0)
  /\ \E n \in 1..(MaxSeq + 1) :
       LET some == {s \in q.records : s < n} IN
       /\ some \cap (Refused \cup Undecodable) = {}
       /\ kept' = kept \cup some
  /\ UNCHANGED <<spool, phase, announced, next, window, composing, pending, refused, request, restarts>>

(* The request does not reach the platform, or the answer does not come in
   time. A request that went out may still reach it. *)
Unanswered ==
  /\ phase = "sent" /\ answer = NoAnswer
  /\ Fault
  /\ answer' = [outcome |-> "unconfirmed", record |-> 0]
  /\ \E gone \in SUBSET {q \in wire : q.id = request} : wire' = wire \ gone
  /\ UNCHANGED <<spool, phase, announced, next, window, composing, pending, refused, request, kept, restarts>>

-----------------------------------------------------------------------------
(* deliver: what the answer lets the route do. *)

Said(outcome) == phase = "sent" /\ answer.outcome = outcome

(* Slip: an answer that counts fewer records than the batch carried passes. *)
DurableAnyway ==
  /\ Said("durable") \/ Said("unconfirmed")
  /\ refused' = 0
  /\ answer' = NoAnswer
  /\ phase' = "settling"
  /\ UNCHANGED <<spool, announced, next, window, composing, pending, request, platform, bounds>>

(* Durable: the whole batch is to be acknowledged. *)
Durable ==
  /\ Said("durable")
  /\ refused' = 0
  /\ answer' = NoAnswer
  /\ phase' = "settling"
  /\ UNCHANGED <<spool, announced, next, window, composing, pending, request, platform, bounds>>

(* RecordRefused, or a batch of one record refused whole: the record is to be
   quarantined. *)
Refuse ==
  /\ \/ Said("record_refused") /\ refused' = answer.record
     \/ Said("batch_too_large") /\ Cardinality(pending) = 1 /\ refused' = Min(pending)
  /\ answer' = NoAnswer
  /\ phase' = "settling"
  /\ UNCHANGED <<spool, announced, next, window, composing, pending, request, platform, bounds>>

(* The first n records of a batch. *)
First(n, batch) == {s \in batch : Cardinality({t \in batch : t <= s}) <= n}

Half == Cardinality(pending) \div 2

(* Slip: the second half is sent first. *)
SplitSecond ==
  /\ Said("batch_too_large") /\ Cardinality(pending) > 1
  /\ window' = Max({Half, 1})
  /\ pending' = pending \ First(Half, pending)
  /\ next' = Min(pending)
  /\ answer' = NoAnswer
  /\ phase' = "ready"
  /\ UNCHANGED <<spool, announced, composing, refused, request, platform, bounds>>

(* split: the first half is pending and the rest is to be read again. *)
Split ==
  /\ Said("batch_too_large") /\ Cardinality(pending) > 1
  /\ window' = Max({Half, 1})
  /\ pending' = First(Half, pending)
  /\ next' = Min({next, Min(pending \ First(Half, pending))})
  /\ answer' = NoAnswer
  /\ phase' = "ready"
  /\ UNCHANGED <<spool, announced, composing, refused, request, platform, bounds>>

(* retry: the same batch is sent again. *)
Retry ==
  /\ Said("unconfirmed")
  /\ answer' = NoAnswer
  /\ phase' = "ready"
  /\ UNCHANGED <<spool, announced, next, window, composing, pending, refused, request, platform, bounds>>

(* settle with Acknowledge, then delivered. *)
Acknowledge ==
  /\ phase = "settling" /\ refused = 0
  /\ fate' = Settled(pending, "delivered")
  /\ pending' = {}
  /\ window' = IF window > 0 THEN Min({2 * window, Widest}) ELSE 0
  /\ phase' = "top"
  /\ UNCHANGED <<nature, admitted, announced, next, composing, refused, request, answer, platform, bounds>>

Before == {s \in pending : s < refused}
After == {s \in pending : s > refused}

(* settle with Quarantine, then the rest of refuse: the records before the
   refused one are pending as a batch of their own, and those after it are to
   be read again. *)
Quarantine ==
  /\ phase = "settling" /\ refused # 0
  /\ fate' = Settled({refused}, "quarantined")
  /\ window' = Max({Half, 1})
  /\ pending' = Before
  /\ next' = Min({next} \cup After)
  /\ refused' = 0
  /\ phase' = IF pending' = {} THEN "top" ELSE "ready"
  /\ UNCHANGED <<nature, admitted, announced, composing, request, answer, platform, bounds>>

(* settle fails and is tried again. *)
SettleFails ==
  /\ phase = "settling"
  /\ Fault
  /\ UNCHANGED <<spool, phase, announced, next, window, composing, pending, refused, request, answer, platform, restarts>>

(* The agent is killed, or its context ends, and it starts again: the route
   begins with what New gives it. What is on the wire is on its way. *)
Restart ==
  /\ restarts < MaxRestarts
  /\ restarts' = restarts + 1
  /\ phase' = "top" /\ announced' = FALSE
  /\ next' = 1 /\ window' = 0
  /\ read' = {} /\ entries' = {} /\ pending' = {} /\ refused' = 0
  /\ answer' = NoAnswer
  /\ UNCHANGED <<spool, request, platform, faults>>

-----------------------------------------------------------------------------

Composing == Listen \/ Read \/ ReadNothing \/ Woken \/ Pick \/ PickQuarantined \/ Cut \/ Frame
Delivering == Send \/ Durable \/ Refuse \/ Split \/ Retry \/ Acknowledge \/ Quarantine
Failing == ReadFails \/ PickFails \/ Unanswered \/ SettleFails

Next ==
  \/ Admit
  \/ \E s \in Seqs : Expire(s)
  \/ Composing \/ Delivering \/ Failing \/ Restart
  \/ \E q \in wire : Receive(q) \/ Falter(q)

(* The route's goroutine runs, and the platform decides on what reaches it:
   calls and requests fail, and the agent stops, a bounded number of times, so
   this says that outages end, as the retries of the code count on. *)
Fairness ==
  /\ WF_vars(Composing)
  /\ WF_vars(Delivering)
  /\ WF_vars(\E q \in wire : q.id = request /\ Receive(q))

Spec == Init /\ [][Next]_vars /\ Fairness

-----------------------------------------------------------------------------

(* A record counts as delivered only once the platform durably holds it: "only
   a durable acknowledgement that counts every record drops them". It takes an
   answer matched to the batch that was sent, whatever was split off, timed out
   or answered late in between. *)
DeliveredIsKept == \A s \in Seqs : fate[s] = "delivered" => s \in kept

(* The route quarantines a record only if nothing could deliver it: it cannot
   be read, or the platform refuses it, named in a refusal or found alone at
   the end of the splits. *)
OnlyBadQuarantined ==
  \A s \in Seqs : fate[s] = "quarantined" => s \in Unreadable \cup Undecodable \cup Refused

(* The route never passes over a record: below next, every record that has not
   settled is in the batch it composes or sends. A record left behind would
   stay undelivered until it expires or the agent restarts, as next only goes
   back for a batch that is split or refused. *)
NothingPassedOver ==
  \A s \in Held : s < next => s \in read \cup entries \cup pending

(* The platform gets the records of a stream oldest first: when it holds one,
   every older one has settled or is held too. *)
OldestFirst ==
  \A s \in kept : \A t \in Held : t < s => t \in kept

(* What settled through this route is not sent again: a batch that goes out
   carries no record that counts as delivered or quarantined. *)
SentOnlyUnsettled ==
  [][Send => \A s \in pending : fate[s] \in {"unsettled", "expired"}]_vars

(* Every record that is admitted settles, whatever fails in between: no
   wake-up is lost between reading nothing and waiting for a record, and no
   record is dropped by a split, a refusal, a retry or a restart. (What is
   admitted stays so, and what settled too.) *)
EveryRecordSettles ==
  \A s \in Seqs : []<>(s <= admitted => fate[s] # "unsettled")
=============================================================================
