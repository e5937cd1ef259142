-------------------------------- MODULE Pool --------------------------------
(***************************************************************************)
(* The slots of the governor (pool and queue of internal/governor/queue.go),*)
(* which bound the scans and the uploads that run at once, and the work   *)
(* that waits for them (Scan and Upload of work.go). Every action is one   *)
(* critical section of pool.mu, with the dispatch that ends it.            *)
(***************************************************************************)
EXTENDS Integers, FiniteSets, Sequences, Functions

CONSTANTS
  Critical, Bulk,    \* the workers of each class
  Modules,           \* the modules that scan
  MaxCapacity        \* bound: the largest capacity a budget gives

Workers == Critical \cup Bulk
favoured == 4

VARIABLES
  pool,              \* what pool.mu guards
  phase              \* where each worker is in acquire

vars == <<pool, phase>>

(* waiting: queue.waiting, in order of arrival; held: the workers granted a
   slot, whether they have noticed it or not; module: what each worker named
   last; work: what the slots are for. *)
Pools ==
  [work : {"scans", "uploads"}, waiting : Seq(Workers), held : SUBSET Workers, streak : 0..favoured,
   capacity : 1..MaxCapacity, reserved : 0..1,
   module : [Workers -> Modules \cup {"critical", "bulk"}]]

(* The fields of pool and queue keep their types: what holds a slot and what
   waits are workers, and the streak never grows past favoured. *)
TypeOK ==
  /\ pool \in Pools
  /\ phase \in [Workers -> {"idle", "waiting", "running"}]

(* Governor.apply: bulk uploads take one slot fewer when there are two. *)
reservedOf(work, capacity) == IF work = "uploads" /\ capacity > 1 THEN 1 ELSE 0

ClassOf(w) == IF w \in Critical THEN "critical" ELSE "bulk"

(* The two pools of a governor, of which the model follows either. *)
Init ==
  /\ \E work \in {"scans", "uploads"}, c \in 1..MaxCapacity :
       pool = [work |-> work, waiting |-> <<>>, held |-> {}, streak |-> 0, capacity |-> c,
               reserved |-> reservedOf(work, c), module |-> [w \in Workers |-> ClassOf(w)]]
  /\ phase = [w \in Workers |-> "idle"]

-----------------------------------------------------------------------------

(* rank: how many slots the module of w holds. *)
rank(p, w) == Cardinality({v \in p.held : p.module[v] = p.module[w]})

(* first: the waiters of a class the queue would serve, none or one: lowest
   rank first, then in order of arrival. *)
first(p, class) ==
  LET at == {i \in DOMAIN p.waiting : p.waiting[i] \in class} IN
  {p.waiting[i] : i \in {i \in at : \A j \in at :
     \/ rank(p, p.waiting[i]) < rank(p, p.waiting[j])
     \/ rank(p, p.waiting[i]) = rank(p, p.waiting[j]) /\ i <= j}}

bulkMay(p) == Cardinality(p.held \cap Bulk) < p.capacity - p.reserved

passed(p) == IF bulkMay(p) THEN first(p, Bulk) ELSE {}

(* next: critical work, unless it has passed over bulk work that could have
   been served favoured times in a row. *)
next(p) ==
  LET critical == first(p, Critical)
      bulk == passed(p)
  IN IF critical # {} /\ (bulk = {} \/ p.streak < favoured) THEN critical ELSE bulk

(* remove. A waiter is in the queue once at most: acquire adds it, once. *)
remove(waiting, w) ==
  LET at == CHOOSE i \in DOMAIN waiting : waiting[i] = w
  IN [i \in 1..(Len(waiting) - 1) |-> IF i < at THEN waiting[i] ELSE waiting[i + 1]]

(* served, and the grant. *)
served(p, w) ==
  [p EXCEPT !.waiting = remove(@, w),
            !.held = @ \cup {w},
            !.streak = IF w \in Bulk THEN 0 ELSE IF passed(p) # {} THEN @ + 1 ELSE @]

(* A round of dispatch: a grant, if there is a waiter to serve. *)
grant(p) ==
  LET w == next(p) IN IF w = {} THEN p ELSE served(p, CHOOSE v \in w : TRUE)

(* dispatch: a round for every slot that is free. *)
dispatch(p) ==
  LET free == p.capacity - Cardinality(p.held)
      after[n \in 0..free] == IF n = 0 THEN p ELSE grant(after[n - 1])
  IN IF free > 0 THEN after[free] ELSE p

-----------------------------------------------------------------------------

(* What a worker names: a scan, which is bulk work, its module; an upload its
   class, so that every upload of a class has the same rank. *)
Named(w) ==
  IF pool.work = "uploads" THEN {ClassOf(w)} ELSE IF w \in Bulk THEN Modules ELSE {}

(* acquire queues a worker and dispatches. *)
Acquire(w) ==
  /\ phase[w] = "idle"
  /\ phase' = [phase EXCEPT ![w] = "waiting"]
  /\ \E m \in Named(w) :
       pool' = dispatch([pool EXCEPT !.waiting = Append(@, w), !.module[w] = m])

(* The worker learns that it was granted a slot. *)
Enter(w) ==
  /\ phase[w] = "waiting" /\ w \in pool.held
  /\ phase' = [phase EXCEPT ![w] = "running"]
  /\ UNCHANGED pool

(* put. *)
put(p, w) == dispatch([p EXCEPT !.held = @ \ {w}])

(* Slip: what was granted as the wait ended stays granted. *)
CancelUngranted(w) ==
  /\ phase[w] = "waiting"
  /\ pool' = IF w \in pool.held THEN pool ELSE [pool EXCEPT !.waiting = remove(@, w)]
  /\ phase' = [phase EXCEPT ![w] = "idle"]

(* The context of a worker that waits ends. What was granted meanwhile is given
   back, and what was not leaves the queue. *)
Cancel(w) ==
  /\ phase[w] = "waiting"
  /\ pool' = IF w \in pool.held THEN put(pool, w)
             ELSE [pool EXCEPT !.waiting = remove(@, w)]
  /\ phase' = [phase EXCEPT ![w] = "idle"]

(* The work ends and its slot is given back. *)
Release(w) ==
  /\ phase[w] = "running"
  /\ pool' = put(pool, w)
  /\ phase' = [phase EXCEPT ![w] = "idle"]

(* limit: the budget is replaced, and work that runs keeps its slot. *)
limit(capacity) ==
  /\ capacity # pool.capacity
  /\ pool' = dispatch([pool EXCEPT !.capacity = capacity, !.reserved = reservedOf(pool.work, capacity)])
  /\ UNCHANGED phase

Next ==
  \/ \E w \in Workers : Acquire(w) \/ Enter(w) \/ Cancel(w) \/ Release(w)
  \/ \E c \in 1..MaxCapacity : limit(c)

(* A worker that was granted its slot runs, and its work ends. Nothing makes a
   worker ask, and the budget may be replaced at any time. *)
Fairness == \A w \in Workers : WF_vars(Enter(w)) /\ WF_vars(Release(w))

Spec == Init /\ [][Next]_vars /\ Fairness

-----------------------------------------------------------------------------

(* A slot is held by whoever was granted one and has not given it back, and by
   nobody else: a grant that races the end of a wait leaves no slot behind, and
   no worker waits that is not in the queue. *)
NoSlotLeaks ==
  /\ \A w \in Workers : phase[w] = "running" => w \in pool.held
  /\ \A w \in Workers :
       phase[w] = "waiting" <=> (w \in Range(pool.waiting) \/ (w \in pool.held /\ phase[w] # "running"))
  /\ \A w \in Workers : phase[w] = "idle" => w \notin pool.held
  /\ Range(pool.waiting) \cap pool.held = {}

(* No slot stays free while work that may have it waits. *)
NoSlotIdles ==
  Cardinality(pool.held) < pool.capacity => next(pool) = {}

(* No grant goes past the budget: neither past the slots there are, nor, for
   bulk work, past those left to it. A budget that is lowered takes nothing
   back. *)
GrantsWithinBudget ==
  [][LET granted == pool'.held \ pool.held IN
     /\ granted # {} => Cardinality(pool'.held) <= pool'.capacity
     /\ granted \cap Bulk # {} =>
          Cardinality(pool'.held \cap Bulk) <= pool'.capacity - pool'.reserved]_vars

(* "critical work never waits on bulk work to send": with slots reserved and
   bulk work within its own, critical work waits only while other critical
   work holds every slot reserved for it. *)
CriticalWaitsOnCritical ==
  pool.reserved > 0 /\ Cardinality(pool.held \cap Bulk) <= pool.capacity - pool.reserved
    /\ Range(pool.waiting) \cap Critical # {}
  => Cardinality(pool.held \cap Critical) >= pool.reserved

(* "delays bulk work and never starves it": whoever waits is granted a slot or
   stops waiting, however much critical work keeps coming, and whatever module
   it belongs to. *)
EveryWaitEnds == \A w \in Workers : []<>(phase[w] # "waiting")
=============================================================================
