---------------------------- MODULE SpoolProofs ----------------------------
(***************************************************************************)
(* Proofs about one stream of the spool, for every bound on its sequences, *)
(* segments, crashes, errors and damage: every ledger of the stream counts *)
(* each record once.                                                       *)
(***************************************************************************)
EXTENDS SpoolQueue, FiniteSetTheorems, TLAPS

(* Min of a set of natural numbers is one of them, and no other is below. *)
LEMMA MinOf ==
  ASSUME NEW S \in SUBSET Nat, S # {}
  PROVE  Min(S) \in S /\ \A y \in S : Min(S) <= y
<1> DEFINE below == {ss \in Nat \X Nat : ss[1] < ss[2]}
<1>0. IsWellFoundedOn(below, Nat)
  BY NatLessThanWellFounded DEF OpToRel
<1>1. PICK x \in S : \A y \in S : ~ (<<y, x>> \in below)
  <2> HIDE DEF below
  <2> QED
    BY <1>0, WFMin, Zenon
<1>2. \A y \in S : x <= y
  <2>1. \A y \in S : ~ (y < x)
    BY <1>1, Zenon
  <2> QED
    BY <2>1
<1> QED
  BY <1>2, Zenon DEF Min

(* Max of a set of natural numbers below a bound is one of them, and no other
   is above. *)
LEMMA MaxOf ==
  ASSUME NEW n \in Nat, NEW S \in SUBSET (0..n), S # {}
  PROVE  Max(S) \in S /\ \A y \in S : Max(S) >= y
<1> DEFINE T == {n - x : x \in S}
<1>1. T \in SUBSET Nat /\ T # {}
  <2>1. PICK y \in S : TRUE
    BY Zenon
  <2>2. n - y \in T
    OBVIOUS
  <2>3. \A x \in S : n - x \in Nat
    OBVIOUS
  <2> QED
    BY <2>2, <2>3, Zenon
<1>2. Min(T) \in T /\ \A y \in T : Min(T) <= y
  <2> HIDE DEF T
  <2> QED
    BY <1>1, MinOf
<1>3. PICK x \in S : Min(T) = n - x
  BY <1>2, Zenon
<1>4. \A y \in S : x >= y
  <2> TAKE y \in S
  <2>1. n - y \in T
    OBVIOUS
  <2>2. n - x <= n - y
    BY <1>2, <1>3, <2>1, Zenon
  <2> QED
    BY <2>2
<1> QED
  BY <1>4, Zenon DEF Max

-----------------------------------------------------------------------------
(* Facts about sets of sequences and accounts. *)

(* A set of sequences is finite. *)
LEMMA SeqsFinite == \A S \in SUBSET Seqs : IsFiniteSet(S) /\ Cardinality(S) \in Nat
<1>1. MaxSeq \in Int
  BY MaxSeqAssumption
<1>2. IsFiniteSet(Seqs)
  BY <1>1, FS_Interval DEF Seqs
<1> QED
  BY <1>2, FS_Subset, FS_CardinalityType, Zenon

(* A settlement keeps an account an account, and keeps it balanced: it adds to
   one credit as many records as it adds to those settled. *)
LEMMA SettleBalances ==
  ASSUME NEW a \in Account, Balanced(a), NEW seqs \in SUBSET Seqs, NEW kind \in Kinds
  PROVE  Settle(a, seqs, kind) \in Account /\ Balanced(Settle(a, seqs, kind))
<1> DEFINE b == Settle(a, seqs, kind)
           fresh == seqs \ a.settled
<1>1. /\ a.settled \in SUBSET Seqs /\ a.base \in Nat /\ a.credit \in [Kinds -> Nat]
      /\ fresh \in SUBSET Seqs
  BY MaxSeqAssumption DEF Account
<1>2. Cardinality(fresh) \in Nat /\ Cardinality(a.settled) \in Nat
  BY <1>1, SeqsFinite, Zenon
<1>3. /\ b.settled = a.settled \cup seqs
      /\ b.base = a.base
      /\ b.credit = [a.credit EXCEPT ![kind] = @ + Cardinality(fresh)]
  BY Zenon DEF Settle, Account
<1>4. b \in Account
  <2>1. b.credit \in [Kinds -> Nat]
    BY <1>1, <1>2, <1>3
  <2> QED
    BY <1>1, <1>3, <2>1, Zenon DEF Account, Settle
<1>5. Credited(b) = Credited(a) + Cardinality(fresh)
  BY <1>1, <1>2, <1>3 DEF Credited, Kinds
<1>6. Cardinality(b.settled) = Cardinality(a.settled) + Cardinality(fresh)
  <2>1. IsFiniteSet(a.settled) /\ IsFiniteSet(fresh)
    BY <1>1, SeqsFinite, Zenon
  <2>2. a.settled \cap fresh = {} /\ b.settled = a.settled \cup fresh
    BY <1>3, Zenon
  <2>3. Cardinality(a.settled \cup fresh)
          = Cardinality(a.settled) + Cardinality(fresh) - Cardinality(a.settled \cap fresh)
    <3> HIDE DEF fresh
    <3> QED
      BY <2>1, FS_Union, Zenon
  <2>4. Cardinality(a.settled \cap fresh) = 0
    BY <2>2, FS_EmptySet, Zenon
  <2> HIDE DEF fresh, b
  <2> QED
    BY <1>2, <2>2, <2>3, <2>4
<1>7. Credited(a) \in Nat
  BY <1>1 DEF Credited, Kinds
<1> QED
  BY <1>1, <1>2, <1>3, <1>4, <1>5, <1>6, <1>7 DEF Balanced

(* A ledger written anew is balanced. *)
LEMMA FreshBalances ==
  ASSUME NEW first \in 1..(MaxSeq + 1)
  PROVE  Fresh(first) \in Account /\ Balanced(Fresh(first))
<1>1. Cardinality(1..(first - 1)) = first - 1
  BY FS_Interval, MaxSeqAssumption
<1>2. Fresh(first) \in Account
  BY MaxSeqAssumption DEF Fresh, Account, Seqs, Kinds
<1>3. Credited(Fresh(first)) = 0
  BY DEF Credited, Fresh, Kinds
<1> QED
  BY <1>1, <1>2, <1>3, MaxSeqAssumption DEF Balanced, Fresh

(* The number after every one that settled is in the range of the next. *)
LEMMA HighestOf == ASSUME NEW a \in Account PROVE Highest(a) \in 1..(MaxSeq + 1)
<1>1. CASE a.settled = {}
  BY <1>1, MaxSeqAssumption DEF Highest
<1>2. CASE a.settled # {}
  <2> DEFINE S == a.settled
  <2>1. S \in SUBSET (0..MaxSeq) /\ S \in SUBSET Seqs
    BY DEF Account, Seqs
  <2>2. Max(S) \in Seqs
    <3> HIDE DEF S
    <3>1. S # {}
      BY <1>2, Zenon DEF S
    <3> QED
      BY <2>1, <3>1, MaxOf, MaxSeqAssumption, Zenon
  <2> QED
    BY <1>2, <2>2, MaxSeqAssumption DEF Highest, Seqs
<1> QED
  BY <1>1, <1>2, Zenon

(* So is the number a recovery goes on from. *)
LEMMA NumberedOf ==
  ASSUME NEW held, NEW prev \in 0..MaxSeq, NEW found \in SUBSET Seqs,
         Highest(ledger) \in 1..(MaxSeq + 1)
  PROVE  Numbered(held, prev, found) \in 1..(MaxSeq + 1)
<1> DEFINE S == {Highest(ledger)} \cup (IF held = {} THEN {} ELSE {prev + 1}) \cup {q + 1 : q \in found}
<1>1. S \in SUBSET (1..(MaxSeq + 1)) /\ S # {}
  BY MaxSeqAssumption DEF Seqs
<1>2. S \in SUBSET (0..(MaxSeq + 1))
  BY <1>1
<1>3. Numbered(held, prev, found) = Max(S)
  BY Zenon DEF Numbered
<1>4. MaxSeq + 1 \in Nat
  BY MaxSeqAssumption
<1> HIDE DEF S
<1>5. Max(S) \in S
  BY <1>1, <1>2, <1>4, MaxOf, Zenon
<1> QED
  BY <1>1, <1>3, <1>5, Zenon

-----------------------------------------------------------------------------
(* The invariant: types, balance, and what keeps an operation under way within
   the bounds of the stream. *)

DiskInv == DiskOK /\ Balanced(dir.ledger) /\ \A d \in dirs : Balanced(d.ledger)

MemoryInv == MemoryOK /\ Balanced(ledger)

(* An admission under way fits in what the stream has left to number, and a
   compaction removes segments the queue holds. *)
OpInv ==
  /\ op \in Operation /\ Balanced(op.ledger)
  /\ op.step \in {"create", "header", "link", "write", "sync"} => op.n >= 1 /\ next + op.n <= MaxSeq + 1
  /\ op.todo \subseteq DOMAIN segments
  /\ op.step = "forget" => op.todo # {}

SpoolInv == DiskInv /\ MemoryInv /\ OpInv /\ reading \in Reading /\ UsersOK

(* The records of an operation and of a read that are not under way. *)
LEMMA FreeIsOperation ==
  /\ Free \in Operation /\ Balanced(Free.ledger)
  /\ Free.todo = {} /\ Free.step = "free"
<1>1. 1 \in 1..(MaxSeq + 1)
  BY MaxSeqAssumption
<1>2. Fresh(1) \in Account /\ Balanced(Fresh(1))
  BY <1>1, FreshBalances, Zenon
<1> QED
  BY <1>2, BoundsAssumption DEF Free, Operation, Steps, Recovery

LEMMA StillIsReading == Still \in Reading /\ NoCursor \in Cursor
BY MaxSeqAssumption DEF Still, Reading, NoCursor, Cursor

(* An operation that has ended, or failed, satisfies the invariant. *)
LEMMA FreeInv == ASSUME op' = Free PROVE OpInv'
BY FreeIsOperation, Zenon DEF OpInv

(* So does one that has just begun to settle records. *)
LEMMA BeginInv ==
  ASSUME MemoryInv, NEW owner \in {"route", "sweep", "losses"}, NEW seqs \in SUBSET Seqs,
         NEW kind \in Kinds, NEW out \in SUBSET Seqs, Begin(owner, seqs, kind, out)
  PROVE  OpInv'
<1> DEFINE settled == Settle(ledger, seqs, kind)
<1>1. settled \in Account /\ Balanced(settled)
  BY SettleBalances, Zenon DEF MemoryInv, MemoryOK
<1> HIDE DEF settled
<1>2. op' = [Free EXCEPT !.step = "rename", !.owner = owner, !.out = out, !.ledger = settled]
  BY Zenon DEF Begin, settled
<1>3. op' \in Operation /\ op'.ledger = settled /\ op'.step = "rename" /\ op'.todo = {}
  BY <1>1, <1>2, FreeIsOperation, Zenon DEF Operation, Steps, Recovery
<1> QED
  BY <1>1, <1>3, Zenon DEF OpInv

(* A compaction that has just begun satisfies it. *)
LEMMA CompactInv ==
  ASSUME NEW todo \in SUBSET Seqs, todo \subseteq DOMAIN segments',
         op' = [Free EXCEPT !.step = "compact", !.owner = "recover", !.todo = todo]
  PROVE  OpInv'
<1>1. /\ op' \in Operation /\ op'.ledger = Free.ledger
      /\ op'.step = "compact" /\ op'.todo = todo
  BY FreeIsOperation, Zenon DEF Operation, Steps, Recovery
<1> QED
  BY <1>1, FreeIsOperation, Zenon DEF OpInv

(* The environment stays within its bounds. *)
EnvOK == env \in [crashes : 0..MaxCrashes, faults : 0..MaxFaults, damage : 0..MaxDamage,
                  vanished : 0..MaxVanished]

LEMMA EnvStep ==
  ASSUME EnvOK,
         \/ Fault
         \/ Vanish
         \/ env.damage < MaxDamage /\ env' = [env EXCEPT !.damage = @ + 1]
         \/ env.crashes < MaxCrashes /\ env' = [env EXCEPT !.crashes = @ + 1]
  PROVE  EnvOK'
BY BoundsAssumption DEF EnvOK, Fault, Vanish

(* What the budget counts for a queue is a number. *)
LEMMA SizeIsNumber == ASSUME NEW held PROVE Size(held) \in Nat
<1> DEFINE all == Seqs \X (0..MaxSeq)
           counted == {p \in all : p[1] \in DOMAIN held /\ p[2] <= held[p[1]]}
<1>1. IsFiniteSet(Seqs) /\ IsFiniteSet(0..MaxSeq)
  BY SeqsFinite, FS_Interval, MaxSeqAssumption
<1>2. IsFiniteSet(all)
  BY <1>1, FS_Product, Zenon
<1>3. counted \in SUBSET all
  BY Zenon
<1>4. IsFiniteSet(counted)
  <2> HIDE DEF counted, all
  <2> QED
    BY <1>2, <1>3, FS_Subset, Zenon
<1>5. Cardinality(counted) \in Nat
  <2> HIDE DEF counted
  <2> QED
    BY <1>4, FS_CardinalityType, Zenon
<1> QED
  BY <1>5, Zenon DEF Size

-----------------------------------------------------------------------------
(* Every step keeps it. *)

(* The steps of store and compact keep the invariant. *)
LEMMA SettlingStep == ASSUME SpoolInv, Settling PROVE SpoolInv'
<1> USE DEF SpoolInv, disk, memory, users
<1>1. CASE StoreRename
  <2>1. MemoryInv' /\ reading' \in Reading /\ UsersOK'
    BY <1>1, Zenon DEF StoreRename, Change, MemoryInv, MemoryOK, UsersOK
  <2>2. DiskInv'
    <3>1. op.ledger \in Account /\ Balanced(op.ledger)
      BY Zenon DEF OpInv, Operation
    <3> QED
      BY <1>1, <3>1, Zenon DEF StoreRename, Change, DiskInv, DiskOK, Directory
  <2>3. OpInv'
    BY <1>1, Zenon DEF StoreRename, OpInv, Operation, Steps
  <2> QED
    BY <2>1, <2>2, <2>3, Zenon
<1>2. CASE StoreFails
  <2>1. DiskInv' /\ MemoryInv' /\ reading' \in Reading
    BY <1>2, Zenon DEF StoreFails, Fail, DiskInv, DiskOK, Directory, MemoryInv, MemoryOK
  <2>2. OpInv'
    BY <1>2, FreeInv, Zenon DEF StoreFails, Fail
  <2>3. UsersOK'
    <3>1. EnvOK'
      BY <1>2, EnvStep, Zenon DEF StoreFails, UsersOK, EnvOK
    <3> QED
      BY <1>2, <3>1, Zenon DEF StoreFails, UsersOK, EnvOK
  <2> QED
    BY <2>1, <2>2, <2>3, Zenon
<1>3. CASE StoreCommit
  <2>1. DiskInv' /\ reading' \in Reading /\ UsersOK'
    BY <1>3, Zenon DEF StoreCommit, SyncDirectory, DiskInv, DiskOK, Directory, UsersOK
  <2>2. MemoryInv'
    BY <1>3, Zenon DEF StoreCommit, MemoryInv, MemoryOK, OpInv, Operation
  <2>3. OpInv'
    <3> DEFINE todo == Removable(DOMAIN segments, next, op.ledger.settled)
    <3>1. todo \subseteq DOMAIN segments /\ todo \subseteq Seqs
      BY Zenon DEF Removable, MemoryInv, MemoryOK
    <3> HIDE DEF todo
    <3>2. op' = [op EXCEPT !.step = "compact", !.todo = todo] /\ segments' = segments /\ next' = next
      BY <1>3, Zenon DEF StoreCommit, todo
    <3> QED
      BY <3>1, <3>2, Zenon DEF OpInv, Operation, Steps
  <2> QED
    BY <2>1, <2>2, <2>3, Zenon
<1>4. CASE StoreCommitFails
  <2>1. DiskInv' /\ MemoryInv' /\ reading' \in Reading
    BY <1>4, Zenon DEF StoreCommitFails, Fail, DiskInv, DiskOK, Directory, MemoryInv, MemoryOK
  <2>2. OpInv'
    BY <1>4, FreeInv, Zenon DEF StoreCommitFails, Fail
  <2>3. UsersOK'
    <3>1. EnvOK'
      BY <1>4, EnvStep, Zenon DEF StoreCommitFails, UsersOK, EnvOK
    <3> QED
      BY <1>4, <3>1, Zenon DEF StoreCommitFails, UsersOK, EnvOK
  <2> QED
    BY <2>1, <2>2, <2>3, Zenon
<1>5. CASE CompactRemove
  <2>1. DiskInv' /\ MemoryInv' /\ reading' \in Reading /\ UsersOK'
    BY <1>5, Zenon DEF CompactRemove, Change, DiskInv, DiskOK, Directory, MemoryInv, MemoryOK, UsersOK
  <2>2. OpInv'
    BY <1>5, Zenon DEF CompactRemove, OpInv, Operation, Steps
  <2> QED
    BY <2>1, <2>2, Zenon
<1>6. CASE CompactRemoveFails
  <2>1. DiskInv' /\ MemoryInv' /\ reading' \in Reading
    BY <1>6, Zenon DEF CompactRemoveFails, DiskInv, DiskOK, Directory, MemoryInv, MemoryOK
  <2>2. OpInv'
    BY <1>6, Zenon DEF CompactRemoveFails, OpInv, Operation, Steps
  <2>3. UsersOK'
    <3>1. EnvOK'
      BY <1>6, EnvStep, Zenon DEF CompactRemoveFails, UsersOK, EnvOK
    <3> QED
      BY <1>6, <3>1, SMTT(30) DEF CompactRemoveFails, UsersOK, EnvOK
  <2> QED
    BY <2>1, <2>2, <2>3, Zenon
<1>7. CASE CompactForget
  <2>1. DiskInv' /\ reading' \in Reading /\ UsersOK'
    BY <1>7, Zenon DEF CompactForget, DiskInv, DiskOK, Directory, UsersOK
  <2>2. MemoryInv'
    <3> DEFINE s == Min(op.todo)
    <3>1. op.todo # {} /\ op.todo \in SUBSET Nat /\ op.todo \subseteq DOMAIN segments
      BY <1>7 DEF CompactForget, OpInv, Operation, Seqs
    <3>2. s \in DOMAIN segments
      BY <3>1, MinOf, Zenon
    <3> HIDE DEF s
    <3>3. /\ segments' = [t \in DOMAIN segments \ {s} |-> segments[t]]
          /\ used' = used - (segments[s] + 1)
          /\ cursor' = IF cursor.first = s THEN NoCursor ELSE cursor
          /\ UNCHANGED <<phase, active, next, ledger, broken>>
      BY <1>7, Zenon DEF CompactForget, s
    <3> QED
      BY <3>2, <3>3, StillIsReading DEF MemoryInv, MemoryOK
  <2>3. OpInv'
    BY <1>7, Zenon DEF CompactForget, OpInv, Operation, Steps
  <2> QED
    BY <2>1, <2>2, <2>3, Zenon
<1>8. CASE CompactEnd
  <2>1. DiskInv' /\ reading' \in Reading
    BY <1>8, Zenon DEF CompactEnd, End, SyncDirectory, DiskInv, DiskOK, Directory
  <2>2. MemoryInv'
    BY <1>8, SizeIsNumber DEF CompactEnd, End, MemoryInv, MemoryOK
  <2>3. OpInv'
    <3> DEFINE todo == Removable(DOMAIN segments, next, ledger.settled)
    <3>1. todo \subseteq DOMAIN segments /\ todo \subseteq Seqs
      BY Zenon DEF Removable, MemoryInv, MemoryOK
    <3>2. segments' = segments
      BY <1>8, Zenon DEF CompactEnd
    <3>3. CASE op.owner = "losses"
      <4>1. op' = [Free EXCEPT !.step = "compact", !.owner = "recover", !.todo = todo]
        BY <1>8, <3>3, Zenon DEF CompactEnd, End
      <4> HIDE DEF todo
      <4> QED
        BY <3>1, <3>2, <4>1, CompactInv, ZenonT(30)
    <3>4. CASE op.owner # "losses"
      BY <1>8, <3>4, FreeInv, Zenon DEF CompactEnd, End
    <3> QED
      BY <3>3, <3>4, Zenon
  <2>4. UsersOK'
    BY <1>8, Zenon DEF CompactEnd, End, UsersOK, OpInv, Operation
  <2> QED
    BY <2>1, <2>2, <2>3, <2>4, Zenon
<1>9. CASE CompactEndFails
  <2>1. DiskInv' /\ reading' \in Reading
    BY <1>9, Zenon DEF CompactEndFails, End, DiskInv, DiskOK, Directory
  <2>2. MemoryInv'
    BY <1>9, SizeIsNumber DEF CompactEndFails, End, MemoryInv, MemoryOK
  <2>3. OpInv'
    <3> DEFINE todo == Removable(DOMAIN segments, next, ledger.settled)
    <3>1. todo \subseteq DOMAIN segments /\ todo \subseteq Seqs
      BY Zenon DEF Removable, MemoryInv, MemoryOK
    <3>2. segments' = segments
      BY <1>9, Zenon DEF CompactEndFails
    <3>3. CASE op.owner = "losses"
      <4>1. op' = [Free EXCEPT !.step = "compact", !.owner = "recover", !.todo = todo]
        BY <1>9, <3>3, Zenon DEF CompactEndFails, End
      <4> HIDE DEF todo
      <4> QED
        BY <3>1, <3>2, <4>1, CompactInv, ZenonT(30)
    <3>4. CASE op.owner # "losses"
      BY <1>9, <3>4, FreeInv, Zenon DEF CompactEndFails, End
    <3> QED
      BY <3>3, <3>4, Zenon
  <2>4. UsersOK'
    <3>1. EnvOK'
      BY <1>9, EnvStep, Zenon DEF CompactEndFails, UsersOK, EnvOK
    <3> QED
      BY <1>9, <3>1, Zenon DEF CompactEndFails, UsersOK, EnvOK, End, OpInv, Operation
  <2> QED
    BY <2>1, <2>2, <2>3, <2>4, Zenon
<1> QED
  BY <1>1, <1>2, <1>3, <1>4, <1>5, <1>6, <1>7, <1>8, <1>9, Zenon DEF Settling

(* The steps of admit and rotate keep it. *)
LEMMA AdmittingStep == ASSUME SpoolInv, Admitting PROVE SpoolInv'
<1> USE DEF SpoolInv, disk, memory, users
<1>1. CASE AdmitBegin
  <2>1. DiskInv' /\ reading' \in Reading /\ UsersOK'
    BY <1>1, Zenon DEF AdmitBegin, DiskInv, DiskOK, Directory, UsersOK
  <2>2. MemoryInv'
    BY <1>1, BoundsAssumption DEF AdmitBegin, MemoryInv, MemoryOK
  <2>3. OpInv'
    <3>1. PICK n \in 1..MaxBatch :
            /\ next + n <= MaxSeq + 1
            /\ \E step \in {"create", "write"} :
                 op' = [Free EXCEPT !.step = step, !.owner = "admit", !.n = n]
      BY <1>1, Zenon DEF AdmitBegin
    <3>2. PICK step \in {"create", "write"} :
            op' = [Free EXCEPT !.step = step, !.owner = "admit", !.n = n]
      BY <3>1, Zenon
    <3>3. n \in 0..MaxBatch /\ n >= 1
      BY BoundsAssumption
    <3>4. /\ op' \in Operation /\ op'.ledger = Free.ledger /\ op'.n = n
          /\ op'.todo = {} /\ op'.step = step
      BY <3>2, <3>3, FreeIsOperation, Zenon DEF Operation, Steps
    <3>5. UNCHANGED <<next, segments>>
      BY <1>1, Zenon DEF AdmitBegin
    <3> QED
      BY <3>1, <3>3, <3>4, <3>5, FreeIsOperation, Zenon DEF OpInv
  <2> QED
    BY <2>1, <2>2, <2>3, Zenon
<1>2. CASE RotateCreate
  <2>1. MemoryInv' /\ reading' \in Reading /\ UsersOK'
    BY <1>2, Zenon DEF RotateCreate, Change, MemoryInv, MemoryOK, UsersOK
  <2>2. DiskInv'
    <3>1. next \in Seqs
      BY <1>2, MaxSeqAssumption DEF RotateCreate, OpInv, Operation, MemoryInv, MemoryOK, Seqs
    <3> QED
      BY <1>2, <3>1, SMTT(30) DEF RotateCreate, Change, DiskInv, DiskOK, Directory
  <2>3. OpInv'
    BY <1>2, Zenon DEF RotateCreate, OpInv, Operation, Steps
  <2> QED
    BY <2>1, <2>2, <2>3, Zenon
<1>3. CASE RotateCreateFails
  <2>1. DiskInv' /\ reading' \in Reading
    BY <1>3, Zenon DEF RotateCreateFails, Rejected, DiskInv, DiskOK, Directory
  <2>2. MemoryInv'
    <3>1. op.n \in Int
      BY DEF OpInv, Operation
    <3>2. broken' \in BOOLEAN
      BY <1>3, ZenonT(30) DEF RotateCreateFails, Rejected
    <3>3. used' \in Int /\ UNCHANGED <<phase, segments, active, next, ledger, cursor>>
      BY <1>3, <3>1 DEF RotateCreateFails, MemoryInv, MemoryOK
    <3> QED
      BY <3>2, <3>3, Zenon DEF MemoryInv, MemoryOK
  <2>3. OpInv'
    BY <1>3, FreeInv, Zenon DEF RotateCreateFails, Rejected
  <2>4. UsersOK'
    <3>1. EnvOK'
      BY <1>3, EnvStep, Zenon DEF RotateCreateFails, UsersOK, EnvOK
    <3> QED
      BY <1>3, <3>1, Zenon DEF RotateCreateFails, UsersOK, EnvOK
  <2> QED
    BY <2>1, <2>2, <2>3, <2>4, Zenon
<1>4. CASE RotateHeader
  <2>1. MemoryInv' /\ reading' \in Reading /\ UsersOK'
    BY <1>4, Zenon DEF RotateHeader, MemoryInv, MemoryOK, UsersOK
  <2>2. DiskInv'
    <3>1. next \in Seqs
      BY <1>4, MaxSeqAssumption DEF RotateHeader, OpInv, Operation, MemoryInv, MemoryOK, Seqs
    <3> QED
      BY <1>4, <3>1, Zenon DEF RotateHeader, DiskInv, DiskOK, Directory
  <2>3. OpInv'
    BY <1>4, Zenon DEF RotateHeader, OpInv, Operation, Steps
  <2> QED
    BY <2>1, <2>2, <2>3, Zenon
<1>5. CASE RotateEnd
  <2>1. DiskInv' /\ reading' \in Reading /\ UsersOK'
    BY <1>5, Zenon DEF RotateEnd, SyncDirectory, DiskInv, DiskOK, Directory, UsersOK
  <2>2. MemoryInv'
    <3>1. next \in Seqs
      BY <1>5, MaxSeqAssumption DEF RotateEnd, OpInv, Operation, MemoryInv, MemoryOK, Seqs
    <3> QED
      BY <1>5, <3>1, Zenon DEF RotateEnd, MemoryInv, MemoryOK
  <2>3. OpInv'
    BY <1>5, Zenon DEF RotateEnd, OpInv, Operation, Steps
  <2> QED
    BY <2>1, <2>2, <2>3, Zenon
<1>6. CASE RotateFails
  <2>1. DiskInv' /\ reading' \in Reading
    BY <1>6 DEF RotateFails, Rejected, Change, DiskInv, DiskOK, Directory
  <2>2. MemoryInv'
    <3>1. op.n \in Int
      BY DEF OpInv, Operation
    <3>2. broken' \in BOOLEAN
      BY <1>6, Zenon DEF RotateFails, Rejected
    <3>3. used' \in Int /\ UNCHANGED <<phase, segments, active, next, ledger, cursor>>
      BY <1>6, <3>1 DEF RotateFails, MemoryInv, MemoryOK
    <3> QED
      BY <3>2, <3>3, Zenon DEF MemoryInv, MemoryOK
  <2>3. OpInv'
    BY <1>6, FreeInv, Zenon DEF RotateFails, Rejected
  <2>4. UsersOK'
    <3>1. EnvOK'
      BY <1>6, EnvStep, SMTT(30) DEF RotateFails, UsersOK, EnvOK
    <3> QED
      BY <1>6, <3>1, Zenon DEF RotateFails, UsersOK, EnvOK
  <2> QED
    BY <2>1, <2>2, <2>3, <2>4, Zenon
<1>7. CASE AdmitWrite
  <2>1. MemoryInv' /\ reading' \in Reading /\ UsersOK'
    BY <1>7, Zenon DEF AdmitWrite, Batch, Span, MemoryInv, MemoryOK, UsersOK
  <2>2. DiskInv'
    <3>1. Batch \in SUBSET Seqs
      BY Zenon DEF Batch, Span
    <3> QED
      BY <1>7, <3>1, Zenon DEF AdmitWrite, DiskInv, DiskOK, Directory
  <2>3. OpInv'
    BY <1>7, Zenon DEF AdmitWrite, OpInv, Operation, Steps
  <2> QED
    BY <2>1, <2>2, <2>3, Zenon
<1>8. CASE AdmitWriteFails
  <2>1. reading' \in Reading
    BY <1>8, SMTT(30) DEF AdmitWriteFails, Rejected, Batch, Span
  <2>2. DiskInv'
    <3>1. Batch \in SUBSET Seqs
      BY Zenon DEF Batch, Span
    <3> QED
      BY <1>8, <3>1 DEF AdmitWriteFails, DiskInv, DiskOK, Directory
  <2>3. MemoryInv'
    <3>1. op.n \in Int
      BY DEF OpInv, Operation
    <3>2. broken' \in BOOLEAN
      BY <1>8, Zenon DEF AdmitWriteFails, Rejected
    <3>3. used' \in Int /\ UNCHANGED <<phase, segments, active, next, ledger, cursor>>
      BY <1>8, <3>1 DEF AdmitWriteFails, MemoryInv, MemoryOK
    <3> QED
      BY <3>2, <3>3, Zenon DEF MemoryInv, MemoryOK
  <2>4. OpInv'
    BY <1>8, FreeInv, Zenon DEF AdmitWriteFails, Rejected
  <2>5. UsersOK'
    <3>1. EnvOK'
      BY <1>8, EnvStep, SMTT(30) DEF AdmitWriteFails, UsersOK, EnvOK
    <3> QED
      BY <1>8, <3>1, Zenon DEF AdmitWriteFails, UsersOK, EnvOK
  <2> QED
    BY <2>1, <2>2, <2>3, <2>4, <2>5, Zenon
<1>9. CASE AdmitEnd
  <2>1. DiskInv' /\ reading' \in Reading
    BY <1>9, Zenon DEF AdmitEnd, Batch, Span, DiskInv, DiskOK, Directory
  <2>2. MemoryInv'
    <3>1. op.n \in Nat /\ next + op.n \in 1..(MaxSeq + 1)
      BY <1>9, MaxSeqAssumption DEF AdmitEnd, OpInv, Operation, MemoryInv, MemoryOK
    <3>2. DOMAIN segments' = DOMAIN segments /\ segments' \in [DOMAIN segments -> Nat]
      <4> DEFINE held == DOMAIN segments
                 last == Last(segments)
      <4>1. segments \in [held -> Nat]
        BY Zenon DEF MemoryInv, MemoryOK
      <4>2. segments' = [segments EXCEPT ![last] = @ + op.n]
        BY <1>9, Zenon DEF AdmitEnd
      <4> HIDE DEF held, last
      <4>3. segments' \in [held -> Nat]
        <5>1. CASE last \in held
          BY <3>1, <4>1, <4>2, <5>1
        <5>2. CASE last \notin held
          BY <4>1, <4>2, <5>2, Zenon
        <5> QED
          BY <5>1, <5>2, Zenon
      <4> QED
        BY <4>1, <4>3, Zenon DEF held
    <3> QED
      BY <1>9, <3>1, <3>2, Zenon DEF AdmitEnd, MemoryInv, MemoryOK
  <2>3. OpInv'
    BY <1>9, FreeInv, Zenon DEF AdmitEnd
  <2>4. UsersOK'
    <3>1. Batch \in SUBSET Seqs
      BY Zenon DEF Batch, Span
    <3> QED
      BY <1>9, <3>1, Zenon DEF AdmitEnd, UsersOK
  <2> QED
    BY <2>1, <2>2, <2>3, <2>4, Zenon
<1>10. CASE AdmitEndFails
  <2>1. DiskInv' /\ MemoryInv' /\ reading' \in Reading
    BY <1>10, Zenon DEF AdmitEndFails, DiskInv, DiskOK, Directory, MemoryInv, MemoryOK
  <2>2. OpInv'
    BY <1>10, FreeInv, Zenon DEF AdmitEndFails
  <2>3. UsersOK'
    <3>1. EnvOK'
      BY <1>10, EnvStep, Zenon DEF AdmitEndFails, UsersOK, EnvOK
    <3> QED
      BY <1>10, <3>1, Zenon DEF AdmitEndFails, UsersOK, EnvOK
  <2> QED
    BY <2>1, <2>2, <2>3, Zenon
<1> QED
  BY <1>1, <1>2, <1>3, <1>4, <1>5, <1>6, <1>7, <1>8, <1>9, <1>10, Zenon DEF Admitting

(* The steps of read and settle keep it. *)
LEMMA DeliveringStep == ASSUME SpoolInv, Delivering PROVE SpoolInv'
<1> USE DEF SpoolInv, disk, memory, users
<1>1. CASE SettleBegin
  <2>1. DiskInv' /\ MemoryInv' /\ reading' \in Reading /\ UsersOK'
    BY <1>1, Zenon DEF SettleBegin, DiskInv, DiskOK, Directory, MemoryInv, MemoryOK, UsersOK
  <2>2. OpInv'
    <3>1. PICK seqs \in SUBSET taken, kind \in {"delivered", "quarantined"} : Begin("route", seqs, kind, {})
      BY <1>1, Zenon DEF SettleBegin
    <3>2. seqs \in SUBSET Seqs /\ kind \in Kinds
      BY <3>1, Zenon DEF UsersOK, Kinds
    <3> QED
      BY <3>1, <3>2, BeginInv
  <2> QED
    BY <2>1, <2>2, Zenon
<1>2. CASE ReadBegin
  <2>1. DiskInv' /\ MemoryInv' /\ OpInv' /\ UsersOK'
    BY <1>2, Zenon DEF ReadBegin, DiskInv, DiskOK, Directory, MemoryInv, MemoryOK, OpInv, UsersOK
  <2>2. reading' \in Reading
    <3>1. PICK from \in 1..next :
            reading' = [Still EXCEPT !.on = TRUE, !.from = from, !.segments = DOMAIN segments,
                                     !.todo = DOMAIN segments, !.next = next,
                                     !.settled = ledger.settled, !.at = cursor]
      BY <1>2, Zenon DEF ReadBegin
    <3>2. from \in 0..(MaxSeq + 1) /\ next \in 0..(MaxSeq + 1) /\ ledger.settled \in SUBSET Seqs
      BY MaxSeqAssumption DEF MemoryInv, MemoryOK, Account
    <3> QED
      BY <3>1, <3>2, StillIsReading, Zenon DEF Reading, MemoryInv, MemoryOK
  <2> QED
    BY <2>1, <2>2, Zenon
<1>3. CASE ReadSegment
  <2>1. DiskInv' /\ MemoryInv' /\ OpInv' /\ UsersOK'
    BY <1>3, Zenon DEF ReadSegment, DiskInv, DiskOK, Directory, MemoryInv, MemoryOK, OpInv, UsersOK
  <2>2. reading' \in Reading
    <3> DEFINE s == Min(reading.todo)
               upper == Upper(reading.segments, reading.next, s)
               start == WalksFrom(s)
               wanted == {q \in Seqs : q >= reading.from /\ q \notin reading.settled}
               whole == {q \in Frames(s, wanted) : start < q /\ q < upper}
               room == MaxRead - Cardinality(reading.out)
               beyond == {q \in whole \cap wanted :
                            Cardinality({p \in whole \cap wanted : p < q}) >= room}
               stop == IF beyond = {} THEN upper ELSE Min(beyond)
               passed == {q \in whole : q < stop}
               prev == Max({start} \cup passed)
               lost == Span(start + 1, stop) \ passed
    <3>1. s \in Seqs
      <4>1. reading.todo # {} /\ reading.todo \in SUBSET Seqs
        BY <1>3, Zenon DEF ReadSegment, Reading
      <4>2. reading.todo \in SUBSET Nat
        BY <4>1, SMTT(30) DEF Seqs
      <4> QED
        BY <4>1, <4>2, MinOf, Zenon
    <3>2. start \in 0..MaxSeq
      BY <3>1, MaxSeqAssumption, SMTT(30) DEF WalksFrom, Reading, Cursor, Seqs
    <3>3. content[s] \in SUBSET Seqs
      BY <3>1, Zenon DEF DiskInv, DiskOK
    <3>4. passed \in SUBSET Seqs
      BY <3>3, SMTT(30) DEF Frames
    <3>5. prev \in 0..MaxSeq
      <4> HIDE DEF passed, start
      <4>1. ({start} \cup passed) \in SUBSET (0..MaxSeq)
        BY <3>2, <3>4, SMTT(30) DEF Seqs
      <4> QED
        BY <4>1, MaxOf, MaxSeqAssumption, ZenonT(30)
    <3>6. lost \in SUBSET Seqs /\ Span(s, upper) \in SUBSET Seqs
      BY Zenon DEF Span
    <3>7. \/ reading' = [reading EXCEPT !.todo = @ \ {s}]
          \/ reading' = [reading EXCEPT !.todo = @ \ {s},
                            !.losses = IF s \in DOMAIN segments THEN @ \cup Span(s, upper) ELSE @]
          \/ reading' = [reading EXCEPT !.todo = @ \ {s},
                            !.out = @ \cup (passed \cap wanted),
                            !.losses = @ \cup lost,
                            !.reached = [first |-> s, prev |-> prev],
                            !.full = beyond # {}]
      BY <1>3, Zenon DEF ReadSegment
    <3> HIDE DEF s, upper, start, wanted, whole, room, beyond, stop, passed, prev, lost
    <3>8. [first |-> s, prev |-> prev] \in Cursor
      BY <3>1, <3>5 DEF Cursor, Seqs
    <3>9. passed \cap wanted \in SUBSET Seqs /\ (beyond # {}) \in BOOLEAN
      BY <3>4, Zenon
    <3>10. CASE reading' = [reading EXCEPT !.todo = @ \ {s}]
      BY <3>10, Zenon DEF Reading
    <3>11. CASE reading' = [reading EXCEPT !.todo = @ \ {s},
                              !.losses = IF s \in DOMAIN segments THEN @ \cup Span(s, upper) ELSE @]
      BY <3>6, <3>11, Zenon DEF Reading
    <3>12. CASE reading' = [reading EXCEPT !.todo = @ \ {s},
                              !.out = @ \cup (passed \cap wanted),
                              !.losses = @ \cup lost,
                              !.reached = [first |-> s, prev |-> prev],
                              !.full = beyond # {}]
      BY <3>6, <3>8, <3>9, <3>12, Zenon DEF Reading
    <3> QED
      BY <3>7, <3>10, <3>11, <3>12, Zenon
  <2> QED
    BY <2>1, <2>2, Zenon
<1>4. CASE ReadEnd
  <2>1. DiskInv'
    BY <1>4, SMTT(30) DEF ReadEnd, DiskInv, DiskOK, Directory
  <2>2. MemoryInv'
    BY <1>4, Zenon DEF ReadEnd, MemoryInv, MemoryOK, Reading
  <2>3. OpInv'
    <3>1. CASE Begin("route", reading.losses, "lost", reading.out)
      BY <3>1, BeginInv, Zenon DEF Reading, Kinds
    <3>2. CASE UNCHANGED op
      BY <1>4, <3>2, SMTT(30) DEF ReadEnd, OpInv
    <3> QED
      BY <1>4, <3>1, <3>2, Zenon DEF ReadEnd
  <2>4. reading' \in Reading
    BY <1>4, StillIsReading, Zenon DEF ReadEnd
  <2>5. UsersOK'
    BY <1>4, SMTT(30) DEF ReadEnd, UsersOK, Reading
  <2> QED
    BY <2>1, <2>2, <2>3, <2>4, <2>5, Zenon
<1> QED
  BY <1>1, <1>2, <1>3, <1>4, SMTT(30) DEF Delivering

(* The steps of expire keep it. *)
LEMMA ExpiringStep == ASSUME SpoolInv, Expiring PROVE SpoolInv'
<1> USE DEF SpoolInv, disk, memory, users
<1>1. CASE ExpireSweep
  <2>1. DiskInv' /\ MemoryInv' /\ OpInv' /\ reading' \in Reading
    BY <1>1, SMTT(30) DEF ExpireSweep, DiskInv, DiskOK, Directory, MemoryInv, MemoryOK, OpInv
  <2>2. UsersOK'
    BY <1>1 DEF ExpireSweep, Frames, UsersOK, DiskInv, DiskOK, Directory
  <2> QED
    BY <2>1, <2>2, Zenon
<1>2. CASE ExpireBegin
  <2>1. DiskInv' /\ MemoryInv' /\ reading' \in Reading /\ UsersOK'
    BY <1>2, Zenon DEF ExpireBegin, DiskInv, DiskOK, Directory, MemoryInv, MemoryOK, UsersOK
  <2>2. OpInv'
    <3>1. CASE Begin("sweep", sweep, "expired", {})
      BY <3>1, BeginInv DEF UsersOK, Kinds
    <3>2. CASE UNCHANGED op
      BY <1>2, <3>2, Zenon DEF ExpireBegin, OpInv
    <3> QED
      BY <1>2, <3>1, <3>2, Zenon DEF ExpireBegin
  <2> QED
    BY <2>1, <2>2, Zenon
<1> QED
  BY <1>1, <1>2, Zenon DEF Expiring

(* The steps of recover keep it. *)
LEMMA RecoveringStep == ASSUME SpoolInv, Recovering PROVE SpoolInv'
<1> USE DEF SpoolInv, disk, memory, users
<1>1. CASE RecoverLedger
  <2>1. DiskInv' /\ reading' \in Reading /\ UsersOK'
    BY <1>1, Zenon DEF RecoverLedger, DiskInv, DiskOK, Directory, UsersOK
  <2>2. MemoryInv'
    BY <1>1, Zenon DEF RecoverLedger, MemoryInv, MemoryOK, DiskInv, DiskOK, Directory
  <2>3. OpInv'
    <3>1. CASE UNCHANGED op
      BY <1>1, <3>1, Zenon DEF RecoverLedger, OpInv
    <3> DEFINE first == IF dir.segments = {} THEN 1 ELSE Min(dir.segments)
    <3>2. first \in 1..(MaxSeq + 1)
      <4>1. dir.segments \in SUBSET Seqs
        BY Zenon DEF DiskInv, DiskOK, Directory
      <4>2. dir.segments # {} => Min(dir.segments) \in Seqs
        BY <4>1, MinOf DEF Seqs
      <4> QED
        BY <4>2, MaxSeqAssumption DEF Seqs
    <3> DEFINE fresh == Fresh(first)
    <3>3. fresh \in Account /\ Balanced(fresh)
      <4> HIDE DEF first
      <4> QED
        BY <3>2, FreshBalances, Zenon
    <3>4. CASE op' = [Free EXCEPT !.step = "rename", !.owner = "ledger", !.ledger = fresh]
      <4> HIDE DEF fresh
      <4>1. /\ op' \in Operation /\ op'.ledger = fresh
            /\ op'.step = "rename" /\ op'.todo = {}
        BY <3>3, <3>4, FreeIsOperation, Zenon DEF Operation, Steps, Recovery
      <4> QED
        BY <3>3, <4>1, Zenon DEF OpInv
    <3> QED
      BY <1>1, <3>1, <3>4, Zenon DEF RecoverLedger
  <2> QED
    BY <2>1, <2>2, <2>3, Zenon
<1>2. CASE RecoverRemove
  <2>1. DiskInv' /\ MemoryInv' /\ OpInv' /\ reading' \in Reading /\ UsersOK'
    BY <1>2, Zenon DEF RecoverRemove, DiskInv, DiskOK, Directory, MemoryInv, MemoryOK, OpInv, UsersOK
  <2> QED
    BY <2>1, Zenon
<1>3. CASE RecoverLast
  <2>0. PICK torn \in BOOLEAN : RecoverTail(torn)
    BY <1>3, Zenon DEF RecoverLast
  <2>1. reading' \in Reading
    BY <2>0, Zenon DEF RecoverTail
  <2>2. DiskInv'
    BY <2>0, ZenonT(30) DEF RecoverTail, DiskInv, DiskOK, Directory
  <2>3. MemoryInv'
    <3> DEFINE held == dir.segments
               last == Max(held)
               whole == IF held = {} THEN {} ELSE Frames(last, Seqs)
               prev == IF held = {} THEN Highest(ledger) - 1 ELSE Max({last - 1} \cup whole)
               tail == IF held = {} THEN {} ELSE {q \in content[last] : q > prev}
               gaps == IF held = {} THEN {} ELSE Span(last, prev + 1) \ whole
               cut == IF torn THEN {} ELSE CutOff(prev, tail)
               nxt == Numbered(held, prev, gaps \cup cut)
               losses == gaps \cup cut \cup MissingBefore(held, nxt) \cup Span(prev + 1, nxt)
    <3>1. held \in SUBSET Seqs /\ content \in [Seqs -> SUBSET Seqs]
      BY Zenon DEF DiskInv, DiskOK, Directory
    <3>2. Highest(ledger) \in 1..(MaxSeq + 1)
      BY HighestOf, Zenon DEF MemoryInv, MemoryOK
    <3>3. prev \in 0..MaxSeq
      <4>1. CASE held = {}
        BY <3>2, <4>1, MaxSeqAssumption
      <4>2. CASE held # {}
        <5>1. held \in SUBSET (0..MaxSeq)
          BY <3>1 DEF Seqs
        <5>2. last \in Seqs
          <6> HIDE DEF held
          <6> QED
            BY <3>1, <4>2, <5>1, MaxOf, MaxSeqAssumption, Zenon
        <5>3. whole \in SUBSET Seqs
          BY <3>1, <4>2, <5>2, Zenon DEF Frames
        <5>4. ({last - 1} \cup whole) \in SUBSET (0..MaxSeq)
          BY <5>2, <5>3, MaxSeqAssumption, SMTT(30) DEF Seqs
        <5>5. prev = Max({last - 1} \cup whole)
          BY <4>2, Zenon
        <5> HIDE DEF last, whole, prev
        <5> QED
          BY <5>4, <5>5, MaxOf, MaxSeqAssumption, Zenon
      <4> QED
        BY <4>1, <4>2, Zenon
    <3>4. gaps \cup cut \in SUBSET Seqs
      BY Zenon DEF Span, CutOff
    <3>5. nxt \in 1..(MaxSeq + 1)
      <4> HIDE DEF held, prev, gaps, cut
      <4> QED
        BY <3>2, <3>3, <3>4, NumberedOf, Zenon
    <3>6. \A s \in held : Cardinality(content[s] \ tail) \in Nat
      <4> HIDE DEF held, tail
      <4> QED
        BY <3>1, SeqsFinite, Zenon
    <3>7. /\ segments' = [s \in held |-> Cardinality(content[s] \ tail)]
          /\ next' = nxt
          /\ active' = (held # {} /\ prev + 1 = nxt)
          /\ UNCHANGED <<phase, ledger, broken, used, cursor>>
      BY <2>0, Zenon DEF RecoverTail
    <3> HIDE DEF held, prev, tail, nxt
    <3> QED
      BY <3>1, <3>5, <3>6, <3>7, Zenon DEF MemoryInv, MemoryOK
  <2>4. OpInv'
    <3> DEFINE held == dir.segments
               last == Max(held)
               whole == IF held = {} THEN {} ELSE Frames(last, Seqs)
               prev == IF held = {} THEN Highest(ledger) - 1 ELSE Max({last - 1} \cup whole)
               tail == IF held = {} THEN {} ELSE {q \in content[last] : q > prev}
               gaps == IF held = {} THEN {} ELSE Span(last, prev + 1) \ whole
               cut == IF torn THEN {} ELSE CutOff(prev, tail)
               nxt == Numbered(held, prev, gaps \cup cut)
               losses == gaps \cup cut \cup MissingBefore(held, nxt) \cup Span(prev + 1, nxt)
               todo == Removable(held, nxt, ledger.settled)
    <3>1. losses \in SUBSET Seqs
      BY ZenonT(30) DEF Span, CutOff, MissingBefore
    <3>2. DOMAIN segments' = held /\ held \in SUBSET Seqs
      BY <2>0, Zenon DEF RecoverTail, DiskInv, DiskOK, Directory
    <3>3. todo \subseteq held
      BY Zenon DEF Removable
    <3>4. \/ op' = [Free EXCEPT !.step = "compact", !.owner = "recover", !.todo = todo]
          \/ Begin("losses", losses, "lost", {})
      BY <2>0, Zenon DEF RecoverTail
    <3> HIDE DEF held, losses, todo
    <3>5. CASE op' = [Free EXCEPT !.step = "compact", !.owner = "recover", !.todo = todo]
      BY <3>2, <3>3, <3>5, CompactInv, Zenon
    <3>6. CASE Begin("losses", losses, "lost", {})
      <4>1. "lost" \in Kinds /\ {} \in SUBSET Seqs /\ "losses" \in {"route", "sweep", "losses"} /\ MemoryInv
        BY Zenon DEF Kinds
      <4> QED
        BY <3>1, <3>6, <4>1, BeginInv, Zenon
    <3> QED
      BY <3>4, <3>5, <3>6, Zenon
  <2>5. UsersOK'
    <3> DEFINE held == dir.segments
               last == Max(held)
               whole == IF held = {} THEN {} ELSE Frames(last, Seqs)
               prev == IF held = {} THEN Highest(ledger) - 1 ELSE Max({last - 1} \cup whole)
               tail == IF held = {} THEN {} ELSE {q \in content[last] : q > prev}
               gaps == IF held = {} THEN {} ELSE Span(last, prev + 1) \ whole
               cut == IF torn THEN {} ELSE CutOff(prev, tail)
               nxt == Numbered(held, prev, gaps \cup cut)
               losses == gaps \cup cut \cup MissingBefore(held, nxt) \cup Span(prev + 1, nxt)
    <3>1. losses \in SUBSET Seqs
      BY ZenonT(30) DEF Span, CutOff, MissingBefore
    <3>2. judged' = judged \cup (losses \ ledger.settled)
      BY <2>0, Zenon DEF RecoverTail
    <3> HIDE DEF losses
    <3> QED
      BY <2>0, <3>1, <3>2, ZenonT(30) DEF RecoverTail, UsersOK
  <2> QED
    BY <2>1, <2>2, <2>3, <2>4, <2>5, Zenon
<1> QED
  BY <1>1, <1>2, <1>3, Zenon DEF Recovering

(* What the environment does keeps it. *)
LEMMA EnvironmentStep == ASSUME SpoolInv, Environment PROVE SpoolInv'
<1> USE DEF SpoolInv, disk, memory, users
<1>1. CASE Kill
  <2>1. DiskInv'
    BY <1>1, Zenon DEF Kill, Forget, DiskInv, DiskOK, Directory
  <2>2. MemoryInv'
    <3>1. Fresh(1) \in Account /\ Balanced(Fresh(1))
      BY FreshBalances, MaxSeqAssumption
    <3>2. DOMAIN segments' \subseteq Seqs /\ segments' \in [DOMAIN segments' -> Nat]
      BY <1>1, Zenon DEF Kill, Forget
    <3>3. next' \in 1..(MaxSeq + 1) /\ used' \in Int
      BY <1>1, MaxSeqAssumption DEF Kill, Forget
    <3>4. active' \in BOOLEAN /\ broken' \in BOOLEAN
      BY <1>1, Zenon DEF Kill, Forget
    <3>5. phase' = "down" /\ ledger' = Fresh(1) /\ cursor' \in Cursor
      BY <1>1, StillIsReading, Zenon DEF Kill, Forget
    <3> QED
      BY <3>1, <3>2, <3>3, <3>4, <3>5, Zenon DEF MemoryInv, MemoryOK
  <2>3. OpInv'
    BY <1>1, FreeInv, Zenon DEF Kill, Forget
  <2>4. reading' \in Reading
    BY <1>1, StillIsReading, Zenon DEF Kill, Forget
  <2>5. UsersOK'
    <3>1. EnvOK'
      BY <1>1, EnvStep DEF Kill, UsersOK, EnvOK
    <3> QED
      BY <1>1, <3>1, Zenon DEF Kill, UsersOK, EnvOK, Forget
  <2> QED
    BY <2>1, <2>2, <2>3, <2>4, <2>5, Zenon
<1>2. CASE Close
  <2>1. DiskInv'
    BY <1>2 DEF Close, Forget, DiskInv, DiskOK, Directory
  <2>2. MemoryInv'
    <3>1. Fresh(1) \in Account /\ Balanced(Fresh(1))
      BY FreshBalances, MaxSeqAssumption
    <3>2. DOMAIN segments' \subseteq Seqs /\ segments' \in [DOMAIN segments' -> Nat]
      BY <1>2, Zenon DEF Close, Forget
    <3>3. next' \in 1..(MaxSeq + 1) /\ used' \in Int
      BY <1>2, MaxSeqAssumption DEF Close, Forget
    <3>4. active' \in BOOLEAN /\ broken' \in BOOLEAN
      BY <1>2, Zenon DEF Close, Forget
    <3>5. phase' = "down" /\ ledger' = Fresh(1) /\ cursor' \in Cursor
      BY <1>2, StillIsReading, Zenon DEF Close, Forget
    <3> QED
      BY <3>1, <3>2, <3>3, <3>4, <3>5, Zenon DEF MemoryInv, MemoryOK
  <2>3. OpInv'
    BY <1>2, FreeInv, Zenon DEF Close, Forget
  <2>4. reading' \in Reading
    BY <1>2, StillIsReading, Zenon DEF Close, Forget
  <2>5. UsersOK'
    <3>1. EnvOK'
      BY <1>2, EnvStep DEF Close, UsersOK, EnvOK
    <3> QED
      BY <1>2, <3>1, Zenon DEF Close, UsersOK, EnvOK, Forget
  <2> QED
    BY <2>1, <2>2, <2>3, <2>4, <2>5, Zenon
<1>3. CASE Crash
  <2>1. DiskInv'
    BY <1>3 DEF Crash, Forget, DiskInv, DiskOK, Directory
  <2>2. MemoryInv'
    <3>1. Fresh(1) \in Account /\ Balanced(Fresh(1))
      BY FreshBalances, MaxSeqAssumption
    <3>2. DOMAIN segments' \subseteq Seqs /\ segments' \in [DOMAIN segments' -> Nat]
      BY <1>3, Zenon DEF Crash, Forget
    <3>3. next' \in 1..(MaxSeq + 1) /\ used' \in Int
      BY <1>3, MaxSeqAssumption DEF Crash, Forget
    <3>4. active' \in BOOLEAN /\ broken' \in BOOLEAN
      BY <1>3, Zenon DEF Crash, Forget
    <3>5. phase' = "down" /\ ledger' = Fresh(1) /\ cursor' \in Cursor
      BY <1>3, StillIsReading, Zenon DEF Crash, Forget
    <3> QED
      BY <3>1, <3>2, <3>3, <3>4, <3>5, Zenon DEF MemoryInv, MemoryOK
  <2>3. OpInv'
    BY <1>3, FreeInv, Zenon DEF Crash, Forget
  <2>4. reading' \in Reading
    BY <1>3, StillIsReading, Zenon DEF Crash, Forget
  <2>5. UsersOK'
    <3>1. EnvOK'
      BY <1>3, EnvStep, Zenon DEF Crash, UsersOK, EnvOK
    <3> QED
      BY <1>3, <3>1, Zenon DEF Crash, UsersOK, EnvOK, Forget
  <2> QED
    BY <2>1, <2>2, <2>3, <2>4, <2>5, Zenon
<1>4. CASE DamageFrame
  <2>1. DiskInv' /\ MemoryInv' /\ OpInv' /\ reading' \in Reading
    BY <1>4 DEF DamageFrame, OnDisk, DiskInv, DiskOK, Directory, MemoryInv, MemoryOK, OpInv
  <2>2. UsersOK'
    <3>1. EnvOK'
      BY <1>4, EnvStep, Zenon DEF DamageFrame, UsersOK, EnvOK
    <3> QED
      BY <1>4, <3>1 DEF DamageFrame, UsersOK, EnvOK, OnDisk, DiskInv, DiskOK, Directory
  <2> QED
    BY <2>1, <2>2, Zenon
<1>5. CASE DamageSegment
  <2>1. DiskInv' /\ MemoryInv' /\ OpInv' /\ reading' \in Reading
    BY <1>5 DEF DamageSegment, DiskInv, DiskOK, Directory, MemoryInv, MemoryOK, OpInv
  <2>2. UsersOK'
    <3>1. EnvOK'
      BY <1>5, EnvStep, Zenon DEF DamageSegment, UsersOK, EnvOK
    <3> QED
      BY <1>5, <3>1, Zenon DEF DamageSegment, UsersOK, EnvOK, DiskInv, DiskOK, Directory
  <2> QED
    BY <2>1, <2>2, Zenon
<1>6. CASE DamageLedger
  <2>1. MemoryInv' /\ OpInv' /\ reading' \in Reading
    BY <1>6, Zenon DEF DamageLedger, OnDisk, MemoryInv, MemoryOK, OpInv
  <2>2. DiskInv'
    <3> DEFINE spoilt(d) == [d EXCEPT !.ledger = Fresh(1), !.whole = FALSE]
    <3>1. Fresh(1) \in Account /\ Balanced(Fresh(1))
      BY FreshBalances, MaxSeqAssumption
    <3>2. \A d \in Directory : spoilt(d) \in Directory /\ Balanced(spoilt(d).ledger)
      BY <3>1, Zenon DEF Directory
    <3>3. dir' = spoilt(dir) /\ dirs' = {spoilt(d) : d \in dirs}
      BY <1>6, Zenon DEF DamageLedger
    <3>4. UNCHANGED <<content, headed, volatile, spoiled, effaced>>
      BY <1>6, Zenon DEF DamageLedger
    <3> HIDE DEF spoilt
    <3> QED
      BY <3>2, <3>3, <3>4, Zenon DEF DiskInv, DiskOK
  <2>3. UsersOK'
    <3>1. EnvOK'
      BY <1>6, EnvStep, Zenon DEF DamageLedger, UsersOK, EnvOK
    <3> QED
      BY <1>6, <3>1, Zenon DEF DamageLedger, UsersOK, EnvOK, OnDisk, DiskInv, DiskOK, Directory
  <2> QED
    BY <2>1, <2>2, <2>3, Zenon
<1>7. CASE Age
  <2>1. DiskInv' /\ MemoryInv' /\ OpInv' /\ reading' \in Reading
    BY <1>7, Zenon DEF Age, OnDisk, DiskInv, DiskOK, Directory, MemoryInv, MemoryOK, OpInv
  <2>2. UsersOK'
    BY <1>7 DEF Age, UsersOK, OnDisk, DiskInv, DiskOK, Directory
  <2> QED
    BY <2>1, <2>2, Zenon
<1> QED
  BY <1>1, <1>2, <1>3, <1>4, <1>5, <1>6, <1>7 DEF Environment
-----------------------------------------------------------------------------

LEMMA InitSpool == Init => SpoolInv
<1> SUFFICES ASSUME Init PROVE SpoolInv
  BY Zenon
<1>1. Fresh(1) \in Account /\ Balanced(Fresh(1))
  BY FreshBalances, MaxSeqAssumption
<1>2. DiskInv
  BY <1>1, SMTT(30) DEF Init, DiskInv, DiskOK, Directory
<1>3. MemoryInv
  <2>1. DOMAIN segments \subseteq Seqs /\ segments \in [DOMAIN segments -> Nat]
    BY Zenon DEF Init
  <2>2. next \in 1..(MaxSeq + 1) /\ used \in Int
    BY MaxSeqAssumption, SMTT(30) DEF Init
  <2>3. active \in BOOLEAN /\ broken \in BOOLEAN
    BY ZenonT(30) DEF Init
  <2>4. phase = "down" /\ ledger = Fresh(1) /\ cursor \in Cursor
    BY StillIsReading, Zenon DEF Init
  <2> QED
    BY <1>1, <2>1, <2>2, <2>3, <2>4, Zenon DEF MemoryInv, MemoryOK
<1>4. OpInv
  BY FreeIsOperation, Zenon DEF Init, OpInv
<1>5. reading \in Reading
  BY StillIsReading, Zenon DEF Init
<1>6. UsersOK
  BY BoundsAssumption, SMTT(30) DEF Init, UsersOK
<1> QED
  BY <1>2, <1>3, <1>4, <1>5, <1>6, Zenon DEF SpoolInv

LEMMA SpoolStep == ASSUME SpoolInv, [Next]_vars PROVE SpoolInv'
<1>1. CASE UNCHANGED vars
  BY <1>1, Zenon DEF vars, disk, memory, users, SpoolInv, DiskInv, DiskOK, MemoryInv, MemoryOK, OpInv, UsersOK
<1> QED
  BY <1>1, SettlingStep, AdmittingStep, DeliveringStep, ExpiringStep, RecoveringStep, EnvironmentStep, SMTT(30)
  DEF Next

LEMMA SpoolInvariant == Spec => []SpoolInv
BY InitSpool, SpoolStep, PTL DEF Spec

(* The state of a stream keeps its types: no step of admit, read, settle,
   expire or recover, and nothing the environment does, leads out of them. In
   particular the next sequence stays in range and a compaction only gives
   back room of segments the queue holds. *)
THEOREM SpoolTyped == Spec => []TypeOK
<1>1. SpoolInv => TypeOK
  BY Zenon DEF SpoolInv, DiskInv, MemoryInv, OpInv, TypeOK
<1> QED
  BY <1>1, SpoolInvariant, PTL

(* Every record that settles is counted once, under one reason, in the ledger
   in memory, in the one being written and in every one a crash may bring
   back, for any number of records, crashes, errors and damaged files. *)
THEOREM EveryRecordCountedOnce == Spec => []CountedOnce
<1>1. SpoolInv => CountedOnce
  BY Zenon DEF SpoolInv, DiskInv, MemoryInv, OpInv, CountedOnce
<1> QED
  BY <1>1, SpoolInvariant, PTL
=============================================================================
