--------------------------- MODULE DeliveryProofs ---------------------------
(***************************************************************************)
(* Proofs about the route that delivers a stream (Delivery.tla,            *)
(* Settling.tla), for any number of records, any limits and any number of  *)
(* failures, restarts and expiries.                                        *)
(***************************************************************************)
EXTENDS Settling, FiniteSetTheorems, TLAPS

(* Min of a set of natural numbers is one of them, and no other is below. *)
LEMMA MinOf ==
  ASSUME NEW S \in SUBSET Nat, S # {}
  PROVE  Min(S) \in S /\ \A y \in S : Min(S) <= y
<1> DEFINE below == {ss \in Nat \X Nat : ss[1] < ss[2]}
<1>0. IsWellFoundedOn(below, Nat)
  BY NatLessThanWellFounded DEF OpToRel
<1>1. PICK x \in S : \A y \in S : ~ (<<y, x>> \in below)
  <2> HIDE DEF below
  <2> QED
    BY <1>0, WFMin, Zenon
<1>2. \A y \in S : x <= y
  <2>1. \A y \in S : ~ (y < x)
    BY <1>1, Zenon
  <2> QED
    BY <2>1
<1> QED
  BY <1>2, Zenon DEF Min

(* Max of a set of natural numbers below a bound is one of them, and no other
   is above. *)
LEMMA MaxOf ==
  ASSUME NEW n \in Nat, NEW S \in SUBSET (0..n), S # {}
  PROVE  Max(S) \in S /\ \A y \in S : Max(S) >= y
<1> DEFINE T == {n - x : x \in S}
<1>1. T \in SUBSET Nat /\ T # {}
  <2>1. PICK y \in S : TRUE
    BY Zenon
  <2>2. n - y \in T
    OBVIOUS
  <2>3. \A x \in S : n - x \in Nat
    OBVIOUS
  <2> QED
    BY <2>2, <2>3, Zenon
<1>2. Min(T) \in T /\ \A y \in T : Min(T) <= y
  <2> HIDE DEF T
  <2> QED
    BY <1>1, MinOf
<1>3. PICK x \in S : Min(T) = n - x
  BY <1>2, Zenon
<1>4. \A y \in S : x >= y
  <2> TAKE y \in S
  <2>1. n - y \in T
    OBVIOUS
  <2>2. n - x <= n - y
    BY <1>2, <1>3, <2>1, Zenon
  <2> QED
    BY <2>2
<1> QED
  BY <1>4, Zenon DEF Max

Bad == Unreadable \cup Undecodable \cup Refused

(* What is on the wire, what was answered and what is being settled speak of
   the batch that is pending: an answer is only ever taken for the request the
   route waits on, and that request carries the pending batch. *)
AnswerInv ==
  /\ answer # NoAnswer => phase = "sent"
  /\ \A q \in wire : q.id <= request
  /\ phase = "sent" => \A q \in wire : q.id = request => q.records = pending
  /\ answer.outcome = "durable" => pending \subseteq kept
  /\ answer.outcome = "record_refused" => answer.record \in Refused
  /\ answer.outcome = "batch_too_large"
       => Cardinality(pending) > PlatformMost \/ pending \cap Undecodable # {}
  /\ phase = "settling" /\ refused = 0 => pending \subseteq kept
  /\ phase = "settling" /\ refused # 0 => refused \in Bad

(* Where the records the route has taken from the spool are. *)
PlaceInv ==
  /\ next <= admitted + 1
  /\ phase # "composing" => read = {} /\ entries = {}
  /\ phase \in {"top", "listening", "composing", "idle"} => pending = {}
  /\ \A s \in read : s < next

(* No quarantine fails while a batch is composed. *)
Strict == QuarantineFails = FALSE /\ part # "faults"

DeliveryInv ==
  /\ TypeOK
  /\ AnswerInv
  /\ PlaceInv
  /\ DeliveredIsKept
  /\ OnlyBadQuarantined
  /\ (Strict => NothingPassedOver)

(* What a step of the route keeps of it. *)
DeliveryKept ==
  /\ TypeOK'
  /\ AnswerInv'
  /\ PlaceInv'
  /\ DeliveredIsKept'
  /\ OnlyBadQuarantined'
  /\ (Strict => NothingPassedOver')

-----------------------------------------------------------------------------

LEMMA SeqsFinite == \A S \in SUBSET Seqs : IsFiniteSet(S) /\ Cardinality(S) \in Nat
<1>1. MaxSeq \in Int
  BY DeliveryAssumption
<1>2. IsFiniteSet(Seqs)
  BY <1>1, FS_Interval DEF Seqs
<1> QED
  BY <1>2, FS_Subset, FS_CardinalityType, Zenon

(* The window a split or a refusal leaves. *)
LEMMA HalfOrOne == ASSUME NEW n \in Nat PROVE Max({n, 1}) \in Nat
<1> DEFINE both == {n, 1}
<1>1. both \in SUBSET (0..(n + 1)) /\ both # {} /\ n + 1 \in Nat
  OBVIOUS
<1>2. both \in SUBSET Nat
  OBVIOUS
<1> HIDE DEF both
<1>3. Max(both) \in both
  BY <1>1, MaxOf, Zenon
<1> QED
  BY <1>2, <1>3, Zenon DEF both

(* What settling does to the fate of a record. *)
LEMMA SettledOf ==
  ASSUME fate \in [Seqs -> Fates], NEW seqs, NEW kind \in {"delivered", "quarantined", "expired"},
         fate' = Settled(seqs, kind)
  PROVE  /\ fate' \in [Seqs -> Fates]
         /\ \A s \in Seqs : fate'[s] # fate[s] => s \in seqs /\ fate'[s] = kind
         /\ \A s \in Seqs : fate'[s] = "unsettled" => s \notin seqs /\ fate[s] = "unsettled"
  BY Zenon DEF Settled, Fates

(* What the spool holds is numbered as it was admitted. *)
LEMMA HeldAreSeqs == TypeOK => Held \subseteq Seqs
  BY DeliveryAssumption DEF TypeOK, Held, Seqs

LEMMA HeldShrinks ==
  ASSUME TypeOK, admitted' = admitted,
         \A t \in Seqs : fate'[t] = "unsettled" => fate[t] = "unsettled"
  PROVE  Held' \subseteq Held
<1>1. 1..admitted \subseteq Seqs
  BY DeliveryAssumption DEF TypeOK, Seqs
<1> HIDE DEF Seqs
<1> QED
  BY <1>1, Zenon DEF Held

LEMMA InitDelivery == Init => DeliveryInv
<1> SUFFICES ASSUME Init PROVE DeliveryInv
  BY Zenon
<1>1. TypeOK
  <2>1. announced \in BOOLEAN /\ answer \in Answers /\ nature \in [Seqs -> Natures]
    BY Zenon DEF Init, Answers
  <2> QED
    BY <2>1, DeliveryAssumption DEF Init, TypeOK, Fates, Phases
<1>2. AnswerInv
  BY Zenon DEF Init, AnswerInv, NoAnswer
<1>3. PlaceInv
  BY DEF Init, PlaceInv
<1>4. DeliveredIsKept /\ OnlyBadQuarantined /\ NothingPassedOver
  BY DEF Init, DeliveredIsKept, OnlyBadQuarantined, NothingPassedOver, Held, Seqs
<1> QED
  BY <1>1, <1>2, <1>3, <1>4, Zenon DEF DeliveryInv

(* Admit and Age keep the invariant. *)
LEMMA SpoolKeeps ==
  ASSUME TypeOK, AnswerInv, PlaceInv, DeliveredIsKept, OnlyBadQuarantined,
         Strict => NothingPassedOver,
         Admit \/ \E s \in Seqs : Age(s)
  PROVE  DeliveryKept
<1>1. CASE Admit
  <2>1. TypeOK'
    BY <1>1, DeliveryAssumption DEF Admit, TypeOK, composing, platform, bounds
  <2>2. AnswerInv'
    BY <1>1, Zenon DEF Admit, AnswerInv, composing, platform, bounds, Refused, Undecodable, Unreadable, Bad
  <2>3. PlaceInv'
    BY <1>1 DEF Admit, PlaceInv, composing, platform, TypeOK
  <2>4. DeliveredIsKept' /\ OnlyBadQuarantined'
    BY <1>1, Zenon DEF Admit, DeliveredIsKept, OnlyBadQuarantined, Unreadable, Undecodable, Refused, platform
  <2>5. NothingPassedOver => NothingPassedOver'
    BY <1>1 DEF Admit, NothingPassedOver, Held, PlaceInv, TypeOK, composing
  <2> QED
    BY <2>1, <2>2, <2>3, <2>4, <2>5, Zenon DEF DeliveryKept
<1>2. ASSUME NEW s \in Seqs, Age(s) PROVE DeliveryKept
  <2>0. /\ fate' \in [Seqs -> Fates]
        /\ \A t \in Seqs : fate'[t] # fate[t] => t \in {s} /\ fate'[t] = "expired"
        /\ \A t \in Seqs : fate'[t] = "unsettled" => t \notin {s} /\ fate[t] = "unsettled"
    BY <1>2, SettledOf, Zenon DEF Age, TypeOK
  <2>1. TypeOK'
    BY <1>2, <2>0, Zenon DEF Age, TypeOK, composing, platform, bounds
  <2>2. AnswerInv'
    BY <1>2, Zenon DEF Age, AnswerInv, composing, platform, bounds, Refused, Undecodable, Unreadable, Bad
  <2>3. PlaceInv'
    BY <1>2, Zenon DEF Age, PlaceInv, composing, platform, TypeOK
  <2>4. DeliveredIsKept' /\ OnlyBadQuarantined'
    BY <1>2, <2>0, Zenon DEF Age, DeliveredIsKept, OnlyBadQuarantined, Unreadable, Undecodable, Refused, platform
  <2>5. NothingPassedOver => NothingPassedOver'
    <3>1. Held' \subseteq Held
      BY <1>2, <2>0, HeldShrinks, Zenon DEF Age
    <3> QED
      BY <1>2, <3>1, Zenon DEF Age, NothingPassedOver, composing
  <2> QED
    BY <2>1, <2>2, <2>3, <2>4, <2>5, Zenon DEF DeliveryKept
<1> QED
  BY <1>1, <1>2, Zenon

(* compose and the waits around it keep the invariant. *)
LEMMA ComposingKeeps ==
  ASSUME TypeOK, AnswerInv, PlaceInv, DeliveredIsKept, OnlyBadQuarantined,
         Strict => NothingPassedOver,
         Composing \/ ReadFails \/ (QuarantineLost /\ ~Strict)
  PROVE  DeliveryKept
<1>1. CASE Listen
  <2>1. TypeOK'
    BY <1>1, Zenon DEF Listen, TypeOK, Phases, spool, composing, platform, bounds
  <2>2. AnswerInv'
    BY <1>1, Zenon DEF Listen, AnswerInv, TypeOK, Refused, Undecodable, Unreadable, Bad, spool, composing, platform, bounds
  <2>3. PlaceInv'
    BY <1>1, Zenon DEF Listen, PlaceInv, TypeOK, spool, composing, platform, bounds
  <2>4. DeliveredIsKept' /\ OnlyBadQuarantined'
    BY <1>1, Zenon DEF Listen, DeliveredIsKept, OnlyBadQuarantined, Refused, Undecodable, Unreadable, spool, composing, platform, bounds
  <2>5. Strict => NothingPassedOver'
    BY <1>1, Zenon DEF Listen, NothingPassedOver, Held, PlaceInv, spool, composing, platform, bounds
  <2> QED
    BY <2>1, <2>2, <2>3, <2>4, <2>5, Zenon DEF DeliveryKept
<1>2. CASE Read
  <2> PICK r \in Readable \ {{}} : read' = r /\ next' = Max(r) + 1
    BY <1>2, Zenon DEF Read
  <2>0. r \subseteq Held /\ (\A s \in r : s >= next)
        /\ \A s \in r, t \in Held : t >= next /\ t < s => t \in r
    BY Zenon DEF Readable
  <2>a. Max(r) \in r /\ \A s \in r : Max(r) >= s
    <3>1. r \in SUBSET (0..MaxSeq) /\ r # {}
      BY <2>0, HeldAreSeqs DEF Seqs
    <3> QED
      BY <3>1, MaxOf, DeliveryAssumption, Zenon
  <2>b. Max(r) \in 1..admitted
    BY <2>0, <2>a, Zenon DEF Held
  <2>1. TypeOK'
    BY <1>2, <2>0, <2>b, HeldAreSeqs, DeliveryAssumption DEF Read, TypeOK, Phases, spool, platform, bounds
  <2>2. AnswerInv'
    BY <1>2, <2>0, Zenon DEF Read, AnswerInv, TypeOK, Refused, Undecodable, Unreadable, Bad, spool, platform, bounds
  <2>3. PlaceInv'
    BY <1>2, <2>0, <2>a, <2>b DEF Read, PlaceInv, TypeOK, Held, spool
  <2>4. DeliveredIsKept' /\ OnlyBadQuarantined'
    BY <1>2, <2>0, Zenon DEF Read, DeliveredIsKept, OnlyBadQuarantined, Refused, Undecodable, Unreadable, spool, platform, bounds
  <2>5. Strict => NothingPassedOver'
    <3>1. Held' = Held /\ read = {} /\ entries' = {} /\ pending' = {}
      BY <1>2, Zenon DEF Read, Held, spool, PlaceInv
    <3>2. ASSUME Strict, NEW s \in Held, s < next' PROVE s \in r
      <4>1. s \in Nat /\ next \in Nat
        BY DEF Held, TypeOK
      <4>2. ~(s < next)
        BY <1>2, <3>1, <3>2, Zenon DEF NothingPassedOver, Read, PlaceInv
      <4>3. s <= Max(r)
        BY <2>b, <3>2, <4>1
      <4> QED
        BY <2>0, <2>a, <2>b, <4>1, <4>2, <4>3
    <3> QED
      BY <3>1, <3>2, Zenon DEF NothingPassedOver
  <2> QED
    BY <2>1, <2>2, <2>3, <2>4, <2>5, Zenon DEF DeliveryKept
<1>3. CASE ReadNothing
  <2>1. TypeOK'
    BY <1>3, Zenon DEF ReadNothing, TypeOK, Phases, spool, composing, platform, bounds
  <2>2. AnswerInv'
    BY <1>3, Zenon DEF ReadNothing, AnswerInv, TypeOK, Refused, Undecodable, Unreadable, Bad, spool, composing, platform, bounds
  <2>3. PlaceInv'
    BY <1>3, Zenon DEF ReadNothing, PlaceInv, TypeOK, spool, composing, platform, bounds
  <2>4. DeliveredIsKept' /\ OnlyBadQuarantined'
    BY <1>3, Zenon DEF ReadNothing, DeliveredIsKept, OnlyBadQuarantined, Refused, Undecodable, Unreadable, spool, composing, platform, bounds
  <2>5. Strict => NothingPassedOver'
    BY <1>3, Zenon DEF ReadNothing, NothingPassedOver, Held, PlaceInv, spool, composing, platform, bounds
  <2> QED
    BY <2>1, <2>2, <2>3, <2>4, <2>5, Zenon DEF DeliveryKept
<1>4. CASE ReadFails
  <2>1. TypeOK'
    BY <1>4, DeliveryAssumption DEF ReadFails, TypeOK, Phases, spool, composing, platform, Fault
  <2>2. AnswerInv'
    BY <1>4, Zenon DEF ReadFails, AnswerInv, TypeOK, Refused, Undecodable, Unreadable, Bad, spool, composing, platform
  <2>3. PlaceInv'
    BY <1>4, Zenon DEF ReadFails, PlaceInv, TypeOK, spool, composing, platform
  <2>4. DeliveredIsKept' /\ OnlyBadQuarantined'
    BY <1>4, Zenon DEF ReadFails, DeliveredIsKept, OnlyBadQuarantined, Refused, Undecodable, Unreadable, spool, composing, platform
  <2>5. Strict => NothingPassedOver'
    BY <1>4, Zenon DEF ReadFails, NothingPassedOver, Held, PlaceInv, spool, composing, platform
  <2> QED
    BY <2>1, <2>2, <2>3, <2>4, <2>5, Zenon DEF DeliveryKept
<1>5. CASE Woken
  <2>1. TypeOK'
    BY <1>5, Zenon DEF Woken, TypeOK, Phases, spool, composing, platform, bounds
  <2>2. AnswerInv'
    BY <1>5, Zenon DEF Woken, AnswerInv, TypeOK, Refused, Undecodable, Unreadable, Bad, spool, composing, platform, bounds
  <2>3. PlaceInv'
    BY <1>5, Zenon DEF Woken, PlaceInv, TypeOK, spool, composing, platform, bounds
  <2>4. DeliveredIsKept' /\ OnlyBadQuarantined'
    BY <1>5, Zenon DEF Woken, DeliveredIsKept, OnlyBadQuarantined, Refused, Undecodable, Unreadable, spool, composing, platform, bounds
  <2>5. Strict => NothingPassedOver'
    BY <1>5, Zenon DEF Woken, NothingPassedOver, Held, PlaceInv, spool, composing, platform, bounds
  <2> QED
    BY <2>1, <2>2, <2>3, <2>4, <2>5, Zenon DEF DeliveryKept
<1>6. CASE Pick
  <2>0. Min(read) \in read /\ \A s \in read : Min(read) <= s
    BY <1>6, MinOf DEF Pick, TypeOK, Seqs
  <2>1. TypeOK'
    BY <1>6, <2>0, Zenon DEF Pick, TypeOK, Phases, spool, platform, bounds
  <2>2. AnswerInv'
    BY <1>6, <2>0, Zenon DEF Pick, AnswerInv, TypeOK, Refused, Undecodable, Unreadable, Bad, spool, platform, bounds
  <2>3. PlaceInv'
    BY <1>6, <2>0, Zenon DEF Pick, PlaceInv, TypeOK, spool, platform, bounds
  <2>4. DeliveredIsKept' /\ OnlyBadQuarantined'
    BY <1>6, <2>0, Zenon DEF Pick, DeliveredIsKept, OnlyBadQuarantined, Refused, Undecodable, Unreadable, spool, platform, bounds
  <2>5. Strict => NothingPassedOver'
    BY <1>6, <2>0, Zenon DEF Pick, NothingPassedOver, Held, PlaceInv, spool, platform, bounds
  <2> QED
    BY <2>1, <2>2, <2>3, <2>4, <2>5, Zenon DEF DeliveryKept
<1>7. CASE PickQuarantined
  <2>0. Min(read) \in read /\ \A s \in read : Min(read) <= s
    BY <1>7, MinOf DEF PickQuarantined, TypeOK, Seqs
  <2>a. /\ fate' \in [Seqs -> Fates]
        /\ \A s \in Seqs : fate'[s] # fate[s] => s \in {Min(read)} /\ fate'[s] = "quarantined"
        /\ \A s \in Seqs : fate'[s] = "unsettled" => s \notin {Min(read)} /\ fate[s] = "unsettled"
    BY <1>7, SettledOf, Zenon DEF PickQuarantined, TypeOK
  <2>1. TypeOK'
    BY <1>7, <2>0, <2>a, Zenon DEF PickQuarantined, TypeOK, Phases, platform, bounds
  <2>2. AnswerInv'
    BY <1>7, <2>0, Zenon DEF PickQuarantined, AnswerInv, TypeOK, Refused, Undecodable, Unreadable, Bad, platform, bounds
  <2>3. PlaceInv'
    BY <1>7, <2>0, Zenon DEF PickQuarantined, PlaceInv, TypeOK, platform, bounds
  <2>4. DeliveredIsKept' /\ OnlyBadQuarantined'
    BY <1>7, <2>0, <2>a, Zenon DEF PickQuarantined, DeliveredIsKept, OnlyBadQuarantined, Refused, Undecodable, Unreadable, platform, Fates
  <2>5. Strict => NothingPassedOver'
    <3>1. Held' \subseteq Held
      BY <1>7, <2>a, HeldShrinks, Zenon DEF PickQuarantined
    <3>2. Min(read) \notin Held'
      BY <2>a, <2>0, Zenon DEF Held, TypeOK
    <3> QED
      BY <1>7, <3>1, <3>2, Zenon DEF PickQuarantined, NothingPassedOver
  <2> QED
    BY <2>1, <2>2, <2>3, <2>4, <2>5, Zenon DEF DeliveryKept
<1>8. CASE QuarantineLost /\ ~Strict
  <2>0. Min(read) \in read /\ \A s \in read : Min(read) <= s
    BY <1>8, MinOf DEF QuarantineLost, TypeOK, Seqs
  <2>y. Min(read) \in 1..MaxSeq /\ Min(read) < next
    <3>1. read \subseteq 1..MaxSeq
      BY Zenon DEF TypeOK, Seqs
    <3>2. \A s \in read : s < next
      BY Zenon DEF PlaceInv
    <3> QED
      BY <2>0, <3>1, <3>2, Zenon
  <2>1. TypeOK'
    BY <1>8, <2>y, DeliveryAssumption DEF QuarantineLost, TypeOK, Phases, Fault, spool, platform
  <2>2. AnswerInv'
    BY <1>8, <2>0, Zenon DEF QuarantineLost, AnswerInv, TypeOK, Refused, Undecodable, Unreadable, Bad, spool, platform
  <2>3. PlaceInv'
    BY <1>8, <2>y DEF QuarantineLost, TypeOK, PlaceInv, spool, platform
  <2>4. DeliveredIsKept' /\ OnlyBadQuarantined'
    BY <1>8, <2>0, Zenon DEF QuarantineLost, DeliveredIsKept, OnlyBadQuarantined, Refused, Undecodable, Unreadable, spool, platform
  <2>5. Strict => NothingPassedOver'
    BY <1>8, Zenon DEF QuarantineLost
  <2> QED
    BY <2>1, <2>2, <2>3, <2>4, <2>5, Zenon DEF DeliveryKept
<1>9. CASE Cut
  <2>0. Min(read) \in read /\ \A s \in read : Min(read) <= s
    BY <1>9, MinOf DEF Cut, TypeOK, Seqs
  <2>y. Min(read) \in 1..MaxSeq /\ Min(read) < next
    <3>1. read \subseteq 1..MaxSeq
      BY Zenon DEF TypeOK, Seqs
    <3>2. \A s \in read : s < next
      BY Zenon DEF PlaceInv
    <3> QED
      BY <2>0, <3>1, <3>2, Zenon
  <2>1. TypeOK'
    BY <1>9, <2>y, DeliveryAssumption DEF Cut, TypeOK, spool, platform, bounds
  <2>2. AnswerInv'
    BY <1>9, <2>0, Zenon DEF Cut, AnswerInv, TypeOK, Refused, Undecodable, Unreadable, Bad, spool, platform, bounds
  <2>3. PlaceInv'
    BY <1>9, <2>y DEF Cut, TypeOK, PlaceInv, spool
  <2>4. DeliveredIsKept' /\ OnlyBadQuarantined'
    BY <1>9, <2>0, Zenon DEF Cut, DeliveredIsKept, OnlyBadQuarantined, Refused, Undecodable, Unreadable, spool, platform, bounds
  <2>5. Strict => NothingPassedOver'
    <3>1. Held' = Held /\ read' = {} /\ entries' = entries /\ pending' = pending /\ next' = Min(read)
      BY <1>9, Zenon DEF Cut, Held, spool
    <3>2. ASSUME NEW s \in Held, s < Min(read) PROVE s < next /\ s \notin read
      BY <2>0, <2>y, <3>2 DEF Held, TypeOK
    <3> QED
      BY <3>1, <3>2, Zenon DEF NothingPassedOver
  <2> QED
    BY <2>1, <2>2, <2>3, <2>4, <2>5, Zenon DEF DeliveryKept
<1>10. CASE Frame
  <2>1. TypeOK'
    BY <1>10, Zenon DEF Frame, TypeOK, Phases, spool, platform, bounds
  <2>2. AnswerInv'
    BY <1>10 DEF Frame, AnswerInv, NoAnswer, Refused, Undecodable, Unreadable, Bad, spool, platform
  <2>3. PlaceInv'
    BY <1>10, Zenon DEF Frame, PlaceInv, TypeOK, spool, platform, bounds
  <2>4. DeliveredIsKept' /\ OnlyBadQuarantined'
    BY <1>10, Zenon DEF Frame, DeliveredIsKept, OnlyBadQuarantined, Refused, Undecodable, Unreadable, spool, platform, bounds
  <2>5. Strict => NothingPassedOver'
    BY <1>10, Zenon DEF Frame, NothingPassedOver, Held, PlaceInv, spool, platform, bounds
  <2> QED
    BY <2>1, <2>2, <2>3, <2>4, <2>5, Zenon DEF DeliveryKept
<1> QED
  BY <1>1, <1>2, <1>3, <1>4, <1>5, <1>6, <1>7, <1>8, <1>9, <1>10, Zenon DEF Composing

(* The first records of a batch are below the others. *)
LEMMA FirstAreLower ==
  ASSUME TypeOK, NEW n \in Nat,
         NEW s \in First(n, pending), NEW t \in pending \ First(n, pending)
  PROVE  s < t
<1> DEFINE upto(x) == {u \in pending : u <= x}
<1>1. s \in Nat /\ t \in Nat /\ s \in pending /\ t \in pending
  BY DEF First, TypeOK, Seqs
<1>2. Cardinality(upto(s)) <= n /\ ~(Cardinality(upto(t)) <= n)
  BY Zenon DEF First
<1>3. \A x : IsFiniteSet(upto(x)) /\ Cardinality(upto(x)) \in Nat
  <2> TAKE x
  <2>1. upto(x) \in SUBSET Seqs
    BY Zenon DEF TypeOK
  <2> QED
    BY <2>1, SeqsFinite, Zenon
<1>4. ASSUME t <= s PROVE FALSE
  <2>1. upto(t) \in SUBSET upto(s)
    <3>1. \A u \in pending : u \in Nat
      BY DEF TypeOK, Seqs
    <3>2. \A u \in pending : u <= t => u <= s
      BY <1>1, <1>4, <3>1
    <3> QED
      BY <3>2, Zenon
  <2>2. Cardinality(upto(t)) <= Cardinality(upto(s))
    <3> HIDE DEF upto
    <3> QED
      BY <1>3, <2>1, FS_Subset, Zenon
  <2> HIDE DEF upto
  <2> QED
    BY <1>2, <1>3, <2>2
<1> QED
  BY <1>1, <1>4

(* split keeps the lower half of the batch, and goes back to the rest. *)
LEMMA SplitTakes ==
  ASSUME TypeOK, Split
  PROVE  /\ pending' \subseteq pending
         /\ next' \in 1..(MaxSeq + 1) /\ next' <= next
         /\ \A s \in pending \ pending' : next' <= s
         /\ \A s \in pending' : s < next => s < next'
<1> DEFINE first == First(Half, pending)
           rest == pending \ first
<1>0. first \subseteq pending /\ pending \subseteq Seqs /\ next \in 1..(MaxSeq + 1)
  BY Zenon DEF First, TypeOK
<1>a. /\ pending' = first /\ next' = Min({next, Min(rest)}) /\ phase' = "ready" /\ answer' = NoAnswer
      /\ window' = Max({Half, 1})
  BY Zenon DEF Split
<1>b. rest # {}
  <2>1. Cardinality(pending) \in Nat /\ Cardinality(pending) > 1 /\ IsFiniteSet(pending)
    BY <1>0, SeqsFinite, Zenon DEF Split
  <2>2. pending \in SUBSET (0..MaxSeq) /\ pending # {}
    BY <1>0, <2>1, FS_EmptySet DEF Seqs
  <2>3. Max(pending) \in pending /\ \A s \in pending : Max(pending) >= s
    BY <2>2, MaxOf, DeliveryAssumption, Zenon
  <2>4. {t \in pending : t <= Max(pending)} = pending
    BY <1>0, <2>3, Zenon DEF Seqs
  <2>5. ~(Cardinality(pending) <= Half)
    BY <2>1 DEF Half
  <2>6. Max(pending) \notin first
    BY <2>4, <2>5, Zenon DEF First
  <2> QED
    BY <2>3, <2>6, Zenon
<1>c. rest \in SUBSET Nat /\ Min(rest) \in rest /\ \A s \in rest : Min(rest) <= s
  <2>1. rest \in SUBSET Nat
    <3> HIDE DEF first
    <3> QED
      BY <1>0 DEF Seqs
  <2> HIDE DEF rest
  <2> QED
    BY <1>b, <2>1, MinOf, Zenon
<1>d. next' \in 1..(MaxSeq + 1) /\ next' <= next /\ next' \in {next, Min(rest)} /\ \A s \in rest : next' <= s
  <2>1. Min(rest) \in 1..MaxSeq
    BY <1>0, <1>b, <1>c, Zenon DEF Seqs
  <2>2. next' \in {next, Min(rest)} /\ \A y \in {next, Min(rest)} : next' <= y
    <3> DEFINE both == {next, Min(rest)}
    <3>1. both \in SUBSET Nat /\ both # {} /\ next' = Min(both)
      BY <1>0, <1>a, <2>1
    <3> HIDE DEF both
    <3>2. next' \in both /\ \A y \in both : next' <= y
      BY <3>1, MinOf, Zenon
    <3> QED
      BY <3>2, Zenon DEF both
  <2> HIDE DEF rest
  <2> QED
    BY <1>0, <1>b, <1>c, <2>1, <2>2, DeliveryAssumption
<1>e. \A s \in first : s < Min(rest)
  <2>1. Half \in Nat
    BY <1>0, SeqsFinite DEF Half
  <2> QED
    BY <1>c, <2>1, FirstAreLower, Zenon
<1> HIDE DEF first, rest
<1>1. \A s \in first : s < next => s < next'
  BY <1>d, <1>e, Zenon
<1> QED
  BY <1>0, <1>a, <1>d, <1>1, Zenon DEF rest

(* refuse keeps what is below the refused record, and goes back to what is
   above it. *)
LEMMA RefusalTakes ==
  ASSUME TypeOK, Quarantine
  PROVE  /\ next' \in 1..(MaxSeq + 1) /\ next' <= next
         /\ \A s \in pending : s > refused => next' <= s
         /\ \A s \in pending' : s \in pending /\ s # refused /\ (s < next => s < next')
<1>1. next \in 1..(MaxSeq + 1) /\ After \subseteq 1..MaxSeq
  BY Zenon DEF TypeOK, After, Seqs
<1> DEFINE them == {next} \cup After
<1>2. them \in SUBSET Nat /\ them # {}
  BY <1>1
<1>3. Min(them) \in them /\ \A y \in them : Min(them) <= y
  <2> HIDE DEF them
  <2> QED
    BY <1>2, MinOf, Zenon
<1>4. next' = Min(them)
  BY Zenon DEF Quarantine
<1>5. them \subseteq 1..(MaxSeq + 1)
  BY <1>1, DeliveryAssumption
<1>6. \A s \in pending : s \in Nat
  BY DEF TypeOK, Seqs
<1>7. pending' = Before /\ refused \in Nat
  BY DEF Quarantine, TypeOK
<1>8. \A s \in pending' : s \in pending /\ s # refused /\ (s < next => s < next')
  BY <1>1, <1>3, <1>4, <1>6, <1>7 DEF Before, After
<1> QED
  BY <1>3, <1>4, <1>5, <1>8, Zenon DEF After

(* deliver keeps the invariant. *)
LEMMA DeliveringKeeps ==
  ASSUME TypeOK, AnswerInv, PlaceInv, DeliveredIsKept, OnlyBadQuarantined,
         Strict => NothingPassedOver,
         Delivering \/ Unanswered \/ SettleFails
  PROVE  DeliveryKept
<1>1. CASE Send
  <2>1. TypeOK'
    BY <1>1 DEF Send, TypeOK, Phases, Requests, spool, composing, bounds
  <2>2. AnswerInv'
    <3> DEFINE sent == [id |-> request + 1, records |-> pending]
    <3>1. \A q \in wire' : q \in wire \/ (q.id = request + 1 /\ q.records = pending)
      BY <1>1 DEF Send
    <3>2. \A q \in wire : q.id < request + 1 /\ q.id # request + 1
      BY DEF AnswerInv, TypeOK, Requests
    <3>3. request \in Nat /\ request' = request + 1 /\ phase' = "sent" /\ pending' = pending
          /\ kept' = kept /\ answer' = answer /\ nature' = nature
      BY <1>1, Zenon DEF Send, TypeOK, spool
    <3>4. answer = NoAnswer
      BY <1>1, Zenon DEF Send, AnswerInv
    <3>5. \A q \in wire' : q.id <= request' /\ (q.id = request' => q.records = pending')
      BY <3>1, <3>2, <3>3 DEF TypeOK, Requests
    <3> QED
      BY <3>3, <3>4, <3>5, Zenon DEF AnswerInv, NoAnswer
  <2>3. PlaceInv'
    BY <1>1, Zenon DEF Send, PlaceInv, TypeOK, spool, composing, bounds
  <2>4. DeliveredIsKept' /\ OnlyBadQuarantined'
    BY <1>1, Zenon DEF Send, DeliveredIsKept, OnlyBadQuarantined, Refused, Undecodable, Unreadable, spool, composing, bounds
  <2>5. Strict => NothingPassedOver'
    BY <1>1, Zenon DEF Send, NothingPassedOver, Held, PlaceInv, spool, composing, bounds
  <2> QED
    BY <2>1, <2>2, <2>3, <2>4, <2>5, Zenon DEF DeliveryKept
<1>2. CASE Durable
  <2>1. TypeOK'
    BY <1>2, DeliveryAssumption DEF Durable, Said, TypeOK, Phases, Answers, spool, composing, platform, bounds
  <2>2. AnswerInv'
    BY <1>2, Zenon DEF Durable, Said, AnswerInv, NoAnswer, TypeOK, Refused, Undecodable, Unreadable, Bad, spool, platform
  <2>3. PlaceInv'
    BY <1>2, Zenon DEF Durable, Said, PlaceInv, TypeOK, spool, composing
  <2>4. DeliveredIsKept' /\ OnlyBadQuarantined'
    BY <1>2, Zenon DEF Durable, DeliveredIsKept, OnlyBadQuarantined, Refused, Undecodable, Unreadable, spool, composing, platform, bounds
  <2>5. Strict => NothingPassedOver'
    BY <1>2, Zenon DEF Durable, NothingPassedOver, Held, PlaceInv, spool, composing, platform, bounds
  <2> QED
    BY <2>1, <2>2, <2>3, <2>4, <2>5, Zenon DEF DeliveryKept
<1>3. CASE Refuse
  <2>0. refused' \in 1..MaxSeq /\ refused' \in Bad
    <3>1. CASE Said("record_refused") /\ refused' = answer.record
      BY <3>1, Zenon DEF Said, AnswerInv, Refused, Seqs, Bad
    <3>2. CASE Said("batch_too_large") /\ Cardinality(pending) = 1 /\ refused' = Min(pending)
      <4>1. PICK x : pending = {x}
        BY <3>2, SeqsFinite, FS_Singleton, Zenon DEF TypeOK
      <4>2. pending \cap Undecodable # {}
        BY <3>2, DeliveryAssumption DEF Said, AnswerInv
      <4>3. x \in Undecodable
        BY <4>1, <4>2, Zenon
      <4>4. Min(pending) = x
        BY <4>1, <4>3, MinOf DEF Undecodable, Seqs
      <4> QED
        BY <3>2, <4>3, <4>4, Zenon DEF Undecodable, Seqs, Bad
    <3> QED
      BY <1>3, <3>1, <3>2, Zenon DEF Refuse
  <2>1. TypeOK'
    BY <1>3, <2>0, DeliveryAssumption DEF Refuse, Said, TypeOK, Phases, Answers, spool, composing, platform, bounds
  <2>2. AnswerInv'
    <3>1. Bad' = Bad /\ answer' = NoAnswer /\ wire' = wire /\ request' = request /\ phase' = "settling"
      BY <1>3, Zenon DEF Refuse, spool, platform, Bad, Unreadable, Undecodable, Refused
    <3> QED
      BY <2>0, <3>1 DEF AnswerInv, NoAnswer
  <2>3. PlaceInv'
    BY <1>3, Zenon DEF Refuse, Said, PlaceInv, TypeOK, spool, composing
  <2>4. DeliveredIsKept' /\ OnlyBadQuarantined'
    BY <1>3, <2>0, Zenon DEF Refuse, DeliveredIsKept, OnlyBadQuarantined, Refused, Undecodable, Unreadable, spool, composing, platform, bounds
  <2>5. Strict => NothingPassedOver'
    BY <1>3, <2>0, Zenon DEF Refuse, NothingPassedOver, Held, PlaceInv, spool, composing, platform, bounds
  <2> QED
    BY <2>1, <2>2, <2>3, <2>4, <2>5, Zenon DEF DeliveryKept
<1>4. CASE Split
  <2> DEFINE first == First(Half, pending)
             rest == pending \ first
  <2>0. first \subseteq pending /\ pending \subseteq Seqs /\ next \in 1..(MaxSeq + 1)
    BY Zenon DEF First, TypeOK
  <2>a. pending' = first /\ phase' = "ready" /\ answer' = NoAnswer /\ window' = Max({Half, 1})
    BY <1>4, Zenon DEF Split
  <2>d. next' \in 1..(MaxSeq + 1) /\ next' <= next /\ \A s \in rest : next' <= s
    BY <1>4, <2>a, SplitTakes, Zenon
  <2>e. window' \in Nat
    <3>1. Half \in Nat
      BY <2>0, SeqsFinite DEF Half
    <3> QED
      BY <2>a, <3>1, HalfOrOne, Zenon
  <2> HIDE DEF first, rest
  <2>1. TypeOK'
    BY <1>4, <2>0, <2>a, <2>d, <2>e, SMTT(30) DEF Split, TypeOK, Phases, Answers, spool, composing, platform, bounds
  <2>2. AnswerInv'
    <3>1. /\ answer' = NoAnswer /\ phase' = "ready" /\ refused' = refused
          /\ UNCHANGED <<request, wire, kept, nature>>
      BY <1>4, Zenon DEF Split, spool, platform
    <3> QED
      BY <3>1, Zenon DEF AnswerInv, NoAnswer
  <2>3. PlaceInv'
    BY <1>4, <2>a, <2>d DEF Split, Said, PlaceInv, TypeOK, spool, composing
  <2>4. DeliveredIsKept' /\ OnlyBadQuarantined'
    BY <1>4, <2>0, Zenon DEF Split, DeliveredIsKept, OnlyBadQuarantined, Refused, Undecodable, Unreadable, spool, platform, bounds
  <2>5. Strict => NothingPassedOver'
    <3>1. Held' = Held /\ read = {} /\ entries = {} /\ read' = {} /\ entries' = {}
      BY <1>4, Zenon DEF Split, Said, Held, spool, composing, PlaceInv
    <3>2. ASSUME Strict, NEW s \in Held, s < next' PROVE s \in first
      <4>1. s \in Nat /\ next \in Nat /\ next' \in Nat
        BY <2>0, <2>d DEF Held, TypeOK
      <4>2. s \in pending
        BY <2>d, <3>1, <3>2, <4>1 DEF NothingPassedOver
      <4>3. s \notin rest
        BY <2>d, <3>2, <4>1
      <4> QED
        BY <4>2, <4>3, Zenon DEF rest
    <3> QED
      BY <2>a, <3>1, <3>2, Zenon DEF NothingPassedOver
  <2> QED
    BY <2>1, <2>2, <2>3, <2>4, <2>5, Zenon DEF DeliveryKept
<1>5. CASE Retry
  <2>1. TypeOK'
    BY <1>5, Zenon DEF Retry, Said, TypeOK, Phases, Answers, spool, composing, platform, bounds
  <2>2. AnswerInv'
    BY <1>5, Zenon DEF Retry, Said, AnswerInv, NoAnswer, TypeOK, Refused, Undecodable, Unreadable, Bad, spool, platform
  <2>3. PlaceInv'
    BY <1>5, Zenon DEF Retry, Said, PlaceInv, TypeOK, spool, composing
  <2>4. DeliveredIsKept' /\ OnlyBadQuarantined'
    BY <1>5, Zenon DEF Retry, DeliveredIsKept, OnlyBadQuarantined, Refused, Undecodable, Unreadable, spool, composing, platform, bounds
  <2>5. Strict => NothingPassedOver'
    BY <1>5, Zenon DEF Retry, NothingPassedOver, Held, PlaceInv, spool, composing, platform, bounds
  <2> QED
    BY <2>1, <2>2, <2>3, <2>4, <2>5, Zenon DEF DeliveryKept
<1>6. CASE Acknowledge
  <2>0. /\ fate' \in [Seqs -> Fates]
        /\ \A s \in Seqs : fate'[s] # fate[s] => s \in pending /\ fate'[s] = "delivered"
        /\ \A s \in Seqs : fate'[s] = "unsettled" => s \notin pending /\ fate[s] = "unsettled"
    BY <1>6, SettledOf, Zenon DEF Acknowledge, TypeOK
  <2>a. window' \in Nat
    <3>1. {2 * window, Widest} \in SUBSET Nat /\ {2 * window, Widest} # {}
      BY DeliveryAssumption DEF TypeOK
    <3>2. Min({2 * window, Widest}) \in {2 * window, Widest}
      BY <3>1, MinOf, Zenon
    <3> QED
      BY <1>6, <3>1, <3>2, DeliveryAssumption, Zenon DEF Acknowledge, TypeOK
  <2>1. TypeOK'
    BY <1>6, <2>0, <2>a, Zenon DEF Acknowledge, Said, TypeOK, Phases, Answers, spool, composing, platform, bounds
  <2>2. AnswerInv'
    BY <1>6 DEF Acknowledge, AnswerInv, NoAnswer, platform
  <2>3. PlaceInv'
    BY <1>6, Zenon DEF Acknowledge, Said, PlaceInv, TypeOK, spool, composing
  <2>4. DeliveredIsKept' /\ OnlyBadQuarantined'
    <3>1. pending \subseteq kept /\ kept' = kept /\ nature' = nature
      BY <1>6, Zenon DEF Acknowledge, AnswerInv, platform
    <3> QED
      BY <2>0, <3>1, Zenon DEF DeliveredIsKept, OnlyBadQuarantined, Refused, Undecodable, Unreadable
  <2>5. Strict => NothingPassedOver'
    <3>1. Held' \subseteq Held
      BY <1>6, <2>0, HeldShrinks, Zenon DEF Acknowledge
    <3>2. \A s \in Held' : s \notin pending
      BY <2>0, Zenon DEF Held, TypeOK
    <3> QED
      BY <1>6, <3>1, <3>2, Zenon DEF Acknowledge, NothingPassedOver, composing
  <2> QED
    BY <2>1, <2>2, <2>3, <2>4, <2>5, Zenon DEF DeliveryKept
<1>7. CASE Quarantine
  <2>0. /\ fate' \in [Seqs -> Fates]
        /\ \A s \in Seqs : fate'[s] # fate[s] => s \in {refused} /\ fate'[s] = "quarantined"
        /\ \A s \in Seqs : fate'[s] = "unsettled" => s \notin {refused} /\ fate[s] = "unsettled"
    BY <1>7, SettledOf, Zenon DEF Quarantine, TypeOK
  <2>a. /\ next' \in 1..(MaxSeq + 1) /\ next' <= next
        /\ \A s \in pending : s > refused => next' <= s
    BY <1>7, RefusalTakes, Zenon
  <2>b. window' \in Nat
    <3>1. Half \in Nat
      BY SeqsFinite DEF Half, TypeOK
    <3> QED
      BY <1>7, <3>1, HalfOrOne, Zenon DEF Quarantine
  <2>1. TypeOK'
    <3>1. 0 \in 0..MaxSeq
      BY DeliveryAssumption
    <3>2. pending' \subseteq Seqs /\ refused' = 0 /\ phase' \in Phases
      BY <1>7, Zenon DEF Quarantine, TypeOK, Before, Phases
    <3> QED
      BY <1>7, <2>0, <2>a, <2>b, <3>1, <3>2, Zenon DEF Quarantine, TypeOK, composing, platform, bounds
  <2>2. AnswerInv'
    <3>1. /\ answer' = answer /\ phase' \in {"top", "ready"} /\ phase = "settling"
          /\ UNCHANGED <<request, wire, kept, nature>>
      BY <1>7, Zenon DEF Quarantine, platform
    <3> QED
      BY <3>1 DEF AnswerInv, NoAnswer
  <2>3. PlaceInv'
    BY <1>7, <2>a DEF Quarantine, Said, PlaceInv, TypeOK, spool, composing
  <2>4. DeliveredIsKept' /\ OnlyBadQuarantined'
    <3>1. refused \in Bad /\ kept' = kept /\ nature' = nature
      BY <1>7, Zenon DEF Quarantine, AnswerInv, platform
    <3> QED
      BY <2>0, <3>1, Zenon DEF DeliveredIsKept, OnlyBadQuarantined, Bad, Refused, Undecodable, Unreadable
  <2>5. Strict => NothingPassedOver'
    <3>1. Held' \subseteq Held
      BY <1>7, <2>0, HeldShrinks, Zenon DEF Quarantine
    <3>0. refused \in Seqs
      BY <1>7, DeliveryAssumption DEF Quarantine, TypeOK, Seqs
    <3>2. refused \notin Held'
      BY <2>0, <3>0, Zenon DEF Held
    <3>3. read = {} /\ entries = {} /\ pending' = Before
      BY <1>7, Zenon DEF Quarantine, PlaceInv
    <3>4. ASSUME Strict, NEW s \in Held', s < next' PROVE s \in Before
      <4>1. s \in Held /\ s \in Nat /\ next \in Nat /\ next' \in Nat /\ refused \in Nat
        BY <2>a, <3>1 DEF Held, TypeOK
      <4>2. s \in pending
        BY <2>a, <3>3, <3>4, <4>1 DEF NothingPassedOver
      <4>3. ~(s > refused) /\ s # refused
        BY <2>a, <3>2, <3>4, <4>1, <4>2
      <4> QED
        BY <4>1, <4>2, <4>3 DEF Before
    <3> QED
      BY <3>3, <3>4, Zenon DEF NothingPassedOver
  <2> QED
    BY <2>1, <2>2, <2>3, <2>4, <2>5, Zenon DEF DeliveryKept
<1>8. CASE Unanswered
  <2>1. TypeOK'
    BY <1>8, DeliveryAssumption DEF Unanswered, Fault, TypeOK, Answers, Outcomes, spool, composing
  <2>2. AnswerInv'
    BY <1>8, SMTT(30) DEF Unanswered, AnswerInv, NoAnswer, Refused, Undecodable, Unreadable, Bad, spool
  <2>3. PlaceInv'
    BY <1>8, SMTT(30) DEF Unanswered, PlaceInv, TypeOK, spool, composing
  <2>4. DeliveredIsKept' /\ OnlyBadQuarantined'
    BY <1>8, Zenon DEF Unanswered, DeliveredIsKept, OnlyBadQuarantined, Refused, Undecodable, Unreadable, spool, composing
  <2>5. Strict => NothingPassedOver'
    BY <1>8, Zenon DEF Unanswered, NothingPassedOver, Held, PlaceInv, spool, composing
  <2> QED
    BY <2>1, <2>2, <2>3, <2>4, <2>5, Zenon DEF DeliveryKept
<1>9. CASE SettleFails
  <2>1. TypeOK'
    BY <1>9, DeliveryAssumption DEF SettleFails, TypeOK, Phases, spool, composing, platform, Fault
  <2>2. AnswerInv'
    BY <1>9, Zenon DEF SettleFails, AnswerInv, TypeOK, Refused, Undecodable, Unreadable, Bad, spool, composing, platform
  <2>3. PlaceInv'
    BY <1>9, Zenon DEF SettleFails, PlaceInv, TypeOK, spool, composing, platform
  <2>4. DeliveredIsKept' /\ OnlyBadQuarantined'
    BY <1>9, Zenon DEF SettleFails, DeliveredIsKept, OnlyBadQuarantined, Refused, Undecodable, Unreadable, spool, composing, platform
  <2>5. Strict => NothingPassedOver'
    BY <1>9, Zenon DEF SettleFails, NothingPassedOver, Held, PlaceInv, spool, composing, platform
  <2> QED
    BY <2>1, <2>2, <2>3, <2>4, <2>5, Zenon DEF DeliveryKept
<1> QED
  BY <1>1, <1>2, <1>3, <1>4, <1>5, <1>6, <1>7, <1>8, <1>9, Zenon DEF Delivering

(* The platform keeps the invariant, and so does a restart. *)
LEMMA PlatformKeeps ==
  ASSUME TypeOK, AnswerInv, PlaceInv, DeliveredIsKept, OnlyBadQuarantined,
         Strict => NothingPassedOver,
         Restart \/ \E q \in wire : Receive(q) \/ Falter(q)
  PROVE  DeliveryKept
<1>1. CASE Restart
  <2>1. TypeOK'
    <3>a. announced' \in BOOLEAN /\ answer' \in Answers
      BY <1>1, Zenon DEF Restart, Answers
    <3> QED
      BY <1>1, <3>a, DeliveryAssumption DEF Restart, TypeOK, Phases, spool, platform
  <2>2. AnswerInv'
    BY <1>1, Zenon DEF Restart, AnswerInv, NoAnswer, spool, platform
  <2>3. PlaceInv'
    BY <1>1 DEF Restart, PlaceInv, TypeOK, spool, platform
  <2>4. DeliveredIsKept' /\ OnlyBadQuarantined'
    BY <1>1, SMTT(30) DEF Restart, DeliveredIsKept, OnlyBadQuarantined, Refused, Undecodable, Unreadable, spool, platform
  <2>5. Strict => NothingPassedOver'
    BY <1>1, SMTT(30) DEF Restart, NothingPassedOver, Held, PlaceInv, spool, platform
  <2> QED
    BY <2>1, <2>2, <2>3, <2>4, <2>5, Zenon DEF DeliveryKept
<1>2. ASSUME NEW q \in wire, Receive(q) PROVE DeliveryKept
  <2>0. /\ UNCHANGED <<nature, admitted, fate, phase, announced, next, window, read, entries,
                      pending, refused, request, restarts>>
        /\ wire' = wire \ {q} /\ kept \subseteq kept'
    BY <1>2, SMTT(30) DEF Receive, spool, composing, bounds, Answer
  <2>1. \/ answer' = answer
        \/ /\ phase = "sent" /\ q.records = pending
           /\ answer'.outcome # "none"
           /\ \/ answer'.outcome = "durable" /\ pending \subseteq kept'
              \/ answer'.outcome = "record_refused" /\ answer'.record \in Refused
              \/ /\ answer'.outcome = "batch_too_large"
                 /\ Cardinality(pending) > PlatformMost \/ pending \cap Undecodable # {}
    <3>1. CASE phase = "sent" /\ q.id = request
      <4>1. q.records = pending
        BY <3>1, Zenon DEF AnswerInv
      <4> DEFINE bad == q.records \cap Refused
      <4>2. bad # {} => Min(bad) \in bad
        <5>1. bad \in SUBSET Nat
          BY DEF Refused, Seqs
        <5> HIDE DEF bad
        <5> QED
          BY <5>1, MinOf, Zenon
      <4>3. bad # {} => Min(bad) \in Refused
        BY <4>2, Zenon
      <4> QED
        BY <1>2, <3>1, <4>1, <4>3 DEF Receive, Answer
    <3>2. CASE ~(phase = "sent" /\ q.id = request)
      BY <1>2, <3>2, Zenon DEF Receive, Answer
    <3> QED
      BY <3>1, <3>2, Zenon
  <2>2. kept' \subseteq Seqs /\ answer' \in Answers
    <3>1. kept' \subseteq Seqs
      BY <1>2, Zenon DEF Receive, TypeOK, Requests
    <3> DEFINE bad == q.records \cap Refused
    <3>2. bad # {} => Min(bad) \in 0..MaxSeq
      <4>1. bad \in SUBSET Nat /\ bad \subseteq 0..MaxSeq
        BY DEF Refused, Seqs
      <4> HIDE DEF bad
      <4> QED
        BY <4>1, MinOf, ZenonT(30)
    <3>3. answer' = answer \/ answer' \in [outcome : Outcomes, record : 0..MaxSeq]
      BY <1>2, <3>2, DeliveryAssumption, SMTT(30) DEF Receive, Answer, Outcomes
    <3> QED
      BY <3>1, <3>3, Zenon DEF TypeOK, Answers
  <2>3. TypeOK'
    BY <1>2, <2>0, <2>2, Zenon DEF Receive, TypeOK, bounds
  <2>4. AnswerInv'
    BY <2>0, <2>1, Zenon DEF AnswerInv, NoAnswer, Bad, Unreadable, Undecodable, Refused
  <2>5. PlaceInv'
    BY <2>0, Zenon DEF PlaceInv
  <2>6. DeliveredIsKept' /\ OnlyBadQuarantined'
    BY <2>0, Zenon DEF DeliveredIsKept, OnlyBadQuarantined, Unreadable, Undecodable, Refused
  <2>7. Strict => NothingPassedOver'
    BY <2>0, Zenon DEF NothingPassedOver, Held
  <2> QED
    BY <2>3, <2>4, <2>5, <2>6, <2>7, Zenon DEF DeliveryKept
<1>3. ASSUME NEW q \in wire, Falter(q) PROVE DeliveryKept
  <2>0. /\ UNCHANGED <<nature, admitted, fate, phase, announced, next, window, read, entries,
                      pending, refused, request, restarts>>
        /\ wire' = wire \ {q} /\ kept \subseteq kept'
    BY <1>3, Zenon DEF Falter, spool, composing, bounds, Answer
  <2>1. \/ answer' = answer
        \/ /\ phase = "sent" /\ q.records = pending
           /\ answer'.outcome # "none"
           /\ answer'.outcome = "unconfirmed"
    BY <1>3, SMTT(30) DEF Falter, Answer, AnswerInv
  <2>2. kept' \subseteq Seqs /\ answer' \in Answers
    <3>1. kept' \subseteq Seqs
      BY <1>3, Zenon DEF Falter, TypeOK, Requests
    <3>2. answer' = answer \/ answer' \in [outcome : Outcomes, record : 0..MaxSeq]
      BY <1>3, DeliveryAssumption, SMTT(30) DEF Falter, Answer, Outcomes
    <3> QED
      BY <3>1, <3>2, Zenon DEF TypeOK, Answers
  <2>3. TypeOK'
    <3>1. faults' \in 0..MaxFaults
      BY <1>3, DeliveryAssumption DEF Falter, Fault, TypeOK
    <3>2. wire' \subseteq Requests
      BY <2>0, Zenon DEF TypeOK
    <3> QED
      BY <2>0, <2>2, <3>1, <3>2, Zenon DEF TypeOK
  <2>4. AnswerInv'
    BY <2>0, <2>1, Zenon DEF AnswerInv, NoAnswer, Bad, Unreadable, Undecodable, Refused
  <2>5. PlaceInv'
    BY <2>0, Zenon DEF PlaceInv
  <2>6. DeliveredIsKept' /\ OnlyBadQuarantined'
    BY <2>0, Zenon DEF DeliveredIsKept, OnlyBadQuarantined, Unreadable, Undecodable, Refused
  <2>7. Strict => NothingPassedOver'
    BY <2>0, Zenon DEF NothingPassedOver, Held
  <2> QED
    BY <2>3, <2>4, <2>5, <2>6, <2>7, Zenon DEF DeliveryKept
<1> QED
  BY <1>1, <1>2, <1>3, ZenonT(30)

-----------------------------------------------------------------------------
(* The steps of the route, and of the route with faults. *)

(* A step of either, with what bounds it left out. *)
RouteNext ==
  \/ Admit
  \/ \E s \in Seqs : Age(s)
  \/ Composing \/ ReadFails \/ (QuarantineLost /\ ~Strict)
  \/ Delivering \/ Unanswered \/ SettleFails
  \/ Restart
  \/ \E q \in wire : Receive(q) \/ Falter(q)

LEMMA DeliverySteps == Next /\ part = "delivery" => RouteNext
<1> SUFFICES ASSUME Next, part = "delivery" PROVE RouteNext
  BY Zenon
<1>1. PickFails => QuarantineLost /\ ~Strict
  BY Zenon DEF PickFails, Strict
<1>2. \A s \in Seqs : Expire(s) => Age(s)
  BY Zenon DEF Expire
<1> QED
  BY <1>1, <1>2, Zenon DEF Next, Failing, RouteNext

LEMMA FaultsSteps == FaultsNext /\ part = "faults" => RouteNext
<1>1. part = "faults" => ~Strict
  BY Zenon DEF Strict
<1> QED
  BY <1>1, Zenon DEF FaultsNext, RouteNext

LEMMA RouteSteps == SettlingNext => RouteNext /\ UNCHANGED part
  BY DeliverySteps, FaultsSteps, Zenon DEF SettlingNext

LEMMA RouteKeeps ==
  ASSUME DeliveryInv, RouteNext
  PROVE  DeliveryKept
<1>1. /\ TypeOK /\ AnswerInv /\ PlaceInv /\ DeliveredIsKept /\ OnlyBadQuarantined
      /\ (Strict => NothingPassedOver)
  BY Zenon DEF DeliveryInv
<1> QED
  BY <1>1, SpoolKeeps, ComposingKeeps, DeliveringKeeps, PlatformKeeps, Zenon DEF RouteNext

-----------------------------------------------------------------------------
(* The order of what is sent. *)

(* The batch the route composes or sends holds records that have not settled
   through it, in order and below next. *)
BatchInv ==
  /\ \A s \in read \cup entries \cup pending : fate[s] \in {"unsettled", "expired"}
  /\ \A s \in entries : s < next /\ \A t \in read : s < t
  /\ \A s \in pending : s < next

(* A request on its way, late or not, skips no older record the spool holds
   unless the platform has it. *)
NoneSkipped ==
  \A q \in wire : \A s \in q.records, t \in Held : t < s => t \in q.records \cup kept

WireInv ==
  /\ kept \subseteq 1..admitted
  /\ \A q \in wire : q.records \subseteq 1..admitted
  /\ (Strict => NoneSkipped /\ OldestFirst)

LEMMA SpoolKeepsBatch ==
  ASSUME TypeOK, PlaceInv, BatchInv, Admit \/ \E s \in Seqs : Age(s)
  PROVE  BatchInv'
<1>1. CASE Admit
  BY <1>1, Zenon DEF Admit, BatchInv, composing
<1>2. ASSUME NEW x \in Seqs, Age(x) PROVE BatchInv'
  <2>1. /\ fate' \in [Seqs -> Fates]
        /\ \A t \in Seqs : fate'[t] # fate[t] => t \in {x} /\ fate'[t] = "expired"
        /\ \A t \in Seqs : fate'[t] = "unsettled" => t \notin {x} /\ fate[t] = "unsettled"
    BY <1>2, SettledOf, Zenon DEF Age, TypeOK
  <2>2. UNCHANGED <<read, entries, pending, next>>
    BY <1>2, Zenon DEF Age, composing
  <2>3. \A s \in read \cup entries \cup pending : s \in Seqs
    BY Zenon DEF TypeOK
  <2> QED
    BY <2>1, <2>2, <2>3, Zenon DEF BatchInv
<1> QED
  BY <1>1, <1>2, Zenon

LEMMA ComposingKeepsBatch ==
  ASSUME TypeOK, PlaceInv, BatchInv, Composing \/ ReadFails \/ QuarantineLost
  PROVE  BatchInv'
<1>0. read # {} => Min(read) \in read /\ \A s \in read : Min(read) <= s
  <2>1. read \in SUBSET Nat
    BY DEF TypeOK, Seqs
  <2> QED
    BY <2>1, MinOf, Zenon
<1>a. read \cup entries \cup pending \subseteq Seqs /\ next \in Nat
  BY DEF TypeOK
<1>1. CASE Listen \/ ReadNothing \/ Woken \/ ReadFails
  BY <1>1, Zenon DEF Listen, ReadNothing, Woken, ReadFails, BatchInv, spool, composing
<1>2. CASE Read
  <2> PICK r \in Readable \ {{}} : read' = r /\ next' = Max(r) + 1
    BY <1>2, Zenon DEF Read
  <2>1. r \subseteq Held
    BY Zenon DEF Readable
  <2>2. entries' = {} /\ pending' = {} /\ fate' = fate
    BY <1>2, Zenon DEF Read, PlaceInv, spool
  <2> QED
    BY <2>1, <2>2, Zenon DEF BatchInv, Held
<1>3. CASE Pick
  <2>1. /\ entries' = entries \cup {Min(read)} /\ read' = read \ {Min(read)} /\ read # {}
        /\ pending = {} /\ pending' = {} /\ fate' = fate /\ next' = next
    BY <1>3, Zenon DEF Pick, spool, PlaceInv
  <2>2. \A s \in read' : Min(read) < s
    BY <1>0, <1>a, <2>1 DEF Seqs
  <2>3. Min(read) < next
    BY <1>0, <2>1, Zenon DEF PlaceInv
  <2> QED
    BY <1>0, <2>1, <2>2, <2>3, Zenon DEF BatchInv
<1>4. CASE PickQuarantined
  <2>1. /\ entries' = entries /\ read' = read \ {Min(read)} /\ read # {}
        /\ pending = {} /\ pending' = {} /\ fate' = Settled({Min(read)}, "quarantined") /\ next' = next
    BY <1>4, Zenon DEF PickQuarantined, PlaceInv
  <2>2. /\ fate' \in [Seqs -> Fates]
        /\ \A t \in Seqs : fate'[t] # fate[t] => t \in {Min(read)} /\ fate'[t] = "quarantined"
        /\ \A t \in Seqs : fate'[t] = "unsettled" => t \notin {Min(read)} /\ fate[t] = "unsettled"
    BY <2>1, SettledOf, Zenon DEF TypeOK
  <2>3. \A s \in entries : s # Min(read)
    BY <1>0, <1>a, <2>1 DEF BatchInv, Seqs
  <2> QED
    BY <1>a, <2>1, <2>2, <2>3, Zenon DEF BatchInv
<1>5. CASE QuarantineLost
  BY <1>5, Zenon DEF QuarantineLost, BatchInv, PlaceInv, spool
<1>6. CASE Cut
  <2>1. /\ entries' = entries /\ read' = {} /\ read # {} /\ next' = Min(read)
        /\ pending = {} /\ pending' = {} /\ fate' = fate
    BY <1>6, Zenon DEF Cut, PlaceInv, spool
  <2> QED
    BY <1>0, <2>1, Zenon DEF BatchInv
<1>7. CASE Frame
  BY <1>7, Zenon DEF Frame, BatchInv, spool
<1> QED
  BY <1>1, <1>2, <1>3, <1>4, <1>5, <1>6, <1>7, Zenon DEF Composing

LEMMA DeliveringKeepsBatch ==
  ASSUME TypeOK, PlaceInv, BatchInv,
         Delivering \/ Unanswered \/ SettleFails \/ Restart \/ \E q \in wire : Receive(q) \/ Falter(q)
  PROVE  BatchInv'
<1>a. pending \subseteq Seqs /\ next \in Nat
  BY DEF TypeOK
<1>1. ASSUME UNCHANGED <<fate, next, read, entries, pending>> PROVE BatchInv'
  BY <1>1, Zenon DEF BatchInv
<1>2. CASE Split
  <2>1. pending' \subseteq pending /\ \A s \in pending' : s < next => s < next'
    BY <1>2, SplitTakes, Zenon
  <2>2. read' = {} /\ entries' = {} /\ fate' = fate
    BY <1>2, Zenon DEF Split, Said, PlaceInv, spool, composing
  <2> QED
    BY <2>1, <2>2, Zenon DEF BatchInv
<1>3. CASE Acknowledge
  BY <1>3, Zenon DEF Acknowledge, BatchInv, PlaceInv, composing
<1>4. CASE Quarantine
  <2>1. \A s \in pending' : s \in pending /\ s # refused /\ (s < next => s < next')
    BY <1>4, RefusalTakes, Zenon
  <2>2. read' = {} /\ entries' = {}
    BY <1>4, Zenon DEF Quarantine, PlaceInv, composing
  <2>3. /\ fate' \in [Seqs -> Fates]
        /\ \A t \in Seqs : fate'[t] # fate[t] => t \in {refused} /\ fate'[t] = "quarantined"
        /\ \A t \in Seqs : fate'[t] = "unsettled" => t \notin {refused} /\ fate[t] = "unsettled"
    BY <1>4, SettledOf, Zenon DEF TypeOK, Quarantine
  <2> QED
    BY <1>a, <2>1, <2>2, <2>3, Zenon DEF BatchInv
<1>5. CASE Restart
  BY <1>5, Zenon DEF Restart, BatchInv
<1>6. CASE Send \/ Durable \/ Refuse \/ Retry \/ Unanswered \/ SettleFails
  BY <1>1, <1>6, Zenon DEF Send, Durable, Refuse, Retry, Unanswered, SettleFails, spool, composing
<1>7. CASE \E q \in wire : Receive(q) \/ Falter(q)
  BY <1>1, <1>7, Zenon DEF Receive, Falter, spool, composing
<1> QED
  BY <1>2, <1>3, <1>4, <1>5, <1>6, <1>7, Zenon DEF Delivering

(* A step that takes nothing new to the platform and sends nothing. *)
LEMMA QuietKeepsWire ==
  ASSUME TypeOK, WireInv, Strict' = Strict, UNCHANGED <<admitted, kept>>, wire' \subseteq wire,
         Held' \subseteq Held
  PROVE  WireInv'
<1>1. NoneSkipped => NoneSkipped'
  BY Zenon DEF NoneSkipped
<1>2. OldestFirst => OldestFirst'
  BY Zenon DEF OldestFirst
<1> QED
  BY <1>1, <1>2, Zenon DEF WireInv

LEMMA RouteKeepsWire ==
  ASSUME DeliveryInv, BatchInv, WireInv, RouteNext, UNCHANGED part
  PROVE  WireInv'
<1>0. TypeOK /\ PlaceInv /\ (Strict => NothingPassedOver) /\ Strict' = Strict
  BY Zenon DEF DeliveryInv, Strict
<1>a. Held \subseteq 1..admitted /\ admitted \in Nat
  BY <1>0 DEF Held, TypeOK
<1>1. CASE Admit
  <2>1. admitted' = admitted + 1 /\ UNCHANGED <<kept, wire, fate>>
    BY <1>1, Zenon DEF Admit, platform
  <2>2. Held' \subseteq Held \cup {admitted + 1}
    BY <1>a, <2>1 DEF Held
  <2>3. /\ kept \subseteq 1..admitted /\ \A q \in wire : q.records \subseteq 1..admitted
        /\ 1..admitted \subseteq 1..(admitted + 1) /\ \A s \in 1..admitted : ~(admitted + 1 < s)
    BY <1>a DEF WireInv
  <2>4. NoneSkipped => NoneSkipped'
    BY <2>1, <2>2, <2>3, Zenon DEF NoneSkipped
  <2>5. OldestFirst => OldestFirst'
    BY <2>1, <2>2, <2>3, Zenon DEF OldestFirst
  <2> QED
    BY <1>0, <2>1, <2>3, <2>4, <2>5, Zenon DEF WireInv
<1>2. ASSUME NEW x, NEW kind \in {"delivered", "quarantined", "expired"}, fate' = Settled(x, kind),
             UNCHANGED <<admitted, kept, wire>>
      PROVE WireInv'
  <2>1. /\ fate' \in [Seqs -> Fates]
        /\ \A s \in Seqs : fate'[s] # fate[s] => s \in x /\ fate'[s] = kind
        /\ \A s \in Seqs : fate'[s] = "unsettled" => s \notin x /\ fate[s] = "unsettled"
    <3>1. fate \in [Seqs -> Fates]
      BY <1>0, Zenon DEF TypeOK
    <3> QED
      BY <1>2, <3>1, SettledOf
  <2>2. Held' \subseteq Held
    BY <1>0, <1>2, <2>1, HeldShrinks, Zenon
  <2> QED
    BY <1>0, <1>2, <2>2, QuietKeepsWire, Zenon
<1>3. ASSUME UNCHANGED <<fate, admitted, kept>>, wire' \subseteq wire PROVE WireInv'
  <2>1. Held' = Held
    BY <1>3, Zenon DEF Held
  <2> QED
    BY <1>0, <1>3, <2>1, QuietKeepsWire, Zenon
<1>4. CASE \E s \in Seqs : Age(s)
  BY <1>2, <1>4, Zenon DEF Age, platform
<1>5. CASE PickQuarantined
  BY <1>2, <1>5, Zenon DEF PickQuarantined, platform
<1>6. CASE Acknowledge
  BY <1>2, <1>6, Zenon DEF Acknowledge, platform
<1>7. CASE Quarantine
  BY <1>2, <1>7, Zenon DEF Quarantine, platform
<1>8. CASE Listen \/ Read \/ ReadNothing \/ Woken \/ Pick \/ Cut \/ Frame \/ ReadFails \/ QuarantineLost
  BY <1>3, <1>8, Zenon DEF Listen, Read, ReadNothing, Woken, Pick, Cut, Frame, ReadFails, QuarantineLost, spool, platform
<1>9. CASE Durable \/ Refuse \/ Split \/ Retry \/ SettleFails \/ Restart
  BY <1>3, <1>9, Zenon DEF Durable, Refuse, Split, Retry, SettleFails, Restart, spool, platform
<1>10. CASE Unanswered
  BY <1>3, <1>10, Zenon DEF Unanswered, spool
<1>11. CASE Send
  <2>1. /\ UNCHANGED <<admitted, fate, kept>> /\ phase = "ready"
        /\ \A q \in wire' : q \in wire \/ q.records = pending
    BY <1>11 DEF Send, spool
  <2>2. Held' = Held /\ read = {} /\ entries = {}
    BY <1>0, <2>1, Zenon DEF Held, PlaceInv
  <2>3. pending \subseteq 1..admitted
    BY <1>0, <1>a DEF BatchInv, PlaceInv, TypeOK, Seqs
  <2>4. Strict => \A s \in pending, t \in Held : t < s => t \in pending
    <3> SUFFICES ASSUME Strict, NEW s \in pending, NEW t \in Held, t < s PROVE t \in pending
      BY Zenon
    <3>1. s \in Nat /\ t \in Nat /\ next \in Nat /\ s < next
      BY <1>0, <1>a, <2>3 DEF BatchInv, TypeOK
    <3>2. t < next
      BY <3>1
    <3> QED
      BY <1>0, <2>2, <3>2, Zenon DEF NothingPassedOver
  <2>5. Strict => NoneSkipped'
    BY <2>1, <2>2, <2>4, Zenon DEF WireInv, NoneSkipped
  <2>6. OldestFirst => OldestFirst'
    BY <2>1, <2>2, Zenon DEF OldestFirst
  <2> QED
    BY <1>0, <2>1, <2>3, <2>5, <2>6, Zenon DEF WireInv
<1>12. ASSUME NEW q \in wire, NEW some \in SUBSET q.records, wire' = wire \ {q}, kept' = kept \cup some,
              UNCHANGED <<admitted, fate>>,
              \A s \in some, t \in q.records : t < s => t \in some
       PROVE  WireInv'
  <2>1. Held' = Held
    BY <1>12, Zenon DEF Held
  <2>2. NoneSkipped => NoneSkipped'
    BY <1>12, <2>1, Zenon DEF NoneSkipped
  <2>3. NoneSkipped /\ OldestFirst => OldestFirst'
    <3> SUFFICES ASSUME NoneSkipped, OldestFirst, NEW s \in kept', NEW t \in Held', t < s PROVE t \in kept'
      BY Zenon DEF OldestFirst
    <3>1. CASE s \in kept
      BY <1>12, <2>1, <3>1, Zenon DEF OldestFirst
    <3>2. CASE s \in some
      BY <1>12, <2>1, <3>2, Zenon DEF NoneSkipped
    <3> QED
      BY <1>12, <3>1, <3>2, Zenon
  <2> QED
    BY <1>0, <1>12, <2>2, <2>3, Zenon DEF WireInv
<1>13. ASSUME NEW q \in wire, Receive(q) PROVE WireInv'
  <2>1. /\ UNCHANGED <<admitted, fate>> /\ wire' = wire \ {q}
        /\ kept' = kept \/ kept' = kept \cup q.records
    BY <1>13, Zenon DEF Receive, spool
  <2>2. CASE kept' = kept
    BY <1>3, <2>1, <2>2, Zenon
  <2>3. CASE kept' = kept \cup q.records
    BY <1>12, <2>1, <2>3, Zenon
  <2> QED
    BY <2>1, <2>2, <2>3, Zenon
<1>14. ASSUME NEW q \in wire, Falter(q) PROVE WireInv'
  <2>1. UNCHANGED <<admitted, fate>> /\ wire' = wire \ {q}
    BY <1>14, Zenon DEF Falter, spool
  <2>2. PICK n \in 1..(MaxSeq + 1) : kept' = kept \cup {s \in q.records : s < n}
    BY <1>14, Zenon DEF Falter
  <2>3. q.records \subseteq Nat /\ n \in Nat
    BY <1>0 DEF TypeOK, Requests, Seqs
  <2> DEFINE some == {s \in q.records : s < n}
  <2>4. some \in SUBSET q.records /\ \A s \in some, t \in q.records : t < s => t \in some
    BY <2>3
  <2> HIDE DEF some
  <2>5. kept' = kept \cup some
    BY <2>2, Zenon DEF some
  <2> QED
    BY <1>12, <2>1, <2>4, <2>5, Zenon
<1> QED
  BY <1>1, <1>4, <1>5, <1>6, <1>7, <1>8, <1>9, <1>10, <1>11, <1>13, <1>14, Zenon
     DEF RouteNext, Composing, Delivering

-----------------------------------------------------------------------------

RouteInv == DeliveryInv /\ BatchInv /\ WireInv

LEMMA RouteInit == SettlingInit => RouteInv
<1> SUFFICES ASSUME Init PROVE RouteInv
  BY Zenon DEF SettlingInit
<1>1. BatchInv
  BY Zenon DEF Init, BatchInv
<1>2. WireInv
  BY Zenon DEF Init, WireInv, NoneSkipped, OldestFirst
<1> QED
  BY <1>1, <1>2, InitDelivery, Zenon DEF RouteInv

LEMMA RouteStep == RouteInv /\ [SettlingNext]_<<part, vars>> => RouteInv'
<1> SUFFICES ASSUME RouteInv, [SettlingNext]_<<part, vars>> PROVE RouteInv'
  BY Zenon
<1>1. CASE UNCHANGED <<part, vars>>
  <2>1. TypeOK' /\ AnswerInv' /\ PlaceInv'
    BY <1>1 DEF RouteInv, DeliveryInv, vars, TypeOK, AnswerInv, PlaceInv, Bad, Unreadable, Undecodable, Refused
  <2>2. DeliveredIsKept' /\ OnlyBadQuarantined' /\ (Strict => NothingPassedOver)'
    BY <1>1, Zenon DEF RouteInv, DeliveryInv, vars, DeliveredIsKept, OnlyBadQuarantined, NothingPassedOver, Held, Strict,
         Unreadable, Undecodable, Refused
  <2>3. BatchInv'
    BY <1>1, Zenon DEF RouteInv, vars, BatchInv
  <2>4. WireInv'
    BY <1>1, Zenon DEF RouteInv, vars, WireInv, Strict, NoneSkipped, OldestFirst, Held
  <2> QED
    BY <2>1, <2>2, <2>3, <2>4, Zenon DEF RouteInv, DeliveryInv
<1>2. CASE SettlingNext
  <2>1. RouteNext /\ UNCHANGED part
    BY <1>2, RouteSteps, Zenon
  <2>2. DeliveryInv /\ TypeOK /\ PlaceInv /\ BatchInv /\ WireInv
    BY Zenon DEF RouteInv, DeliveryInv
  <2>3. DeliveryKept
    BY <2>1, <2>2, RouteKeeps, Zenon
  <2>4. DeliveryInv'
    <3>1. Strict' = Strict
      BY <2>1, Zenon DEF Strict
    <3> QED
      BY <2>3, <3>1, Zenon DEF DeliveryKept, DeliveryInv
  <2>5. BatchInv'
    BY <2>1, <2>2, SpoolKeepsBatch, ComposingKeepsBatch, DeliveringKeepsBatch, Zenon DEF RouteNext
  <2>6. WireInv'
    BY <2>1, <2>2, RouteKeepsWire, Zenon
  <2> QED
    BY <2>4, <2>5, <2>6, Zenon DEF RouteInv
<1> QED
  BY <1>1, <1>2, Zenon

LEMMA RouteInvariant == SettlingSpec => []RouteInv
<1> QED
  BY RouteInit, RouteStep, PTL DEF SettlingSpec

(* Type correctness of the route, whatever fails, expires and restarts. *)
THEOREM DeliveryTyped == SettlingSpec => []TypeOK
<1>1. RouteInv => TypeOK
  BY Zenon DEF RouteInv, DeliveryInv
<1> QED
  BY <1>1, RouteInvariant, PTL

(* For any limits, faults, expiries and restarts: a record the agent counts as
   delivered is one the platform durably holds, one it quarantines could not be
   delivered, and neither goes out again. *)
THEOREM EverySettlementIsTrue == SettlingSpec => SettlesTruly
<1>1. RouteInv => DeliveredIsKept /\ OnlyBadQuarantined
  BY Zenon DEF RouteInv, DeliveryInv
<1>2. RouteInv => [Send => \A s \in pending : fate[s] \in {"unsettled", "expired"}]_vars
  BY Zenon DEF RouteInv, BatchInv
<1> QED
  BY <1>1, <1>2, RouteInvariant, PTL DEF SettlesTruly, SentOnlyUnsettled

(* The failing Quarantine of compose is the one way a record is passed over:
   without it, none is, whatever else fails. *)
THEOREM NonePassedOver ==
  QuarantineFails = FALSE => (SettlingSpec => [](part # "faults" => NothingPassedOver))
<1> SUFFICES ASSUME QuarantineFails = FALSE
             PROVE SettlingSpec => [](part # "faults" => NothingPassedOver)
  BY Zenon
<1>1. RouteInv => (part # "faults" => NothingPassedOver)
  BY ZenonT(30) DEF RouteInv, DeliveryInv, Strict
<1> QED
  BY <1>1, RouteInvariant, PTL

(* And without it the platform gets a stream oldest first, for any batches,
   splits, refusals, retries, late requests and restarts. *)
THEOREM StreamArrivesInOrder ==
  QuarantineFails = FALSE => (SettlingSpec => []ArrivesInOrder)
<1> SUFFICES ASSUME QuarantineFails = FALSE PROVE SettlingSpec => []ArrivesInOrder
  BY Zenon
<1>1. RouteInv => ArrivesInOrder
  <2>1. part = "delivery" => Strict
    BY Zenon DEF Strict
  <2> QED
    BY <2>1, ZenonT(30) DEF RouteInv, WireInv, ArrivesInOrder
<1> QED
  BY <1>1, RouteInvariant, PTL
=============================================================================
