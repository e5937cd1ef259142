--------------------------- MODULE RecordsProofs ---------------------------
(* Proofs about the parts that keep an account of something other than
   themselves, for every value of the constants. *)
EXTENDS Records, Sequences, TLAPS

-----------------------------------------------------------------------------
(* Budget. The inductive invariant is that the books agree: RoomLeft follows
   from it and from the shares alone. *)

BudgetInv == TypeOK /\ BooksAgree

LEMMA BudgetStarts == Init => BudgetInv
  <1> SUFFICES ASSUME Init PROVE BudgetInv
    BY Zenon
  <1>1. \A s \in Streams : held[s] = 0 /\ segments[s] = 0 /\ ledger[s] = 0 /\ writing[s] = 0
    BY Zenon DEF Init
  <1>2. TypeOK
    <2>1. crowded \in BOOLEAN
      BY Zenon DEF Init
    <2> QED
      BY <2>1 DEF Init, TypeOK
  <1>3. used = Total(held)
    BY <1>1 DEF Init, Total, Streams
  <1>4. \A s \in Streams : held[s] = segments[s] + ledger[s] + writing[s]
    BY <1>1
  <1> QED
    BY <1>2, <1>3, <1>4, Zenon DEF BudgetInv, BooksAgree

(* budget.add moves what a stream holds and what all hold by the same bytes. *)
LEMMA AddKeepsTotal ==
  ASSUME TypeOK, used = Total(held), NEW s \in Streams, NEW bytes \in Int, add(s, bytes)
  PROVE  /\ used' \in Int /\ held' \in [Streams -> Int]
         /\ used' = Total(held')
         /\ held'[s] = held[s] + bytes
         /\ \A t \in Streams \ {s} : held'[t] = held[t]
  <1>1. held' = [held EXCEPT ![s] = held[s] + bytes] /\ used' = used + bytes
    BY Zenon DEF add
  <1>2. held \in [Streams -> Int] /\ used \in Int
    BY Zenon DEF TypeOK
  <1>3. held' \in [Streams -> Int] /\ used' \in Int
    BY <1>1, <1>2
  <1>4. /\ held'[s] = held[s] + bytes
        /\ \A t \in Streams \ {s} : held'[t] = held[t]
    BY <1>1, <1>2, Zenon
  <1>5. \A t \in Streams : held[t] \in Int /\ held'[t] \in Int
    BY <1>2, <1>3, Zenon
  <1>6. used' = Total(held')
    <2>1. CASE s = "events"
      BY <2>1, <1>1, <1>4, <1>5 DEF Total, Streams
    <2>2. CASE s = "inventory"
      BY <2>2, <1>1, <1>4, <1>5 DEF Total, Streams
    <2>3. CASE s = "assessments"
      BY <2>3, <1>1, <1>4, <1>5 DEF Total, Streams
    <2> QED
      BY <2>1, <2>2, <2>3, Zenon DEF Streams
  <1> QED
    BY <1>3, <1>4, <1>6, Zenon

LEMMA BudgetKeeps == BudgetInv /\ [Next]_vars => BudgetInv'
  <1> SUFFICES ASSUME BudgetInv, [Next]_vars PROVE BudgetInv'
    BY Zenon
  <1> USE DEF BudgetInv
  <1>1. ASSUME NEW s \in Streams, NEW bytes \in Sizes, reserve(s, bytes) PROVE BudgetInv'
    <2>1. bytes \in Nat /\ add(s, bytes) /\ writing[s] = 0
      BY <1>1, BudgetConstants, Zenon DEF reserve
    <2>2. /\ used' \in Int /\ held' \in [Streams -> Int] /\ used' = Total(held')
          /\ held'[s] = held[s] + bytes /\ \A t \in Streams \ {s} : held'[t] = held[t]
      BY <2>1, AddKeepsTotal DEF BooksAgree
    <2>3. TypeOK'
      BY <1>1, <2>1, <2>2, Zenon DEF reserve, TypeOK
    <2>4. \A t \in Streams : held'[t] = segments'[t] + ledger'[t] + writing'[t]
      BY <1>1, <2>1, <2>2 DEF reserve, TypeOK, BooksAgree
    <2> QED
      BY <2>2, <2>3, <2>4, Zenon DEF BooksAgree
  <1>2. ASSUME NEW s \in Streams, Written(s) PROVE BudgetInv'
    <2>1. TypeOK'
      <3>1. crowded' \in BOOLEAN
        BY <1>2, Zenon DEF Written
      <3>2. segments' \in [Streams -> Nat] /\ writing' \in [Streams -> Nat]
        BY <1>2 DEF Written, TypeOK
      <3> QED
        BY <1>2, <3>1, <3>2, Zenon DEF Written, TypeOK
    <2>2. \A t \in Streams : held'[t] = segments'[t] + ledger'[t] + writing'[t]
      BY <1>2 DEF Written, TypeOK, BooksAgree
    <2>3. used' = Total(held')
      BY <1>2, Zenon DEF Written, BooksAgree, Total
    <2> QED
      BY <2>1, <2>2, <2>3, Zenon DEF BooksAgree
  <1>3. ASSUME NEW s \in Streams, crowd(s) PROVE BudgetInv'
    <2>1. -writing[s] \in Int /\ add(s, -writing[s])
      BY <1>3 DEF crowd, TypeOK
    <2>2. /\ used' \in Int /\ held' \in [Streams -> Int] /\ used' = Total(held')
          /\ held'[s] = held[s] + (-writing[s]) /\ \A t \in Streams \ {s} : held'[t] = held[t]
      BY <2>1, AddKeepsTotal, Zenon DEF BooksAgree
    <2>3. TypeOK'
      BY <1>3, <2>2, Zenon DEF crowd, TypeOK
    <2>4. \A t \in Streams : held'[t] = segments'[t] + ledger'[t] + writing'[t]
      BY <1>3, <2>2 DEF crowd, TypeOK, BooksAgree
    <2> QED
      BY <2>2, <2>3, <2>4, Zenon DEF BooksAgree
  <1>4. ASSUME Waited PROVE BudgetInv'
    BY <1>4, Zenon DEF Waited, TypeOK, BooksAgree, Total
  <1>5. ASSUME NEW s \in Streams, compact(s) PROVE BudgetInv'
    <2>1. PICK bytes \in Sizes : /\ bytes <= segments[s]
                                 /\ add(s, -bytes)
                                 /\ segments' = [segments EXCEPT ![s] = @ - bytes]
      BY <1>5, Zenon DEF compact
    <2>2. bytes \in Nat /\ -bytes \in Int /\ segments[s] \in Nat
      BY BudgetConstants DEF TypeOK
    <2>3. /\ used' \in Int /\ held' \in [Streams -> Int] /\ used' = Total(held')
          /\ held'[s] = held[s] + (-bytes) /\ \A t \in Streams \ {s} : held'[t] = held[t]
      BY <2>1, <2>2, AddKeepsTotal, Zenon DEF BooksAgree
    <2>4. segments[s] - bytes \in Nat
      BY <2>1, <2>2
    <2>5. segments' \in [Streams -> Nat]
      BY <2>1, <2>4, Zenon DEF TypeOK
    <2>6. TypeOK'
      BY <1>5, <2>3, <2>5, Zenon DEF compact, TypeOK
    <2>7. \A t \in Streams : held'[t] = segments'[t] + ledger'[t] + writing'[t]
      BY <1>5, <2>1, <2>2, <2>3 DEF compact, TypeOK, BooksAgree
    <2> QED
      BY <2>3, <2>6, <2>7, Zenon DEF BooksAgree
  <1>6. ASSUME NEW s \in Streams, store(s) PROVE BudgetInv'
    <2>1. PICK bytes \in 0..MaxLedger : /\ add(s, bytes - ledger[s])
                                        /\ ledger' = [ledger EXCEPT ![s] = bytes]
      BY <1>6, Zenon DEF store
    <2>2. bytes \in Nat /\ ledger[s] \in Nat /\ bytes - ledger[s] \in Int
      BY <2>1, BudgetConstants DEF TypeOK
    <2>3. /\ used' \in Int /\ held' \in [Streams -> Int] /\ used' = Total(held')
          /\ held'[s] = held[s] + (bytes - ledger[s]) /\ \A t \in Streams \ {s} : held'[t] = held[t]
      BY <2>1, <2>2, AddKeepsTotal, Zenon DEF BooksAgree
    <2>4. TypeOK'
      BY <1>6, <2>1, <2>2, <2>3, Zenon DEF store, TypeOK
    <2>5. \A t \in Streams : held'[t] = segments'[t] + ledger'[t] + writing'[t]
      BY <1>6, <2>1, <2>2, <2>3 DEF store, TypeOK, BooksAgree
    <2> QED
      BY <2>3, <2>4, <2>5, Zenon DEF BooksAgree
  <1>7. ASSUME NEW to \in Limits, set(to) PROVE BudgetInv'
    BY <1>7, Zenon DEF set, TypeOK, BooksAgree, Total
  <1>8. ASSUME Recover PROVE BudgetInv'
    <2>1. PICK landed \in SUBSET {s \in Streams : writing[s] > 0} :
            segments' = [s \in Streams |-> segments[s] + IF s \in landed THEN writing[s] ELSE 0]
      BY <1>8, Zenon DEF Recover
    <2>2. segments' \in [Streams -> Nat]
      BY <2>1 DEF TypeOK
    <2>3. /\ held' = [s \in Streams |-> segments'[s] + ledger[s]] /\ used' = Total(held')
          /\ writing' = [s \in Streams |-> 0] /\ ledger' = ledger /\ crowded' = FALSE /\ limit' = limit
      BY <1>8, Zenon DEF Recover
    <2>4. held' \in [Streams -> Int]
      BY <2>2, <2>3 DEF TypeOK
    <2>5. used' \in Int
      BY <2>3, <2>4 DEF Total, Streams
    <2>6. TypeOK'
      BY <2>2, <2>3, <2>4, <2>5, Zenon DEF TypeOK
    <2>7. \A t \in Streams : held'[t] = segments'[t] + ledger'[t] + writing'[t]
      BY <2>2, <2>3 DEF TypeOK
    <2> QED
      BY <2>3, <2>6, <2>7, Zenon DEF BooksAgree
  <1>9. CASE UNCHANGED vars
    BY <1>9, Zenon DEF vars, TypeOK, BooksAgree, Total
  <1> QED
    BY <1>1, <1>2, <1>3, <1>4, <1>5, <1>6, <1>7, <1>8, <1>9, Zenon DEF Next

(* The shares of Stream.share leave the events and the inventory a part of the
   budget that the other streams cannot take, whatever they hold. *)
LEMMA SharesLeaveRoom == BudgetInv => RoomLeft
  <1> SUFFICES ASSUME BudgetInv, WithinShares
               PROVE  /\ held["events"] = 0 => used < limit - Reserved
                      /\ held["inventory"] = 0 => used < limit - Reserved
    BY Zenon DEF RoomLeft, HasRoom
  <1>1. limit \in Nat /\ Reserved \in Nat /\ 16 * Reserved < limit
    BY BudgetConstants, Zenon DEF BudgetInv, TypeOK
  <1>2. /\ held["events"] \in Int /\ held["inventory"] \in Int /\ held["assessments"] \in Int
        /\ used = held["events"] + held["inventory"] + held["assessments"]
    BY Zenon DEF BudgetInv, TypeOK, BooksAgree, Total, Streams
  <1>3. /\ held["events"] <= (limit \div 8) * 7
        /\ held["inventory"] <= limit \div 2
        /\ held["assessments"] <= limit \div 16
    BY Zenon DEF WithinShares, share, Streams
  <1>4. /\ 8 * (limit \div 8) <= limit /\ 2 * (limit \div 2) <= limit /\ 16 * (limit \div 16) <= limit
        /\ limit \div 8 \in Int /\ limit \div 2 \in Int /\ limit \div 16 \in Int
    BY <1>1
  <1> QED
    BY <1>1, <1>2, <1>3, <1>4

-----------------------------------------------------------------------------
(* Reporting. The sequence the agent goes on from covers every one it used:
   the count in memory does, and so does the file as the process and as a power
   cut leave it, unless it is missing and none was used, or damaged. A damaged
   one is replaced by the clock, so the clock has to be ahead as well: since a
   run began, no more sequences were used than seconds passed, but for the
   first one, the last one and those begun after the agent was asked to stop. *)

(* The reports that left the agent or are about to. *)
Carrying == {"send", "asked", "lastSend", "lastAsked"}
Used == flight \cup received \cup (IF phase \in Carrying THEN {report} ELSE {})

Renamed == {"renamed", "lastRenamed"}
Phases == Carrying \cup Renamed \cup {"off", "write", "wait", "last"}

(* How far a sequence may be ahead of the clock. *)
Margin(place) ==
  IF place = "write" THEN 0 ELSE IF place \in {"renamed", "send", "asked", "wait", "last"} THEN 1 ELSE 2
Reach == seconds + rounds + Margin(phase)

Covers(n, taken) ==
  \/ n = Q!Damaged
  \/ n = Q!Missing /\ taken = {}
  \/ n \in Nat /\ \A r \in taken : r.sequence <= n

ReportingType ==
  /\ seconds \in Nat
  /\ rounds \in 0..MaxRounds
  /\ written \in Nat
  /\ last \in Nat
  /\ phase \in Phases
  /\ sequence \in Int /\ synced \in Int
  /\ \A r \in Used : r.sequence \in Nat /\ r.count \in Nat

InOrder == \A r, s \in Used : r.sequence < s.sequence <=> r.count < s.count

Counted ==
  /\ \A r \in Used : r.count <= written /\ r.sequence <= Reach
  /\ sequence <= Reach
  /\ synced <= Reach
  /\ Covers(sequence, Used)
  /\ Covers(synced, Used)

GoesOn ==
  phase # "off" =>
    /\ \A r \in Used : r.sequence <= last
    /\ IF phase \in Renamed THEN sequence = last + 1 ELSE last <= Reach

ReportingInv == ReportingType /\ InOrder /\ Counted /\ GoesOn

LEMMA RoundsAreFew == MaxRounds \in Nat /\ MaxRounds <= 3 /\ 0..MaxRounds \subseteq Nat
  BY RecordsAssumption DEF Q!RestartSec

LEMMA ReportingStarts == Q!Init => ReportingInv
  <1> SUFFICES ASSUME Q!Init PROVE ReportingInv
    BY Zenon
  <1>1. /\ Used = {} /\ seconds = 100 /\ rounds = 0 /\ written = 0 /\ last = 0 /\ phase = "off"
        /\ sequence = -1 /\ synced = -1
    BY Zenon DEF Q!Init, Used, Carrying, Q!Now, Q!Missing
  <1>2. rounds \in 0..MaxRounds
    BY <1>1, RoundsAreFew
  <1> QED
    BY <1>1, <1>2 DEF ReportingInv, ReportingType, InOrder, Counted, GoesOn, Covers, Reach, Margin, Q!Missing, Q!Damaged, Phases

(* A step that uses no sequence keeps the order of those used, and what covers
   them as long as the clock and the margin do not fall back. *)
LEMMA NoneUsed ==
  ASSUME ReportingInv, Used' \subseteq Used, seconds' \in Nat, rounds' \in 0..MaxRounds, phase' \in Phases,
         last' \in Nat, UNCHANGED written,
         Reach <= Reach',
         \/ sequence' \in {sequence, synced, Q!Damaged}
         \/ sequence' = last + 1 /\ phase \in {"write", "last"} /\ sequence' <= Reach',
         synced' \in {sequence, synced, Q!Damaged},
         GoesOn'
  PROVE  ReportingInv'
  <1>1. ReportingType'
    BY DEF ReportingInv, ReportingType, Q!Damaged
  <1>2. InOrder'
    BY Zenon DEF ReportingInv, InOrder
  <1>3. (Reach) \in Nat /\ Reach' \in Nat
    <2>1. rounds \in Nat /\ rounds' \in Nat /\ seconds \in Nat /\ seconds' \in Nat
      BY <1>1, RoundsAreFew, Zenon DEF ReportingInv, ReportingType
    <2>2. \A place : Margin(place) \in Nat
      BY Zenon DEF Margin
    <2> QED
      BY <2>1, <2>2 DEF Reach
  <1>4. \A r \in Used' : r.count <= written' /\ r.sequence <= Reach'
    BY <1>3 DEF ReportingInv, Counted, ReportingType
  <1>5. sequence' <= Reach' /\ synced' <= Reach'
    BY <1>3 DEF ReportingInv, Counted, ReportingType, Q!Damaged
  <1>6. Covers(synced, Used)'
    BY DEF ReportingInv, Counted, Covers
  <1>7. Covers(sequence, Used)'
    <2>1. CASE sequence' \in {sequence, synced, Q!Damaged}
      BY <2>1 DEF ReportingInv, Counted, Covers
    <2>2. CASE sequence' = last + 1 /\ phase \in {"write", "last"}
      BY <2>2 DEF ReportingInv, ReportingType, GoesOn, Covers
    <2> QED
      BY <2>1, <2>2, Zenon
  <1> QED
    BY <1>1, <1>2, <1>4, <1>5, <1>6, <1>7, Zenon DEF ReportingInv, Counted

(* A report that is written takes the next sequence, which no other carries. *)
LEMMA OneUsed ==
  ASSUME ReportingInv, Q!Synced
  PROVE  ReportingInv'
  <1> DEFINE new == [sequence |-> last + 1, count |-> written + 1, stopping |-> phase = "lastRenamed"]
  <1>1. /\ phase \in Renamed /\ synced' = sequence /\ last' = last + 1 /\ written' = written + 1
        /\ report' = new /\ phase' = (IF phase = "lastRenamed" THEN "lastSend" ELSE "send")
        /\ UNCHANGED <<seconds, sequence, flight, received, rounds>>
    BY Zenon DEF Q!Synced, Renamed
  <1>2. Used' = Used \cup {new}
    BY <1>1, Zenon DEF Used, Renamed, Carrying
  <1>3. /\ \A r \in Used : r.sequence \in Nat /\ r.count \in Nat /\ r.sequence <= last /\ r.count <= written
        /\ last \in Nat /\ written \in Nat /\ seconds \in Nat /\ rounds \in Nat /\ sequence = last + 1
    BY <1>1, RoundsAreFew, Zenon DEF ReportingInv, ReportingType, Counted, GoesOn, Renamed
  <1>4. new.sequence = last + 1 /\ new.count = written + 1
    BY Zenon
  <1> HIDE DEF new
  <1>5. Reach' = Reach
    BY <1>1, Zenon DEF Reach, Margin, Renamed
  <1>6. Reach \in Nat /\ sequence <= Reach
    BY <1>1, <1>3 DEF ReportingInv, Counted, Reach, Margin, Renamed
  <1>7. ReportingType'
    BY <1>1, <1>2, <1>3, <1>4 DEF ReportingInv, ReportingType, Phases, Carrying
  <1>8. InOrder'
    BY <1>2, <1>3, <1>4 DEF ReportingInv, InOrder
  <1>9. \A r \in Used' : r.count <= written' /\ r.sequence <= last' /\ r.sequence <= sequence'
    BY <1>1, <1>2, <1>3, <1>4
  <1>10. Counted'
    <2>1. Covers(sequence, Used)' /\ Covers(synced, Used)'
      BY <1>1, <1>3, <1>9 DEF Covers
    <2>3. \A r \in Used' : r.sequence <= Reach'
      BY <1>1, <1>2, <1>3, <1>4, <1>5, <1>6
    <2> QED
      BY <1>1, <1>5, <1>6, <1>9, <2>1, <2>3, Zenon DEF Counted
  <1>11. GoesOn'
    BY <1>1, <1>3, <1>5, <1>6, <1>9, Zenon DEF GoesOn, Renamed
  <1> QED
    BY <1>7, <1>8, <1>10, <1>11, Zenon DEF ReportingInv

LEMMA ReportingKeeps == ReportingInv /\ Q!Next => ReportingInv'
  <1> SUFFICES ASSUME ReportingInv, Q!Next PROVE ReportingInv'
    BY Zenon
  <1> USE RoundsAreFew
  <1>0. /\ seconds \in Nat /\ rounds \in Nat /\ rounds <= 3 /\ rounds \in 0..MaxRounds /\ last \in Nat /\ written \in Nat
        /\ phase \in Phases /\ sequence \in Int /\ synced \in Int
        /\ \A r \in Used : r.sequence \in Nat /\ r.count \in Nat
    BY DEF ReportingInv, ReportingType
  <1>1. CASE Q!openSequence
    <2>1. /\ phase = "off" /\ seconds' = seconds + 5 /\ last' = Q!read(seconds') /\ phase' = "write" /\ rounds' = 0
          /\ UNCHANGED <<sequence, synced, report, written, flight, received>>
      BY <1>1, Zenon DEF Q!openSequence, Q!RestartSec
    <2>2. Used' = Used
      BY <2>1, Zenon DEF Used, Carrying
    <2>3. Reach <= seconds + 5 /\ Reach' = seconds + 5 /\ Reach \in Nat
      BY <2>1, <1>0 DEF Reach, Margin, Phases, Carrying, Renamed
    <2>4. /\ sequence <= seconds + 5 /\ (\A r \in Used : r.sequence <= seconds + 5)
      BY <2>3, <1>0 DEF ReportingInv, Counted
    <2>5. last' \in Nat /\ last' <= seconds + 5 /\ \A r \in Used : r.sequence <= last'
      <3>1. CASE sequence = Q!Damaged
        BY <3>1, <2>1, <2>4, <1>0 DEF Q!read, Q!Damaged, Q!Missing
      <3>2. CASE sequence = Q!Missing /\ Used = {}
        BY <3>2, <2>1, <1>0 DEF Q!read, Q!Damaged, Q!Missing
      <3>3. CASE sequence \in Nat /\ \A r \in Used : r.sequence <= sequence
        BY <3>3, <2>1, <2>4, <1>0 DEF Q!read, Q!Damaged, Q!Missing
      <3> QED
        BY <3>1, <3>2, <3>3, Zenon DEF ReportingInv, Counted, Covers
    <2>6. GoesOn'
      BY <2>1, <2>2, <2>3, <2>5, <1>0, Zenon DEF GoesOn, Renamed
    <2> QED
      BY <2>1, <2>2, <2>3, <2>5, <2>6, <1>0, NoneUsed DEF Phases
  <1>2. CASE Q!next
    <2>1. /\ phase \in {"write", "last"} /\ sequence' = last + 1
          /\ phase' = (IF phase = "last" THEN "lastRenamed" ELSE "renamed")
          /\ UNCHANGED <<seconds, synced, last, report, written, flight, received, rounds>>
      BY <1>2, Zenon DEF Q!next, Q!About
    <2>2. Used' \subseteq Used
      BY <2>1, Zenon DEF Used, Carrying
    <2>3. Reach' = Reach + 1 /\ Reach \in Nat
      BY <2>1, <1>0 DEF Reach, Margin, Phases, Carrying, Renamed
    <2>4. last <= Reach /\ \A r \in Used : r.sequence <= last
      BY <2>1, Zenon DEF ReportingInv, GoesOn, Renamed
    <2>5. GoesOn'
      BY <2>1, <2>2, <2>4, Zenon DEF GoesOn, Renamed
    <2> QED
      BY <2>1, <2>2, <2>3, <2>4, <2>5, <1>0, NoneUsed DEF Phases, Renamed
  <1>3. CASE Q!nextFails
    <2>1. /\ phase \in {"write", "last"} /\ phase' = (IF phase = "last" THEN "off" ELSE "wait")
          /\ UNCHANGED <<seconds, sequence, synced, last, report, written, flight, received, rounds>>
      BY <1>3, Zenon DEF Q!nextFails, Q!Unwritten, Q!About
    <2>2. Used' \subseteq Used
      BY <2>1, Zenon DEF Used, Carrying
    <2>3. Reach' = Reach + 1 /\ Reach \in Nat
      BY <2>1, <1>0 DEF Reach, Margin, Phases, Carrying, Renamed
    <2>4. last <= Reach /\ \A r \in Used : r.sequence <= last
      BY <2>1, Zenon DEF ReportingInv, GoesOn, Renamed
    <2>5. GoesOn'
      BY <2>1, <2>2, <2>3, <2>4, <1>0 DEF GoesOn, Renamed
    <2> QED
      BY <2>1, <2>2, <2>3, <2>5, <1>0, NoneUsed DEF Phases
  <1>4. CASE Q!Synced
    BY <1>4, OneUsed, Zenon
  <1>5. CASE Q!SyncFails
    <2>1. /\ phase \in Renamed /\ phase' = (IF phase = "lastRenamed" THEN "off" ELSE "wait")
          /\ UNCHANGED <<seconds, sequence, report, written, flight, received, rounds>>
          /\ \/ UNCHANGED <<last, synced>>
             \/ last' = last + 1 /\ synced' = sequence
      BY <1>5, Zenon DEF Q!SyncFails, Renamed
    <2>2. Used' \subseteq Used
      BY <2>1, Zenon DEF Used, Carrying, Renamed
    <2>3. Reach' = Reach /\ Reach \in Nat
      BY <2>1, <1>0 DEF Reach, Margin, Phases, Carrying, Renamed, Renamed
    <2>4. sequence = last + 1 /\ sequence <= Reach /\ \A r \in Used : r.sequence <= last
      BY <2>1, Zenon DEF ReportingInv, Counted, GoesOn, Renamed
    <2>5. GoesOn'
      BY <2>1, <2>2, <2>3, <2>4, <1>0 DEF GoesOn, Renamed
    <2> QED
      BY <2>1, <2>2, <2>3, <2>5, <1>0, NoneUsed DEF Phases
  <1>6. CASE Q!send
    <2>1. /\ phase \in {"send", "lastSend"} /\ phase' = (IF phase = "lastSend" THEN "lastAsked" ELSE "asked")
          /\ flight' = flight \cup {report}
          /\ UNCHANGED <<seconds, sequence, synced, last, report, written, received, rounds>>
      BY <1>6, Zenon DEF Q!send
    <2>2. Used' = Used
      BY <2>1, Zenon DEF Used, Carrying
    <2>3. Reach' = Reach /\ Reach \in Nat
      BY <2>1, <1>0 DEF Reach, Margin, Phases, Carrying, Renamed
    <2>4. GoesOn'
      BY <2>1, <2>2, <2>3, Zenon DEF ReportingInv, GoesOn, Renamed
    <2> QED
      BY <2>1, <2>2, <2>3, <2>4, <1>0, NoneUsed DEF Phases, Carrying
  <1>7. CASE Q!Arrive \/ Q!AskToStop
    <2>1. /\ flight' \cup received' = flight \cup received
          /\ UNCHANGED <<seconds, sequence, synced, last, phase, report, written, rounds>>
      BY <1>7, Zenon DEF Q!Arrive, Q!AskToStop
    <2>2. Used' = Used
      BY <2>1, Zenon DEF Used
    <2>3. Reach' = Reach /\ Reach \in Nat
      BY <2>1, <1>0 DEF Reach, Margin, Phases, Carrying, Renamed
    <2>4. GoesOn'
      BY <2>1, <2>2, <2>3, Zenon DEF ReportingInv, GoesOn
    <2> QED
      BY <2>1, <2>2, <2>3, <2>4, <1>0, NoneUsed
  <1>8. CASE Q!Report \/ Q!Cut \/ Q!Stopped
    <2>1. /\ \/ phase = "asked" /\ phase' = "send" /\ report' = report
             \/ phase \in {"asked", "send"} /\ phase' = "wait"
             \/ phase = "lastAsked" /\ phase' = "off"
          /\ UNCHANGED <<seconds, sequence, synced, last, written, flight, received, rounds>>
      BY <1>8, Zenon DEF Q!Report, Q!Cut, Q!Stopped
    <2>2. Used' \subseteq Used
      BY <2>1, Zenon DEF Used, Carrying
    <2>3. Reach' = Reach /\ Reach \in Nat
      BY <2>1, <1>0 DEF Reach, Margin, Phases, Carrying, Renamed
    <2>4. GoesOn'
      BY <2>1, <2>2, <2>3, Zenon DEF ReportingInv, GoesOn, Renamed
    <2> QED
      BY <2>1, <2>2, <2>3, <2>4, <1>0, NoneUsed DEF Phases, Carrying
  <1>9. CASE Q!Due
    <2>1. /\ phase = "wait" /\ phase' = "write"
          /\ \/ rounds < MaxRounds /\ rounds' = rounds + 1 /\ seconds' = seconds
             \/ seconds' = seconds + 10 /\ rounds' = rounds
          /\ UNCHANGED <<sequence, synced, last, report, written, flight, received>>
      BY <1>9, Zenon DEF Q!Due, Q!Interval
    <2>2. Used' = Used
      BY <2>1, Zenon DEF Used, Carrying
    <2>3. Reach \in Nat /\ Reach <= Reach'
      BY <2>1, <1>0 DEF Reach, Margin, Phases, Carrying, Renamed
    <2>4. Reach' \in Nat /\ seconds' \in Nat /\ rounds' \in 0..MaxRounds
      BY <2>1, <1>0 DEF Reach, Margin
    <2>5. last <= Reach /\ \A r \in Used : r.sequence <= last
      BY <2>1, Zenon DEF ReportingInv, GoesOn, Renamed
    <2>6. last <= Reach'
      BY <2>3, <2>4, <2>5, <1>0
    <2>7. GoesOn'
      BY <2>1, <2>2, <2>5, <2>6, Zenon DEF GoesOn, Renamed
    <2> QED
      BY <2>1, <2>2, <2>3, <2>4, <2>7, <1>0, NoneUsed, Zenon DEF Phases
  <1>10. CASE Q!lastOne
    <2>1. /\ phase = "wait" /\ phase' \in {"off", "last"}
          /\ UNCHANGED <<seconds, sequence, synced, last, report, written, flight, received, rounds>>
      BY <1>10, Zenon DEF Q!lastOne
    <2>2. Used' = Used
      BY <2>1, Zenon DEF Used, Carrying
    <2>3. Reach \in Nat /\ Reach' \in Nat /\ Reach <= Reach'
      BY <2>1, <1>0 DEF Reach, Margin, Phases, Carrying, Renamed
    <2>4. GoesOn'
      BY <2>1, <2>2, <2>3, <1>0 DEF ReportingInv, GoesOn, Renamed
    <2> QED
      BY <2>1, <2>2, <2>3, <2>4, <1>0, NoneUsed, Zenon DEF Phases
  <1>11. CASE Q!Kill \/ Q!LosePower \/ Q!Damage
    <2>1. /\ phase' = "off" /\ last' \in {0, last}
          /\ sequence' = synced' /\ sequence' \in {sequence, synced, Q!Damaged}
          /\ UNCHANGED <<seconds, written, flight, received, rounds>>
      BY <1>11, Zenon DEF Q!Kill, Q!LosePower, Q!Die, Q!Damage
    <2>2. Used' \subseteq Used
      BY <2>1, Zenon DEF Used, Carrying
    <2>3. Reach <= Reach'
      BY <2>1, <1>0 DEF Reach, Margin, Phases, Carrying, Renamed
    <2>5. GoesOn'
      BY <2>1, Zenon DEF GoesOn
    <2> QED
      BY <2>1, <2>2, <2>3, <2>5, <1>0, NoneUsed DEF Phases
  <1> QED
    BY <1>1, <1>2, <1>3, <1>4, <1>5, <1>6, <1>7, <1>8, <1>9, <1>10, <1>11, Zenon DEF Q!Next

-----------------------------------------------------------------------------
(* Inventory. What a baseline says of a kind was admitted, wherever the baseline
   is kept; as long as it is the last one and no record was dated back, nothing
   that was admitted is later than what it says, or than what the round under
   way is about to make it say. *)

Recorded(k, entry) == [kind |-> k, digest |-> entry.digest, at |-> entry.at]
Known(base) == \A k \in Kinds : base[k] = S!None \/ Recorded(k, base[k]) \in admitted
Judged == {"admitting", "saving"}
Standing(k) == IF at = "saving" /\ chosen[k] # S!None THEN chosen[k] ELSE baseline[k]
Latest(k) == IF chosen[k] # S!None THEN chosen[k] ELSE baseline[k]

InventoryType ==
  /\ clock \in Nat \ {0}
  /\ lost \in BOOLEAN /\ wentBack \in BOOLEAN
  /\ at \in Judged \cup {"stopped", "taking", "waiting"}
  /\ \A r \in admitted : r.at \in Nat \ {0} /\ r.kind \in Kinds

KeptInv ==
  /\ file = S!Damaged \/ Known(file)
  /\ durable = S!Damaged \/ Known(durable)
  /\ at # "stopped" => Known(baseline)

ChosenInv ==
  /\ at \in Judged =>
       \A k \in Kinds : chosen[k] # S!None =>
         /\ chosen[k].at \in Nat \ {0}
         /\ baseline[k] = S!None \/ baseline[k].at > chosen[k].at + Skew \/ baseline[k].at < chosen[k].at
  /\ at = "saving" => \A k \in Kinds : chosen[k] # S!None => Recorded(k, chosen[k]) \in admitted
  /\ at \notin Judged => chosen = S!Empty

SaidInv ==
  at \in Judged \cup {"waiting"} =>
    \A k \in Kinds : said[k] # "none" => Latest(k) # S!None /\ Latest(k).digest = said[k]

LatestInv ==
  at # "stopped" /\ lost = FALSE /\ wentBack = FALSE => \A r \in admitted : r.at <= Standing(r.kind).at

InventoryInv == InventoryType /\ KeptInv /\ ChosenInv /\ SaidInv /\ LatestInv

LEMMA EmptyIs == /\ S!None.at = 0 /\ S!None.digest = "none"
                 /\ \A k \in Kinds : S!Empty[k] = S!None
  BY Zenon DEF S!None, S!Empty

LEMMA InventoryStarts == S!Init => InventoryInv
  <1> SUFFICES ASSUME S!Init PROVE InventoryInv
    BY Zenon
  <1>1. /\ clock = 1 /\ file = S!Empty /\ durable = S!Empty /\ admitted = {} /\ at = "stopped" /\ chosen = S!Empty
    BY Zenon DEF S!Init
  <1>2. lost \in BOOLEAN /\ wentBack \in BOOLEAN
    BY Zenon DEF S!Init
  <1>3. Known(file) /\ Known(durable)
    BY <1>1, EmptyIs, Zenon DEF Known
  <1> QED
    BY <1>1, <1>2, <1>3 DEF InventoryInv, InventoryType, KeptInv, ChosenInv, SaidInv, LatestInv, Judged

(* The time of an entry of a baseline that is known. *)
LEMMA KnownTimes ==
  ASSUME InventoryType, NEW base, Known(base), NEW k \in Kinds
  PROVE  base[k].at \in Nat
  <1>1. CASE base[k] = S!None
    BY <1>1, EmptyIs
  <1>2. CASE Recorded(k, base[k]) \in admitted
    BY <1>2, Zenon DEF InventoryType, Recorded
  <1> QED
    BY <1>1, <1>2, Zenon DEF Known

LEMMA BeginKeeps == ASSUME InventoryInv, S!Begin PROVE InventoryInv'
  <1>1. /\ at = "stopped" /\ baseline' = S!load /\ at' = "taking"
        /\ lost' = (lost \/ \E k \in Kinds : \E r \in admitted : r.kind = k /\ r.at > S!load[k].at)
        /\ UNCHANGED <<clock, file, durable, admitted, wentBack, chosen, said>>
    BY Zenon DEF S!Begin, S!host
  <1>2. Known(S!load)
    BY EmptyIs, Zenon DEF S!load, InventoryInv, KeptInv, Known
  <1>3. InventoryType'
    <2>1. lost' \in BOOLEAN
      BY <1>1, Zenon DEF InventoryInv, InventoryType
    <2> QED
      BY <1>1, <2>1, Zenon DEF InventoryInv, InventoryType
  <1>4. KeptInv'
    BY <1>1, <1>2, Zenon DEF InventoryInv, KeptInv, Known
  <1>5. ChosenInv' /\ SaidInv'
    BY <1>1, Zenon DEF InventoryInv, ChosenInv, SaidInv, Judged
  <1>6. LatestInv'
    <2> SUFFICES ASSUME lost' = FALSE, NEW r \in admitted PROVE r.at <= baseline'[r.kind].at
      BY <1>1, Zenon DEF LatestInv, Standing
    <2>1. ~ \E k \in Kinds : \E o \in admitted : o.kind = k /\ o.at > S!load[k].at
      BY <1>1, Zenon
    <2>2. r.kind \in Kinds /\ r.at \in Nat
      BY Zenon DEF InventoryInv, InventoryType
    <2>3. S!load[r.kind].at \in Nat
      BY <1>2, <2>2, KnownTimes, Zenon DEF InventoryInv
    <2> QED
      BY <1>1, <2>1, <2>2, <2>3
  <1> QED
    BY <1>3, <1>4, <1>5, <1>6, Zenon DEF InventoryInv

LEMMA TakeKeeps == ASSUME InventoryInv, S!Take PROVE InventoryInv'
  <1>1. /\ at = "taking"
        /\ chosen' = [k \in Kinds |-> IF S!judge(S!items(k), baseline[k]) THEN S!Snapshot(k) ELSE S!None]
        /\ said' = [k \in Kinds |-> IF chosen'[k] = S!None /\ baseline[k] # S!None /\ clock <= baseline[k].at
                                    THEN "none" ELSE S!items(k)]
        /\ at' = IF \E k \in Kinds : chosen'[k] # S!None THEN "admitting" ELSE "waiting"
        /\ UNCHANGED <<clock, file, durable, admitted, wentBack, baseline, lost>>
    BY Zenon DEF S!Take, S!host
  <1>2. clock \in Nat \ {0} /\ Known(baseline)
    BY <1>1, Zenon DEF InventoryInv, InventoryType, KeptInv
  <1>3. ASSUME NEW k \in Kinds, S!judge(S!items(k), baseline[k])
        PROVE  /\ chosen'[k].digest = S!items(k) /\ chosen'[k].at = clock /\ chosen'[k] # S!None
               /\ baseline[k] = S!None \/ baseline[k].at > chosen'[k].at + Skew \/ baseline[k].at < chosen'[k].at
    <2>1. chosen'[k] = [digest |-> S!items(k), at |-> clock] /\ S!items(k) # "none"
      BY <1>1, <1>3, Zenon DEF S!Snapshot, S!judge
    <2>2. chosen'[k].at = clock /\ chosen'[k].digest = S!items(k)
      BY <2>1
    <2>3. baseline[k] = S!None \/ baseline[k].at > clock + Skew \/ clock > baseline[k].at
      BY <1>3, Zenon DEF S!judge, S!ahead
    <2>4. baseline[k].at \in Nat
      BY <1>2, KnownTimes, Zenon DEF InventoryInv
    <2> QED
      BY <2>1, <2>2, <2>3, <2>4, <1>2, EmptyIs, Zenon
  <1>4. ASSUME NEW k \in Kinds, chosen'[k] # S!None PROVE S!judge(S!items(k), baseline[k])
    BY <1>1, <1>4, Zenon
  <1>5. InventoryType'
    BY <1>1, Zenon DEF InventoryInv, InventoryType, Judged
  <1>6. KeptInv'
    BY <1>1, Zenon DEF InventoryInv, KeptInv, Known
  <1>7. ChosenInv'
    <2>1. at' \in Judged => \A k \in Kinds : chosen'[k] # S!None =>
            /\ chosen'[k].at \in Nat \ {0}
            /\ baseline[k] = S!None \/ baseline[k].at > chosen'[k].at + Skew \/ baseline[k].at < chosen'[k].at
      <3> SUFFICES ASSUME NEW k \in Kinds, chosen'[k] # S!None
                   PROVE  /\ chosen'[k].at \in Nat \ {0}
                          /\ baseline[k] = S!None \/ baseline[k].at > chosen'[k].at + Skew \/ baseline[k].at < chosen'[k].at
        BY Zenon
      <3> QED
        BY <1>2, <1>3, <1>4, Zenon
    <2>2. at' \notin Judged => chosen' = S!Empty
      <3> SUFFICES ASSUME at' \notin Judged PROVE chosen' = S!Empty
        BY Zenon
      <3>1. \A k \in Kinds : chosen'[k] = S!None
        BY <1>1, Zenon DEF Judged
      <3> QED
        BY <3>1, <1>1, Zenon DEF S!Empty
    <2>3. at' # "saving"
      BY <1>1, Zenon
    <2> QED
      BY <2>1, <2>2, <2>3, <1>1, Zenon DEF ChosenInv
  <1>8. SaidInv'
    <2> SUFFICES ASSUME NEW k \in Kinds, said'[k] # "none"
                 PROVE  /\ (chosen'[k] # S!None => chosen'[k].digest = said'[k])
                        /\ (chosen'[k] = S!None => baseline[k] # S!None /\ baseline[k].digest = said'[k])
      BY <1>1, Zenon DEF SaidInv, Latest
    <2>1. said'[k] = S!items(k) /\ ~(chosen'[k] = S!None /\ baseline[k] # S!None /\ clock <= baseline[k].at)
      BY <1>1, Zenon
    <2>2. CASE chosen'[k] # S!None
      BY <2>1, <2>2, <1>3, <1>4, Zenon
    <2>3. CASE chosen'[k] = S!None
      <3>1. ~S!judge(S!items(k), baseline[k])
        BY <2>3, <1>3, Zenon
      <3>2. baseline[k].at \in Nat
        BY <1>2, KnownTimes, Zenon DEF InventoryInv
      <3> QED
        BY <2>1, <2>3, <3>1, <3>2, <1>2 DEF S!judge
    <2> QED
      BY <2>2, <2>3, Zenon
  <1>9. LatestInv'
    BY <1>1, Zenon DEF InventoryInv, LatestInv, Standing
  <1> QED
    BY <1>5, <1>6, <1>7, <1>8, <1>9, Zenon DEF InventoryInv

(* The collector stopped: what is kept is all there is. *)
LEMMA StoppedKeeps ==
  ASSUME InventoryInv, at' = "stopped", chosen' = S!Empty, UNCHANGED <<clock, admitted, wentBack, lost>>,
         file' \in {file, durable, S!Damaged}, durable' \in {durable, S!Damaged}
  PROVE  InventoryInv'
  <1>1. InventoryType'
    BY Zenon DEF InventoryInv, InventoryType
  <1>2. KeptInv'
    BY Zenon DEF InventoryInv, KeptInv, Known
  <1> QED
    BY <1>1, <1>2, Zenon DEF InventoryInv, ChosenInv, SaidInv, LatestInv, Judged

LEMMA AdmitKeeps == ASSUME InventoryInv, S!Admit PROVE InventoryInv'
  <1>1. CASE at' = "stopped"
    <2>1. chosen' = S!Empty /\ UNCHANGED <<clock, admitted, wentBack, lost, file, durable>>
      BY <1>1, Zenon DEF S!Admit, S!host
    <2> QED
      BY <1>1, <2>1, StoppedKeeps, Zenon
  <1>2. CASE at' # "stopped"
    <2>1. /\ at = "admitting" /\ at' = "saving" /\ admitted' = admitted \cup S!Admitting
          /\ wentBack' = (wentBack \/ \E k \in S!Chosen : baseline[k].at > chosen[k].at + Skew)
          /\ UNCHANGED <<baseline, chosen, clock, file, durable, said, lost>>
      BY <1>2, Zenon DEF S!Admit, S!host
    <2>2. S!Admitting = {Recorded(k, chosen[k]) : k \in S!Chosen}
      BY Zenon DEF S!Admitting, Recorded
    <2>3. \A k \in S!Chosen : k \in Kinds /\ chosen[k] # S!None /\ chosen[k].at \in Nat \ {0}
      BY <2>1, Zenon DEF S!Chosen, InventoryInv, ChosenInv, Judged
    <2>4. \A k : Recorded(k, chosen[k]).at = chosen[k].at /\ Recorded(k, chosen[k]).kind = k
      BY Zenon DEF Recorded
    <2>5. InventoryType'
      <3>1. wentBack' \in BOOLEAN
        BY <2>1, Zenon DEF InventoryInv, InventoryType
      <3>2. \A r \in admitted' : r.at \in Nat \ {0} /\ r.kind \in Kinds
        BY <2>1, <2>2, <2>3, <2>4 DEF InventoryInv, InventoryType
      <3> QED
        BY <2>1, <3>1, <3>2, Zenon DEF InventoryInv, InventoryType, Judged
    <2>6. KeptInv'
      BY <2>1, Zenon DEF InventoryInv, KeptInv, Known
    <2>7. ChosenInv'
      BY <2>1, <2>2, Zenon DEF InventoryInv, ChosenInv, Judged, S!Chosen
    <2>8. SaidInv'
      BY <2>1, Zenon DEF InventoryInv, SaidInv, Judged, Latest
    <2>9. LatestInv'
      <3> SUFFICES ASSUME lost' = FALSE, wentBack' = FALSE, NEW r \in admitted'
                   PROVE  r.at <= Latest(r.kind).at
        BY <2>1, Zenon DEF LatestInv, Standing, Latest
      <3>1. wentBack = FALSE /\ ~ \E k \in S!Chosen : baseline[k].at > chosen[k].at + Skew
        BY <2>1, Zenon DEF InventoryInv, InventoryType
      <3>2. CASE r \in S!Admitting
        BY <3>2, <2>2, <2>3, <2>4 DEF Latest
      <3>3. CASE r \in admitted
        <4>1. r.at <= baseline[r.kind].at /\ r.kind \in Kinds /\ r.at \in Nat \ {0}
          BY <3>1, <3>3, <2>1, Zenon DEF InventoryInv, InventoryType, LatestInv, Standing
        <4>2. baseline[r.kind].at \in Nat
          BY <4>1, <2>1, KnownTimes, Zenon DEF InventoryInv, KeptInv
        <4>3. CASE chosen[r.kind] = S!None
          BY <4>1, <4>3, Zenon DEF Latest
        <4>4. CASE chosen[r.kind] # S!None
          <5>1. r.kind \in S!Chosen
            BY <4>1, <4>4, Zenon DEF S!Chosen
          <5>2. baseline[r.kind] # S!None
            BY <4>1, EmptyIs
          <5>3. baseline[r.kind].at < chosen[r.kind].at /\ chosen[r.kind].at \in Nat
            BY <5>1, <5>2, <3>1, <4>1, <4>4, <2>1, Zenon DEF InventoryInv, ChosenInv, Judged
          <5> QED
            BY <5>3, <4>1, <4>2, <4>4 DEF Latest
        <4> QED
          BY <4>3, <4>4, Zenon
      <3> QED
        BY <3>2, <3>3, <2>1, Zenon
    <2> QED
      BY <2>5, <2>6, <2>7, <2>8, <2>9, Zenon DEF InventoryInv
  <1> QED
    BY <1>1, <1>2, Zenon

LEMMA SaveKeeps == ASSUME InventoryInv, S!Save PROVE InventoryInv'
  <1>1. CASE at' = "stopped"
    <2>1. chosen' = S!Empty /\ UNCHANGED <<clock, admitted, wentBack, lost, file, durable>>
      BY <1>1, Zenon DEF S!Save, S!host
    <2> QED
      BY <1>1, <2>1, StoppedKeeps, Zenon
  <1>2. CASE at' # "stopped"
    <2>1. /\ at = "saving" /\ at' = "waiting" /\ file' = baseline' /\ chosen' = S!Empty
          /\ baseline' = [k \in Kinds |-> IF k \in S!Chosen THEN chosen[k] ELSE baseline[k]]
          /\ UNCHANGED <<clock, durable, admitted, wentBack, said, lost>>
      BY <1>2, Zenon DEF S!Save, S!host
    <2>2. \A k \in Kinds : baseline'[k] = Latest(k) /\ chosen'[k] = S!None
      BY <2>1, EmptyIs, Zenon DEF S!Chosen, Latest
    <2>3. \A k \in Kinds : Standing(k) = Latest(k)
      BY <2>1, Zenon DEF Standing, Latest
    <2>4. InventoryType'
      BY <2>1, Zenon DEF InventoryInv, InventoryType
    <2>5. KeptInv'
      <3>1. Known(baseline)'
        BY <2>1, <2>2, Zenon DEF InventoryInv, ChosenInv, KeptInv, Known, Latest
      <3> QED
        BY <3>1, <2>1, Zenon DEF InventoryInv, KeptInv, Known
    <2>6. ChosenInv'
      BY <2>1, Zenon DEF ChosenInv, Judged
    <2>7. SaidInv'
      <3>1. \A k \in Kinds : Latest(k)' = baseline'[k]
        BY <2>2, Zenon DEF Latest
      <3> QED
        BY <2>1, <2>2, <3>1 DEF InventoryInv, SaidInv, Judged
    <2>8. LatestInv'
      <3>1. \A k \in Kinds : Standing(k)' = baseline'[k]
        BY <2>1, Zenon DEF Standing
      <3> QED
        BY <2>1, <2>2, <2>3, <3>1 DEF InventoryInv, InventoryType, LatestInv
    <2> QED
      BY <2>4, <2>5, <2>6, <2>7, <2>8, Zenon DEF InventoryInv
  <1> QED
    BY <1>1, <1>2, Zenon

LEMMA InventoryKeeps == InventoryInv /\ S!Next => InventoryInv'
  <1> SUFFICES ASSUME InventoryInv, S!Next PROVE InventoryInv'
    BY Zenon
  <1>1. CASE S!Wake
    <2>1. at = "waiting" /\ at' = "taking" /\ UNCHANGED <<clock, file, durable, admitted, wentBack, baseline, chosen, said, lost>>
      BY <1>1, Zenon DEF S!Wake, S!host
    <2> QED
      BY <2>1, Zenon DEF InventoryInv, InventoryType, KeptInv, Known, ChosenInv, SaidInv, LatestInv, Standing, Judged
  <1>2. CASE \/ \E k \in Kinds, digest \in Digests \cup {"none"} : S!Change(k, digest)
             \/ \E to \in 1..MaxClock : S!SetBack(to)
             \/ S!Tick \/ S!WriteBack
    <2>1. /\ UNCHANGED <<file, admitted, wentBack, baseline, at, chosen, said, lost>>
          /\ durable' \in {file, durable}
      BY <1>2, Zenon DEF S!Change, S!SetBack, S!Tick, S!WriteBack, S!host
    <2>2. clock' \in Nat \ {0}
      BY <1>2, RecordsAssumption DEF S!Change, S!SetBack, S!Tick, S!WriteBack, S!host, InventoryInv, InventoryType
    <2>3. InventoryType' /\ KeptInv'
      BY <2>1, <2>2, Zenon DEF InventoryInv, InventoryType, KeptInv, Known
    <2>4. ChosenInv' /\ SaidInv'
      BY <2>1, Zenon DEF InventoryInv, ChosenInv, SaidInv, Latest
    <2>5. LatestInv'
      BY <2>1, Zenon DEF InventoryInv, LatestInv, Standing
    <2> QED
      BY <2>3, <2>4, <2>5, Zenon DEF InventoryInv
  <1>3. CASE S!Kill \/ S!LosePower
    <2>1. /\ at' = "stopped" /\ chosen' = S!Empty /\ UNCHANGED <<clock, admitted, wentBack, lost, durable>>
          /\ file' \in {file, durable}
      BY <1>3, Zenon DEF S!Kill, S!LosePower, S!host
    <2> QED
      BY <2>1, StoppedKeeps, Zenon
  <1>4. CASE S!Damage
    <2>1. /\ at' = "stopped" /\ chosen' = S!Empty /\ UNCHANGED <<clock, admitted, wentBack, lost>>
          /\ file' = S!Damaged /\ durable' = S!Damaged
      BY <1>4, Zenon DEF S!Damage, S!host, InventoryInv, ChosenInv, Judged
    <2> QED
      BY <2>1, StoppedKeeps, Zenon
  <1> QED
    BY <1>1, <1>2, <1>3, <1>4, BeginKeeps, TakeKeeps, AdmitKeeps, SaveKeeps, Zenon DEF S!Next, S!Environment

LEMMA LatestHolds == InventoryInv => LatestIsHeld
  <1> SUFFICES ASSUME InventoryInv, at = "waiting", ~lost, ~wentBack, NEW k \in Kinds, said[k] # "none"
               PROVE  \E r \in S!Standing(k) : r.digest = said[k]
    BY Zenon DEF LatestIsHeld, S!LatestIsHeld, S!Agrees
  <1>0. lost = FALSE /\ wentBack = FALSE
    BY Zenon DEF InventoryInv, InventoryType
  <1>1. chosen[k] = S!None /\ Latest(k) = baseline[k] /\ \A l \in Kinds : Standing(l) = baseline[l]
    BY EmptyIs, Zenon DEF InventoryInv, ChosenInv, Judged, Latest, Standing
  <1>2. baseline[k] # S!None /\ baseline[k].digest = said[k]
    BY <1>1, Zenon DEF InventoryInv, SaidInv
  <1>3. Recorded(k, baseline[k]) \in admitted
    BY <1>2, Zenon DEF InventoryInv, KeptInv, Known
  <1>4. /\ Recorded(k, baseline[k]).digest = said[k] /\ Recorded(k, baseline[k]).kind = k
        /\ Recorded(k, baseline[k]).at = baseline[k].at
    BY <1>2, Zenon DEF Recorded
  <1>5. \A o \in admitted : o.kind = k => o.at <= Recorded(k, baseline[k]).at
    BY <1>0, <1>1, <1>4, Zenon DEF InventoryInv, LatestInv
  <1>6. Recorded(k, baseline[k]) \in S!Standing(k)
    BY <1>3, <1>4, <1>5, Zenon DEF S!Standing
  <1> QED
    BY <1>4, <1>6, Zenon

-----------------------------------------------------------------------------
(* Checks. What a round read of a source that checks share is a state the
   source had since the round began, and every verdict is what the outcome of
   its check is on that one state. *)

Shared == {"account", "package", "sshd", "login.defs"}

LEMMA WithinOrBeyond ==
  ASSUME NEW got \in SUBSET Int, \A m, n \in got : m = n, NEW least \in Int, NEW most \in Int
  PROVE  (got = {} \/ \E n \in got : n < least \/ n > most) <=> ~(\E n \in least..most : got = {n})
  <1>1. CASE got = {}
    BY <1>1, Zenon
  <1>2. CASE got # {}
    <2>1. PICK x \in got : TRUE
      BY <1>2, Zenon
    <2>2. got = {x} /\ x \in Int
      BY <2>1, Zenon
    <2>3. (\E n \in got : n < least \/ n > most) <=> (x < least \/ x > most)
      BY <2>2, Zenon
    <2>4. (\E n \in least..most : got = {n}) <=> x \in least..most
      BY <2>2, Zenon
    <2> QED
      BY <2>2, <2>3, <2>4, <1>2
  <1> QED
    BY <1>1, <1>2, Zenon

(* A value is disallowed exactly when it is not one the test lets be. *)
LEMMA DisallowsBad ==
  ASSUME kind \in C!Directives, NEW test \in Tests[kind], ~C!problem(test), NEW value, C!Valued(value)
  PROVE  C!disallows(test, value) <=> C!Bad(test, value)
  <1>1. /\ test.bounded \in BOOLEAN /\ test.least \in Int /\ test.most \in Int
    BY RecordsAssumption, Zenon DEF C!Shaped
  <1>2. ~((test.allowed # {}) = test.bounded)
    BY Zenon DEF C!problem, C!Directives
  <1>3. C!number(kind, value) \in SUBSET Int /\ \A m, n \in C!number(kind, value) : m = n
    BY Zenon DEF C!number, C!Valued
  <1>4. C!beyond(C!number(kind, value), test)
          <=> ~(\E n \in test.least..test.most : C!number(kind, value) = {n})
    BY <1>1, <1>3, WithinOrBeyond, Zenon DEF C!beyond
  <1>5. CASE test.allowed # {}
    <2>1. test.bounded = FALSE
      BY <1>1, <1>2, <1>5, Zenon
    <2> QED
      BY <2>1, <1>5, Zenon DEF C!disallows, C!Bad
  <1>6. CASE test.allowed = {}
    <2>1. test.bounded = TRUE
      BY <1>1, <1>2, <1>6, Zenon
    <2> QED
      BY <2>1, <1>4, <1>6, Zenon DEF C!disallows, C!Bad
  <1> QED
    BY <1>5, <1>6, Zenon

LEMMA VerdictIs ==
  ASSUME NEW passes \in BOOLEAN
  PROVE  C!verdict(passes) \in {"pass", "fail"} /\ (C!verdict(passes) = "pass" <=> passes)
  BY Zenon DEF C!verdict

LEMMA DirectiveTrue ==
  ASSUME kind \in C!Directives, NEW test \in Tests[kind], ~C!problem(test), NEW got \in Sources[kind],
         C!directive(test, got) \in {"pass", "fail"}
  PROVE  got.state = "read" /\ (C!directive(test, got) = "pass" <=> C!Met(test, got))
  <1>1. /\ \A value \in test.assumed : C!Valued(value)
        /\ \/ got.state \in {"absent", "failed"}
           \/ /\ got.state = "read" /\ DOMAIN got.lines \subseteq Nat
              /\ \A i \in DOMAIN got.lines : C!Valued(got.lines[i].value)
    BY RecordsAssumption, Zenon DEF C!Shaped
  <1>2. ~test.gathered /\ got.state = "read"
    BY <1>1, Zenon DEF C!directive
  <1> DEFINE lines == got.lines
             passes == /\ C!global(lines) # {} \/ test.assumed # {}
                       /\ \A i \in C!first(lines) \cup C!matched(lines) : ~C!disallows(test, lines[i].value)
                       /\ C!global(lines) = {} => \A value \in test.assumed : ~C!disallows(test, value)
  <1>3. C!directive(test, got) = C!verdict(passes)
    BY <1>2, Zenon DEF C!directive
  <1>4. \A i \in C!first(lines) \cup C!matched(lines) :
          C!disallows(test, lines[i].value) <=> C!Bad(test, lines[i].value)
    BY <1>1, <1>2, DisallowsBad, Zenon DEF C!first, C!global, C!matched
  <1>5. \A value \in test.assumed : C!disallows(test, value) <=> C!Bad(test, value)
    BY <1>1, DisallowsBad, Zenon
  <1>6. C!Met(test, got) <=> /\ C!global(lines) # {} \/ test.assumed # {}
                             /\ \A value \in C!Applied(test, got) : ~C!Bad(test, value)
    BY Zenon DEF C!Met, C!Directives
  <1>7. passes <=> C!Met(test, got)
    <2>1. CASE C!global(lines) = {}
      <3>1. C!Applied(test, got) = {lines[i].value : i \in C!matched(lines)} \cup test.assumed
        BY <2>1, Zenon DEF C!Applied
      <3>2. C!first(lines) = {}
        BY <2>1, Zenon DEF C!first
      <3> QED
        BY <2>1, <3>1, <3>2, <1>4, <1>5, <1>6, Zenon
    <2>2. CASE C!global(lines) # {}
      <3>1. C!Applied(test, got) = {lines[i].value : i \in C!matched(lines)} \cup {lines[i].value : i \in C!first(lines)}
        BY <2>2, Zenon DEF C!Applied
      <3> QED
        BY <2>2, <3>1, <1>4, <1>6, Zenon
    <2> QED
      BY <2>1, <2>2, Zenon
  <1> HIDE DEF passes
  <1> QED
    BY <1>2, <1>3, <1>7, Zenon DEF C!verdict

(* No two entries hold one value exactly when every value has one holder. *)
LEMMA DistinctHeld ==
  ASSUME NEW entries, NEW field
  PROVE  C!distinct(entries, field) <=> C!OneHolder(entries, field)
  <1>1. ASSUME C!distinct(entries, field), NEW a \in DOMAIN entries
        PROVE  {b \in DOMAIN entries : entries[b][field] = entries[a][field]} = {a}
    BY <1>1, Zenon DEF C!distinct
  <1>2. ASSUME C!OneHolder(entries, field), NEW a \in DOMAIN entries, NEW b \in DOMAIN entries,
               entries[a][field] = entries[b][field]
        PROVE  a = b
    <2>1. PICK c \in DOMAIN entries : {d \in DOMAIN entries : entries[d][field] = entries[a][field]} = {c}
      BY <1>2, Zenon DEF C!OneHolder
    <2>2. a \in {c} /\ b \in {c}
      BY <1>2, <2>1
    <2> QED
      BY <2>2, Zenon
  <1>3. C!distinct(entries, field) => C!OneHolder(entries, field)
    <2> SUFFICES ASSUME C!distinct(entries, field), NEW a \in DOMAIN entries
                 PROVE  \E c \in DOMAIN entries :
                          {b \in DOMAIN entries : entries[b][field] = entries[a][field]} = {c}
      BY Zenon DEF C!OneHolder
    <2> QED
      BY <1>1, Zenon
  <1> QED
    BY <1>2, <1>3, Zenon DEF C!distinct

(* What a check says of a source it could judge is what its test asks of it. *)
LEMMA OutcomeTrue ==
  ASSUME kind \in Shared, NEW test \in Tests[kind], ~C!problem(test), NEW got \in Sources[kind],
         C!outcome(test, got) \in {"pass", "fail"}
  PROVE  got.state = "read" /\ (C!outcome(test, got) = "pass" <=> C!Met(test, got))
  <1>1. CASE kind = "package"
    <2>1. got.state \in {"absent", "failed", "read"}
      BY <1>1, RecordsAssumption, Zenon DEF C!Shaped
    <2>2. C!outcome(test, got) = C!installed(test, got)
      BY <1>1, Zenon DEF C!outcome, C!Directives
    <2>3. got.state = "read"
      BY <2>1, <2>2, Zenon DEF C!installed
    <2>4. C!outcome(test, got) = C!verdict((test.presence = "required") = (test.name \in got.packages))
      BY <2>2, <2>3, Zenon DEF C!installed
    <2>5. C!outcome(test, got) = "pass" <=> ((test.presence = "required") = (test.name \in got.packages))
      BY <2>4, Zenon DEF C!verdict
    <2>6. C!Met(test, got) <=> IF test.presence = "required" THEN test.name \in got.packages
                                                             ELSE test.name \notin got.packages
      BY <1>1, Zenon DEF C!Met, C!Directives
    <2> QED
      BY <2>3, <2>5, <2>6
  <1>2. CASE kind = "account"
    <2>1. test.rule \in {"any", "root", "unique", "primary", "memberless"} /\ got.state \in {"failed", "read"}
      BY <1>2, RecordsAssumption, Zenon DEF C!Shaped
    <2>2. C!outcome(test, got) = C!account(test, got)
      BY <1>2, Zenon DEF C!outcome, C!Directives
    <2>3. got.state = "read"
      BY <2>1, <2>2, Zenon DEF C!account
    <2>4. CASE test.rule = "unique"
      <3>1. C!outcome(test, got) = C!verdict(C!distinct(got.accounts, test.field))
        BY <2>2, <2>3, <2>4, Zenon DEF C!account
      <3>2. C!Met(test, got) <=> C!OneHolder(got.accounts, test.field)
        BY <1>2, <2>4, Zenon DEF C!Met, C!Directives
      <3>3. C!Met(test, got) <=> C!distinct(got.accounts, test.field)
        BY <3>2, DistinctHeld, Zenon
      <3> QED
        BY <2>3, <3>1, <3>3, Zenon DEF C!verdict
    <2>5. CASE test.rule # "unique"
      BY <1>2, <2>3, <2>5, Zenon DEF C!Met, C!Directives
    <2> QED
      BY <2>4, <2>5, Zenon
  <1>3. CASE kind \in C!Directives
    BY <1>3, DirectiveTrue, Zenon DEF C!outcome, C!Directives
  <1> QED
    BY <1>1, <1>2, <1>3, Zenon DEF Shared, C!Directives

ChecksInv ==
  kind \in Shared =>
    /\ checks \in [1..2 -> Tests[kind]]
    /\ results \in Seq({"pass", "fail", "error", "unsupported", "not_applicable"}) /\ Len(results) <= 2
    /\ source \in seen /\ seen \subseteq Sources[kind]
    /\ cache = C!Unread \/ cache \in seen
    /\ \A i \in 1..Len(results) : results[i] \in {"pass", "fail"} =>
         /\ cache # C!Unread /\ ~C!problem(checks[i])
         /\ results[i] = C!outcome(checks[i], cache)

LEMMA ChecksStart == C!Init => ChecksInv
  <1> SUFFICES ASSUME C!Init PROVE ChecksInv
    BY Zenon
  <1>1. results = <<>> /\ Len(results) = 0 /\ cache = C!Unread /\ seen = {source}
        /\ checks \in [1..2 -> Tests[kind]] /\ source \in Sources[kind]
    BY Zenon DEF C!Init
  <1> QED
    BY <1>1 DEF ChecksInv

LEMMA OutcomeIs ==
  ASSUME kind \in Shared, NEW test \in Tests[kind], ~C!problem(test), NEW got \in Sources[kind]
  PROVE  C!outcome(test, got) \in {"pass", "fail", "error", "unsupported", "not_applicable"}
  <1>1. CASE kind = "package"
    <2>1. got.state \in {"absent", "failed", "read"}
      BY <1>1, RecordsAssumption, Zenon DEF C!Shaped
    <2>2. C!outcome(test, got) = C!installed(test, got)
      BY <1>1, Zenon DEF C!outcome, C!Directives
    <2> QED
      BY <2>1, <2>2, Zenon DEF C!installed, C!verdict
  <1>2. CASE kind = "account"
    <2>1. /\ test.rule \in {"root", "unique", "primary", "memberless"}
          /\ got.state \in {"failed", "read"}
      BY <1>2, RecordsAssumption, Zenon DEF C!Shaped, C!problem, C!Directives
    <2>2. C!outcome(test, got) = C!account(test, got)
      BY <1>2, Zenon DEF C!outcome, C!Directives
    <2> QED
      BY <2>1, <2>2, Zenon DEF C!account, C!verdict
  <1>3. CASE kind \in C!Directives
    <2>1. got.state \in {"absent", "failed", "read"}
      BY <1>3, RecordsAssumption, Zenon DEF C!Shaped
    <2>2. C!outcome(test, got) = C!directive(test, got)
      BY <1>3, Zenon DEF C!outcome, C!Directives
    <2> QED
      BY <2>1, <2>2, Zenon DEF C!directive, C!verdict
  <1> QED
    BY <1>1, <1>2, <1>3, Zenon DEF Shared, C!Directives

LEMMA SameKind ==
  ASSUME kind' = kind, NEW test, NEW got
  PROVE  (C!problem(test)' <=> C!problem(test)) /\ C!outcome(test, got)' = C!outcome(test, got)
  <1>1. C!problem(test)' <=> C!problem(test)
    BY Zenon DEF C!problem
  <1>2. C!directive(test, got)' = C!directive(test, got)
    BY DEF C!directive, C!disallows
  <1>3. C!outcome(test, got)' = C!outcome(test, got)
    BY <1>2, Zenon DEF C!outcome
  <1> QED
    BY <1>1, <1>3, Zenon

LEMMA ChecksKeep == ChecksInv /\ C!Next => ChecksInv'
  <1> SUFFICES ASSUME ChecksInv, C!Next, kind' \in Shared PROVE ChecksInv'
    BY Zenon DEF ChecksInv
  <1>1. kind' = kind /\ checks' = checks
    BY Zenon DEF C!Next, C!answer, C!Change, C!RunOut
  <1>2. /\ kind \in Shared /\ checks \in [1..2 -> Tests[kind]]
        /\ results \in Seq({"pass", "fail", "error", "unsupported", "not_applicable"}) /\ Len(results) <= 2
        /\ source \in seen /\ seen \subseteq Sources[kind]
        /\ cache = C!Unread \/ cache \in seen
        /\ \A i \in 1..Len(results) : results[i] \in {"pass", "fail"} =>
             /\ cache # C!Unread /\ ~C!problem(checks[i])
             /\ results[i] = C!outcome(checks[i], cache)
    BY <1>1, Zenon DEF ChecksInv
  <1>3. CASE C!Change \/ C!RunOut
    <2>1. results' = results /\ cache' = cache
      BY <1>3, Zenon DEF C!Change, C!RunOut
    <2>2. source' \in Sources[kind] /\ source' \in seen' /\ seen \subseteq seen' /\ seen' \subseteq Sources[kind]
      BY <1>2, <1>3, Zenon DEF C!Change, C!RunOut
    <2>3. kind' \in Shared => ChecksInv'
      <3>1. ASSUME NEW i \in 1..Len(results'), results'[i] \in {"pass", "fail"}
            PROVE  cache' # C!Unread /\ ~C!problem(checks[i])' /\ results'[i] = C!outcome(checks[i], cache)'
        <4>1. PICK test, got : test = checks[i] /\ got = cache
          BY Zenon
        <4>2. cache # C!Unread /\ ~C!problem(test) /\ results[i] = C!outcome(test, got)
          BY <1>2, <2>1, <3>1, <4>1, Zenon
        <4>3. ~C!problem(test)' /\ results[i] = C!outcome(test, got)'
          BY <1>1, <4>2, SameKind, Zenon
        <4> QED
          BY <1>1, <2>1, <4>1, <4>2, <4>3, Zenon
      <3> QED
        BY <1>1, <1>2, <2>1, <2>2, <3>1, Zenon DEF ChecksInv
    <2> QED
      BY <2>3, Zenon
  <1>4. CASE C!answer
    <2> DEFINE n == Len(results) + 1
               test == checks[n]
               new == results'[n]
    <2>1. /\ n \in 1..2 /\ test \in Tests[kind] /\ Len(results) \in Nat
          /\ source' = source /\ seen' = seen
      BY <1>2, <1>4 DEF C!answer
    <2>2. \/ cache' = cache /\ \E x \in {"unsupported", "error"} : results' = Append(results, x)
          \/ /\ ~C!problem(test) /\ results' = Append(results, C!outcome(test, C!get)) /\ cache' = C!get
      BY <1>2, <1>4, Zenon DEF C!answer, C!unread, Shared, C!Cached, C!Subjects
    <2>3. C!get \in seen /\ C!get # C!Unread /\ (cache # C!Unread => C!get = cache)
      <3>1. \A got \in Sources[kind] : got.state # "unread"
        BY <1>2, RecordsAssumption, Zenon DEF C!Shaped, Shared, C!Subjects
      <3>2. C!Unread.state = "unread"
        BY Zenon DEF C!Unread
      <3> QED
        BY <1>2, <3>1, <3>2, Zenon DEF C!get
    <2>4. PICK x : /\ results' = Append(results, x)
                   /\ x \in {"pass", "fail", "error", "unsupported", "not_applicable"}
                   /\ x \in {"pass", "fail"} => ~C!problem(test) /\ x = C!outcome(test, C!get) /\ cache' = C!get
      <3>1. CASE cache' = cache /\ \E x \in {"unsupported", "error"} : results' = Append(results, x)
        BY <3>1, Zenon
      <3>2. CASE /\ ~C!problem(test) /\ results' = Append(results, C!outcome(test, C!get)) /\ cache' = C!get
        <4>1. C!outcome(test, C!get) \in {"pass", "fail", "error", "unsupported", "not_applicable"}
          BY <1>2, <2>1, <2>3, <3>2, OutcomeIs, Zenon
        <4> QED
          BY <3>2, <4>1, Zenon
      <3> QED
        BY <2>2, <3>1, <3>2, Zenon
    <2>5. /\ results' \in Seq({"pass", "fail", "error", "unsupported", "not_applicable"})
          /\ Len(results') = n /\ results'[n] = x /\ \A i \in 1..Len(results) : results'[i] = results[i]
      BY <1>2, <2>4
    <2>6. cache' \in {cache, C!get} /\ (cache # C!Unread => cache' = cache)
      BY <2>2, <2>3, Zenon
    <2>7. ASSUME NEW i \in 1..Len(results'), results'[i] \in {"pass", "fail"}
          PROVE  cache' # C!Unread /\ ~C!problem(checks[i])' /\ results'[i] = C!outcome(checks[i], cache)'
      <3>1. PICK asked, got : asked = checks[i] /\ got = cache'
        BY Zenon
      <3>2. cache' # C!Unread /\ ~C!problem(asked) /\ results'[i] = C!outcome(asked, got)
        <4>1. CASE i = n
          BY <2>3, <2>4, <2>5, <2>7, <3>1, <4>1, Zenon
        <4>2. CASE i # n
          <5>1. i \in 1..Len(results)
            BY <2>1, <2>5, <4>2
          <5> QED
            BY <5>1, <1>2, <2>5, <2>6, <2>7, <3>1, Zenon
        <4> QED
          BY <4>1, <4>2, Zenon
      <3>3. ~C!problem(asked)' /\ results'[i] = C!outcome(asked, got)'
        BY <1>1, <3>2, SameKind, Zenon
      <3> QED
        BY <1>1, <3>1, <3>2, <3>3, Zenon
    <2>8. Len(results') <= 2 /\ (cache' = C!Unread \/ cache' \in seen')
      BY <1>2, <2>1, <2>3, <2>5, <2>6
    <2> QED
      BY <1>1, <1>2, <2>1, <2>5, <2>7, <2>8, Zenon DEF ChecksInv
  <1> QED
    BY <1>3, <1>4, Zenon DEF C!Next

(* The verdicts of a round are true of what it read of the source. *)
LEMMA ChecksHold == ChecksInv => OneStateAnswers
  <1> SUFFICES ASSUME ChecksInv, kind \in Shared
               PROVE  \/ \A i \in DOMAIN results : results[i] \notin {"pass", "fail"}
                      \/ \E got \in seen :
                           /\ C!Readable(got)
                           /\ \A i \in DOMAIN results : results[i] \in {"pass", "fail"} =>
                                (results[i] = "pass" <=> C!Met(checks[i], got))
    BY Zenon DEF OneStateAnswers, C!OneStateAnswers, Shared
  <1>1. /\ DOMAIN results = 1..Len(results) /\ Len(results) \in Nat /\ Len(results) <= 2
        /\ checks \in [1..2 -> Tests[kind]]
        /\ seen \subseteq Sources[kind]
        /\ cache = C!Unread \/ cache \in seen
        /\ \A i \in 1..Len(results) : results[i] \in {"pass", "fail"} =>
             /\ cache # C!Unread /\ ~C!problem(checks[i])
             /\ results[i] = C!outcome(checks[i], cache)
    BY DEF ChecksInv
  <1>2. ASSUME NEW i \in DOMAIN results, results[i] \in {"pass", "fail"}
        PROVE  /\ cache \in seen /\ cache.state = "read"
               /\ (results[i] = "pass") <=> C!Met(checks[i], cache)
    <2>1. /\ cache \in Sources[kind] /\ cache \in seen /\ checks[i] \in Tests[kind] /\ ~C!problem(checks[i])
          /\ results[i] = C!outcome(checks[i], cache)
      BY <1>1, <1>2
    <2> QED
      BY <1>2, <2>1, OutcomeTrue, Zenon
  <1>3. CASE \A i \in DOMAIN results : results[i] \notin {"pass", "fail"}
    BY <1>3, Zenon
  <1>4. CASE \E i \in DOMAIN results : results[i] \in {"pass", "fail"}
    <2>1. cache \in seen /\ C!Readable(cache)
      BY <1>2, <1>4, Zenon DEF C!Readable
    <2>2. \A i \in DOMAIN results : results[i] \in {"pass", "fail"} => (results[i] = "pass" <=> C!Met(checks[i], cache))
      BY <1>2, Zenon
    <2> QED
      BY <2>1, <2>2, Zenon
  <1> QED
    BY <1>3, <1>4, Zenon

-----------------------------------------------------------------------------
(* The parts together: a part that is not the one of the behaviour stays as it
   started, so the invariant of every part holds in all of them. *)

RecordsInv == BudgetInv /\ ReportingInv /\ InventoryInv /\ ChecksInv

LEMMA ReportingStays == ReportingInv /\ UNCHANGED reporting => ReportingInv'
  BY Zenon DEF reporting, ReportingInv, ReportingType, InOrder, Counted, GoesOn, Used, Covers, Reach

LEMMA InventoryStays == InventoryInv /\ UNCHANGED inventory => InventoryInv'
  BY DEF inventory, InventoryInv, InventoryType, KeptInv, Known, ChosenInv, SaidInv, Latest, LatestInv, Standing

LEMMA ChecksStay == ChecksInv /\ UNCHANGED round => ChecksInv'
  <1> SUFFICES ASSUME ChecksInv, UNCHANGED round, kind' \in Shared PROVE ChecksInv'
    BY Zenon DEF ChecksInv
  <1>1. UNCHANGED <<kind, checks, source, cache, results, seen>>
    BY Zenon DEF round
  <1>2. ASSUME NEW i \in 1..Len(results'), results'[i] \in {"pass", "fail"}
        PROVE  cache' # C!Unread /\ ~C!problem(checks[i])' /\ results'[i] = C!outcome(checks[i], cache)'
    <2>1. PICK test, got : test = checks[i] /\ got = cache
      BY Zenon
    <2>2. cache # C!Unread /\ ~C!problem(test) /\ results[i] = C!outcome(test, got)
      BY <1>1, <1>2, <2>1, Zenon DEF ChecksInv
    <2>3. ~C!problem(test)' /\ results[i] = C!outcome(test, got)'
      BY <1>1, <2>2, SameKind, Zenon
    <2> QED
      BY <1>1, <2>1, <2>2, <2>3, Zenon
  <1> QED
    BY <1>1, <1>2, Zenon DEF ChecksInv

LEMMA RecordsKeep == RecordsInv /\ [RecordsNext]_every => RecordsInv'
  <1> SUFFICES ASSUME RecordsInv, [RecordsNext]_every PROVE RecordsInv'
    BY Zenon
  <1>1. ReportingInv'
    <2>1. (part = "reporting" /\ Q!Next) \/ UNCHANGED reporting
      BY Zenon DEF RecordsNext, every
    <2> QED
      BY <2>1, ReportingKeeps, ReportingStays, Zenon DEF RecordsInv
  <1>2. InventoryInv'
    <2>1. (part = "inventory" /\ S!Next) \/ UNCHANGED inventory
      BY Zenon DEF RecordsNext, every
    <2> QED
      BY <2>1, InventoryKeeps, InventoryStays, Zenon DEF RecordsInv
  <1>3. ChecksInv'
    <2>1. (part = "checks" /\ C!Next) \/ UNCHANGED round
      BY Zenon DEF RecordsNext, every
    <2> QED
      BY <2>1, ChecksKeep, ChecksStay, Zenon DEF RecordsInv
  <1>4. BudgetInv'
    <2>1. [Next]_vars
      BY Zenon DEF RecordsNext, every
    <2> QED
      BY <2>1, BudgetKeeps, Zenon DEF RecordsInv
  <1> QED
    BY <1>1, <1>2, <1>3, <1>4, Zenon DEF RecordsInv

LEMMA RecordsAlways == RecordsSpec => []RecordsInv
  <1>1. RecordsInit => RecordsInv
    BY BudgetStarts, ReportingStarts, InventoryStarts, ChecksStart, Zenon DEF RecordsInit, RecordsInv
  <1> QED
    BY <1>1, RecordsKeep, PTL DEF RecordsSpec

(* The accounting of budget.add, reserve, crowd and recover, over every
   interleaving of the streams: no bytes are counted twice or forgotten. *)
THEOREM BooksAlwaysAgree == RecordsSpec => []BooksAgree
  <1>1. RecordsInv => BooksAgree
    BY Zenon DEF RecordsInv, BudgetInv
  <1> QED
    BY <1>1, RecordsAlways, PTL

(* budget.reserve, over every interleaving: while each stream is within its
   share, one that holds nothing finds room, of the events and the inventory. *)
THEOREM RoomIsLeft == RecordsSpec => []RoomLeft
  <1>1. RecordsInv => RoomLeft
    BY SharesLeaveRoom, Zenon DEF RecordsInv
  <1> QED
    BY <1>1, RecordsAlways, PTL

(* No two reports that left the agent carry one sequence, and the higher one is
   the later, however many are written, lost, delayed and damaged, as long as
   a run that was asked to stop begins no more than three (sequence.go:34). *)
THEOREM SequencesAreInOrder == RecordsSpec => []NewestIsHighest
  <1>1. RecordsInv => NewestIsHighest
    BY Zenon DEF RecordsInv, ReportingInv, InOrder, Used, NewestIsHighest, Q!NewestIsHighest
  <1> QED
    BY <1>1, RecordsAlways, PTL

(* Once a round of the inventory ended, the record of a kind the platform orders
   last says what the host had, for any kinds, times and digests. *)
THEOREM PlatformHoldsTheLatest == RecordsSpec => []LatestIsHeld
  <1>1. RecordsInv => LatestIsHeld
    BY LatestHolds, Zenon DEF RecordsInv
  <1> QED
    BY <1>1, RecordsAlways, PTL

(* The verdicts of a round on a source that checks share are true of one state
   the source had, whatever the tests ask and the source may be read as. *)
THEOREM VerdictsAgree == RecordsSpec => []OneStateAnswers
  <1>1. RecordsInv => OneStateAnswers
    BY ChecksHold, Zenon DEF RecordsInv
  <1> QED
    BY <1>1, RecordsAlways, PTL
=============================================================================
