--------------------------- MODULE FollowingProofs ---------------------------
(***************************************************************************)
(* The policy never falls back and the journal is never passed over, for   *)
(* any policies, files, entries, batches, restarts, failed writes, damage  *)
(* and losses of power. The invariants speak of the variables of one part, *)
(* which the other parts leave as they started.                            *)
(***************************************************************************)
EXTENDS Following, Sequences, TLAPS

(* The goroutine that holds the policy. *)
Holders ==
  [at : {"off", "select", "applying"}, file : Files \cup {P!NoFile}, envelope : Policies \cup {P!None},
   applied : Policies \cup {P!None}, judged : Policies \cup {P!None}, refused : BOOLEAN]

PolicyTyped ==
  /\ served \in Policies \cup {P!None} /\ local \in Files
  /\ kept \in Policies \cup {P!None, P!Damaged}
  /\ holder \in Holders
  /\ ask \in [at : {"idle", "asked", "offered"}, tag : Policies \cup {P!None}, reply : Policies \cup {P!None}]
  /\ once \subseteq Policies

(* p is no older than any policy that was in force. *)
Floor(p) == p \in Policies /\ \A q \in once : q = p \/ q.revision < p.revision

NoOlder(p, q) == p \in Policies /\ (p = q \/ p.revision > q.revision)

(* The policy kept is the floor and no older than the one held, and so is the one held, in force or withdrawn;
   the one about to be put in force is kept. *)
PolicyInv ==
  /\ PolicyTyped
  /\ once = {} \/ Floor(kept)
  /\ holder.at # "off" => once = {} \/ Floor(holder.envelope)
  /\ holder.at # "off" /\ holder.envelope # P!None => NoOlder(kept, holder.envelope)
  /\ holder.applied \in {P!None, holder.envelope} /\ (holder.at = "off" => holder.applied = P!None)
  /\ ask.at = "offered" => ask.reply \in Policies
  /\ holder.at = "applying" =>
       ask.at = "offered" /\ Floor(ask.reply) /\ kept = ask.reply

Places == [kind : {"unwritten", "since", "cursor", "damaged"}, at : Nat]
Readers ==
  [at : {"stopped", "reading", "admitting", "saving"}, follow : BOOLEAN, from : Places, read : Nat,
   first : BOOLEAN, batch : [cursor : Nat, records : SUBSET Nat], after : {"on", "follow", "return"}]
Entries == {"outcome", "unrelated", "unreadable"}
Names(p) == p.kind \in {"since", "cursor"}

ReadingTyped ==
  /\ journal \in Seq(Entries) /\ Len(journal) <= MaxEntries
  /\ dropped \in Nat /\ aged \in 0 .. Len(journal)
  /\ place \in Places /\ synced \in Places
  /\ reader \in Readers
  /\ started \in 0 .. MaxEntries + 1 /\ forgot \in BOOLEAN

(* Every outcome up to n is settled, or is one of those given. *)
SettledUpTo(n, records) ==
  \A i \in 1 .. n : i > started /\ journal[i] = "outcome" => J!Settled(i) \/ i \in records

(* A place within the journal, that passes nothing. *)
Sound(p) ==
  Names(p) =>
    /\ p.at <= Len(journal) /\ (p.kind = "cursor" => p.at > 0)
    /\ ~forgot => SettledUpTo(p.at, {})

(* A reader started at such a place, and what it read since is settled or in
   its batch; a batch about to be passed is in the spool. *)
ReadingInv ==
  /\ ReadingTyped
  /\ Sound(place) /\ Sound(synced)
  /\ reader.at # "stopped" =>
       /\ Names(reader.from) /\ Sound(reader.from)
       /\ reader.read <= Len(journal) /\ reader.batch.cursor <= reader.read
       /\ ~forgot => SettledUpTo(reader.read, reader.batch.records)
  /\ reader.at \in {"admitting", "saving"} => reader.batch.cursor > 0
  /\ reader.at = "saving" => reader.batch.records \subseteq events

-----------------------------------------------------------------------------
(* The policy. *)

(* None and a file that cannot be read back are no policies. *)
LEMMA NoPolicy == P!None \notin Policies /\ P!Damaged \notin Policies
<1>1. P!None.revision = 0 /\ P!Damaged.revision = 0
  BY Zenon DEF P!None, P!Damaged
<1>2. QED
  BY <1>1, FollowingAssumption, Zenon

LEMMA OffIs ==
  /\ P!Off \in Holders /\ P!Off.at = "off" /\ P!Off.applied = P!None /\ P!Off.envelope = P!None
BY Zenon DEF P!Off, Holders

LEMMA IdleIs ==
  /\ P!Idle \in [at : {"idle", "asked", "offered"}, tag : Policies \cup {P!None}, reply : Policies \cup {P!None}]
  /\ P!Idle.at = "idle"
BY Zenon DEF P!Idle

LEMMA InitPolicyInv == P!Init => PolicyInv
BY OffIs, IdleIs, Zenon DEF P!Init, PolicyInv, PolicyTyped

(* What hold reads back is the floor. *)
LEMMA HoldKeeps ==
  ASSUME PolicyInv, P!hold
  PROVE  PolicyInv'
<1> DEFINE carried == IF kept \in Policies THEN kept ELSE P!None
           applied == IF carried # P!None /\ P!lay(local, carried) THEN carried ELSE P!None
<1>1. /\ holder' = [P!Off EXCEPT !.at = "select", !.file = local, !.envelope = carried, !.judged = carried, !.applied = applied]
      /\ once' = once \cup ({holder'.applied} \ {P!None}) /\ holder.at = "off"
      /\ UNCHANGED <<served, expired, local, kept, ask, unkept, restarts>>
  BY Zenon DEF P!hold, P!world
<1>2. carried \in Policies \cup {P!None} /\ applied \in {carried, P!None} /\ (once # {} => Floor(carried))
  BY NoPolicy, Zenon DEF PolicyInv, Floor
<1> HIDE DEF carried, applied
<1>3. /\ holder' \in Holders /\ holder'.at = "select" /\ holder'.envelope = carried /\ holder'.applied = applied
  BY <1>1, <1>2, OffIs, Zenon DEF PolicyInv, PolicyTyped, Holders
<1>4. applied # P!None => kept = carried /\ carried \in Policies
  BY <1>2, NoPolicy, Zenon DEF carried, applied
<1>5. carried # P!None => NoOlder(kept', carried)
  BY <1>1, <1>2, NoPolicy, Zenon DEF NoOlder, carried
<1>6. once' = {} \/ (Floor(kept)' /\ Floor(holder.envelope)')
  <2>1. CASE applied = P!None
    <3>1. once' = once
      BY <1>1, <1>3, <2>1, Zenon
    <3>2. QED
      BY <1>1, <1>2, <1>3, <3>1, Zenon DEF PolicyInv, Floor
  <2>2. CASE applied # P!None
    <3>1. once' = once \cup {carried} /\ kept' = carried /\ holder'.envelope = carried
      BY <1>1, <1>2, <1>3, <1>4, <2>2, Zenon
    <3>2. QED
      BY <1>2, <1>4, <2>2, <3>1, Zenon DEF Floor
  <2>3. QED
    BY <2>1, <2>2, Zenon
<1>7. once' \subseteq Policies
  BY <1>1, <1>2, <1>3, <1>4, Zenon DEF PolicyInv, PolicyTyped
<1>8. QED
  BY <1>1, <1>2, <1>3, <1>5, <1>6, <1>7 DEF PolicyInv, PolicyTyped

(* The follower offers what is served. *)
LEMMA AskKeeps ==
  ASSUME PolicyInv, P!Ask \/ P!Reply
  PROVE  PolicyInv'
<1>1. UNCHANGED <<served, expired, local, kept, holder, once, unkept>> /\ holder.at # "applying"
  BY Zenon DEF P!Ask, P!Reply, P!world, PolicyInv
<1>2. /\ ask' \in [at : {"idle", "asked", "offered"}, tag : Policies \cup {P!None}, reply : Policies \cup {P!None}]
      /\ ask'.at = "offered" => ask'.reply \in Policies
  <2>1. CASE ask' = [P!Idle EXCEPT !.at = "asked", !.tag = holder.judged]
    BY <2>1, IdleIs, Zenon DEF PolicyInv, PolicyTyped, Holders
  <2>2. CASE served # P!None /\ ask' = [ask EXCEPT !.at = "offered", !.reply = served]
    BY <2>2, Zenon DEF PolicyInv, PolicyTyped
  <2>3. CASE ask' = P!Idle
    BY <2>3, IdleIs, Zenon
  <2>4. QED
    BY <2>1, <2>2, <2>3, Zenon DEF P!Ask, P!Reply
<1>3. QED
  BY <1>1, <1>2, Zenon DEF PolicyInv, PolicyTyped, Floor

(* What is kept to be put in force is newer than all that was. *)
LEMMA AdoptKeeps ==
  ASSUME PolicyInv, P!adopt
  PROVE  PolicyInv'
<1> DEFINE p == ask.reply
<1>1. /\ holder.at = "select" /\ ask.at = "offered" /\ p \in Policies /\ holder \in Holders
      /\ UNCHANGED <<served, expired, local, once>>
  BY Zenon DEF P!adopt, P!Offered, P!world, PolicyInv, PolicyTyped
<1>2. P!Acceptable(p) => Floor(p)
  <2> SUFFICES ASSUME P!Acceptable(p), NEW q \in once PROVE q = p \/ q.revision < p.revision
    BY <1>1, Zenon DEF Floor
  <2>1. Floor(holder.envelope)
    BY <1>1, Zenon DEF PolicyInv
  <2>2. holder.envelope # P!None /\ holder.envelope \in Policies /\ q \in Policies
    BY <2>1, NoPolicy, Zenon DEF Floor, PolicyInv, PolicyTyped
  <2>3. p = holder.envelope \/ p.revision > holder.envelope.revision
    BY <2>2, Zenon DEF P!Acceptable, P!Judge
  <2>4. q = holder.envelope \/ q.revision < holder.envelope.revision
    BY <2>1, Zenon DEF Floor
  <2>5. q.revision \in Nat /\ p.revision \in Nat /\ holder.envelope.revision \in Nat
    BY <1>1, <2>2, FollowingAssumption, Zenon
  <2>6. QED
    BY <2>3, <2>4, <2>5
<1> DEFINE e == holder.envelope
<1>3. P!Acceptable(p) /\ e # P!None => NoOlder(p, e)
  BY <1>1, Zenon DEF P!Acceptable, P!Judge, NoOlder
<1>4. CASE holder' = holder /\ ask' = P!Idle /\ kept' = kept
  BY <1>1, <1>4, IdleIs, Zenon DEF PolicyInv, PolicyTyped, Floor
<1>5. CASE holder' = P!Refused(p) /\ ask' = P!Idle /\ (kept' = kept \/ (P!Acceptable(p) /\ kept' \in {kept, p}))
  <2>1. /\ holder' \in Holders /\ holder'.at = "select" /\ holder'.envelope = holder.envelope
        /\ holder'.applied = holder.applied
    BY <1>1, <1>5, Zenon DEF P!Refused, Holders
  <2>2. /\ kept' \in Policies \cup {P!None, P!Damaged} /\ (once' = {} \/ Floor(kept)')
        /\ e # P!None => NoOlder(kept', e)
    BY <1>1, <1>2, <1>3, <1>5, Zenon DEF PolicyInv, PolicyTyped, Floor
  <2>3. QED
    BY <1>1, <1>5, <2>1, <2>2, IdleIs, Zenon DEF PolicyInv, PolicyTyped, Floor
<1>6. CASE P!Acceptable(p) /\ kept' = p /\ holder' = [holder EXCEPT !.at = "applying"] /\ ask' = ask
  <2>1. /\ holder' \in Holders /\ holder'.at = "applying" /\ holder'.envelope = holder.envelope
        /\ holder'.applied = holder.applied
    BY <1>1, <1>6, Zenon DEF Holders
  <2>2. QED
    BY <1>1, <1>2, <1>3, <1>6, <2>1, Zenon DEF PolicyInv, PolicyTyped, Floor
<1>7. QED
  BY <1>4, <1>5, <1>6, Zenon DEF P!adopt, P!Kept, P!KeepFails

LEMMA ApplyKeeps ==
  ASSUME PolicyInv, P!Apply
  PROVE  PolicyInv'
<1> DEFINE p == ask.reply
<1>1. /\ holder.at = "applying" /\ holder \in Holders /\ Floor(p) /\ p \in Policies /\ kept = p
      /\ UNCHANGED <<served, local, kept>> /\ once' = once \cup {p} /\ ask' = P!Idle
  BY Zenon DEF P!Apply, P!world, PolicyInv, PolicyTyped, Floor
<1>2. holder' \in Holders /\ holder'.at = "select" /\ holder'.envelope = p /\ holder'.applied = p
  BY <1>1, Zenon DEF P!Apply, Holders
<1>3. Floor(kept)' /\ Floor(holder.envelope)'
  BY <1>1, <1>2, Zenon DEF Floor
<1>4. QED
  BY <1>1, <1>2, <1>3, IdleIs, Zenon DEF PolicyInv, PolicyTyped, NoOlder

LEMMA ReloadKeeps ==
  ASSUME PolicyInv, P!reload
  PROVE  PolicyInv'
<1> DEFINE carried == holder.envelope
           applied == IF carried # P!None /\ P!lay(local, carried) THEN carried ELSE P!None
<1>1. /\ holder.at = "select" /\ holder \in Holders /\ local \in Files
      /\ holder' = [holder EXCEPT !.file = local, !.judged = carried, !.applied = applied]
      /\ once' = once \cup ({holder'.applied} \ {P!None})
      /\ UNCHANGED <<served, local, kept, ask>>
  BY Zenon DEF P!reload, P!over, P!world, PolicyInv, PolicyTyped
<1>2. carried \in Policies \cup {P!None} /\ applied \in {P!None, carried}
  BY <1>1, Zenon DEF Holders
<1> HIDE DEF applied
<1>3. /\ holder' \in Holders /\ holder'.at = "select" /\ holder'.envelope = carried /\ holder'.applied = applied
  BY <1>1, <1>2, Zenon DEF Holders
<1>4. once' = {} \/ (Floor(kept)' /\ Floor(holder.envelope)')
  <2>1. CASE applied = P!None
    <3>1. once' = once
      BY <1>1, <1>3, <2>1, Zenon
    <3>2. QED
      BY <1>1, <1>2, <1>3, <3>1, Zenon DEF PolicyInv, Floor
  <2>2. CASE applied # P!None
    <3>1. /\ once' = once \cup {carried} /\ kept' = kept /\ holder'.envelope = carried /\ carried \in Policies
          /\ NoOlder(kept, carried) /\ (once = {} \/ (Floor(kept) /\ Floor(carried)))
      BY <1>1, <1>2, <1>3, <2>2, Zenon DEF PolicyInv
    <3>2. QED
      BY <3>1, FollowingAssumption, Zenon DEF Floor, NoOlder
  <2>3. QED
    BY <2>1, <2>2, Zenon
<1>5. once' \subseteq Policies
  BY <1>1, <1>2, <1>3, Zenon DEF PolicyInv, PolicyTyped
<1>6. QED
  BY <1>1, <1>2, <1>3, <1>4, <1>5 DEF PolicyInv, PolicyTyped

LEMMA PolicyWorldKeeps ==
  ASSUME PolicyInv, P!Environment
  PROVE  PolicyInv'
<1>1. ASSUME NEW p \in Policies, P!Publish(p) \/ P!Expire(p) PROVE PolicyInv'
  BY <1>1 DEF P!Publish, P!Expire, PolicyInv, PolicyTyped, Floor
<1>2. ASSUME NEW f \in Files, P!Edit(f) PROVE PolicyInv'
  BY <1>2 DEF P!Edit, PolicyInv, PolicyTyped, Floor
<1>3. CASE P!Kill
  BY <1>3, OffIs, IdleIs, Zenon DEF P!Kill, P!world, PolicyInv, PolicyTyped, Floor
<1>4. CASE P!Damage
  BY <1>4, Zenon DEF P!Damage, P!world, PolicyInv, PolicyTyped, Floor
<1>5. QED
  BY <1>1, <1>2, <1>3, <1>4, Zenon DEF P!Environment

LEMMA PolicyStep == PolicyInv /\ [P!Next]_following => PolicyInv'
<1> SUFFICES ASSUME PolicyInv, [P!Next]_following PROVE PolicyInv'
  BY Zenon
<1>1. CASE UNCHANGED following
  BY <1>1 DEF following, PolicyInv, PolicyTyped, Floor
<1>2. QED
  BY <1>1, HoldKeeps, AskKeeps, AdoptKeeps, ApplyKeeps, ReloadKeeps, PolicyWorldKeeps, Zenon DEF P!Next

(* Whatever restarts, reloads, failed writes and retired keys come between, no
   policy older than one that was in force ever is, nor another of its
   revision. *)
THEOREM PolicyNeverFallsBack == Spec => []NeverBelowApplied
<1>1. Init => PolicyInv
  BY InitPolicyInv, Zenon DEF Init
<1>2. PolicyInv /\ [Next]_every => PolicyInv'
  BY PolicyStep, Zenon DEF Next, every
<1>3. PolicyInv => NeverBelowApplied
  BY Zenon DEF PolicyInv, Floor, NeverBelowApplied, P!NeverBelowApplied
<1>4. QED
  BY <1>1, <1>2, <1>3, PTL DEF Spec

-----------------------------------------------------------------------------
(* The journal. *)

LEMMA Later ==
  ASSUME NEW a \in Nat, NEW b \in Nat
  PROVE  J!Max({a, b}) \in {a, b} /\ J!Max({a, b}) >= a /\ J!Max({a, b}) >= b
BY DEF J!Max

LEMMA Earlier ==
  ASSUME NEW a \in Nat, NEW b \in Nat
  PROVE  J!Min({a, b}) \in {a, b} /\ J!Min({a, b}) <= a /\ J!Min({a, b}) <= b
BY DEF J!Min

LEMMA StoppedIs == J!Stopped \in Readers /\ J!Stopped.at = "stopped"
BY Zenon DEF J!Stopped, J!Unwritten, J!Place, J!NoBatch, Readers, Places

(* A reader opened at a place has read what the place passes. *)
LEMMA OpenedIs ==
  ASSUME ReadingTyped, NEW from \in Places, Names(from), Sound(from), NEW follow \in BOOLEAN
  PROVE  /\ J!Opened(from, follow) \in Readers /\ J!Opened(from, follow).at = "reading"
         /\ J!Opened(from, follow).from = from /\ J!Opened(from, follow).read \in 0 .. from.at
         /\ J!Opened(from, follow).batch = [cursor |-> 0, records |-> {}]
<1>1. from.at \in Nat /\ (from.kind = "cursor" => from.at - 1 \in Nat)
  BY DEF Places, Sound
<1>2. QED
  BY <1>1 DEF J!Opened, J!NoBatch, Readers

LEMMA InitReadingInv == J!Init => ReadingInv
<1> SUFFICES ASSUME J!Init PROVE ReadingInv
  BY Zenon
<1>1. ReadingTyped
  <2>1. journal \in Seq(Entries) /\ Len(journal) = 0
    BY DEF J!Init
  <2>2. QED
    <3>1. place \in Places /\ synced \in Places
      BY Zenon DEF J!Init, J!Unwritten, J!Place, Places
    <3>2. aged \in 0 .. Len(journal) /\ started \in 0 .. MaxEntries + 1 /\ Len(journal) <= MaxEntries
      BY <2>1, FollowingAssumption DEF J!Init, J!Unstarted
    <3>3. QED
      BY <2>1, <3>1, <3>2, StoppedIs, Zenon DEF J!Init, ReadingTyped
<1>2. QED
  BY <1>1, StoppedIs, Zenon DEF J!Init, J!Unwritten, J!Place, ReadingInv, Sound, Names

(* What is settled stays settled, and so does what a place or a reader passes. *)
LEMMA StaysSettled ==
  ASSUME ReadingTyped, journal' = journal \/ (\E kind : journal' = Append(journal, kind)),
         dropped \in Nat, dropped' \in Nat, dropped <= dropped', aged <= aged', aged' \in Nat,
         events \subseteq events', UNCHANGED started
  PROVE  /\ Len(journal) <= Len(journal')
         /\ \A n \in 0 .. Len(journal) : \A records : SettledUpTo(n, records) => SettledUpTo(n, records)'
<1>1. Len(journal) <= Len(journal') /\ \A i \in 1 .. Len(journal) : journal'[i] = journal[i]
  BY DEF ReadingTyped
<1>2. ASSUME NEW n \in 0 .. Len(journal), NEW records, SettledUpTo(n, records) PROVE SettledUpTo(n, records)'
  <2> SUFFICES ASSUME NEW i \in 1 .. n, i > started', journal'[i] = "outcome"
               PROVE  J!Settled(i)' \/ i \in records
    BY Zenon DEF SettledUpTo
  <2>1. i \in Nat /\ journal[i] = "outcome" /\ i > started
    BY <1>1 DEF ReadingTyped
  <2>2. J!Settled(i) \/ i \in records
    BY <1>2, <2>1, Zenon DEF SettledUpTo
  <2>3. J!Settled(i) => J!Settled(i)'
    BY <2>1 DEF J!Settled, ReadingTyped
  <2>4. QED
    BY <2>2, <2>3, Zenon
<1>3. QED
  BY <1>1, <1>2, Zenon

(* A place that was sound still is, when nothing settled is unsettled. *)
LEMMA StaysSound ==
  ASSUME ReadingTyped,
         journal' = journal \/ (\E kind : journal' = Append(journal, kind)),
         dropped' \in Nat, dropped <= dropped', aged <= aged', aged' \in Nat,
         events \subseteq events', UNCHANGED <<started, forgot>>
  PROVE  \A p \in Places : Sound(p) => Sound(p)'
<1>1. /\ Len(journal) <= Len(journal')
      /\ \A n \in 0 .. Len(journal) : \A records : SettledUpTo(n, records) => SettledUpTo(n, records)'
  BY StaysSettled, Zenon DEF ReadingTyped
<1>2. ASSUME NEW p \in Places, Sound(p) PROVE Sound(p)'
  <2>1. p.at \in Nat /\ Len(journal) \in Nat /\ Len(journal') \in Nat
    BY DEF Places, ReadingTyped
  <2>2. QED
    BY <1>1, <1>2, <2>1 DEF Sound, Names
<1>3. QED
  BY <1>2, Zenon

(* The reader moves on, and nothing else but what the spool holds changes. *)
LEMMA ReaderMoves ==
  ASSUME ReadingInv, UNCHANGED <<journal, dropped, aged, place, synced, started, forgot>>,
         events \subseteq events', NEW r \in Readers, reader' = r,
         r.at # "stopped" =>
           /\ Names(r.from) /\ Sound(r.from)
           /\ r.read <= Len(journal) /\ r.batch.cursor <= r.read
           /\ ~forgot => SettledUpTo(r.read, r.batch.records),
         r.at \in {"admitting", "saving"} => r.batch.cursor > 0,
         r.at = "saving" => r.batch.records \subseteq events'
  PROVE  ReadingInv'
<1>1. ReadingTyped' /\ dropped \in Nat /\ aged \in Nat /\ place \in Places /\ synced \in Places
  BY DEF ReadingInv, ReadingTyped
<1>2. \A p \in Places : Sound(p) => Sound(p)'
  BY <1>1, StaysSound DEF ReadingInv
<1>3. Sound(place)' /\ Sound(synced)'
  BY <1>1, <1>2, Zenon DEF ReadingInv
<1>4. r.at # "stopped" => Sound(r.from)'
  BY <1>2, Zenon DEF Readers
<1>5. r.at # "stopped" /\ ~forgot => SettledUpTo(r.read, r.batch.records)'
  <2>1. r.read \in Nat /\ Len(journal) \in Nat
    BY DEF Readers, ReadingInv, ReadingTyped
  <2>2. r.at # "stopped" => r.read \in 0 .. Len(journal)
    BY <2>1
  <2>3. \A n \in 0 .. Len(journal) : \A records : SettledUpTo(n, records) => SettledUpTo(n, records)'
    BY SMTT(30), <1>1, StaysSettled DEF ReadingInv
  <2>4. QED
    BY <2>2, <2>3, Zenon
<1>6. QED
  BY <1>1, <1>3, <1>4, <1>5, Zenon DEF ReadingInv

LEMMA StoppedKeeps ==
  ASSUME ReadingInv, UNCHANGED <<journal, dropped, aged, place, synced, events, started, forgot>>,
         reader' = J!Stopped
  PROVE  ReadingInv'
BY StoppedIs, ReaderMoves, Zenon

(* Begin reads on from its place, from now the first time, and from what is
   too old where the place is damaged. *)
LEMMA BeginKeeps ==
  ASSUME ReadingInv, J!Begin
  PROVE  ReadingInv'
<1>1. UNCHANGED <<journal, dropped, aged, synced, events>> /\ reader.at = "stopped"
  BY Zenon DEF J!Begin, J!host
<1>2. /\ place \in Places /\ synced \in Places /\ aged \in Nat /\ dropped \in Nat /\ aged <= Len(journal)
      /\ Len(journal) \in Nat /\ started \in Nat /\ forgot \in BOOLEAN /\ Len(journal) <= MaxEntries
      /\ started <= MaxEntries + 1
  BY FollowingAssumption DEF ReadingInv, ReadingTyped
<1>3. CASE place.kind \in {"since", "cursor"} /\ reader' = J!Opened(place, FALSE) /\ UNCHANGED <<place, started, forgot>>
  <2> DEFINE r == J!Opened(place, FALSE)
  <2>1. /\ r \in Readers /\ r.at = "reading" /\ r.from = place /\ r.read \in 0 .. place.at
        /\ r.batch = [cursor |-> 0, records |-> {}] /\ reader' = r
    BY <1>2, <1>3, OpenedIs, Zenon DEF ReadingInv, Names
  <2> HIDE DEF r
  <2>2. place.at \in Nat /\ place.at <= Len(journal) /\ (~forgot => SettledUpTo(place.at, {}))
    BY <1>2, <1>3, Zenon DEF ReadingInv, Sound, Names, Places
  <2>3. /\ r.read <= Len(journal) /\ (~forgot => SettledUpTo(r.read, r.batch.records))
        /\ r.batch.cursor <= r.read /\ Names(r.from) /\ Sound(r.from)
    BY <1>2, <1>3, <2>1, <2>2 DEF SettledUpTo, ReadingInv, Names
  <2>4. QED
    BY <1>1, <1>3, <2>1, <2>3, ReaderMoves, Zenon
<1>4. ASSUME NEW p \in Places, Names(p), place' = p, reader' = J!Opened(p, FALSE), p.kind = "since",
             p.at <= Len(journal), started' \in 0 .. MaxEntries + 1, forgot' \in BOOLEAN,
             ~forgot' => SettledUpTo(p.at, {})', ~forgot' => Sound(synced)'
      PROVE  ReadingInv'
  <2>1. Sound(p)'
    BY <1>1, <1>4, Zenon DEF Sound
  <2>2. Sound(synced)'
    BY <1>1, <1>4, Zenon DEF ReadingInv, Sound
  <2>3. ReadingTyped' /\ Len(journal') = Len(journal)
    <3>1. reader' \in Readers
      BY <1>4, Zenon DEF J!Opened, J!NoBatch, Readers, Places
    <3>2. QED
      BY <1>1, <1>2, <1>4, <3>1, Zenon DEF ReadingInv, ReadingTyped
  <2>4. /\ reader'.at = "reading" /\ reader'.from = p /\ reader'.read = p.at
        /\ reader'.batch = [cursor |-> 0, records |-> {}]
    BY <1>4, Zenon DEF J!Opened, J!NoBatch
  <2>5. p.at \in Nat
    BY Zenon DEF Places
  <2>6. Sound(place)' /\ Sound(reader.from)' /\ Names(reader.from)'
    BY <1>4, <2>1, <2>4, Zenon DEF Sound, Names
  <2>7. ~forgot' => SettledUpTo(reader.read, reader.batch.records)'
    BY <1>4, <2>4, Zenon DEF SettledUpTo
  <2>8. reader'.read <= Len(journal') /\ reader'.batch.cursor <= reader'.read
    <3>1. reader'.batch.cursor = 0
      BY <2>4
    <3>2. p.at <= Len(journal')
      BY <1>1, <1>4, Zenon
    <3>3. 0 <= p.at
      BY <2>5
    <3>4. QED
      BY <2>4, <3>1, <3>2, <3>3, Zenon
  <2>9. QED
    BY <2>2, <2>3, <2>4, <2>6, <2>7, <2>8, Zenon DEF ReadingInv
<1>5. CASE /\ place' = J!Place("since", Len(journal)) /\ reader' = J!Opened(place', FALSE)
           /\ started' = J!Min({started, Len(journal)}) /\ forgot' = (forgot \/ started # J!Unstarted)
  <2>1. /\ place' \in Places /\ place'.kind = "since" /\ place'.at = Len(journal) /\ Names(place')
    BY <1>2, <1>5, Zenon DEF J!Place, Places, Names
  <2>2. started' \in 0 .. MaxEntries + 1 /\ forgot' \in BOOLEAN
    BY <1>2, <1>5, Earlier, FollowingAssumption
  <2>3. ~forgot' => started' = Len(journal) /\ ~forgot
    <3>1. started = MaxEntries + 1 => started' = Len(journal)
      BY <1>2, <1>5, Earlier, FollowingAssumption
    <3>2. ~forgot' => ~forgot /\ started = MaxEntries + 1
      BY <1>5, Zenon DEF J!Unstarted
    <3>3. QED
      BY <3>1, <3>2, Zenon
  <2>4. ~forgot' => SettledUpTo(Len(journal), {})'
    <3>1. SUFFICES ASSUME ~forgot' PROVE \A i \in 1 .. Len(journal') : ~(i > started')
      BY Zenon DEF SettledUpTo
    <3>2. QED
      BY <1>1, <1>2, <2>3, <3>1
  <2>5. ~forgot' => Sound(synced)'
    BY <1>1, <1>2, <2>3 DEF Sound, SettledUpTo, Places, ReadingInv
  <2>6. PICK p \in Places : p = place'
    BY <2>1, Zenon
  <2>7. p.at = Len(journal) /\ Names(p) /\ p.kind = "since" /\ reader' = J!Opened(p, FALSE)
    BY <1>5, <2>1, <2>6, Zenon
  <2>8. ~forgot' => SettledUpTo(p.at, {})'
    BY <1>1, <2>4, <2>7, Zenon DEF SettledUpTo
  <2>9. p.at <= Len(journal)
    BY <1>2, <2>7
  <2>10. QED
    BY <1>4, <2>2, <2>5, <2>6, <2>7, <2>8, <2>9, Zenon
<1>6. CASE /\ place' = J!Place("since", aged) /\ reader' = J!Opened(place', FALSE) /\ UNCHANGED <<started, forgot>>
  <2>1. /\ place' \in Places /\ place'.kind = "since" /\ place'.at = aged /\ Names(place')
    BY <1>2, <1>6, Zenon DEF J!Place, Places, Names
  <2>2. SettledUpTo(aged, {})'
    BY <1>1, <1>2 DEF SettledUpTo, J!Settled
  <2>3. Sound(synced)'
    BY <1>1, <1>6, Zenon DEF ReadingInv, Sound, SettledUpTo, J!Settled
  <2>4. QED
    BY <1>1, <1>2, <1>4, <1>6, <2>1, <2>2, <2>3, FollowingAssumption, Zenon DEF ReadingInv, ReadingTyped, SettledUpTo
<1>7. QED
  BY <1>3, <1>5, <1>6, Zenon DEF J!Begin, J!load, J!Written, J!history

(* The next entry is passed only where it is settled, or taken. *)
LEMMA NextEntryKeeps ==
  ASSUME ReadingInv, J!NextEntry
  PROVE  ReadingInv'
<1> DEFINE i == J!Upcoming
<1>1. /\ reader.at = "reading" /\ reader \in Readers /\ i <= Len(journal)
      /\ UNCHANGED <<journal, dropped, aged, place, synced, events, started, forgot>>
  BY Zenon DEF J!NextEntry, J!host, J!history, J!Written, ReadingInv, ReadingTyped
<1>2. /\ reader.read \in Nat /\ dropped \in Nat /\ aged \in Nat /\ Len(journal) \in Nat /\ started \in Nat
      /\ reader.batch \in [cursor : Nat, records : SUBSET Nat]
  BY <1>1 DEF Readers, ReadingInv, ReadingTyped
<1>3. i \in Nat /\ i > reader.read /\ \A j \in Nat : j > reader.read /\ j < i => j <= dropped
  BY <1>2, Later DEF J!Upcoming
<1>4. /\ Names(reader.from) /\ Sound(reader.from) /\ reader.batch.cursor <= reader.read
      /\ ~forgot => SettledUpTo(reader.read, reader.batch.records)
  BY <1>1, Zenon DEF ReadingInv
<1> HIDE DEF i
<1>5. ASSUME NEW records \in SUBSET Nat, reader.batch.records \subseteq records, ~forgot,
             journal[i] = "outcome" /\ i > started => J!Settled(i) \/ i \in records
      PROVE  SettledUpTo(i, records)
  <2> SUFFICES ASSUME NEW j \in 1 .. i, j > started, journal[j] = "outcome" PROVE J!Settled(j) \/ j \in records
    BY Zenon DEF SettledUpTo
  <2>1. CASE j <= reader.read
    BY <1>2, <1>3, <1>4, <1>5, <2>1 DEF SettledUpTo
  <2>2. CASE j > reader.read /\ j < i
    BY <1>3, <2>2 DEF J!Settled
  <2>3. CASE j = i
    BY <1>5, <2>3, Zenon
  <2>4. QED
    BY <1>2, <1>3, <2>1, <2>2, <2>3
<1>6. CASE ~J!readable(i) /\ reader' = [reader EXCEPT !.read = i]
  <2> DEFINE r == [reader EXCEPT !.read = i]
  <2>1. /\ r \in Readers /\ r.at = "reading" /\ r.from = reader.from /\ r.read = i /\ r.batch = reader.batch /\ reader' = r
    BY <1>1, <1>3, <1>6, Zenon DEF Readers
  <2>2. ~forgot => SettledUpTo(i, reader.batch.records)
    BY <1>2, <1>5, <1>6, Zenon DEF J!readable
  <2> HIDE DEF r
  <2>3. QED
    BY SMTT(30), <1>1, <1>2, <1>3, <1>4, <2>1, <2>2, ReaderMoves
<1>7. CASE reader.from = J!Place("cursor", i) /\ reader' = [reader EXCEPT !.read = i, !.first = FALSE]
  <2> DEFINE r == [reader EXCEPT !.read = i, !.first = FALSE]
  <2>1. /\ r \in Readers /\ r.at = "reading" /\ r.from = reader.from /\ r.read = i /\ r.batch = reader.batch /\ reader' = r
    BY <1>1, <1>3, <1>7, Zenon DEF Readers
  <2>2. ~forgot => SettledUpTo(i, {})
    BY <1>4, <1>7 DEF Sound, J!Place
  <2>3. ~forgot => SettledUpTo(i, reader.batch.records)
    BY <2>2, Zenon DEF SettledUpTo
  <2> HIDE DEF r
  <2>4. QED
    BY SMTT(30), <1>1, <1>2, <1>3, <1>4, <2>1, <2>3, ReaderMoves
<1>8. CASE reader' = [reader EXCEPT !.read = i, !.first = FALSE, !.batch = J!take(@, i)]
  <2> DEFINE b == [cursor |-> i, records |-> reader.batch.records \cup {j \in {i} : J!observed(j)}]
             r == [reader EXCEPT !.read = i, !.first = FALSE, !.batch = b]
  <2>1. reader' = r
    BY <1>8, Zenon DEF J!take
  <2>2. b \in [cursor : Nat, records : SUBSET Nat] /\ b.cursor = i /\ reader.batch.records \subseteq b.records
    BY <1>2, <1>3, Zenon
  <2>3. J!observed(i) => i \in b.records
    BY Zenon
  <2> HIDE DEF b
  <2>4. /\ r \in Readers /\ r.at = "reading" /\ r.from = reader.from /\ r.read = i /\ r.batch = b
    BY <1>1, <1>3, <2>2, Zenon DEF Readers
  <2>5. ~forgot => SettledUpTo(i, b.records)
    <3>1. journal[i] = "outcome" => J!Settled(i) \/ i \in b.records
      BY <1>2, <1>3, <2>3 DEF J!observed, J!outcome, J!Settled
    <3>2. QED
      BY <1>5, <2>2, <3>1, Zenon
  <2> HIDE DEF r
  <2>6. QED
    BY SMTT(30), <1>1, <1>2, <1>3, <1>4, <2>1, <2>2, <2>4, <2>5, ReaderMoves
<1>9. QED
  BY <1>6, <1>7, <1>8, Zenon DEF J!NextEntry, i

LEMMA FlushKeeps ==
  ASSUME ReadingInv, J!Flush
  PROVE  ReadingInv'
<1>1. /\ reader.at = "reading" /\ reader \in Readers
      /\ UNCHANGED <<journal, dropped, aged, place, synced, events, started, forgot>>
  BY Zenon DEF J!Flush, J!host, J!history, ReadingInv, ReadingTyped
<1>2. /\ Names(reader.from) /\ Sound(reader.from) /\ reader.from \in Places
      /\ reader.read \in Nat /\ reader.batch.cursor \in Nat /\ Len(journal) \in Nat
      /\ reader.read <= Len(journal) /\ reader.batch.cursor <= reader.read
      /\ ~forgot => SettledUpTo(reader.read, reader.batch.records)
  BY <1>1 DEF ReadingInv, ReadingTyped, Readers
<1>3. CASE reader' = J!Stopped
  BY <1>1, <1>3, StoppedKeeps, Zenon
<1>4. ASSUME reader.batch.cursor # 0, NEW after \in {"on", "follow", "return"},
             reader' = [reader EXCEPT !.at = "admitting", !.after = after]
      PROVE  ReadingInv'
  <2> DEFINE r == [reader EXCEPT !.at = "admitting", !.after = after]
  <2>1. /\ r \in Readers /\ r.at = "admitting" /\ r.from = reader.from /\ r.read = reader.read
        /\ r.batch = reader.batch /\ reader' = r
    BY <1>1, <1>4, Zenon DEF Readers
  <2> HIDE DEF r
  <2>2. QED
    BY <1>1, <1>2, <1>4, <2>1, ReaderMoves
<1>5. CASE reader' = J!Opened(reader.from, TRUE)
  <2> DEFINE r == J!Opened(reader.from, TRUE)
  <2>1. /\ r \in Readers /\ r.at = "reading" /\ r.from = reader.from /\ r.read \in 0 .. reader.from.at
        /\ r.batch = [cursor |-> 0, records |-> {}] /\ reader' = r
    BY <1>2, <1>5, OpenedIs, Zenon DEF ReadingInv
  <2> HIDE DEF r
  <2>2. reader.from.at \in Nat /\ reader.from.at <= Len(journal) /\ (~forgot => SettledUpTo(reader.from.at, {}))
    BY <1>2, Zenon DEF Sound, Places
  <2>3. r.read <= Len(journal) /\ r.batch.cursor <= r.read /\ (~forgot => SettledUpTo(r.read, r.batch.records))
    BY <1>2, <2>1, <2>2 DEF SettledUpTo
  <2>4. QED
    BY <1>1, <1>2, <2>1, <2>3, ReaderMoves, Zenon
<1>6. QED
  BY <1>3, <1>4, <1>5, Zenon DEF J!Flush

LEMMA AdmitKeeps ==
  ASSUME ReadingInv, J!Admit
  PROVE  ReadingInv'
<1>1. /\ reader.at = "admitting" /\ reader \in Readers
      /\ UNCHANGED <<journal, dropped, aged, place, synced, started, forgot>>
  BY Zenon DEF J!Admit, J!host, J!history, ReadingInv, ReadingTyped
<1>2. CASE reader' = J!Stopped /\ events' = events
  BY <1>1, <1>2, StoppedKeeps, Zenon
<1>3. CASE events' = events \cup reader.batch.records /\ reader' = [reader EXCEPT !.at = "saving"]
  <2> DEFINE r == [reader EXCEPT !.at = "saving"]
  <2>1. /\ r \in Readers /\ r.at = "saving" /\ r.from = reader.from /\ r.read = reader.read
        /\ r.batch = reader.batch /\ reader' = r
    BY <1>1, <1>3, Zenon DEF Readers
  <2> HIDE DEF r
  <2>2. /\ Names(reader.from) /\ Sound(reader.from)
        /\ reader.read <= Len(journal) /\ reader.batch.cursor <= reader.read /\ reader.batch.cursor > 0
        /\ ~forgot => SettledUpTo(reader.read, reader.batch.records)
    BY <1>1, Zenon DEF ReadingInv
  <2>3. QED
    BY <1>1, <1>3, <2>1, <2>2, ReaderMoves, Zenon
<1>4. QED
  BY <1>2, <1>3, Zenon DEF J!Admit

(* The place moves past what is in the spool. *)
LEMMA SaveKeeps ==
  ASSUME ReadingInv, J!Save
  PROVE  ReadingInv'
<1> DEFINE next == J!Place("cursor", reader.batch.cursor)
<1>1. /\ reader.at = "saving" /\ reader \in Readers
      /\ UNCHANGED <<journal, dropped, aged, synced, events, started, forgot>>
  BY Zenon DEF J!Save, J!host, J!history, ReadingInv, ReadingTyped
<1>2. /\ reader.read \in Nat /\ reader.batch.cursor \in Nat /\ reader.batch.cursor > 0 /\ Len(journal) \in Nat
      /\ reader.read <= Len(journal) /\ reader.batch.cursor <= reader.read
      /\ reader.batch.records \subseteq events
      /\ ~forgot => SettledUpTo(reader.read, reader.batch.records)
  BY <1>1 DEF ReadingInv, ReadingTyped, Readers
<1>3. ~forgot => SettledUpTo(reader.read, {})
  BY <1>2, Zenon DEF SettledUpTo, J!Settled
<1>4. next \in Places /\ next.kind = "cursor" /\ next.at = reader.batch.cursor /\ Names(next)
  BY <1>2, Zenon DEF J!Place, Places, Names
<1>5. Sound(next)
  BY SMTT(30), <1>2, <1>3, <1>4 DEF Sound, SettledUpTo
<1>6. CASE reader' = J!Stopped /\ place' = place
  BY <1>1, <1>6, StoppedKeeps, Zenon
<1>7. CASE /\ place' = next
           /\ reader' = CASE reader.after = "on" -> [reader EXCEPT !.at = "reading", !.from = next, !.batch = J!NoBatch]
                          [] reader.after = "follow" -> J!Opened(next, TRUE)
                          [] reader.after = "return" -> J!Stopped
  <2> HIDE DEF next
  <2>1. \A p \in Places : Sound(p) => Sound(p)'
    BY SMTT(30), <1>1, StaysSound DEF ReadingInv, ReadingTyped
  <2>2. Sound(place)' /\ Sound(synced)' /\ place' \in Places
    <3>1. PICK p \in Places : p = next
      BY <1>4, Zenon
    <3>2. Sound(p)'
      BY <1>5, <2>1, <3>1, Zenon
    <3>3. QED
      BY <1>1, <1>7, <2>1, <3>1, <3>2, Zenon DEF ReadingInv, ReadingTyped, Sound, Names
  <2>3. ASSUME NEW r \in Readers, reader' = r, r.at = "reading", r.from = next, r.read \in 0 .. reader.read,
               r.batch = [cursor |-> 0, records |-> {}]
        PROVE  ReadingInv'
    <3>1. ReadingTyped'
      BY <1>1, <2>2, <2>3, Zenon DEF ReadingInv, ReadingTyped
    <3>2. Names(r.from)' /\ Sound(r.from)'
      BY <1>4, <1>5, <2>1, <2>3, Zenon DEF Names
    <3>3. ~forgot' => SettledUpTo(r.read, r.batch.records)'
      <4>1. ~forgot => SettledUpTo(r.read, {})
        BY SMTT(30), <1>2, <1>3, <2>3 DEF SettledUpTo
      <4>2. QED
        BY <1>1, <2>3, <4>1, Zenon DEF SettledUpTo, J!Settled
    <3>4. r.read <= Len(journal') /\ r.batch.cursor <= r.read
      BY <1>1, <1>2, <2>3
    <3>5. QED
      BY <2>2, <2>3, <3>1, <3>2, <3>3, <3>4, Zenon DEF ReadingInv
  <2>4. CASE reader' = [reader EXCEPT !.at = "reading", !.from = next, !.batch = J!NoBatch]
    <3> DEFINE r == [reader EXCEPT !.at = "reading", !.from = next, !.batch = J!NoBatch]
    <3>1. /\ r \in Readers /\ r.at = "reading" /\ r.from = next /\ r.read = reader.read
          /\ r.batch = [cursor |-> 0, records |-> {}] /\ reader' = r
      BY <1>1, <1>4, <2>4, Zenon DEF Readers, J!NoBatch
    <3> HIDE DEF r
    <3>2. QED
      BY SMTT(30), <1>2, <2>3, <3>1
  <2>5. CASE reader' = J!Opened(next, TRUE)
    <3> DEFINE r == J!Opened(next, TRUE)
    <3>1. /\ r \in Readers /\ r.at = "reading" /\ r.from = next /\ r.read \in 0 .. next.at
          /\ r.batch = [cursor |-> 0, records |-> {}] /\ reader' = r
      BY <1>4, <1>5, <2>5, OpenedIs, Zenon DEF ReadingInv
    <3> HIDE DEF r
    <3>2. QED
      BY SMTT(30), <1>2, <1>4, <2>3, <3>1
  <2>6. CASE reader' = J!Stopped
    <3>1. ReadingTyped' /\ reader'.at = "stopped"
      BY <1>1, <2>2, <2>6, StoppedIs, Zenon DEF ReadingInv, ReadingTyped
    <3>2. QED
      BY <2>2, <3>1, Zenon DEF ReadingInv
  <2>7. reader.after \in {"on", "follow", "return"}
    BY <1>1, Zenon DEF Readers
  <2>8. QED
    BY <1>7, <2>4, <2>5, <2>6, <2>7, Zenon
<1>8. QED
  BY <1>6, <1>7, Zenon DEF J!Save

LEMMA JournalWorldKeeps ==
  ASSUME ReadingInv, J!Environment
  PROVE  ReadingInv'
<1>1. /\ journal \in Seq(Entries) /\ Len(journal) \in Nat /\ dropped \in Nat /\ aged \in Nat /\ aged <= Len(journal)
      /\ place \in Places /\ synced \in Places /\ reader \in Readers /\ Len(journal) <= MaxEntries
  BY DEF ReadingInv, ReadingTyped
<1>2. ASSUME /\ journal' = journal \/ (\E kind \in Entries : journal' = Append(journal, kind) /\ Len(journal) < MaxEntries)
             /\ dropped' \in {dropped, dropped + 1} /\ aged' \in {aged, aged + 1} /\ aged' <= Len(journal)
             /\ UNCHANGED <<place, synced, events, reader, started, forgot>>
      PROVE  ReadingInv'
  <2>1. /\ journal' \in Seq(Entries) /\ Len(journal) <= Len(journal') /\ Len(journal') <= MaxEntries
        /\ dropped' \in Nat /\ dropped <= dropped' /\ aged' \in Nat /\ aged <= aged' /\ Len(journal') \in Nat
    BY <1>1, <1>2, FollowingAssumption
  <2>2. ReadingTyped'
    BY SMTT(30), <1>2, <2>1 DEF ReadingInv, ReadingTyped
  <2>3. /\ \A p \in Places : Sound(p) => Sound(p)'
        /\ \A n \in 0 .. Len(journal) : \A records : SettledUpTo(n, records) => SettledUpTo(n, records)'
    BY <1>1, <1>2, <2>1, StaysSound, StaysSettled, Zenon DEF ReadingInv
  <2>4. Sound(place)' /\ Sound(synced)'
    BY <1>1, <1>2, <2>3, Zenon DEF ReadingInv, Sound, Names
  <2>5. reader.at # "stopped" =>
          /\ Names(reader.from)' /\ Sound(reader.from)' /\ reader.read <= Len(journal')
          /\ ~forgot' => SettledUpTo(reader.read, reader.batch.records)'
    <3>1. reader.from \in Places /\ reader.read \in Nat
      BY <1>1, Zenon DEF Readers
    <3>2. PICK p \in Places, n \in Nat, records \in {reader.batch.records} : p = reader.from /\ n = reader.read /\ records = reader.batch.records
      BY <3>1, Zenon
    <3>3. ASSUME reader.at # "stopped"
          PROVE  Names(p) /\ Sound(p) /\ n \in 0 .. Len(journal) /\ (~forgot => SettledUpTo(n, records))
      BY SMTT(30), <1>1, <3>2, <3>3 DEF ReadingInv
    <3>4. ASSUME reader.at # "stopped"
          PROVE  Names(p) /\ Sound(p)' /\ n <= Len(journal') /\ (~forgot' => SettledUpTo(n, records)')
      BY <1>1, <1>2, <2>1, <2>3, <3>3, <3>4
    <3>5. QED
      BY <1>2, <3>2, <3>4, Zenon DEF Names, Sound, SettledUpTo
  <2>6. QED
    BY <1>2, <2>2, <2>4, <2>5, Zenon DEF ReadingInv
<1>3. ASSUME /\ UNCHANGED <<journal, dropped, aged, events, started, forgot>>
             /\ place' \in {place, synced, J!Place("damaged", 0)}
             /\ synced' \in {place, synced, J!Place("damaged", 0)}
             /\ reader' \in {reader, J!Stopped}
      PROVE  ReadingInv'
  <2>1. J!Place("damaged", 0) \in Places /\ ~Names(J!Place("damaged", 0))
    BY Zenon DEF J!Place, Places, Names
  <2>2. ReadingTyped'
    BY <1>1, <1>3, <2>1, StoppedIs, Zenon DEF ReadingInv, ReadingTyped
  <2>3. Sound(place)' /\ Sound(synced)'
    <3>1. \A p \in Places : Sound(p) => Sound(p)'
      BY SMTT(30), <1>1, <1>3, StaysSound DEF ReadingInv
    <3>2. PICK p \in Places, q \in Places : p = place' /\ q = synced'
      BY <1>1, <1>3, <2>1, Zenon
    <3>3. Sound(p) /\ Sound(q)
      BY <1>3, <2>1, <3>2, Zenon DEF ReadingInv, Sound
    <3>4. QED
      BY <3>1, <3>2, <3>3, Zenon DEF Sound, Names
  <2>4. CASE reader' = J!Stopped
    BY <2>2, <2>3, <2>4, StoppedIs, Zenon DEF ReadingInv
  <2>5. CASE reader' = reader
    BY <1>3, <2>2, <2>3, <2>5, Zenon DEF ReadingInv, Names, Sound, SettledUpTo, J!Settled
  <2>6. QED
    BY <1>3, <2>4, <2>5, Zenon
<1>4. ASSUME NEW kind \in {"outcome", "unrelated", "unreadable"}, J!WriteEntry(kind) PROVE ReadingInv'
  <2>1. kind \in Entries /\ journal' = Append(journal, kind) /\ Len(journal) < MaxEntries
    BY <1>4, Zenon DEF J!WriteEntry, J!Written, Entries
  <2>2. UNCHANGED <<dropped, aged, place, synced, events, reader, started, forgot>>
    BY <1>4, Zenon DEF J!WriteEntry, J!history
  <2>3. QED
    BY <1>1, <1>2, <2>1, <2>2, Zenon
<1>5. CASE J!Drop
  BY <1>1, <1>2, <1>5, Zenon DEF J!Drop, J!history
<1>6. CASE J!Age
  BY <1>1, <1>2, <1>6 DEF J!Age, J!Written, J!history
<1>7. CASE J!WriteBack
  BY <1>3, <1>7, Zenon DEF J!WriteBack, J!host, J!history
<1>8. CASE J!Kill
  BY <1>3, <1>8, Zenon DEF J!Kill, J!host, J!history
<1>9. CASE J!LosePower
  BY <1>3, <1>9, Zenon DEF J!LosePower, J!host, J!history
<1>10. CASE J!Damage
  BY <1>3, <1>10, Zenon DEF J!Damage, J!host, J!history
<1>11. QED
  BY <1>4, <1>5, <1>6, <1>7, <1>8, <1>9, <1>10, Zenon DEF J!Environment

LEMMA ReadingStep == ReadingInv /\ [J!Next]_reading => ReadingInv'
<1> SUFFICES ASSUME ReadingInv, [J!Next]_reading PROVE ReadingInv'
  BY Zenon
<1>1. CASE UNCHANGED reading
  BY <1>1 DEF reading, ReadingInv, ReadingTyped, Sound, Names, SettledUpTo, J!Settled
<1>2. QED
  BY <1>1, BeginKeeps, NextEntryKeeps, FlushKeeps, AdmitKeeps, SaveKeeps, JournalWorldKeeps, Zenon DEF J!Next

(* The place written down never passes an outcome of sshd whose event is not in
   the spool, for any journal and any batch, and whatever is killed, damaged or
   loses its power. *)
THEOREM NoOutcomeIsSkipped == Spec => []NothingSkipped
<1>1. Init => ReadingInv
  BY InitReadingInv, Zenon DEF Init
<1>2. ReadingInv /\ [Next]_every => ReadingInv'
  BY ReadingStep, Zenon DEF Next, every
<1>3. ReadingInv => NothingSkipped
  <2> SUFFICES ASSUME ReadingInv, ~forgot, NEW i \in J!Passed PROVE J!Settled(i)
    BY Zenon DEF NothingSkipped, J!NothingSkipped
  <2>1. Names(place) /\ i \in 1 .. place.at /\ i > started /\ journal[i] = "outcome"
    BY DEF J!Passed, J!Reached, Names
  <2>2. QED
    BY <2>1, Zenon DEF ReadingInv, Sound, SettledUpTo
<1>4. QED
  BY <1>1, <1>2, <1>3, PTL DEF Spec
=============================================================================
