-------------------------- MODULE CredentialsProofs --------------------------
(***************************************************************************)
(* What the installation keeps of its credentials, for any agents, sets of *)
(* authorities, and numbers of keys, certificates, replacements and        *)
(* faults.                                                                 *)
(***************************************************************************)
EXTENDS Credentials, TLAPS

Requests == [agent : Agents \cup {None}, key : Nat]
Certificates == [serial : Nat, agent : Agents \cup {None}, key : Nat]
States ==
  [id : Nat, replaces : Nat, enrollment : [generation : Nat, certificate : Certificates],
   request : Requests, trust : [set : Sets \cup {None}, configured : Sets \cup {None}]]
Kinds == {"keys", "certificates", "trust", "state"}
Commands == {"agent", "renew", "ask", "import"}
Steps == {"open", "ask", "print", "post", "answer", "import", "activate", "adopt", "trust", "done"}
Processes ==
  [who : Commands \cup {"replace", None}, at : Steps \cup {"aside", "replaced", None},
   held : States, new : Requests, answer : Certificates,
   trusted : Sets \cup {None}, published : Sets \cup {None}, left : SUBSET Kinds]

TypeOK ==
  /\ disk \in States /\ damaged \in BOOLEAN
  /\ keys \subseteq 1 .. Len(drawn) /\ certificates \subseteq Certificates /\ sets \subseteq Sets
  /\ aside \in [keys : SUBSET Nat, certificates : SUBSET Certificates, ids : SUBSET Nat]
  /\ lost \subseteq Nat /\ drawn \in Seq(Nat)
  /\ configured \in Sets
  /\ proc \in Processes
  /\ issued \subseteq Certificates
  /\ sent \in Requests /\ faults \in Nat

(* What a state says of a credential or of a request is sound: the credential
   is kept and was issued, and the request is for the agent enrolled. *)
Sound(s) ==
  /\ Enrolled(s) =>
       /\ Key(s) \in keys \cup aside.keys \cup lost
       /\ s.enrollment.certificate \in certificates \cup aside.certificates
       /\ s.enrollment.certificate \in issued
       /\ Agent(s) \in Agents
  /\ s.request # NoRequest => s.request.agent \in Agents /\ s.request.key \in 1 .. Len(drawn)
  /\ s.request # NoRequest /\ Enrolled(s) => s.request.agent = Agent(s)

Running == proc.who \in Commands

(* What is held is what is on disk, until a write fails. *)
HeldInv ==
  /\ Sound(disk) /\ Sound(proc.held)
  /\ proc.who \in Commands => proc.at \in Steps
  /\ proc.who = "replace" => proc.at \in {"aside", "replaced"}
  /\ proc.who = None => proc = Nobody
  /\ Running \/ proc.at = "replaced" => proc.held.id = disk.id
  /\ faults = 0 => ~damaged
  /\ faults = 0 /\ proc.who # None => proc.held = disk

StepInv ==
  /\ proc.at = "ask" =>
       /\ proc.new.agent \in Agents /\ proc.new.key \in 1 .. Len(drawn)
       /\ mayAsk(proc.new.agent)
       /\ ~Asked(proc.new.agent)
       /\ proc.new.key # sent.key \/ (Enrolled(proc.held) /\ proc.new.key = Key(proc.held))
  /\ proc.at \in {"print", "post"} => proc.held.request # NoRequest
  /\ proc.at \in {"import", "activate"} => proc.answer \in issued
  /\ proc.at = "activate" =>
       /\ proc.answer \in certificates /\ proc.answer.key \in keys
       /\ proc.answer.agent = proc.held.request.agent /\ proc.answer.key = proc.held.request.key
       /\ proc.held.request # NoRequest
  /\ proc.at = "trust" => Renewing /\ proc.published \in sets

AsideInv ==
  proc.at = "aside" =>
    /\ "keys" \notin proc.left => keys = {}
    /\ "state" \notin proc.left => disk.id \in aside.ids

(* The request on disk is the one held, or it was never sent, or its key has a
   certificate that is held. *)
RequestInv ==
  /\ sent.key \in 0 .. Len(drawn) /\ (sent # NoRequest => sent.key > 0)
  /\ Running =>
       \/ disk.request \in {proc.held.request, NoRequest}
       \/ disk.request # sent
       \/ /\ Enrolled(proc.held) /\ Key(proc.held) = sent.key
          /\ proc.held.request.key \notin keys

CredentialsInv ==
  /\ TypeOK /\ HeldInv /\ StepInv /\ AsideInv /\ RequestInv
  /\ ReplacedIsKept /\ RestartTrustsTheSame

-----------------------------------------------------------------------------
(* The processes the actions make. *)

(* Nobody is a process that holds nothing. *)
LEMMA NobodyIs ==
  /\ Nobody \in Processes /\ Nobody.who = None /\ Nobody.at = None
  /\ Nobody.held = Fresh(0, 0) /\ Nobody.held \in States
  /\ Nobody.held.enrollment.generation = 0 /\ Nobody.held.request = NoRequest
BY Zenon DEF Nobody, Started, Fresh, NoRequest, NoCertificate, NoEnrollment, NoTrust, Processes, States, Requests,
       Certificates, Commands, Steps, Kinds, None

(* Back keeps who it is and what it holds. *)
LEMMA BackIs ==
  ASSUME proc \in Processes
  PROVE  /\ Back \in Processes /\ Back.who = proc.who /\ Back.at = "open"
         /\ Back.held = proc.held /\ Back.trusted = proc.trusted /\ Back.left = proc.left
BY Zenon DEF Back, NoRequest, NoCertificate, Processes, Requests, Certificates, Steps, None

(* At moves on and keeps the rest. *)
LEMMA AtIs ==
  ASSUME proc \in Processes, NEW step \in Steps \cup {"replaced"}
  PROVE  /\ At(step) \in Processes /\ At(step).who = proc.who /\ At(step).at = step
         /\ At(step).held = proc.held /\ At(step).trusted = proc.trusted
         /\ At(step).new = proc.new /\ At(step).answer = proc.answer
         /\ At(step).published = proc.published /\ At(step).left = proc.left
BY DEF At, Processes, Steps

(* commit leaves what was written held, or a fault and a process that failed. *)
LEMMA CommitIs ==
  ASSUME NEW next \in States, NEW then \in Processes, proc \in Processes, faults \in Nat,
         commit(next, then)
  PROVE  \/ /\ disk' = next /\ faults' = faults /\ proc' \in Processes
            /\ proc'.held = next /\ proc'.who = then.who /\ proc'.at = then.at
            /\ proc'.trusted = then.trusted /\ proc'.left = then.left
         \/ /\ disk' \in {disk, next} /\ faults' = faults + 1
            /\ proc' = Nobody \/ (proc.who = "agent" /\ proc' = Back)
BY Zenon DEF commit, write, writeFails, Failed, Processes

(* Started is a process with the state it is given. *)
LEMMA StartedIs ==
  ASSUME NEW who \in Commands \cup {"replace"}, NEW at \in {"open", "aside"}, NEW s \in States,
         NEW t \in Sets \cup {None}, NEW left \in SUBSET Kinds
  PROVE  /\ Started(who, at, s, t, left) \in Processes
         /\ Started(who, at, s, t, left).who = who /\ Started(who, at, s, t, left).at = at
         /\ Started(who, at, s, t, left).held = s /\ Started(who, at, s, t, left).trusted = t
         /\ Started(who, at, s, t, left).left = left
BY Zenon DEF Started, Processes, Requests, Certificates, NoRequest, NoCertificate, None, Steps

(* A state of its own is a state. *)
LEMMA FreshIs ==
  ASSUME NEW id \in Nat, NEW replaces \in Nat
  PROVE  /\ Fresh(id, replaces) \in States /\ Fresh(id, replaces).id = id
         /\ Fresh(id, replaces).replaces = replaces
         /\ ~Enrolled(Fresh(id, replaces)) /\ Fresh(id, replaces).request = NoRequest
         /\ Fresh(id, replaces).trust = NoTrust
BY DEF Fresh, NoRequest, NoCertificate, NoEnrollment, NoTrust, States, Requests, Certificates,
       Enrolled, None

(* What Open does. *)
LEMMA OpenIs ==
  ASSUME TypeOK, NEW who \in Commands, Open(who)
  PROVE  /\ proc.who = None /\ ~damaged
         /\ \/ /\ disk' = disk /\ faults' = faults /\ disk.id > 0
               /\ proc' \in Processes /\ proc'.who = who /\ proc'.at = "open" /\ proc'.held = disk
               /\ who \in {"agent", "renew"} => proc'.trusted = Trusted(disk)
            \/ /\ disk.id = 0 /\ keys = {} /\ disk' = Fresh(1, 0) /\ faults' = faults
               /\ proc' \in Processes /\ proc'.who = who /\ proc'.at = "open" /\ proc'.held = Fresh(1, 0)
               /\ who \in {"agent", "renew"} => proc'.trusted = Trusted(Fresh(1, 0))
            \/ /\ disk.id = 0 /\ keys = {} /\ disk' \in {disk, Fresh(1, 0)} /\ faults' = faults + 1 /\ proc' = Nobody
<1> DEFINE trusted(s) == IF who \in {"agent", "renew"} THEN Trusted(s) ELSE None
           opened(s) == Started(who, "open", s, trusted(s), {})
<1>1. proc.who = None /\ ~damaged /\ readState = disk
  BY Zenon DEF Open, claim, decodes, readState
<1>2. ASSUME NEW s \in States
      PROVE  /\ opened(s) \in Processes /\ opened(s).who = who /\ opened(s).at = "open"
             /\ opened(s).held = s /\ opened(s).trusted = trusted(s)
  <2>1. trusted(s) \in Sets \cup {None}
    BY Zenon DEF Trusted, TypeOK, States
  <2>2. QED
    BY <2>1, StartedIs
<1>3. disk \in States /\ Fresh(1, 0) \in States
  BY FreshIs, Zenon DEF TypeOK
<1> HIDE DEF opened
<1>4. CASE disk.id > 0 /\ proc' = opened(disk) /\ disk' = disk /\ faults' = faults
  BY <1>1, <1>2, <1>3, <1>4, Zenon
<1>5. CASE Empty /\ commit(Fresh(1, 0), opened(Fresh(1, 0)))
  <2>1. disk.id = 0 /\ keys = {}
    BY <1>5, Zenon DEF Empty
  <2>2. proc \in Processes /\ faults \in Nat /\ proc.who # "agent"
    BY <1>1, Zenon DEF TypeOK, None
  <2>3. QED
    BY <1>1, <1>2, <1>3, <1>5, <2>1, <2>2, CommitIs
<1>6. QED
  BY <1>1, <1>4, <1>5, Zenon DEF Open, opened

-----------------------------------------------------------------------------
(* Every step keeps the invariant. *)

LEMMA InitCredentialsInv == Init => CredentialsInv
<1> SUFFICES ASSUME Init PROVE CredentialsInv
  BY Zenon
<1>1. /\ disk = Fresh(0, 0) /\ disk \in States /\ disk.id = 0 /\ ~Enrolled(disk)
      /\ disk.request = NoRequest
  BY FreshIs DEF Init
<1>2. /\ proc = Nobody /\ proc \in Processes /\ proc.who = None /\ proc.at = None /\ proc.held = disk
  BY <1>1, NobodyIs, Zenon DEF Init
<1>3. TypeOK
  <2>1. drawn \in Seq(Nat) /\ keys \subseteq 1 .. Len(drawn)
    BY DEF Init
  <2>2. sent \in Requests /\ aside \in [keys : SUBSET Nat, certificates : SUBSET Certificates, ids : SUBSET Nat]
    BY Zenon DEF Init, NoRequest, Requests
  <2>3. QED
    BY <1>1, <1>2, <2>1, <2>2, Zenon DEF Init, TypeOK
<1>4. HeldInv
  BY <1>1, <1>2, Zenon DEF Init, HeldInv, Sound, Running, Commands, None
<1>5. StepInv /\ AsideInv
  BY <1>2, Zenon DEF StepInv, AsideInv, None
<1>6. RequestInv
  BY <1>2 DEF Init, RequestInv, Running, Commands, None, NoRequest
<1>7. ReplacedIsKept /\ RestartTrustsTheSame
  BY <1>1, <1>2 DEF Init, ReplacedIsKept, RestartTrustsTheSame, Renewing, None
<1>8. QED
  BY <1>3, <1>4, <1>5, <1>6, <1>7, Zenon DEF CredentialsInv

(* A process that ends leaves what is on disk as it was. *)
LEMMA NobodyKeeps ==
  ASSUME CredentialsInv, proc' = Nobody, TypeOK', Sound(disk)', ReplacedIsKept',
         faults' = 0 => ~damaged', sent'.key \in 0 .. Len(drawn)', sent' # NoRequest => sent'.key > 0
  PROVE  CredentialsInv'
<1>1. proc'.who = None /\ proc'.at = None
  BY NobodyIs, Zenon
<1>2. Sound(proc.held)'
  BY NobodyIs DEF Sound, Enrolled
<1>3. HeldInv'
  BY <1>1, <1>2, Zenon DEF HeldInv, Running, Commands, None
<1>4. StepInv' /\ AsideInv'
  BY <1>1, Zenon DEF StepInv, AsideInv, None
<1>5. RequestInv' /\ RestartTrustsTheSame'
  BY <1>1, Zenon DEF RequestInv, RestartTrustsTheSame, Renewing, Running, Commands, None
<1>6. QED
  BY <1>3, <1>4, <1>5, Zenon DEF CredentialsInv

LEMMA StopKeeps ==
  ASSUME CredentialsInv, Stop \/ HandOver
  PROVE  CredentialsInv'
<1>1. proc' = Nobody /\ UNCHANGED <<disk, damaged, files, drawn, world, faults>>
  BY Zenon DEF Stop, HandOver
<1>2. sent' = sent \/ (sent' = proc.held.request /\ proc.held.request # NoRequest)
  BY Zenon DEF Stop, HandOver, CredentialsInv, StepInv
<1>3. TypeOK'
  <2>1. sent' \in Requests
    BY <1>2, Zenon DEF CredentialsInv, TypeOK, Processes, States
  <2>2. QED
    BY <1>1, <2>1, NobodyIs, Zenon DEF CredentialsInv, TypeOK, files, world
<1>4. Sound(disk)' /\ ReplacedIsKept' /\ (faults' = 0 => ~damaged')
  BY <1>1, Zenon DEF CredentialsInv, HeldInv, Sound, ReplacedIsKept, files, world
<1>5. sent'.key \in 0 .. Len(drawn') /\ (sent' # NoRequest => sent'.key > 0)
  BY <1>1, <1>2 DEF CredentialsInv, HeldInv, Sound, RequestInv, TypeOK
<1>6. QED
  BY <1>1, <1>3, <1>4, <1>5, NobodyKeeps, Zenon

(* A process that goes on with what it holds, at a step whose facts hold. *)
LEMMA MovesKeep ==
  ASSUME CredentialsInv, Running, proc.at # "trust",
         UNCHANGED <<disk, damaged, keys, aside, lost, drawn, configured, issued, faults>>,
         certificates \subseteq certificates', certificates' \subseteq Certificates,
         sets' \subseteq Sets, sets' = sets \/ proc'.at = "trust",
         sent' = sent \/ (sent' = proc.held.request /\ proc.held.request # NoRequest),
         proc' \in Processes, proc'.who = proc.who, proc'.at \in Steps,
         proc'.held = proc.held, proc'.trusted = proc.trusted, StepInv'
  PROVE  CredentialsInv'
<1>1. TypeOK'
  <2>1. sent' \in Requests
    BY Zenon DEF CredentialsInv, TypeOK, Processes, States
  <2>2. QED
    BY <2>1, Zenon DEF CredentialsInv, TypeOK
<1>2. HeldInv'
  <2>1. Sound(disk)' /\ Sound(proc.held)'
    BY Zenon DEF CredentialsInv, HeldInv, Sound
  <2>2. QED
    BY <2>1, Zenon DEF CredentialsInv, HeldInv, Running, Commands, None
<1>3. AsideInv'
  BY Zenon DEF AsideInv, Steps
<1>4. RequestInv'
  <2>1. sent'.key \in 0 .. Len(drawn') /\ (sent' # NoRequest => sent'.key > 0)
    BY DEF CredentialsInv, HeldInv, Sound, RequestInv, TypeOK
  <2>2. QED
    BY <2>1, Zenon DEF CredentialsInv, RequestInv, Running
<1>5. ReplacedIsKept'
  BY Zenon DEF CredentialsInv, ReplacedIsKept
<1>6. RestartTrustsTheSame'
  BY Zenon DEF CredentialsInv, RestartTrustsTheSame, Renewing, Trusted, Readable
<1>7. QED
  BY <1>1, <1>2, <1>3, <1>4, <1>5, <1>6, Zenon DEF CredentialsInv

(* The facts of a step that is not one of those StepInv speaks of. *)
LEMMA ElsewhereStepInv ==
  ASSUME proc'.at \in {"open", "answer", "adopt", "done"}
  PROVE  StepInv'
BY Zenon DEF StepInv

(* The steps of asking and renewing are those of a process that is running. *)
LEMMA RunningAt ==
  ASSUME CredentialsInv, proc.at \in Steps
  PROVE  Running
<1>1. proc.who \in Commands \cup {"replace", None}
  BY Zenon DEF CredentialsInv, TypeOK, Processes
<1>2. proc.who # None
  BY NobodyIs, Zenon DEF CredentialsInv, HeldInv, Steps, None
<1>3. proc.who # "replace"
  BY Zenon DEF CredentialsInv, HeldInv, Steps
<1>4. QED
  BY <1>1, <1>2, <1>3, Zenon DEF Running

LEMMA PostKeeps ==
  ASSUME CredentialsInv, Post \/ Answer \/ Carry
  PROVE  CredentialsInv'
<1>1. proc \in Processes
  BY Zenon DEF CredentialsInv, TypeOK
<1>2. Running /\ proc.at # "trust"
  BY RunningAt, Zenon DEF Post, Answer, Carry, Steps
<1>3. /\ UNCHANGED <<disk, damaged, files, drawn, configured, issued, faults>>
      /\ sent' = sent \/ (sent' = proc.held.request /\ proc.held.request # NoRequest)
  BY Zenon DEF CredentialsInv, StepInv, Post, Answer, Carry, world
<1>4. CASE proc' \in {At("answer"), Back}
  <2>1. /\ proc' \in Processes /\ proc'.who = proc.who /\ proc'.at \in {"answer", "open"}
        /\ proc'.held = proc.held /\ proc'.trusted = proc.trusted
    BY <1>1, <1>4, AtIs, BackIs DEF Steps
  <2>2. StepInv' /\ proc'.at \in Steps
    BY <2>1, ElsewhereStepInv, Zenon DEF Steps
  <2>3. QED
    BY <1>2, <1>3, <2>1, <2>2, MovesKeep, Zenon DEF files, CredentialsInv, TypeOK
<1>5. CASE \E c \in issued : proc' = [At("import") EXCEPT !.answer = c]
  <2>1. PICK c \in issued : proc' = [At("import") EXCEPT !.answer = c]
    BY <1>5, Zenon
  <2>2. /\ proc' \in Processes /\ proc'.who = proc.who /\ proc'.at = "import"
        /\ proc'.held = proc.held /\ proc'.trusted = proc.trusted /\ proc'.answer = c
    <3>1. c \in Certificates /\ At("import") \in Processes
      BY <1>1, AtIs, Zenon DEF Steps, CredentialsInv, TypeOK
    <3>2. QED
      BY <1>1, <2>1, <3>1, AtIs, Zenon DEF Processes, Steps
  <2>3. StepInv'
    BY <1>3, <2>2, Zenon DEF StepInv
  <2>4. QED
    BY <1>2, <1>3, <2>2, <2>3, MovesKeep, Zenon DEF files, CredentialsInv, TypeOK, Steps
<1>6. QED
  BY <1>4, <1>5, Zenon DEF Post, Answer, Carry

(* Asking again what is pending, or with the key held. *)
LEMMA AskedKeeps ==
  ASSUME CredentialsInv, NEW agent \in Agents, Running, proc.at = "open", mayAsk(agent),
         UNCHANGED <<disk, damaged, files, drawn, world, sent, faults>>,
         \/ Asked(agent) /\ proc' \in {At("print"), At("post")}
         \/ /\ ~Asked(agent) /\ Enrolled(proc.held) /\ Held(Key(proc.held))
            /\ proc' = [At("ask") EXCEPT !.new = [agent |-> agent, key |-> Key(proc.held)]]
  PROVE  CredentialsInv'
<1>1. proc \in Processes /\ keys \subseteq 1 .. Len(drawn) /\ Len(drawn) \in Nat
  BY DEF CredentialsInv, TypeOK
<1>2. CASE Asked(agent) /\ proc' \in {At("print"), At("post")}
  <2>1. /\ proc' \in Processes /\ proc'.who = proc.who /\ proc'.at \in {"print", "post"}
        /\ proc'.held = proc.held /\ proc'.trusted = proc.trusted
    BY <1>1, <1>2, AtIs DEF Steps
  <2>2. StepInv'
    BY <1>1, <1>2, <2>1 DEF StepInv, Asked, Held, NoRequest
  <2>3. QED
    BY <2>1, <2>2, MovesKeep, Zenon DEF files, world, CredentialsInv, TypeOK, Steps
<1>3. CASE /\ ~Asked(agent) /\ Enrolled(proc.held) /\ Held(Key(proc.held))
           /\ proc' = [At("ask") EXCEPT !.new = [agent |-> agent, key |-> Key(proc.held)]]
  <2>1. /\ proc' \in Processes /\ proc'.who = proc.who /\ proc'.at = "ask"
        /\ proc'.held = proc.held /\ proc'.trusted = proc.trusted
        /\ proc'.new = [agent |-> agent, key |-> Key(proc.held)]
    <3>1. At("ask") \in Processes /\ [agent |-> agent, key |-> Key(proc.held)] \in Requests
      BY <1>1, <1>3, AtIs DEF Steps, Requests, Held
    <3>2. QED
      BY <1>1, <1>3, <3>1, AtIs, Zenon DEF Processes, Steps
  <2>2. StepInv'
    BY <1>1, <1>3, <2>1 DEF StepInv, Asked, Held, mayAsk, files
  <2>3. QED
    BY <2>1, <2>2, MovesKeep, Zenon DEF files, world, CredentialsInv, TypeOK, Steps
<1>4. QED
  BY <1>2, <1>3, Zenon

(* A key drawn is the installation's, and new. *)
LEMMA DrawKeeps ==
  ASSUME CredentialsInv, NEW agent \in Agents, Running, proc.at = "open", mayAsk(agent),
         ~Asked(agent), Draw(agent)
  PROVE  CredentialsInv'
<1> DEFINE k == Len(drawn) + 1
<1>1. /\ proc \in Processes /\ keys \subseteq 1 .. Len(drawn) /\ Len(drawn) \in Nat
      /\ drawn \in Seq(Nat) /\ proc.held.id \in Nat
  BY DEF CredentialsInv, TypeOK, Processes, States
<1>2. /\ drawn' = Append(drawn, proc.held.id) /\ Len(drawn') = k
      /\ drawn' \in Seq(Nat) /\ keys' = keys \cup {k}
      /\ UNCHANGED <<disk, damaged, certificates, sets, aside, lost, world, sent, faults>>
  BY <1>1 DEF Draw
<1>3. drawn'[k] = proc.held.id /\ \A i \in 1 .. Len(drawn) : drawn'[i] = drawn[i]
  BY SMTT(30), <1>1, <1>2
<1>4. /\ proc' \in Processes /\ proc'.who = proc.who /\ proc'.at = "ask"
      /\ proc'.held = proc.held /\ proc'.trusted = proc.trusted
      /\ proc'.new = [agent |-> agent, key |-> k]
  <2>1. At("ask") \in Processes /\ [agent |-> agent, key |-> k] \in Requests
    BY SMTT(30), <1>1, AtIs DEF Steps, Requests
  <2>2. proc' = [At("ask") EXCEPT !.new = [agent |-> agent, key |-> k]]
    BY <1>2, Zenon DEF Draw
  <2>3. QED
    BY <1>1, <2>1, <2>2, AtIs, Zenon DEF Processes, Steps
<1> HIDE DEF k
<1>5. k \in Nat /\ k = Len(drawn) + 1
  BY <1>1 DEF k
<1>6. TypeOK'
  <2>1. keys' \subseteq 1 .. Len(drawn')
    <3>1. Len(drawn) \in Nat /\ Len(drawn') = k
      BY <1>1, <1>2, Zenon
    <3>2. 1 .. Len(drawn) \subseteq 1 .. k /\ k \in 1 .. k
      BY <3>1, <1>5
    <3>3. QED
      BY <1>1, <1>2, <3>1, <3>2, Zenon
  <2>2. QED
    BY <1>2, <1>4, <2>1, Zenon DEF CredentialsInv, TypeOK, world
<1>7. HeldInv'
  <2>0. Sound(disk) /\ Sound(proc.held)
    BY Zenon DEF CredentialsInv, HeldInv
  <2>1. Sound(disk)' /\ Sound(proc.held)'
    <3>1. 1 .. Len(drawn) \subseteq 1 .. Len(drawn')
      BY <1>1, <1>2, <1>5
    <3>2. Sound(disk)'
      BY <1>2, <2>0, <3>1, Zenon DEF Sound, world
    <3>3. Sound(proc.held)'
      BY <1>2, <1>4, <2>0, <3>1, Zenon DEF Sound, world
    <3>4. QED
      BY <3>2, <3>3, Zenon
  <2>2. QED
    BY <1>2, <1>4, <2>1, Zenon DEF CredentialsInv, HeldInv, Running, Commands, Steps, None
<1>8. StepInv' /\ AsideInv'
  <2>1. proc.held.request.key # k /\ sent.key # k
    BY SMTT(30), <1>1, <1>5 DEF CredentialsInv, HeldInv, Sound, RequestInv, NoRequest
  <2>2. QED
    BY SMTT(30), <1>1, <1>2, <1>4, <1>5, <2>1 DEF StepInv, AsideInv, Asked, Held, mayAsk
<1>9. RequestInv'
  <2>1. proc.held.request.key # k
    BY SMTT(30), <1>1, <1>5 DEF CredentialsInv, HeldInv, Sound, NoRequest
  <2>2. QED
    BY <1>1, <1>2, <1>4, <1>5, <2>1 DEF CredentialsInv, RequestInv, Running
<1>10. ReplacedIsKept'
  <2>1. proc.held.id = disk.id
    BY Zenon DEF CredentialsInv, HeldInv
  <2>2. DOMAIN drawn' = 1 .. k /\ DOMAIN drawn = 1 .. Len(drawn)
    BY <1>1, <1>2
  <2>3. ASSUME NEW i \in DOMAIN drawn'
        PROVE  i \in lost' \cup aside'.keys \/ (i \in keys' /\ drawn'[i] = disk'.id)
    <3>1. CASE i = k
      BY <1>2, <1>3, <2>1, <3>1, Zenon
    <3>2. CASE i \in 1 .. Len(drawn)
      BY <1>2, <1>3, <2>2, <3>2, Zenon DEF CredentialsInv, ReplacedIsKept
    <3>3. QED
      BY <1>1, <1>5, <2>2, <3>1, <3>2
  <2>4. QED
    BY <1>2, <2>3, Zenon DEF CredentialsInv, ReplacedIsKept
<1>11. RestartTrustsTheSame'
  BY <1>2, <1>4, Zenon DEF CredentialsInv, RestartTrustsTheSame, Renewing, Trusted, Readable, world
<1>12. QED
  BY <1>6, <1>7, <1>8, <1>9, <1>10, <1>11, Zenon DEF CredentialsInv

LEMMA RequestKeeps ==
  ASSUME CredentialsInv, NEW agent \in Agents, Request(agent)
  PROVE  CredentialsInv'
<1>1. Running /\ proc.at = "open" /\ mayAsk(agent)
  BY Zenon DEF Request, Running, Commands
<1>2. CASE Asked(agent) /\ proc' = At("print") /\ UNCHANGED <<disk, damaged, files, drawn, world, sent, faults>>
  BY <1>1, <1>2, AskedKeeps, Zenon
<1>3. CASE ~Asked(agent) /\ Draw(agent)
  BY <1>1, <1>3, DrawKeeps, Zenon
<1>4. QED
  BY <1>2, <1>3, Zenon DEF Request

LEMMA RenewKeeps ==
  ASSUME CredentialsInv, Renew
  PROVE  CredentialsInv'
<1> DEFINE agent == Agent(proc.held)
<1>1. Running /\ proc.at = "open" /\ Enrolled(proc.held) /\ Held(Key(proc.held))
  BY Zenon DEF Renew, Due, Renewing, Running, Commands, Usable
<1>2. agent \in Agents /\ mayAsk(agent)
  BY <1>1, Zenon DEF CredentialsInv, HeldInv, Sound, mayAsk
<1>3. \/ /\ Asked(agent) /\ proc' = At("post")
         /\ UNCHANGED <<disk, damaged, files, drawn, world, sent, faults>>
      \/ ~Asked(agent) /\ Draw(agent)
      \/ /\ ~Asked(agent)
         /\ proc' = [At("ask") EXCEPT !.new = [agent |-> agent, key |-> Key(proc.held)]]
         /\ UNCHANGED <<disk, damaged, files, drawn, world, sent, faults>>
  BY Zenon DEF Renew
<1> HIDE DEF agent
<1>4. QED
  BY <1>1, <1>2, <1>3, AskedKeeps, DrawKeeps, Zenon

(* A process ends or goes back, with the files as they were. *)
LEMMA FailedKeeps ==
  ASSUME CredentialsInv, Running, proc.at # "trust", proc' = Failed,
         UNCHANGED <<disk, damaged, files, drawn, world, sent, faults>>
  PROVE  CredentialsInv'
<1>1. CASE proc' = Nobody
  <2>1. TypeOK'
    BY <1>1, NobodyIs, Zenon DEF CredentialsInv, TypeOK, files, world
  <2>2. Sound(disk)' /\ ReplacedIsKept' /\ (faults' = 0 => ~damaged')
    BY Zenon DEF CredentialsInv, HeldInv, Sound, ReplacedIsKept, files, world
  <2>3. QED
    BY <1>1, <2>1, <2>2, NobodyKeeps, Zenon DEF CredentialsInv, RequestInv
<1>2. CASE proc' = Back
  <2>1. /\ proc' \in Processes /\ proc'.who = proc.who /\ proc'.at = "open"
        /\ proc'.held = proc.held /\ proc'.trusted = proc.trusted
    BY <1>2, BackIs, Zenon DEF CredentialsInv, TypeOK
  <2>2. StepInv' /\ proc'.at \in Steps
    BY <2>1, ElsewhereStepInv, Zenon DEF Steps
  <2>3. QED
    BY <2>1, <2>2, MovesKeep, Zenon DEF files, world, CredentialsInv, TypeOK
<1>3. QED
  BY <1>1, <1>2, Zenon DEF Failed

(* A state committed by a process that runs, sound and of the same
   installation. *)
LEMMA CommitKeeps ==
  ASSUME CredentialsInv, Running, NEW next \in States, NEW then \in Processes, commit(next, then),
         UNCHANGED <<damaged, files, drawn, configured, issued, sent>>,
         next.id = proc.held.id, next.replaces = proc.held.replaces, Sound(next),
         then.who = proc.who, then.at \in {"open", "adopt", "done", "print", "post"},
         then.at \in {"print", "post"} => next.request # NoRequest,
         faults = 0 /\ Renewing => then.trusted = Trusted(next),
         \/ next.request \in {proc.held.request, NoRequest}
         \/ next.request # sent
         \/ /\ Enrolled(proc.held) /\ Key(proc.held) = sent.key
            /\ proc.held.request.key \notin keys
  PROVE  CredentialsInv'
<1>1. /\ proc \in Processes /\ faults \in Nat /\ proc.held.id = disk.id /\ disk \in States
      /\ Sound(disk) /\ Sound(proc.held)
  BY Zenon DEF CredentialsInv, TypeOK, HeldInv
<1>2. CASE /\ disk' = next /\ faults' = faults /\ proc' \in Processes
           /\ proc'.held = next /\ proc'.who = then.who /\ proc'.at = then.at
           /\ proc'.trusted = then.trusted /\ proc'.left = then.left
  <2>1. TypeOK'
    BY <1>2, Zenon DEF CredentialsInv, TypeOK, files
  <2>2. Sound(disk)' /\ Sound(proc.held)'
    BY <1>2, Zenon DEF Sound, files
  <2>3. HeldInv'
    BY <1>2, <2>2, Zenon DEF CredentialsInv, HeldInv, Running, Commands, Steps, None
  <2>4. StepInv' /\ AsideInv' /\ RequestInv'
    BY <1>2, Zenon DEF CredentialsInv, StepInv, AsideInv, RequestInv
  <2>5. ReplacedIsKept'
    BY SMTT(30), <1>1, <1>2 DEF CredentialsInv, HeldInv, ReplacedIsKept, files, Running, Commands, None
  <2>6. RestartTrustsTheSame'
    BY <1>2, Zenon DEF CredentialsInv, RestartTrustsTheSame, Renewing, Trusted, Readable, files
  <2>7. QED
    BY <2>1, <2>3, <2>4, <2>5, <2>6, Zenon DEF CredentialsInv
<1>3. CASE /\ disk' \in {disk, next} /\ faults' = faults + 1
           /\ proc' = Nobody \/ (proc.who = "agent" /\ proc' = Back)
  <2>1. faults' \in Nat /\ faults' # 0 /\ disk' \in States /\ disk'.id = disk.id
    BY <1>1, <1>3
  <2>2. Sound(disk)'
    BY <1>1, <1>3, Zenon DEF Sound, files
  <2>3. ReplacedIsKept'
    BY <2>1, Zenon DEF CredentialsInv, ReplacedIsKept, files
  <2>4. CASE proc' = Nobody
    <3>1. TypeOK'
      BY <2>1, <2>4, NobodyIs, Zenon DEF CredentialsInv, TypeOK, files
    <3>2. QED
      BY <2>1, <2>2, <2>3, <2>4, <3>1, NobodyKeeps, Zenon DEF CredentialsInv, RequestInv
  <2>5. CASE proc' = Back
    <3>1. /\ proc' \in Processes /\ proc'.who = proc.who /\ proc'.at = "open"
          /\ proc'.held = proc.held
      BY <1>1, <2>5, BackIs, Zenon
    <3>2. TypeOK'
      BY <2>1, <3>1, Zenon DEF CredentialsInv, TypeOK, files
    <3>3. HeldInv'
      <4>1. Sound(proc.held)'
        BY <1>1, <3>1, Zenon DEF Sound, files
      <4>2. QED
        BY <1>1, <2>1, <2>2, <3>1, <4>1, Zenon DEF CredentialsInv, HeldInv, Running, Commands, Steps, None
    <3>4. StepInv' /\ AsideInv' /\ RestartTrustsTheSame'
      BY <2>1, <3>1, Zenon DEF StepInv, AsideInv, RestartTrustsTheSame
    <3>5. RequestInv'
      BY <1>3, <3>1, Zenon DEF CredentialsInv, RequestInv, Running, files
    <3>6. QED
      BY <2>3, <3>2, <3>3, <3>4, <3>5, Zenon DEF CredentialsInv
  <2>6. QED
    BY <1>3, <2>4, <2>5, Zenon
<1>4. QED
  BY <1>1, <1>2, <1>3, CommitIs, Zenon

LEMMA AskKeeps ==
  ASSUME CredentialsInv, Ask
  PROVE  CredentialsInv'
<1> DEFINE next == [proc.held EXCEPT !.request = proc.new]
           then == [Back EXCEPT !.at = IF proc.who = "ask" THEN "print" ELSE "post"]
<1>1. Running /\ proc.at = "ask" /\ proc \in Processes
  BY RunningAt, Zenon DEF Ask, Steps, CredentialsInv, TypeOK
<1>2. /\ next \in States /\ next.id = proc.held.id /\ next.replaces = proc.held.replaces
      /\ next.request = proc.new /\ next.enrollment = proc.held.enrollment
      /\ next.trust = proc.held.trust
  BY <1>1, Zenon DEF Processes, States
<1>3. /\ then \in Processes /\ then.who = proc.who /\ then.at \in {"print", "post"}
      /\ then.trusted = proc.trusted
  BY <1>1, BackIs DEF Processes, Steps
<1>4. commit(next, then) /\ UNCHANGED <<damaged, files, drawn, configured, issued, sent>>
  BY Zenon DEF Ask, world
<1> HIDE DEF next, then
<1>5. proc.new # NoRequest /\ Sound(next)
  <2>1. /\ Sound(proc.held) /\ proc.new.agent \in Agents /\ proc.new.key \in 1 .. Len(drawn)
        /\ mayAsk(proc.new.agent)
    BY <1>1, Zenon DEF CredentialsInv, HeldInv, StepInv
  <2>2. proc.new # NoRequest
    BY <2>1, CredentialsAssumption DEF NoRequest
  <2>3. Enrolled(next) = Enrolled(proc.held) /\ Key(next) = Key(proc.held) /\ Agent(next) = Agent(proc.held)
    BY <1>2, Zenon DEF Enrolled, Key, Agent
  <2>4. QED
    BY <1>2, <2>1, <2>2, <2>3, Zenon DEF Sound, mayAsk
<1>6. faults = 0 /\ Renewing => then.trusted = Trusted(next)
  BY <1>1, <1>2, <1>3, Zenon DEF CredentialsInv, HeldInv, RestartTrustsTheSame, Trusted, Running, Commands, None
<1>7. \/ next.request # sent
      \/ /\ Enrolled(proc.held) /\ Key(proc.held) = sent.key
         /\ proc.held.request.key \notin keys
  <2>1. SUFFICES ASSUME next.request = sent PROVE Enrolled(proc.held) /\ Key(proc.held) = sent.key /\ proc.held.request.key \notin keys
    BY Zenon
  <2>2. Enrolled(proc.held) /\ Key(proc.held) = sent.key
    BY <1>1, <1>2, <2>1, Zenon DEF CredentialsInv, StepInv
  <2>3. 0 \notin keys
    BY DEF CredentialsInv, TypeOK
  <2>4. Sound(proc.held) /\ mayAsk(proc.new.agent) /\ ~Asked(proc.new.agent)
    BY <1>1, Zenon DEF CredentialsInv, HeldInv, StepInv
  <2>5. proc.held.request # NoRequest => proc.held.request.agent = proc.new.agent
    BY <2>2, <2>4, Zenon DEF Sound, mayAsk
  <2>6. QED
    BY <2>2, <2>3, <2>4, <2>5 DEF Asked, Held, NoRequest
<1>8. QED
  BY <1>1, <1>2, <1>3, <1>4, <1>5, <1>6, <1>7, CommitKeeps, Zenon

LEMMA ImportKeeps ==
  ASSUME CredentialsInv, Import
  PROVE  CredentialsInv'
<1> DEFINE c == proc.answer
           again == Enrolled(proc.held) /\ c = proc.held.enrollment.certificate
           due == /\ proc.held.request # NoRequest
                  /\ Expected(c, proc.held.request.agent, proc.held.request.key) /\ Held(c.key)
<1>1. Running /\ proc.at = "import" /\ proc \in Processes /\ c \in issued /\ c \in Certificates
  BY RunningAt, Zenon DEF Import, Steps, CredentialsInv, TypeOK, StepInv, Processes
<1>2. UNCHANGED <<disk, damaged, keys, sets, aside, lost, drawn, world, sent, faults>>
  BY Zenon DEF Import
<1>3. CASE (again \/ due) /\ Store(c) /\ proc' = IF again THEN [Back EXCEPT !.at = "adopt"] ELSE At("activate")
  <2>1. certificates' = certificates \cup {c}
    BY <1>3, Zenon DEF Store
  <2>2. CASE again
    <3>1. /\ proc' \in Processes /\ proc'.who = proc.who /\ proc'.at = "adopt"
          /\ proc'.held = proc.held /\ proc'.trusted = proc.trusted
      BY <1>1, <1>3, <2>2, BackIs, Zenon DEF Processes, Steps
    <3>2. StepInv' /\ proc'.at \in Steps
      BY <3>1, ElsewhereStepInv, Zenon DEF Steps
    <3>3. QED
      BY <1>1, <1>2, <2>1, <3>1, <3>2, MovesKeep, Zenon DEF CredentialsInv, TypeOK, world
  <2>3. CASE ~again
    <3>1. /\ proc' \in Processes /\ proc'.who = proc.who /\ proc'.at = "activate"
          /\ proc'.held = proc.held /\ proc'.trusted = proc.trusted /\ proc'.answer = c
      BY <1>1, <1>3, <2>3, AtIs, Zenon DEF Steps
    <3>2. StepInv'
      BY <1>1, <1>2, <1>3, <2>1, <2>3, <3>1, Zenon DEF StepInv, Expected, Held, world
    <3>3. QED
      BY <1>1, <1>2, <2>1, <3>1, <3>2, MovesKeep, Zenon DEF CredentialsInv, TypeOK, world, Steps
  <2>4. QED
    BY <2>2, <2>3, Zenon
<1>4. CASE proc' = Failed /\ UNCHANGED certificates
  BY <1>1, <1>2, <1>4, FailedKeeps, Zenon DEF files
<1>5. QED
  BY <1>3, <1>4, Zenon DEF Import

LEMMA AdoptKeeps ==
  ASSUME CredentialsInv, Adopt
  PROVE  CredentialsInv'
<1>1. Running /\ proc.at = "adopt" /\ proc \in Processes
  BY RunningAt, Zenon DEF Adopt, Steps, CredentialsInv, TypeOK
<1>2. UNCHANGED <<disk, damaged, keys, certificates, aside, lost, drawn, world, sent, faults>>
  BY Zenon DEF Adopt
<1>3. CASE proc' = Failed /\ UNCHANGED sets
  BY <1>1, <1>2, <1>3, FailedKeeps, Zenon DEF files
<1>4. ASSUME NEW published \in Sets, Renewing, StoreSet(published),
             proc' = [At("trust") EXCEPT !.published = published]
      PROVE  CredentialsInv'
  <2>1. /\ proc' \in Processes /\ proc'.who = proc.who /\ proc'.at = "trust"
        /\ proc'.held = proc.held /\ proc'.trusted = proc.trusted /\ proc'.published = published
    <3>1. At("trust") \in Processes
      BY <1>1, AtIs, Zenon DEF Steps
    <3>2. QED
      BY <1>1, <1>4, <3>1, AtIs, Zenon DEF Processes, Steps
  <2>2. sets' = sets \cup {published}
    BY <1>4, Zenon DEF StoreSet
  <2>3. StepInv'
    BY <1>4, <2>1, <2>2 DEF StepInv, Renewing
  <2>4. QED
    BY <1>1, <1>2, <2>1, <2>2, <2>3, MovesKeep, Zenon DEF CredentialsInv, TypeOK, world, Steps
<1>5. QED
  BY <1>3, <1>4, Zenon DEF Adopt

LEMMA ActivateKeeps ==
  ASSUME CredentialsInv, Activate
  PROVE  CredentialsInv'
<1> DEFINE c == proc.answer
           next == Activated(proc.held, c)
           then == [Back EXCEPT !.at = "adopt"]
<1>1. Running /\ proc.at = "activate" /\ proc \in Processes /\ proc.held \in States /\ c \in Certificates
  BY RunningAt, Zenon DEF Activate, Steps, CredentialsInv, TypeOK, Processes
<1>2. /\ next \in States /\ next.id = proc.held.id /\ next.replaces = proc.held.replaces
      /\ next.enrollment = [generation |-> proc.held.enrollment.generation + 1, certificate |-> c]
      /\ next.request = NoRequest /\ next.trust = proc.held.trust
  <2>1. proc.held.request.key = c.key
    BY <1>1, Zenon DEF CredentialsInv, StepInv
  <2>2. NoRequest \in Requests
    BY Zenon DEF NoRequest, Requests
  <2> DEFINE e == [generation |-> proc.held.enrollment.generation + 1, certificate |-> c]
  <2>3. e \in [generation : Nat, certificate : Certificates]
    BY <1>1 DEF States
  <2>4. next = [proc.held EXCEPT !.enrollment = e, !.request = NoRequest]
    BY <1>1, <2>1, Zenon DEF Activated
  <2> HIDE DEF e
  <2>5. /\ next \in States /\ next.id = proc.held.id /\ next.replaces = proc.held.replaces
        /\ next.enrollment = e /\ next.request = NoRequest /\ next.trust = proc.held.trust
    BY <1>1, <2>2, <2>3, <2>4, Zenon DEF States
  <2>6. QED
    BY <2>5, Zenon DEF e
<1>3. then \in Processes /\ then.who = proc.who /\ then.at = "adopt" /\ then.trusted = proc.trusted
  BY <1>1, BackIs, Zenon DEF Processes, Steps
<1>4. commit(next, then) /\ UNCHANGED <<damaged, files, drawn, configured, issued, sent>>
  BY Zenon DEF Activate
<1>5. /\ c \in issued /\ c \in certificates /\ c.key \in keys /\ c.agent \in Agents
  BY <1>1, Zenon DEF CredentialsInv, HeldInv, Sound, StepInv
<1> HIDE DEF next, then
<1>6. Sound(next)
  BY SMTT(30), <1>2, <1>5 DEF Sound, Key, Agent
<1>7. faults = 0 /\ Renewing => then.trusted = Trusted(next)
  BY <1>1, <1>2, <1>3, Zenon DEF CredentialsInv, HeldInv, RestartTrustsTheSame, Trusted, Running, Commands, None
<1>8. QED
  BY <1>1, <1>2, <1>3, <1>4, <1>6, <1>7, CommitKeeps, Zenon

LEMMA TrustKeeps ==
  ASSUME CredentialsInv, Trust
  PROVE  CredentialsInv'
<1> DEFINE adopted == [set |-> proc.published, configured |-> configured]
           next == [proc.held EXCEPT !.trust = adopted]
           then == [Back EXCEPT !.at = IF proc.who = "agent" THEN "open" ELSE "done",
                                !.trusted = proc.published]
<1>1. /\ Running /\ proc.at = "trust" /\ proc \in Processes /\ proc.held \in States
      /\ proc.published \in sets /\ sets \subseteq Sets /\ configured \in Sets
  BY RunningAt, Zenon DEF Trust, Steps, CredentialsInv, TypeOK, StepInv, Processes
<1>2. /\ next \in States /\ next.id = proc.held.id /\ next.replaces = proc.held.replaces
      /\ next.enrollment = proc.held.enrollment
      /\ next.request = proc.held.request /\ next.trust = adopted
  BY <1>1, Zenon DEF States
<1>3. /\ then \in Processes /\ then.who = proc.who /\ then.at \in {"open", "done"}
      /\ then.trusted = proc.published
  BY <1>1, BackIs, Zenon DEF Processes, Steps
<1>4. commit(next, then) /\ UNCHANGED <<damaged, files, drawn, configured, issued, sent>>
  BY Zenon DEF Trust, world
<1> HIDE DEF next, then
<1>5. Sound(next)
  BY <1>2, Zenon DEF CredentialsInv, HeldInv, Sound, Enrolled, Key, Agent
<1>6. then.trusted = Trusted(next)
  <2>1. adopted # NoTrust
    BY <1>1, CredentialsAssumption, Zenon DEF NoTrust
  <2>2. QED
    BY SMTT(30), <1>1, <1>2, <1>3, <2>1 DEF Trusted, Readable
<1>7. QED
  BY <1>1, <1>2, <1>3, <1>4, <1>5, <1>6, CommitKeeps, Zenon

LEMMA OpenKeeps ==
  ASSUME CredentialsInv, NEW who \in Commands, Open(who)
  PROVE  CredentialsInv'
<1>1. UNCHANGED <<damaged, files, drawn, world, sent>>
  BY Zenon DEF Open
<1>2. proc.who = None /\ ~damaged /\ disk \in States /\ faults \in Nat /\ Sound(disk)
  BY OpenIs, Zenon DEF CredentialsInv, TypeOK, HeldInv
<1>3. /\ Fresh(1, 0) \in States /\ Fresh(1, 0).id = 1 /\ ~Enrolled(Fresh(1, 0))
      /\ Fresh(1, 0).request = NoRequest
  BY FreshIs
<1>4. Sound(Fresh(1, 0))
  BY <1>3, Zenon DEF Sound
<1>6. CASE /\ disk' = disk /\ faults' = faults /\ disk.id > 0
           /\ proc' \in Processes /\ proc'.who = who /\ proc'.at = "open" /\ proc'.held = disk
           /\ who \in {"agent", "renew"} => proc'.trusted = Trusted(disk)
  <2>1. TypeOK' /\ Sound(disk)' /\ Sound(proc.held)'
    BY <1>1, <1>2, <1>6, Zenon DEF CredentialsInv, TypeOK, Sound, files, world
  <2>2. HeldInv'
    BY <1>1, <1>2, <1>6, <2>1, Zenon DEF HeldInv, Running, Commands, Steps, None
  <2>3. StepInv' /\ AsideInv' /\ RequestInv'
    BY <1>1, <1>6, Zenon DEF CredentialsInv, StepInv, AsideInv, RequestInv
  <2>4. ReplacedIsKept' /\ RestartTrustsTheSame'
    BY <1>1, <1>6, Zenon DEF CredentialsInv, ReplacedIsKept, RestartTrustsTheSame, Renewing, Trusted, Readable, files, world
  <2>5. QED
    BY <2>1, <2>2, <2>3, <2>4, Zenon DEF CredentialsInv
<1>7. CASE /\ disk.id = 0 /\ keys = {} /\ disk' = Fresh(1, 0) /\ faults' = faults
           /\ proc' \in Processes /\ proc'.who = who /\ proc'.at = "open" /\ proc'.held = Fresh(1, 0)
           /\ who \in {"agent", "renew"} => proc'.trusted = Trusted(Fresh(1, 0))
  <2>1. TypeOK' /\ Sound(disk)' /\ Sound(proc.held)'
    BY <1>1, <1>2, <1>3, <1>4, <1>7, Zenon DEF CredentialsInv, TypeOK, Sound, files, world
  <2>2. HeldInv'
    BY <1>1, <1>2, <1>3, <1>7, <2>1, Zenon DEF HeldInv, Running, Commands, Steps, None
  <2>3. StepInv' /\ AsideInv' /\ RequestInv'
    BY <1>1, <1>3, <1>7, Zenon DEF CredentialsInv, StepInv, AsideInv, RequestInv
  <2>4. ReplacedIsKept'
    <3>1. ReplacedIsKept
      BY Zenon DEF CredentialsInv
    <3>2. QED
      BY <1>1, <1>3, <1>7, <3>1 DEF ReplacedIsKept, files, world
  <2>5. RestartTrustsTheSame'
    BY <1>1, <1>7, Zenon DEF RestartTrustsTheSame, Renewing, Trusted, Readable, files, world
  <2>6. QED
    BY <2>1, <2>2, <2>3, <2>4, <2>5, Zenon DEF CredentialsInv
<1>8. CASE disk.id = 0 /\ keys = {} /\ disk' \in {disk, Fresh(1, 0)} /\ faults' = faults + 1 /\ proc' = Nobody
  <2>1. TypeOK' /\ Sound(disk)'
    <3>1. disk' \in States /\ faults' \in Nat /\ proc' \in Processes
      BY <1>2, <1>3, <1>8, NobodyIs
    <3>2. TypeOK'
      BY <1>1, <3>1, Zenon DEF CredentialsInv, TypeOK, files, world
    <3>3. disk' = disk \/ disk' = Fresh(1, 0)
      BY <1>8, Zenon
    <3>4. Sound(disk)'
      BY <1>1, <1>2, <1>4, <3>3, Zenon DEF Sound, files, world
    <3>5. QED
      BY <3>2, <3>4, Zenon
  <2>2. ReplacedIsKept'
    <3>1. ReplacedIsKept
      BY Zenon DEF CredentialsInv
    <3>2. disk' = disk \/ disk' = Fresh(1, 0)
      BY <1>8, Zenon
    <3>3. QED
      BY <1>1, <1>3, <1>8, <3>1, <3>2 DEF ReplacedIsKept, files, world
  <2>3. QED
    BY <1>1, <1>2, <1>8, <2>1, <2>2, NobodyKeeps, Zenon DEF CredentialsInv, RequestInv, HeldInv
<1>9. QED
  BY <1>6, <1>7, <1>8, OpenIs, Zenon DEF CredentialsInv

LEMMA ReplaceKeeps ==
  ASSUME CredentialsInv, Replace
  PROVE  CredentialsInv'
<1>1. UNCHANGED <<disk, damaged, files, drawn, world, sent, faults>> /\ disk \in States /\ Sound(disk)
  BY Zenon DEF Replace, CredentialsInv, TypeOK, HeldInv
<1>2. readState \in States /\ Sound(readState) /\ (~damaged => readState = disk)
  <2>1. Fresh(0, 0) \in States /\ Sound(Fresh(0, 0))
    BY FreshIs, Zenon DEF Sound
  <2>2. QED
    BY <1>1, <2>1, Zenon DEF readState, decodes
<1>3. /\ proc' \in Processes /\ proc'.who = "replace" /\ proc'.at = "aside" /\ proc'.held = readState
      /\ proc'.left = Kinds
  BY SMTT(30), <1>2, StartedIs DEF Replace, Kinds, Commands
<1>4. TypeOK' /\ Sound(disk)' /\ Sound(proc.held)'
  BY ZenonT(40), <1>1, <1>2, <1>3 DEF CredentialsInv, TypeOK, Sound, files, world
<1>5. HeldInv'
  BY <1>1, <1>2, <1>3, <1>4, Zenon DEF CredentialsInv, HeldInv, Running, Commands, None
<1>6. StepInv' /\ AsideInv' /\ RequestInv'
  BY <1>1, <1>3, Zenon DEF CredentialsInv, StepInv, AsideInv, RequestInv, Kinds, Running, Commands
<1>7. ReplacedIsKept' /\ RestartTrustsTheSame'
  BY <1>1, <1>3, Zenon DEF CredentialsInv, ReplacedIsKept, RestartTrustsTheSame, Renewing, files, world
<1>8. QED
  BY <1>4, <1>5, <1>6, <1>7, Zenon DEF CredentialsInv

(* At "aside" the process is a replacement. *)
LEMMA ReplacingAt ==
  ASSUME CredentialsInv, proc.at = "aside"
  PROVE  proc.who = "replace" /\ ~Running /\ ~Renewing
BY NobodyIs, Zenon DEF CredentialsInv, TypeOK, HeldInv, Processes, Steps, Running, Commands, Renewing, None

LEMMA SetAsideKeeps ==
  ASSUME CredentialsInv, NEW name \in Kinds, setAside(name)
  PROVE  CredentialsInv'
<1>1. proc.at = "aside" /\ proc \in Processes /\ UNCHANGED <<disk, damaged, lost, drawn, world, sent, faults>>
  BY Zenon DEF setAside, CredentialsInv, TypeOK
<1>2. /\ proc' \in Processes /\ proc'.who = proc.who /\ proc'.at = "aside" /\ proc'.held = proc.held
      /\ proc'.left = proc.left \ {name}
  BY <1>1, Zenon DEF setAside, Processes
<1>3. /\ keys' \in SUBSET keys /\ certificates' \in SUBSET certificates /\ sets' \in SUBSET sets
      /\ aside'.keys = aside.keys \cup (keys \ keys')
      /\ aside'.certificates = aside.certificates \cup (certificates \ certificates')
      /\ aside.ids \subseteq aside'.ids /\ aside'.ids \subseteq aside.ids \cup {disk.id}
      /\ name = "keys" => keys' = {}
      /\ name = "state" => disk.id \in aside'.ids
      /\ aside' = [keys |-> aside'.keys, certificates |-> aside'.certificates, ids |-> aside'.ids]
  BY Zenon DEF setAside
<1>4. TypeOK'
  <2>1. aside' \in [keys : SUBSET Nat, certificates : SUBSET Certificates, ids : SUBSET Nat]
    BY <1>3 DEF CredentialsInv, TypeOK, States
  <2>2. QED
    BY <1>1, <1>2, <1>3, <2>1, Zenon DEF CredentialsInv, TypeOK, world
<1>5. HeldInv'
  <2>1. Sound(disk)' /\ Sound(proc.held)'
    BY <1>1, <1>2, <1>3, Zenon DEF CredentialsInv, HeldInv, Sound, world
  <2>2. QED
    BY <1>1, <1>2, <2>1, ReplacingAt, Zenon DEF CredentialsInv, HeldInv, Running, Commands, None
<1>6. StepInv' /\ RequestInv' /\ RestartTrustsTheSame'
  BY <1>1, <1>2, ReplacingAt, Zenon DEF CredentialsInv, StepInv, RequestInv, RestartTrustsTheSame, Running, Renewing
<1>7. AsideInv'
  BY <1>1, <1>2, <1>3, Zenon DEF CredentialsInv, AsideInv
<1>8. ReplacedIsKept'
  BY <1>1, <1>3, Zenon DEF CredentialsInv, ReplacedIsKept
<1>9. QED
  BY <1>4, <1>5, <1>6, <1>7, <1>8, Zenon DEF CredentialsInv

LEMMA CreateKeeps ==
  ASSUME CredentialsInv, Create
  PROVE  CredentialsInv'
<1> DEFINE next == Fresh(disk.id + 1, proc.held.id)
<1>1. /\ proc.at = "aside" /\ proc.left = {} /\ proc \in Processes /\ proc.held \in States
      /\ disk \in States /\ faults \in Nat /\ Sound(disk) /\ damaged \in BOOLEAN
  BY Zenon DEF Create, CredentialsInv, TypeOK, Processes, HeldInv
<1>2. UNCHANGED <<files, drawn, world, sent>> /\ (damaged' \in BOOLEAN) /\ (damaged' => damaged) /\ commit(next, At("replaced"))
  BY <1>1, Zenon DEF Create
<1>3. disk.id \in Nat /\ proc.held.id \in Nat /\ keys = {} /\ disk.id \in aside.ids
  BY <1>1, Zenon DEF CredentialsInv, AsideInv, States
<1>4. /\ next \in States /\ next.id = disk.id + 1 /\ next.replaces = proc.held.id
      /\ ~Enrolled(next) /\ next.request = NoRequest
  BY SMTT(30), <1>3, FreshIs
<1> HIDE DEF next
<1>5. Sound(next)
  BY <1>4, Zenon DEF Sound
<1>6. faults = 0 => proc.held = disk /\ ~damaged
  BY <1>1, ReplacingAt, Zenon DEF CredentialsInv, HeldInv, None
<1>7. disk' \in {disk, next} /\ ((disk' = next /\ faults' = faults) \/ (faults' # 0 /\ faults' \in Nat))
  BY <1>1, <1>2 DEF commit, write, writeFails
<1>8. ReplacedIsKept'
  <2>1. CASE disk' = disk
    BY <1>2, <1>4, <1>7, <2>1, Zenon DEF CredentialsInv, ReplacedIsKept, files
  <2>2. CASE disk' = next
    BY SMTT(30), <1>2, <1>3, <1>4, <1>6, <1>7, <2>2 DEF CredentialsInv, ReplacedIsKept, files
  <2>3. QED
    BY <1>7, <2>1, <2>2, Zenon
<1>9. Sound(disk)'
  BY <1>1, <1>2, <1>5, <1>7, Zenon DEF Sound, files, world
<1>10. At("replaced") \in Processes /\ At("replaced").who = "replace" /\ At("replaced").at = "replaced"
  BY <1>1, AtIs, ReplacingAt, Zenon
<1>11. CASE /\ disk' = next /\ faults' = faults /\ proc' \in Processes
            /\ proc'.held = next /\ proc'.who = "replace" /\ proc'.at = "replaced"
  <2>1. TypeOK'
    BY <1>2, <1>4, <1>11, Zenon DEF CredentialsInv, TypeOK, files, world
  <2>2. HeldInv'
    BY <1>2, <1>6, <1>9, <1>11, Zenon DEF HeldInv, Running, Commands, None
  <2>3. StepInv' /\ AsideInv' /\ RequestInv' /\ RestartTrustsTheSame'
    BY <1>2, <1>11, Zenon DEF CredentialsInv, StepInv, AsideInv, RequestInv, RestartTrustsTheSame, Running, Renewing, Commands
  <2>4. QED
    BY <1>8, <2>1, <2>2, <2>3, Zenon DEF CredentialsInv
<1>12. CASE proc' = Nobody
  <2>1. TypeOK'
    BY <1>1, <1>2, <1>4, <1>7, <1>12, NobodyIs, Zenon DEF CredentialsInv, TypeOK, files, world
  <2>2. QED
    BY <1>2, <1>6, <1>7, <1>8, <1>9, <1>12, <2>1, NobodyKeeps, Zenon DEF CredentialsInv, RequestInv
<1>13. QED
  BY <1>1, <1>2, <1>4, <1>10, <1>11, <1>12, CommitIs, ReplacingAt, Zenon

LEMMA IssueKeeps ==
  ASSUME CredentialsInv, Issue
  PROVE  CredentialsInv'
<1>0. PICK n \in 1 .. MaxIssued : issued' = issued \cup {[serial |-> n, agent |-> sent.agent, key |-> sent.key]}
  BY Zenon DEF Issue
<1> DEFINE c == [serial |-> n, agent |-> sent.agent, key |-> sent.key]
<1>1. c \in Certificates
  BY DEF CredentialsInv, TypeOK, Requests, Certificates
<1>2. issued' = issued \cup {c} /\ UNCHANGED <<disk, damaged, files, drawn, validity, configured, proc, sent, faults>>
  BY <1>0, Zenon DEF Issue
<1> HIDE DEF c
<1>3. TypeOK'
  BY <1>1, <1>2, Zenon DEF CredentialsInv, TypeOK, files
<1>4. HeldInv'
  <2>1. Sound(disk)' /\ Sound(proc.held)'
    BY <1>2, Zenon DEF CredentialsInv, HeldInv, Sound, files
  <2>2. QED
    BY <1>2, <2>1, Zenon DEF CredentialsInv, HeldInv, Running
<1>5. StepInv' /\ AsideInv' /\ RequestInv'
  <2>1. StepInv /\ AsideInv /\ RequestInv
    BY Zenon DEF CredentialsInv
  <2>2. StepInv'
    BY <1>2, <2>1, Zenon DEF StepInv, Renewing, mayAsk, Asked, Held, files
  <2>3. AsideInv' /\ RequestInv'
    BY <1>2, <2>1, Zenon DEF AsideInv, RequestInv, Running, files
  <2>4. QED
    BY <2>2, <2>3, Zenon
<1>6. ReplacedIsKept' /\ RestartTrustsTheSame'
  BY <1>2, Zenon DEF CredentialsInv, ReplacedIsKept, RestartTrustsTheSame, Renewing, Trusted, Readable, files
<1>7. QED
  BY <1>3, <1>4, <1>5, <1>6, Zenon DEF CredentialsInv

(* What the world does to a host where no process runs. *)
LEMMA WorldKeeps ==
  ASSUME CredentialsInv, Reconfigure \/ Damage \/ \E key \in keys : LoseKey(key)
  PROVE  CredentialsInv'
<1>1. proc = Nobody /\ proc' = Nobody
  BY Zenon DEF Reconfigure, Damage, LoseKey, claim, CredentialsInv, HeldInv, world
<1>2. /\ UNCHANGED <<disk, drawn, certificates, sets, aside, sent, issued>>
      /\ keys' \subseteq keys /\ keys \subseteq keys' \cup lost' /\ lost \subseteq lost'
      /\ lost' \subseteq lost \cup keys
      /\ configured' \in Sets /\ (damaged' # damaged => faults' = faults + 1) /\ damaged' \in BOOLEAN
      /\ faults' = faults \/ faults' = faults + 1
  BY Zenon DEF Reconfigure, Damage, LoseKey, files, world, CredentialsInv, TypeOK
<1>3. TypeOK'
  <2>1. keys \subseteq Nat /\ lost \subseteq Nat /\ faults \in Nat /\ keys \subseteq 1 .. Len(drawn)
    BY DEF CredentialsInv, TypeOK
  <2>2. lost' \subseteq Nat /\ faults' \in Nat /\ keys' \subseteq 1 .. Len(drawn')
    BY <1>2, <2>1
  <2>3. proc' \in Processes
    BY <1>1, NobodyIs, Zenon
  <2>4. QED
    BY <1>2, <2>2, <2>3, Zenon DEF CredentialsInv, TypeOK
<1>4. Sound(disk)'
  BY <1>2, Zenon DEF CredentialsInv, HeldInv, Sound
<1>5. ReplacedIsKept' /\ (faults' = 0 => ~damaged')
  <2>1. ReplacedIsKept /\ (faults = 0 => ~damaged) /\ faults \in Nat
    BY Zenon DEF CredentialsInv, TypeOK, HeldInv
  <2>2. ReplacedIsKept'
    BY <1>2, <2>1 DEF ReplacedIsKept
  <2>3. faults' = 0 => ~damaged'
    BY <1>2, <2>1
  <2>4. QED
    BY <2>2, <2>3, Zenon
<1>6. QED
  BY <1>1, <1>2, <1>3, <1>4, <1>5, NobodyKeeps, Zenon DEF CredentialsInv, RequestInv

(* Nothing the invariant speaks of looks at the clock. *)
LEMMA AgeKeeps ==
  ASSUME CredentialsInv,
         UNCHANGED <<disk, damaged, files, drawn, configured, issued, proc, sent, faults>>
  PROVE  CredentialsInv'
<1>1. TypeOK' /\ ReplacedIsKept' /\ RestartTrustsTheSame'
  BY Zenon DEF CredentialsInv, TypeOK, ReplacedIsKept, RestartTrustsTheSame, Renewing, Trusted, Readable, files
<1>2. HeldInv' /\ AsideInv' /\ RequestInv'
  <2>1. HeldInv /\ AsideInv /\ RequestInv
    BY Zenon DEF CredentialsInv
  <2>2. Sound(disk)' /\ Sound(proc.held)'
    BY <2>1 DEF HeldInv, Sound, files
  <2>3. HeldInv'
    BY <2>1, <2>2, Zenon DEF HeldInv, Running
  <2>4. AsideInv' /\ RequestInv'
    BY <2>1, Zenon DEF AsideInv, RequestInv, Running, files
  <2>5. QED
    BY <2>3, <2>4, Zenon
<1>3. StepInv'
  BY Zenon DEF CredentialsInv, StepInv, Renewing, mayAsk, Asked, Held, files
<1>4. QED
  BY <1>1, <1>2, <1>3, Zenon DEF CredentialsInv

LEMMA CredentialsInvHolds == Spec => []CredentialsInv
<1>1. Init => CredentialsInv
  BY InitCredentialsInv, Zenon
<1>2. CredentialsInv /\ [Next]_vars => CredentialsInv'
  <2> SUFFICES ASSUME CredentialsInv, [Next]_vars PROVE CredentialsInv'
    BY Zenon
  <2>1. CASE \E who \in {"agent", "renew", "ask", "import"} : Open(who)
    BY <2>1, OpenKeeps, Zenon DEF Commands
  <2>2. CASE \E agent \in Agents : Request(agent)
    BY <2>2, RequestKeeps, Zenon
  <2>3. CASE \E name \in {"keys", "certificates", "trust", "state"} : setAside(name)
    BY <2>3, SetAsideKeeps, Zenon DEF Kinds
  <2>4. CASE Stop \/ HandOver
    BY <2>4, StopKeeps, Zenon
  <2>5. CASE Post \/ Answer \/ Carry
    BY <2>5, PostKeeps, Zenon
  <2>6. CASE Age \/ UNCHANGED vars
    BY <2>6, AgeKeeps, Zenon DEF Age, vars, files
  <2>7. CASE Reconfigure \/ Damage \/ \E key \in keys : LoseKey(key)
    BY <2>7, WorldKeeps, Zenon
  <2>8. CASE Ask \/ Renew \/ Issue \/ Import \/ Activate \/ Adopt \/ Trust \/ Replace \/ Create
    BY <2>8, AskKeeps, RenewKeeps, IssueKeeps, ImportKeeps, ActivateKeeps, AdoptKeeps, TrustKeeps,
       ReplaceKeeps, CreateKeeps, Zenon
  <2>9. QED
    BY <2>1, <2>2, <2>3, <2>4, <2>5, <2>6, <2>7, <2>8, Zenon DEF Next
<1>3. QED
  BY <1>1, <1>2, PTL DEF Spec

-----------------------------------------------------------------------------
(* For every run of the agent and its commands, whatever stops and fails: an
   enrolled installation has the key and the certificate of its active
   generation, beside it or set aside. *)
THEOREM CredentialIsNeverMissing == Spec => []CredentialKept
<1>1. CredentialsInv => CredentialKept
  BY Zenon DEF CredentialsInv, HeldInv, Sound, CredentialKept
<1>2. QED
  BY <1>1, CredentialsInvHolds, PTL

(* A replacement that stops anywhere, any number of times, loses no key and
   mixes none into the next installation, and each installation names the one
   it replaced. *)
THEOREM ReplacementLosesNothing == Spec => []ReplacedIsKept
<1>1. CredentialsInv => ReplacedIsKept
  BY Zenon DEF CredentialsInv
<1>2. QED
  BY <1>1, CredentialsInvHolds, PTL

(* With no write failed, a process trusts the authorities that a restart would
   choose from the state on disk. *)
THEOREM TrustSurvivesRestart == Spec => []RestartTrustsTheSame
<1>1. CredentialsInv => RestartTrustsTheSame
  BY Zenon DEF CredentialsInv
<1>2. QED
  BY <1>1, CredentialsInvHolds, PTL

(* What a step may do to the state on disk. *)
LEMMA StateWrittenBy ==
  ASSUME CredentialsInv, [Next]_vars, disk' # disk
  PROVE  disk'.id # disk.id \/ Ask \/ Activate \/ Trust
<1>1. ASSUME NEW who \in Commands, Open(who) PROVE disk'.id # disk.id
  <2>1. Fresh(1, 0).id = 1
    BY FreshIs, Zenon
  <2>2. QED
    BY <1>1, <2>1, OpenIs DEF CredentialsInv
<1>2. CASE Create
  <2>1. disk.id \in Nat /\ proc.held.id \in Nat
    BY Zenon DEF CredentialsInv, TypeOK, Processes, States
  <2>2. Fresh(disk.id + 1, proc.held.id).id = disk.id + 1
    BY SMTT(30), <2>1, FreshIs
  <2>3. QED
    BY <1>2, <2>1, <2>2 DEF Create, commit, write, writeFails
<1>3. QED
  BY <1>1, <1>2, Zenon DEF Next, vars, Commands, Request, setAside, Draw, Stop, HandOver, Renew, Issue, Post, Answer,
     Carry, Import, Adopt, Replace, Age, Reconfigure, Damage, LoseKey

(* A step never replaces on disk the request that was sent, while its key is
   there, but by the certificate that answers it, by a request for another
   agent, or with the next installation. *)
THEOREM SentRequestStands == Spec => SentIsAskedAgain
<1>1. ASSUME CredentialsInv, [Next]_vars, disk.request = sent, sent.key \in keys, disk'.request # sent
      PROVE  \/ disk'.enrollment.certificate \in issued /\ disk'.enrollment.certificate.key = sent.key
             \/ disk'.request.agent \in Agents \ {sent.agent}
             \/ disk'.id # disk.id
  <2>1. CASE disk'.id # disk.id
    BY <2>1, Zenon
  <2>2. sent # NoRequest /\ proc \in Processes /\ proc.held \in States
    <3>1. TypeOK
      BY <1>1, Zenon DEF CredentialsInv
    <3>2. sent # NoRequest
      BY <1>1, <3>1 DEF TypeOK, NoRequest
    <3>3. proc \in Processes
      BY <3>1, Zenon DEF TypeOK
    <3>4. QED
      BY <3>2, <3>3, Zenon DEF Processes
  <2>3. ASSUME Ask \/ Activate \/ Trust
        PROVE  /\ Running /\ disk' # disk
               /\ \/ proc.held.request = sent
                  \/ Enrolled(proc.held) /\ Key(proc.held) = sent.key /\ proc.held.request.key \notin keys
               /\ Enrolled(proc.held) => proc.held.enrollment.certificate \in issued
    <3>1. Running
      BY <1>1, <2>3, RunningAt, Zenon DEF Ask, Activate, Trust, Steps
    <3>2. QED
      BY <1>1, <2>2, <3>1, Zenon DEF CredentialsInv, HeldInv, Sound, RequestInv
  <2>4. CASE Ask
    <3>1. disk' = [proc.held EXCEPT !.request = proc.new]
      BY <2>3, <2>4, Zenon DEF Ask, commit, write, writeFails
    <3>2. disk'.request = proc.new /\ disk'.enrollment = proc.held.enrollment
      BY <2>2, <3>1, Zenon DEF States
    <3>3. proc.new.agent \in Agents /\ ~Asked(proc.new.agent)
      BY <1>1, <2>4, Zenon DEF CredentialsInv, StepInv, Ask
    <3>4. QED
      BY <1>1, <2>3, <2>4, <3>2, <3>3, Zenon DEF Asked, Held, Key
  <2>5. CASE Activate
    <3>1. disk' = Activated(proc.held, proc.answer)
      BY <2>3, <2>5, Zenon DEF Activate, commit, write, writeFails
    <3>2. disk'.enrollment.certificate = proc.answer
      BY <2>2, <3>1, Zenon DEF Activated, States
    <3>3. proc.answer \in issued /\ proc.answer.key = proc.held.request.key /\ proc.answer.key \in keys
      BY <1>1, <2>5, Zenon DEF CredentialsInv, StepInv, Activate
    <3>4. QED
      BY <2>3, <2>5, <3>2, <3>3, Zenon
  <2>6. CASE Trust
    <3>1. disk' = [proc.held EXCEPT !.trust = [set |-> proc.published, configured |-> configured]]
      BY <2>3, <2>6, Zenon DEF Trust, commit, write, writeFails
    <3>2. disk'.request = proc.held.request /\ disk'.enrollment = proc.held.enrollment
      BY <2>2, <3>1, Zenon DEF States
    <3>3. QED
      BY <1>1, <2>3, <2>6, <3>2, Zenon DEF Key
  <2>7. QED
    BY <1>1, <2>1, <2>4, <2>5, <2>6, StateWrittenBy, Zenon
<1>2. CredentialsInv /\ [Next]_vars =>
        [disk.request = sent /\ sent.key \in keys /\ disk'.request # sent =>
           \/ disk'.enrollment.certificate \in issued /\ disk'.enrollment.certificate.key = sent.key
           \/ disk'.request.agent \in Agents \ {sent.agent}
           \/ disk'.id # disk.id]_vars
  BY <1>1, Zenon
<1>3. QED
  BY <1>2, CredentialsInvHolds, PTL DEF Spec, SentIsAskedAgain
=============================================================================
