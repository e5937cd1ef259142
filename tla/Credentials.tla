----------------------------- MODULE Credentials -----------------------------
(***************************************************************************)
(* The installation and its credentials: the state a host keeps of what it *)
(* is (internal/identity), the keys, certificates and authorities beside   *)
(* it (internal/pki), enrolling (internal/enrollment), renewing            *)
(* (internal/renewal) and replacing the installation. One process at a     *)
(* time holds the directory: the agent, or a command an operator runs. It  *)
(* may stop anywhere, and a write of the state may fail with the state     *)
(* before or the one written in place.                                     *)
(***************************************************************************)
EXTENDS Naturals, Sequences

CONSTANTS
  Agents,          \* the agents the platform issues certificates for
  Sets,            \* sets of authorities, configured or published
  MaxKeys,         \* bound: keys drawn
  MaxIssued,       \* bound: certificates issued
  MaxGenerations,  \* bound: generations of the credential
  MaxReplaced,     \* bound: installations
  MaxFaults        \* bound: failed writes, lost keys and damaged states

None == "none"

ASSUME CredentialsAssumption == None \notin Agents \cup Sets

NoRequest == [agent |-> None, key |-> 0]
NoCertificate == [serial |-> 0, agent |-> None, key |-> 0]
NoEnrollment == [generation |-> 0, certificate |-> NoCertificate]
NoTrust == [set |-> None, configured |-> None]

VARIABLES
  disk,            \* installation.json; id 0 while there is none
  damaged,         \* the state cannot be read back
  keys, certificates, sets,   \* the files beside it
  aside,           \* what replacements set aside
  lost,            \* keys whose files were lost
  drawn,           \* the installation each key was drawn for, in order
  validity,        \* how the clock stands to the active certificate
  configured,      \* the digest of server.trust_bundle
  proc,            \* the process that holds the directory
  issued,          \* the certificates the platform issued
  sent,            \* the request last sent or printed
  faults

files == <<keys, certificates, sets, aside, lost>>
world == <<configured, issued, validity>>
vars == <<disk, damaged, keys, certificates, sets, aside, lost, drawn, validity,
          configured, proc, issued, sent, faults>>

Fresh(id, replaces) ==
  [id |-> id, replaces |-> replaces, enrollment |-> NoEnrollment, request |-> NoRequest,
   trust |-> NoTrust]

(* A process as it starts, with the state it holds. *)
Started(who, at, held, trusted, left) ==
  [who |-> who, at |-> at, held |-> held, new |-> NoRequest, answer |-> NoCertificate,
   trusted |-> trusted, published |-> None, left |-> left]
Nobody == Started(None, None, Fresh(0, 0), None, {})

Init ==
  /\ disk = Fresh(0, 0) /\ damaged = FALSE
  /\ keys = {} /\ certificates = {} /\ sets = {}
  /\ aside = [keys |-> {}, certificates |-> {}, ids |-> {}] /\ lost = {}
  /\ drawn = <<>> /\ validity = "current"
  /\ configured \in Sets
  /\ proc = Nobody /\ issued = {} /\ sent = NoRequest /\ faults = 0

Enrolled(s) == s.enrollment.generation > 0
Agent(s) == s.enrollment.certificate.agent
Key(s) == s.enrollment.certificate.key

At(step) == [proc EXCEPT !.at = step]
Back == [proc EXCEPT !.at = "open", !.new = NoRequest, !.answer = NoCertificate, !.published = None]

(* What a process does once a step failed: the agent goes on, a command ends. *)
Failed == IF proc.who = "agent" THEN Back ELSE Nobody

(* write: the state is written whole, synced and renamed into place. *)
write(next) == disk' = next /\ UNCHANGED faults

(* A write that fails, with the state before or the new one in place; what it
   leaves beside the state is discarded at the next start. *)
writeFails(next) ==
  /\ faults < MaxFaults /\ faults' = faults + 1
  /\ disk' \in {disk, next}

(* commit: what was written is then held, and what is held stays otherwise. *)
commit(next, then) ==
  \/ write(next) /\ proc' = [then EXCEPT !.held = next]
  \/ writeFails(next) /\ proc' = Failed

-----------------------------------------------------------------------------
(* AuthorityFiles.Open: the set is there to be read back. *)
Readable(set) == set \in sets

(* trusted of main.go: the authorities adopted, unless the operator configured
   others since or they cannot be read. *)
Trusted(s) ==
  IF s.trust # NoTrust /\ s.trust.configured = configured /\ Readable(s.trust.set)
  THEN s.trust.set ELSE configured

(* The processes that reach the platform: the agent, and a renewal an operator
   asks for. *)
Renewing == proc.who \in {"agent", "renew"}

Empty ==
  /\ disk.id = 0
  /\ keys = {} /\ certificates = {} /\ sets = {}
  /\ aside.ids = {}

(* claim: one process at a time has the lock. *)
claim == proc.who = None

(* decode and validate. *)
decodes == ~damaged

(* readState: a state that does not decode and validate is not read. *)
readState == IF decodes THEN disk ELSE Fresh(0, 0)

(* Open: the lock is free and the state is read back, or created in a
   directory that is new. *)
Open(who) ==
  /\ claim /\ decodes
  /\ LET opened(s) == Started(who, "open", s, IF who \in {"agent", "renew"} THEN Trusted(s) ELSE None, {}) IN
     \/ readState.id > 0 /\ proc' = opened(readState) /\ UNCHANGED <<disk, faults>>
     \/ Empty /\ commit(Fresh(1, 0), opened(Fresh(1, 0)))
  /\ UNCHANGED <<damaged, files, drawn, world, sent>>

(* The process ends, or is killed, or the host goes down. *)
Stop ==
  /\ proc.who # None
  /\ proc' = Nobody
  /\ UNCHANGED <<disk, damaged, files, drawn, world, sent, faults>>

-----------------------------------------------------------------------------
(* Asking for a certificate. *)

(* Slip: only a request for the active key is taken up again. *)
AskedHolding(agent) ==
  /\ proc.held.request.agent = agent /\ proc.held.request.key \in keys
  /\ proc.held.request.key = Key(proc.held)

(* KeyFiles.Open: the key is there to be read back. *)
Held(key) == key \in keys

(* A request is pending for the agent, and its key is there. *)
Asked(agent) == proc.held.request.agent = agent /\ Held(proc.held.request.key)

(* Keys.Create: the key is durable before anything names it. *)
Draw(agent) ==
  /\ Len(drawn) < MaxKeys
  /\ drawn' = Append(drawn, proc.held.id)
  /\ keys' = keys \cup {Len(drawn')}
  /\ proc' = [At("ask") EXCEPT !.new = [agent |-> agent, key |-> Len(drawn')]]
  /\ UNCHANGED <<disk, damaged, certificates, sets, aside, lost, world, sent, faults>>

(* An enrolled installation asks for the agent it is enrolled as. *)
mayAsk(agent) == Enrolled(proc.held) => Agent(proc.held) = agent

(* enrollment.Request, for an agent the installation is not enrolled as another
   than: the pending request again, or a key drawn for one. *)
Request(agent) ==
  /\ proc.who = "ask" /\ proc.at = "open"
  /\ mayAsk(agent)
  /\ \/ /\ Asked(agent)
        /\ proc' = At("print")
        /\ UNCHANGED <<disk, damaged, files, drawn, world, sent, faults>>
     \/ ~Asked(agent) /\ Draw(agent)

(* Installation.Ask: the request is recorded before it is sent. *)
Ask ==
  /\ proc.at = "ask"
  /\ commit([proc.held EXCEPT !.request = proc.new],
           [Back EXCEPT !.at = IF proc.who = "ask" THEN "print" ELSE "post"])
  /\ UNCHANGED <<damaged, files, drawn, world, sent>>

(* The command prints the request. *)
HandOver ==
  /\ proc.at = "print"
  /\ sent' = proc.held.request
  /\ proc' = Nobody
  /\ UNCHANGED <<disk, damaged, files, drawn, world, faults>>

(* CertificateFiles.Open: the chain is there to be read back. *)
Stored(c) == c \in certificates

(* pki.OpenCredential: the key and the certificate of the generation. *)
Usable(s) == Enrolled(s) /\ Held(Key(s)) /\ Stored(s.enrollment.certificate)

(* Renewer.Run: the agent renews a certificate that is due and did not expire,
   and again after a failure. The command renews at once. *)
Due == Renewing /\ (proc.who = "agent" => validity = "due")

(* Renewer.request: the pending request again; or one with a key drawn anew, or
   with the key held while it is young. *)
Renew ==
  /\ proc.at = "open" /\ Due
  /\ Usable(proc.held)
  /\ LET agent == Agent(proc.held) IN
     \/ /\ Asked(agent)
        /\ proc' = At("post")
        /\ UNCHANGED <<disk, damaged, files, drawn, world, sent, faults>>
     \/ ~Asked(agent) /\ Draw(agent)
     \/ /\ ~Asked(agent)
        /\ proc' = [At("ask") EXCEPT !.new = [agent |-> agent, key |-> Key(proc.held)]]
        /\ UNCHANGED <<disk, damaged, files, drawn, world, sent, faults>>

(* The platform issues a certificate for what it was asked, by a renewal or by
   an operator, with the serial after those it gave. *)
Issue ==
  /\ sent # NoRequest
  /\ \E n \in 1..MaxIssued :
       /\ \A m \in 1..MaxIssued : m < n <=> \E c \in issued : c.serial = m
       /\ issued' = issued \cup {[serial |-> n, agent |-> sent.agent, key |-> sent.key]}
  /\ UNCHANGED <<disk, damaged, files, drawn, validity, configured, proc, sent, faults>>

(* Post: the request goes out. *)
Post ==
  /\ proc.at = "post"
  /\ sent' = proc.held.request
  /\ proc' = At("answer")
  /\ UNCHANGED <<disk, damaged, files, drawn, world, faults>>

(* The answer is a certificate; or it is lost, or a refusal, and the next
   attempt asks again. *)
Answer ==
  /\ proc.at = "answer"
  /\ \/ \E c \in issued : proc' = [At("import") EXCEPT !.answer = c]
     \/ proc' = Back
  /\ UNCHANGED <<disk, damaged, files, drawn, world, sent, faults>>

(* enrollment import, with what an operator carried over. *)
Carry ==
  /\ proc.who = "import" /\ proc.at = "open"
  /\ \E c \in issued : proc' = [At("import") EXCEPT !.answer = c]
  /\ UNCHANGED <<disk, damaged, files, drawn, world, sent, faults>>

(* answer.verify: the certificate names the agent and the key it is expected
   for. *)
Expected(c, agent, key) == c.agent = agent /\ c.key = key

(* CertificateFiles.Store: the chain is durable before anything names it. *)
Store(c) == certificates' = certificates \cup {c}

(* Slip: the certificate is kept once it is active. *)
ImportNaming ==
  /\ proc.at = "import"
  /\ LET s == proc.held
         c == proc.answer
         again == Enrolled(s) /\ c = s.enrollment.certificate
         due == s.request # NoRequest /\ Expected(c, s.request.agent, s.request.key) /\ c.key \in keys
     IN IF again
        THEN certificates' = certificates \cup {c} /\ proc' = [Back EXCEPT !.at = "adopt"]
        ELSE proc' = (IF due THEN At("activate") ELSE Failed) /\ UNCHANGED certificates
  /\ UNCHANGED <<disk, damaged, keys, sets, aside, lost, drawn, world, sent, faults>>

(* Import, up to the certificate it keeps: one of the active generation again,
   or one for the pending request whose key is there. *)
Import ==
  /\ proc.at = "import"
  /\ LET s == proc.held
         c == proc.answer
         again == Enrolled(s) /\ c = s.enrollment.certificate
         due == s.request # NoRequest /\ Expected(c, s.request.agent, s.request.key) /\ Held(c.key)
     IN IF again \/ due
        THEN /\ Store(c)
             /\ proc' = IF again THEN [Back EXCEPT !.at = "adopt"] ELSE At("activate")
        ELSE proc' = Failed /\ UNCHANGED certificates
  /\ UNCHANGED <<disk, damaged, keys, sets, aside, lost, drawn, world, sent, faults>>

(* What Activate writes: the next generation, with its request answered. *)
Activated(s, c) ==
  [s EXCEPT !.enrollment = [generation |-> @.generation + 1, certificate |-> c],
            !.request = IF @.key = c.key THEN NoRequest ELSE @]

Activate ==
  /\ proc.at = "activate" /\ proc.held.enrollment.generation < MaxGenerations
  /\ commit(Activated(proc.held, proc.answer), [Back EXCEPT !.at = "adopt"])
  /\ validity' = IF disk' = disk THEN validity ELSE "current"
  /\ UNCHANGED <<damaged, files, drawn, configured, issued, sent>>

(* AuthorityFiles.Store: the set is durable before anything names it. *)
StoreSet(published) == sets' = sets \cup {published}

(* Slip: the agent trusts the set before it is recorded, and drops it with a
   failure. *)
AdoptForgetting ==
  /\ proc.at = "adopt"
  /\ \E published \in Sets : proc' = [Back EXCEPT !.trusted = published]
  /\ UNCHANGED <<disk, damaged, files, drawn, world, sent, faults>>

(* adopt: authorities the platform published replace the ones trusted, when
   they authenticate the listener that answered. A command of enrollment ends
   before it. *)
Adopt ==
  /\ proc.at = "adopt"
  /\ \/ proc' = Failed /\ UNCHANGED sets
     \/ /\ Renewing
        /\ \E published \in Sets \ {proc.trusted} :
             /\ StoreSet(published)
             /\ proc' = [At("trust") EXCEPT !.published = published]
  /\ UNCHANGED <<disk, damaged, keys, certificates, aside, lost, drawn, world, sent, faults>>

(* Installation.Adopt, and what the client trusts from then on. *)
Trust ==
  /\ proc.at = "trust"
  /\ commit([proc.held EXCEPT !.trust = [set |-> proc.published, configured |-> configured]],
           [Back EXCEPT !.at = IF proc.who = "agent" THEN "open" ELSE "done",
                        !.trusted = proc.published])
  /\ UNCHANGED <<damaged, files, drawn, world, sent>>

-----------------------------------------------------------------------------
(* Replacing the installation: everything it holds is set aside, one name after
   another, and a new one takes its place. *)

Replace ==
  /\ claim /\ disk.id \in 1 .. MaxReplaced - 1
  /\ proc' = Started("replace", "aside", readState, None, {"keys", "certificates", "trust", "state"})
  /\ UNCHANGED <<disk, damaged, files, drawn, world, sent, faults>>

(* Slip: the state is moved as everything else is. *)
setAsideMoving(name) ==
  /\ proc.at = "aside" /\ name \in proc.left
  /\ proc' = [proc EXCEPT !.left = @ \ {name}]
  /\ keys' = IF name = "keys" THEN {} ELSE keys
  /\ certificates' = IF name = "certificates" THEN {} ELSE certificates
  /\ sets' = IF name = "trust" THEN {} ELSE sets
  /\ damaged' = (damaged \/ name = "state")
  /\ aside' = [keys |-> aside.keys \cup (keys \ keys'),
               certificates |-> aside.certificates \cup (certificates \ certificates'),
               ids |-> IF name = "state" THEN aside.ids \cup {disk.id} ELSE aside.ids]
  /\ UNCHANGED <<disk, lost, drawn, world, sent, faults>>

(* setAside: the name is moved; the state is linked, and stays until the new
   one is renamed over it. *)
setAside(name) ==
  /\ proc.at = "aside" /\ name \in proc.left
  /\ proc' = [proc EXCEPT !.left = @ \ {name}]
  /\ keys' = IF name = "keys" THEN {} ELSE keys
  /\ certificates' = IF name = "certificates" THEN {} ELSE certificates
  /\ sets' = IF name = "trust" THEN {} ELSE sets
  /\ aside' = [keys |-> aside.keys \cup (keys \ keys'),
               certificates |-> aside.certificates \cup (certificates \ certificates'),
               ids |-> IF name = "state" THEN aside.ids \cup {disk.id} ELSE aside.ids]
  /\ UNCHANGED <<disk, damaged, lost, drawn, world, sent, faults>>

(* create: the new installation names the one it replaces, when that was read. *)
Create ==
  /\ proc.at = "aside" /\ proc.left = {}
  /\ commit(Fresh(disk.id + 1, proc.held.id), At("replaced"))
  /\ damaged' = (damaged /\ disk' = disk)
  /\ UNCHANGED <<files, drawn, world, sent>>

-----------------------------------------------------------------------------
(* The world: time passes over the certificate, the operator changes the trust
   bundle, a key or the state is lost. *)

(* Nothing but Due looks at the clock, so it moves where Due is next. *)
Age ==
  /\ Enrolled(disk) /\ proc.who = "agent" /\ proc.at = "open"
  /\ \/ validity = "current" /\ validity' = "due"
     \/ validity = "due" /\ validity' = "expired"
  /\ UNCHANGED <<disk, damaged, files, drawn, configured, issued, proc, sent, faults>>

(* The bundle is read when a process starts, so a change counts from then; it
   changes once for each set adopted. *)
Reconfigure ==
  /\ proc.who = None /\ disk.trust.configured = configured
  /\ \E bundle \in Sets \ {configured} : configured' = bundle
  /\ UNCHANGED <<disk, damaged, files, drawn, validity, issued, proc, sent, faults>>

(* A key is lost: the one of the pending request, which the agent goes on
   without. *)
LoseKey(key) ==
  /\ faults < MaxFaults /\ faults' = faults + 1
  /\ claim /\ key = disk.request.key
  /\ keys' = keys \ {key} /\ lost' = lost \cup {key}
  /\ UNCHANGED <<disk, damaged, certificates, sets, aside, drawn, world, proc, sent>>

Damage ==
  /\ faults < MaxFaults /\ faults' = faults + 1
  /\ proc.who = None /\ disk.id > 0 /\ ~damaged
  /\ damaged' = TRUE
  /\ UNCHANGED <<disk, files, drawn, world, proc, sent>>

Next ==
  \/ \E who \in {"agent", "renew", "ask", "import"} : Open(who)
  \/ \E agent \in Agents : Request(agent)
  \/ \E name \in {"keys", "certificates", "trust", "state"} : setAside(name)
  \/ \E key \in keys : LoseKey(key)
  \/ Stop \/ Ask \/ HandOver \/ Renew \/ Issue \/ Post \/ Answer \/ Carry \/ Import \/ Activate
  \/ Adopt \/ Trust \/ Replace \/ Create \/ Age \/ Reconfigure \/ Damage

Spec == Init /\ [][Next]_vars

-----------------------------------------------------------------------------
(* Properties. *)

(* Whatever is interrupted, an enrolled installation has the key and the
   certificate of its active generation, beside it or, with its replacement
   under way, set aside: Import keeps the certificate beside its key before
   Activate names them, and a replacement loses neither. *)
CredentialKept ==
  Enrolled(disk) =>
    /\ Key(disk) \in keys \cup aside.keys \cup lost
    /\ disk.enrollment.certificate \in certificates \cup aside.certificates

(* A request that was sent is the one asked again: no restart and no failed
   write replaces it on disk while its key is there, so the certificate issued
   for it can always be imported. It gives way to the certificate that answers
   it, to a request for another agent, and to the next installation. *)
SentIsAskedAgain ==
  [][disk.request = sent /\ sent.key \in keys /\ disk'.request # sent =>
       \/ disk'.enrollment.certificate \in issued /\ disk'.enrollment.certificate.key = sent.key
       \/ disk'.request.agent \in Agents \ {sent.agent}
       \/ disk'.id # disk.id]_vars

(* A replacement interrupted anywhere loses nothing and mixes nothing: each key
   ever drawn is set aside or belongs to the installation that is there, each
   installation replaced is set aside, and each names the one before it unless
   that could not be read. *)
ReplacedIsKept ==
  /\ \A k \in DOMAIN drawn :
       k \in lost \cup aside.keys \/ (k \in keys /\ drawn[k] = disk.id)
  /\ \A id \in 1 .. disk.id - 1 : id \in aside.ids
  /\ disk.id > 1 /\ faults = 0 => disk.replaces = disk.id - 1

(* A restart goes on trusting what the agent trusts: the authorities in force
   are those the state on disk would choose, when no write failed and no set is
   about to be recorded. *)
RestartTrustsTheSame ==
  /\ Renewing /\ proc.at # "trust"
  /\ faults = 0
  => proc.trusted = Trusted(disk)
=============================================================================
