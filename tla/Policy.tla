------------------------------- MODULE Policy -------------------------------
(***************************************************************************)
(* The signed policy in force (internal/policy, and the configuration of   *)
(* cmd/seagull-agent): a follower asks the platform for the policy that    *)
(* names the agent, naming the one judged last, and what it is handed goes *)
(* to the goroutine that also reads the configuration file again. A policy *)
(* is judged, laid over the file, kept durably and only then put in force. *)
(*                                                                         *)
(* A policy is a record of its revision, the key that signed it and        *)
(* whether it is sound: well formed, naming this agent and not written     *)
(* ahead of its clock. What it sets is left out, but for the files it can  *)
(* be laid over. What is logged or shown in the status is left out.        *)
(***************************************************************************)
EXTENDS Naturals, FiniteSets

CONSTANTS
  Policies,         \* the policies the platform may hand
  Files,            \* the configuration files: whether they can be read, what a running agent
                    \* cannot change, the keys they accept and the policies that fit
  MaxExpired,       \* bound: policies that expire
  MaxStops          \* bound: stops, failed writes and damage

VARIABLES
  served,           \* the policy the platform hands now
  expired,          \* the policies past the moment they hold until
  local,            \* the configuration file
  disk,             \* policy.json
  proc,             \* the configuration goroutine and what it holds
  ask,              \* the follower
  once,             \* every policy that was in force since the file was last damaged
  unkept,           \* a policy could not be written down
  stops

vars == <<served, expired, local, disk, proc, ask, once, unkept, stops>>
world == <<served, expired, local>>

None == [revision |-> 0, key |-> "none", sound |-> FALSE]
Damaged == [None EXCEPT !.key = "damaged"]
NoFile == [state |-> "valid", fixed |-> 0, keys |-> {}, fits |-> {}]
Off == [at |-> "off", file |-> NoFile, envelope |-> None, applied |-> None, judged |-> None, refused |-> FALSE]
Idle == [at |-> "idle", tag |-> None, reply |-> None]

Init ==
  /\ served \in Policies \cup {None} /\ expired = {} /\ local \in Files
  /\ disk = None /\ proc = Off /\ ask = Idle
  /\ once = {} /\ unkept = FALSE /\ stops = 0

Stop == stops < MaxStops /\ stops' = stops + 1

(* parse and validate: the file is read whole, or the agent does not run on it. *)
parse(file) == file.state # "unparsable"
validate(file) == file.state # "invalid"
Load(file) == parse(file) /\ validate(file)

(* settled: what the agent opened or built as it started stays as it is. *)
settled(before, after) == before.fixed = after.fixed

(* Policy.Keys: the keys the file accepts policies under. *)
Keys(file) == file.keys

(* Verify: one of those keys signed the policy. *)
Verified(file, p) == p.key \in Keys(file)

(* Overlay: the file runs with what the policy sets laid over it. *)
Overlay(file, p) == p \in file.fits

(* lay: the policy the agent holds, verified again; one that expired stays. *)
lay(file, p) == Verified(file, p) /\ p.sound /\ Overlay(file, p)

\* Slip: a policy that cannot be laid over the file is not held either.
holdInForce ==
  /\ proc.at = "off" /\ Load(local)
  /\ LET held == IF disk \in Policies /\ lay(local, disk) THEN disk ELSE None
     IN proc' = [Off EXCEPT !.at = "select", !.file = local, !.envelope = held,
                            !.judged = held, !.applied = held]
  /\ once' = once \cup ({proc'.applied} \ {None})
  /\ UNCHANGED <<world, disk, ask, unkept, stops>>

(* hold, as the agent starts: the policy it kept is in force when it verifies
   again, and its revision is held whether it does or not. A file that cannot
   be read back holds nothing. *)
hold ==
  /\ proc.at = "off" /\ Load(local)
  /\ LET held == IF disk \in Policies THEN disk ELSE None
     IN proc' = [Off EXCEPT !.at = "select", !.file = local, !.envelope = held, !.judged = held,
                            !.applied = IF held # None /\ lay(local, held) THEN held ELSE None]
  /\ once' = once \cup ({proc'.applied} \ {None})
  /\ UNCHANGED <<world, disk, ask, unkept, stops>>

-----------------------------------------------------------------------------
(* Ask names the envelope judged last; the platform hands its policy unless it
   is that one, or the asking fails and waits to be repeated. *)
Ask ==
  /\ proc.at # "off" /\ ask.at = "idle"
  /\ ask' = [Idle EXCEPT !.at = "asked", !.tag = proc.judged]
  /\ UNCHANGED <<world, disk, proc, once, unkept, stops>>

Reply ==
  /\ ask.at = "asked"
  /\ \/ /\ served \notin {None, ask.tag}
        /\ ask' = [ask EXCEPT !.at = "offered", !.reply = served]
        /\ UNCHANGED stops
     \/ /\ served \in {None, ask.tag}
        /\ ask' = Idle
        /\ UNCHANGED stops
     \/ /\ Stop
        /\ ask' = Idle
  /\ UNCHANGED <<world, disk, proc, once, unkept>>

(* Judge: sound, not expired, and newer than the policy held or that one. *)
Judge(p, holding) ==
  /\ p.sound /\ p \notin expired
  /\ holding # None => p = holding \/ p.revision > holding.revision

Acceptable(p) == Verified(proc.file, p) /\ Judge(p, proc.envelope) /\ Overlay(proc.file, p)

Offered == proc.at = "select" /\ ask.at = "offered"
Refused(p) == [proc EXCEPT !.judged = p, !.refused = TRUE]

(* Keep: the policy is written whole, synced and renamed into place; one that
   fails leaves the policy before, or the new one. *)
Kept(p) == disk' = p /\ UNCHANGED <<unkept, stops>>
KeepFails(p) == Stop /\ disk' \in {disk, p} /\ unkept' = TRUE

(* adopt, up to what it writes down: a refusal changes nothing but what the
   follower names next, and the policy in force is not applied again. *)
adopt ==
  /\ Offered
  /\ LET p == ask.reply
         same == proc.applied = p /\ Verified(proc.file, p) /\ Judge(p, proc.envelope)
     IN \/ /\ same
           /\ ask' = Idle
           /\ UNCHANGED <<proc, disk, unkept, stops>>
        \/ /\ ~same /\ ~Acceptable(p)
           /\ proc' = Refused(p) /\ ask' = Idle
           /\ UNCHANGED <<disk, unkept, stops>>
        \/ /\ ~same /\ Acceptable(p)
           /\ Kept(p)
           /\ proc' = [proc EXCEPT !.at = "applying"]
           /\ UNCHANGED ask
        \/ /\ ~same /\ Acceptable(p)
           /\ KeepFails(p)
           /\ proc' = Refused(p) /\ ask' = Idle
  /\ UNCHANGED <<world, once>>

(* The rest of adopt: the policy kept is in force. *)
Apply ==
  /\ proc.at = "applying"
  /\ proc' = [proc EXCEPT !.at = "select", !.envelope = ask.reply, !.applied = ask.reply,
                          !.judged = ask.reply, !.refused = FALSE]
  /\ once' = once \cup {ask.reply}
  /\ ask' = Idle
  /\ UNCHANGED <<world, disk, unkept, stops>>

\* Slip: what was judged under the keys before is not asked for again.
overStale(file) ==
  LET held == proc.envelope
  IN [proc EXCEPT !.file = file, !.applied = IF held # None /\ lay(file, held) THEN held ELSE None]

(* over, committed by reload: the policy held is verified under the keys the
   file now names, put in force or withdrawn, and what was refused is asked for
   again. *)
over(file) ==
  LET held == proc.envelope
  IN [proc EXCEPT !.file = file, !.judged = held,
                  !.applied = IF held # None /\ lay(file, held) THEN held ELSE None]

(* reload: a file that cannot be read, that changes what a running agent cannot
   change or that the policy in force cannot be laid over is refused whole. *)
reload ==
  /\ proc.at = "select" /\ Load(local) /\ settled(proc.file, local)
  /\ LET unfit == proc.applied # None /\ Verified(local, proc.envelope) /\ ~Overlay(local, proc.envelope)
     IN proc' = IF unfit THEN proc ELSE over(local)
  /\ proc' # proc
  /\ once' = once \cup ({proc'.applied} \ {None})
  /\ UNCHANGED <<world, disk, ask, unkept, stops>>

-----------------------------------------------------------------------------
Publish(p) ==
  /\ served # p
  /\ served' = p
  /\ UNCHANGED <<expired, local, disk, proc, ask, once, unkept, stops>>

Expire(p) ==
  /\ p \notin expired /\ Cardinality(expired) < MaxExpired
  /\ expired' = expired \cup {p}
  /\ UNCHANGED <<served, local, disk, proc, ask, once, unkept, stops>>

Edit(file) ==
  /\ local # file
  /\ local' = file
  /\ UNCHANGED <<served, expired, disk, proc, ask, once, unkept, stops>>

(* The agent stops, is killed or loses its power: what Keep returned from
   outlives it. *)
Kill ==
  /\ proc.at # "off" /\ Stop
  /\ proc' = Off /\ ask' = Idle
  /\ UNCHANGED <<world, disk, once, unkept>>

Damage ==
  /\ proc.at = "off" /\ disk \in Policies /\ Stop
  /\ disk' = Damaged /\ once' = {}
  /\ UNCHANGED <<world, proc, ask, unkept>>

Environment ==
  \/ \E p \in Policies : Publish(p) \/ Expire(p)
  \/ \E file \in Files : Edit(file)
  \/ Kill \/ Damage

Next == hold \/ Ask \/ Reply \/ adopt \/ Apply \/ reload \/ Environment

(* The follower asks every interval, its requests end, and the goroutine that
   holds the configuration takes what it is offered. Nobody has to edit the
   file or have it read again. *)
Fairness == WF_vars(hold) /\ WF_vars(Ask) /\ WF_vars(Reply) /\ WF_vars(adopt) /\ WF_vars(Apply)

Spec == Init /\ [][Next]_vars /\ Fairness

-----------------------------------------------------------------------------
(* Properties. *)

(* The policy in force is newer than every other that ever was, whatever
   restarts, reloads and keys retired in between: the revision of a policy that
   is withdrawn is still the floor. *)
NeverBelowApplied ==
  proc.applied # None => \A p \in once : p = proc.applied \/ p.revision < proc.applied.revision

(* A policy the agent would apply, under the keys and the file it last read, is
   in force in the end, however often it was refused before those keys were
   read, unless one could not be written down. *)
AcceptableIsApplied ==
  \A p \in Policies :
    []<>(proc.at # "off" /\ served = p /\ Acceptable(p) => proc.applied = p \/ unkept)
=============================================================================
