------------------------------- MODULE Checks -------------------------------
(***************************************************************************)
(* A round of the assessment module (internal/modules/assessment): the     *)
(* checks of the policy in force are answered one after the other against  *)
(* the host, which changes meanwhile. A source that several checks share   *)
(* is read once in a round, when the first of them needs it.               *)
(*                                                                         *)
(* The checks of a round are all of one kind and ask about one source, as  *)
(* no answer depends on two. What was read is a record whose state says    *)
(* how the reading ended. A value is a record of the word it is and of the *)
(* integers, one or none, that it is in decimal and to strtol with base 0. *)
(***************************************************************************)
EXTENDS Integers, Sequences

CONSTANTS
  Tests,            \* the tests a check may carry, by kind
  Sources,          \* what a source may be read as, by kind
  MaxChanges        \* bound: changes of the host during a round

VARIABLES
  kind, checks,     \* what the round is asked
  source,           \* what reading the source would give now
  cache,            \* what the round read, once it did
  results,          \* the outcomes so far
  late,             \* the round ran out of its time
  seen,             \* what the source was since the round began
  changes

vars == <<kind, checks, source, cache, results, late, seen, changes>>

Unread == [state |-> "unread"]
Subjects == {"file", "account", "parameter", "module", "package", "service", "sshd", "login.defs"}
Directives == {"sshd", "login.defs"}
Cached == Subjects \ {"file", "parameter"}

(* What the tests and the sources of the kinds that share a source look like:
   a value is an integer or none to each way of reading it. *)
Valued(value) ==
  \A held \in {value.decimal, value.strtol} : held \subseteq Int /\ \A m, n \in held : m = n
Shaped ==
  /\ \A name \in Subjects : \A held \in Sources[name] : held.state # "unread"
  /\ \A held \in Sources["account"] : held.state \in {"failed", "read"}
  /\ \A test \in Tests["account"] : test.rule \in {"any", "root", "unique", "primary", "memberless"}
  /\ \A held \in Sources["package"] : held.state \in {"absent", "failed", "read"}
  /\ \A name \in Directives :
       /\ \A held \in Sources[name] :
            \/ held.state \in {"absent", "failed"}
            \/ /\ held.state = "read" /\ DOMAIN held.lines \subseteq Nat
               /\ \A i \in DOMAIN held.lines : Valued(held.lines[i].value)
       /\ \A test \in Tests[name] :
            /\ test.bounded \in BOOLEAN /\ test.least \in Int /\ test.most \in Int
            /\ \A value \in test.assumed : Valued(value)

Init ==
  /\ kind \in Subjects
  /\ checks \in [1..2 -> Tests[kind]]
  /\ source \in Sources[kind]
  /\ cache = Unread /\ results = <<>> /\ late = FALSE
  /\ seen = {source} /\ changes = 0

-----------------------------------------------------------------------------
(* unread: a check that carries something newer, or that the contract does not
   let a check ask, is not run. *)
judged(test) == test.is # "any" \/ test.user # "any" \/ test.permissions # {}
carried(test) == test.allowed # {} \/ test.bounded

problem(test) ==
  CASE kind = "file" -> \/ test.presence = "forbidden" /\ judged(test)
                        \/ test.presence = "any" /\ ~judged(test)
    [] kind = "account" -> test.rule = "any"
    [] kind = "parameter" -> \/ test.presence = "forbidden" /\ carried(test)
                             \/ test.allowed # {} /\ test.bounded
                             \/ test.presence = "any" /\ ~carried(test)
    [] kind = "module" -> test.loaded = "any" /\ ~test.disabled
    [] kind = "package" -> test.presence = "any"
    [] kind = "service" -> test.startup = "any" /\ test.activity = "any"
    [] kind \in Directives -> (test.allowed # {}) = test.bounded

unread(test) == test.newer \/ problem(test)

verdict(passes) == IF passes THEN "pass" ELSE "fail"

absent(presence) ==
  CASE presence = "required" -> "fail" [] presence = "forbidden" -> "pass" [] OTHER -> "not_applicable"

(* file: what cannot be reached is an error, and what is there is compared
   with everything the test names. *)
file(test, node) ==
  CASE node.state = "absent" -> absent(test.presence)
    [] node.state \in {"hidden", "denied", "failed"} -> "error"
    [] node.state = "unsupported" -> "unsupported"
    [] node.state = "read" ->
         verdict(/\ test.presence # "forbidden"
                 /\ test.is \in {"any", node.is}
                 /\ test.user \in {"any", node.user}
                 /\ \A most \in test.permissions : node.permissions \subseteq most)

(* distinct: no two entries hold one value of the field. *)
distinct(entries, field) ==
  \A i, j \in DOMAIN entries : entries[i][field] = entries[j][field] => i = j

(* The members of the groups of a name: those it lists, and the accounts whose
   primary group it is. *)
members(name, held) ==
  UNION {held.groups[g].members \cup {held.accounts[a].name : a \in {a \in DOMAIN held.accounts :
                                                             held.accounts[a].gid = held.groups[g].gid}}
         : g \in {g \in DOMAIN held.groups : held.groups[g].name = name}}

account(test, held) ==
  CASE held.state = "failed" -> "error"
    [] held.state = "read" /\ test.rule = "root" ->
         verdict(\A a \in DOMAIN held.accounts : held.accounts[a].uid = 0 => held.accounts[a].name = "root")
    [] held.state = "read" /\ test.rule = "unique" -> verdict(distinct(held.accounts, test.field))
    [] held.state = "read" /\ test.rule = "primary" ->
         verdict(\A a \in DOMAIN held.accounts : \E g \in DOMAIN held.groups :
                   held.groups[g].gid = held.accounts[a].gid)
    [] held.state = "read" /\ test.rule = "memberless" ->
         IF \A g \in DOMAIN held.groups : held.groups[g].name # test.group THEN "not_applicable"
         ELSE verdict(members(test.group, held) = {})

(* number: login.defs is read as strtol does, and the rest in decimal. *)
number(from, value) == IF from = "login.defs" THEN value.strtol ELSE value.decimal

beyond(held, test) == held = {} \/ \E n \in held : n < test.least \/ n > test.most

disallows(test, value) ==
  IF test.allowed # {} THEN value.word \notin test.allowed ELSE beyond(number(kind, value), test)

parameter(test, held) ==
  CASE held.state = "absent" -> absent(test.presence)
    [] held.state \in {"denied", "failed"} -> "error"
    [] held.state = "read" ->
         verdict(/\ test.presence # "forbidden"
                 /\ test.allowed # {} => held.value.word \in test.allowed
                 /\ test.bounded => ~beyond(number("kernel", held.value), test))

(* module: whether the kernel holds it, and whether an install line of modprobe
   keeps it out; each is read only when the test judges it. *)
module(test, held) ==
  CASE test.loaded # "any" /\ held.loaded = "failed" -> "error"
    [] test.disabled /\ held.rule = "failed" -> "error"
    [] OTHER -> verdict(/\ test.loaded = "forbidden" => held.loaded = "absent"
                        /\ test.loaded = "required" => held.loaded # "absent"
                        /\ test.disabled => held.rule = "refuses")

installed(test, held) ==
  CASE held.state = "absent" -> "unsupported"
    [] held.state = "failed" -> "error"
    [] held.state = "read" -> verdict((test.presence = "required") = (test.name \in held.packages))

service(test, unit) ==
  LET gone == unit.load = "not-found"
  IN CASE unit.state = "absent" -> "unsupported"
       [] unit.state \in {"denied", "failed"} -> "error"
       [] unit.state = "read" ->
            verdict(/\ CASE test.startup = "enabled" -> ~gone /\ unit.file = "enabled"
                         [] test.startup = "disabled" -> gone \/ unit.load = "masked" \/ unit.file \in {"disabled", "masked"}
                         [] test.startup = "masked" -> gone \/ unit.load = "masked" \/ unit.file = "masked"
                         [] OTHER -> TRUE
                    /\ CASE test.activity = "active" -> unit.active = "active"
                         [] test.activity = "inactive" -> gone \/ unit.active \in {"inactive", "failed"}
                         [] OTHER -> TRUE)

(* The lines that say what a directive may be: the first outside every Match
   block, in whose place the check may assume a value, and those of the Match
   blocks. *)
global(lines) == {i \in DOMAIN lines : lines[i].match = ""}
first(lines) == {i \in global(lines) : \A j \in global(lines) : i <= j}
matched(lines) == DOMAIN lines \ global(lines)

directive(test, held) ==
  IF test.gathered THEN "unsupported" ELSE
  CASE held.state = "absent" -> "not_applicable"
    [] held.state = "failed" -> "error"
    [] held.state = "read" ->
         verdict(/\ global(held.lines) # {} \/ test.assumed # {}
                 /\ \A i \in first(held.lines) \cup matched(held.lines) : ~disallows(test, held.lines[i].value)
                 /\ global(held.lines) = {} => \A value \in test.assumed : ~disallows(test, value))

outcome(test, held) ==
  CASE kind = "file" -> file(test, held)
    [] kind = "account" -> account(test, held)
    [] kind = "parameter" -> parameter(test, held)
    [] kind = "module" -> module(test, held)
    [] kind = "package" -> installed(test, held)
    [] kind = "service" -> service(test, held)
    [] kind \in Directives -> directive(test, held)

-----------------------------------------------------------------------------
\* Slip: every check reads its source for itself.
getEvery == source

(* read.get: what the round read first of a source stands for all of it. *)
get == IF cache # Unread THEN cache ELSE source

(* answer: one check after the other; one that is read before the source is
   needs nothing of it, and so does one the round has no time for. *)
answer ==
  /\ Len(results) < Len(checks)
  /\ LET test == checks[Len(results) + 1]
     IN \/ /\ unread(test)
           /\ results' = Append(results, "unsupported")
           /\ UNCHANGED cache
        \/ /\ ~unread(test) /\ late
           /\ results' = Append(results, "error")
           /\ UNCHANGED cache
        \/ /\ ~unread(test) /\ ~late
           /\ results' = Append(results, outcome(test, get))
           /\ cache' = IF kind \in Cached THEN get ELSE Unread
  /\ UNCHANGED <<kind, checks, source, late, seen, changes>>

(* The host changes, and the time of the round runs out. *)
Change ==
  /\ changes < MaxChanges /\ Len(results) < Len(checks)
  /\ source' \in Sources[kind] \ {source}
  /\ seen' = seen \cup {source'}
  /\ changes' = changes + 1
  /\ UNCHANGED <<kind, checks, cache, results, late>>

RunOut ==
  /\ ~late /\ Len(results) < Len(checks)
  /\ late' = TRUE
  /\ UNCHANGED <<kind, checks, source, cache, results, seen, changes>>

Next == answer \/ Change \/ RunOut

Spec == Init /\ [][Next]_vars

-----------------------------------------------------------------------------
(* Properties. *)

(* What sshd applies to a connection is what a Match block it meets sets, or
   else the first line outside every block; login.defs has no blocks. *)
Applied(test, held) ==
  {held.lines[i].value : i \in matched(held.lines)}
    \cup (IF global(held.lines) = {} THEN test.assumed
          ELSE {held.lines[i].value : i \in first(held.lines)})

Bad(test, value) ==
  \/ test.allowed # {} /\ value.word \notin test.allowed
  \/ test.bounded /\ ~(\E n \in test.least..test.most : number(kind, value) = {n})

OneHolder(entries, field) ==
  \A value \in {entries[a][field] : a \in DOMAIN entries} :
    \E a \in DOMAIN entries : {b \in DOMAIN entries : entries[b][field] = value} = {a}

(* What a test asks, of a source that could be read. *)
Met(test, held) ==
  CASE kind = "package" -> IF test.presence = "required" THEN test.name \in held.packages ELSE test.name \notin held.packages
    [] kind \in Directives ->
         /\ global(held.lines) # {} \/ test.assumed # {}
         /\ \A value \in Applied(test, held) : ~Bad(test, value)
    [] kind = "account" /\ test.rule = "unique" -> OneHolder(held.accounts, test.field)
    [] OTHER -> outcome(test, held) = "pass"

Readable(held) == held.state = "read"

(* The verdicts of a round on a source that checks share are all true of one
   state the source had during the round: two checks are never answered from
   different states of it, and what could not be read gets no verdict. *)
OneStateAnswers ==
  kind \in {"account", "package", "sshd", "login.defs"} =>
    \/ \A i \in DOMAIN results : results[i] \notin {"pass", "fail"}
    \/ \E held \in seen :
         /\ Readable(held)
         /\ \A i \in DOMAIN results : results[i] \in {"pass", "fail"} => (results[i] = "pass" <=> Met(checks[i], held))
=============================================================================
