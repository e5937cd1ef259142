----------------------------- MODULE MCRecords -----------------------------
(* What the parts of Records are given to look at. *)
EXTENDS HostRecords, Sequences, TLC

-----------------------------------------------------------------------------
(* Checks: of every kind, tests that ask for each thing the kind may ask, one
   that asks for nothing and one that is newer than the agent. *)

FileTest(presence, is, permissions, newer) ==
  [presence |-> presence, is |-> is, user |-> "any", permissions |-> permissions, newer |-> newer]
AccountTest(rule, field) == [rule |-> rule, field |-> field, group |-> "g", newer |-> FALSE]
ParameterTest(presence, allowed, bounded) ==
  [presence |-> presence, allowed |-> allowed, bounded |-> bounded, least |-> 1, most |-> 2, newer |-> FALSE]
DirectiveTest(allowed, bounded, assumed, gathered) ==
  [allowed |-> allowed, bounded |-> bounded, least |-> 5, most |-> 9, assumed |-> assumed,
   gathered |-> gathered, newer |-> FALSE]

(* The values of settings, as the decimal and as strtol of C read them. *)
Number(word, decimal, strtol) == [word |-> word, decimal |-> decimal, strtol |-> strtol]
Ten == Number("010", {10}, {8})
Two == Number("2", {2}, {2})
No == Number("no", {}, {})

Tested(name) ==
  CASE name = "file" ->
         {FileTest("any", "any", {}, FALSE), FileTest("forbidden", "any", {}, FALSE),
          FileTest("required", "regular", {{"r"}}, FALSE), FileTest("any", "any", {{"r"}}, FALSE),
          FileTest("any", "any", {{"r"}}, TRUE)}
    [] name = "account" ->
         {AccountTest("unique", "name")} \cup
         {AccountTest(rule, "uid") : rule \in {"root", "unique", "primary", "memberless"}}
    [] name = "parameter" ->
         {ParameterTest("any", {"2"}, FALSE), ParameterTest("required", {}, TRUE),
          ParameterTest("forbidden", {}, FALSE), ParameterTest("any", {}, FALSE)}
    [] name = "module" ->
         {[loaded |-> t[1], disabled |-> t[2], newer |-> FALSE] :
            t \in {<<"any", TRUE>>, <<"forbidden", TRUE>>, <<"required", FALSE>>, <<"any", FALSE>>}}
    [] name = "package" ->
         {[presence |-> t[1], name |-> t[2], newer |-> FALSE] :
            t \in {<<"required", "p">>, <<"forbidden", "p">>, <<"any", "p">>, <<"required", "q">>}}
    [] name = "service" ->
         {[startup |-> t[1], activity |-> t[2], newer |-> FALSE] :
            t \in {<<"enabled", "active">>, <<"disabled", "any">>, <<"masked", "inactive">>, <<"any", "any">>}}
    [] name = "sshd" ->
         {DirectiveTest({"no"}, FALSE, {}, FALSE), DirectiveTest({"no"}, FALSE, {No}, FALSE),
          DirectiveTest({}, TRUE, {}, FALSE), DirectiveTest({"no"}, FALSE, {}, TRUE)}
    [] name = "login.defs" ->
         {DirectiveTest({"no"}, FALSE, {}, FALSE), DirectiveTest({}, TRUE, {}, FALSE),
          DirectiveTest({}, FALSE, {}, FALSE)}

Tried == {"file", "account", "parameter", "module", "package", "service", "sshd", "login.defs"}
SomeTests == [name \in Tried |-> Tested(name)]

(* What each source may be read as, and the ways it may not be. *)
Unread(states) == {[state |-> s] : s \in states}
Account(name, uid, gid) == [name |-> name, uid |-> uid, gid |-> gid]
Unit(how, load, on, active) == [state |-> how, load |-> load, file |-> on, active |-> active]
Line(match, value) == [match |-> match, value |-> value]

Readings(name) ==
  CASE name = "file" ->
         Unread({"absent", "hidden", "unsupported"}) \cup
         {[state |-> "read", is |-> is, user |-> "root", permissions |-> permissions] :
            is \in {"regular", "directory"}, permissions \in {{"r"}, {"r", "w"}}}
    [] name = "account" ->
         Unread({"failed"}) \cup
         {[state |-> "read", accounts |-> <<Account("root", 0, 0), other>>,
           groups |-> <<[name |-> "g", gid |-> gid, members |-> {}]>>] :
            other \in {Account("root", 1, 0), Account("x", 0, 1), Account("x", 1, 1)}, gid \in {0, 1}}
    [] name = "parameter" ->
         Unread({"absent", "denied"}) \cup {[state |-> "read", value |-> v] : v \in {Ten, Two, No}}
    [] name = "module" ->
         [state : {"read"}, loaded : {"failed", "absent", "loaded"},
          rule : {"failed", "none", "refuses", "other"}]
    [] name = "package" ->
         Unread({"absent", "failed"}) \cup {[state |-> "read", packages |-> s] : s \in SUBSET {"p", "q"}}
    [] name = "service" ->
         {Unit("absent", "", "", ""), Unit("denied", "", "", ""), Unit("read", "not-found", "", "inactive"),
          Unit("read", "loaded", "enabled", "active"), Unit("read", "loaded", "enabled", "failed"),
          Unit("read", "masked", "masked", "inactive"), Unit("read", "loaded", "disabled", "active")}
    [] name = "sshd" ->
         Unread({"absent", "failed"}) \cup
         {[state |-> "read", lines |-> lines] :
            lines \in {<<>>, <<Line("", No)>>, <<Line("", No), Line("x", Two)>>, <<Line("x", No)>>,
                       <<Line("", Ten), Line("", No)>>}}
    [] name = "login.defs" ->
         Unread({"absent", "failed"}) \cup
         {[state |-> "read", lines |-> lines] : lines \in {<<>>, <<Line("", No)>>, <<Line("", Ten)>>}}

SomeSources == [name \in Tried |-> Readings(name)]

-----------------------------------------------------------------------------
(* Network: a reading of the agent's own namespace and of another one shows no
   listener or one, and no flow or one. *)
View(holder, flows) == [listeners |-> [p \in Ports |-> holder], flows |-> flows]
SomeSockets ==
  <<{View("a", {}), View("none", {1})}, {View("none", {}), View("a", {1})}>>

-----------------------------------------------------------------------------
(* Integrity: a directory in the directory watched, with a file in it. *)
Node(what, when, entries) == [kind |-> what, modified |-> when, changed |-> when, entries |-> entries]
SomeHosts ==
  {(0 :> Node("dir", 0, 0 :> 1)) @@ (1 :> Node("dir", 0, 1 :> 2)) @@ (2 :> Node("dir", 0, 1 :> 3))
     @@ (3 :> Node("file", 1, <<>>)) @@ (4 :> Node("none", 0, <<>>))}
=============================================================================
