----------------------------- MODULE Integrity -----------------------------
(***************************************************************************)
(* The file collector (internal/modules/integrity): it keeps a baseline of *)
(* the path it watches, walks the path when it starts, every interval,     *)
(* when the scope changes and when the kernel dropped hints, looks again   *)
(* at the names the kernel spoke of, reports what differs from the         *)
(* baseline and writes the baseline down. Every look goes through a        *)
(* directory held open, and the host changes between any two of them.      *)
(*                                                                         *)
(* A path is the sequence of its names; Root is the one watched, in the    *)
(* directory Above, which also holds a name outside the scope. What a file *)
(* holds is told by when it was written, and times are fine enough to tell *)
(* any two changes apart. Hard links, links, sizes, owners, what is too    *)
(* large, too deep, too many or on another device, and how many of the     *)
(* reports the journal takes, are left out.                                *)
(***************************************************************************)
EXTENDS Naturals, Sequences, SequencesExt, FiniteSets, FiniteSetsExt, Functions, TLC

CONSTANTS
  Names,            \* the names a directory may hold, as positive numbers
  Inodes,
  Hosts,            \* what the host may hold as the agent starts
  MaxDepth,         \* bound: names of a path
  Watchers,         \* whether the kernel may watch directories for the collector
  Interleaved,      \* whether the host also changes but while the collector waits
  MaxEvents         \* bound: changes of the host and of the scope, and stops of the agent

VARIABLES
  host,             \* the inodes of the host
  clock,            \* the events so far, which is the time of a change
  wanted,           \* the names the scope the agent is given leaves out
  file,             \* the baseline written down
  proc,             \* the collector
  pass,             \* the pass it is in
  told              \* what the reports say of every path

vars == <<host, clock, wanted, file, proc, pass, told>>

Above == 0
Missing == Cardinality(Inodes) + 1
Root == <<0>>
Outside == 1
Nothing == <<>>
NoNode == [kind |-> "none", modified |-> 0, changed |-> 0, entries |-> Nothing]

Paths == {Root \o s : s \in UNION {[1..n -> Names] : n \in 0..MaxDepth - 1}}
Without(f, S) == Restrict(f, DOMAIN f \ S)
Under(f, path) == {p \in DOMAIN f : IsPrefix(path, p)}
Within(f, path) == Under(f, path) \ {path}
Children(f, path) == {p \in Within(f, path) : Len(p) = Len(path) + 1}

(* What a name stands for, as Stat says. *)
Found(dir, name) == name \in DOMAIN host[dir].entries
At(dir, name) == host[dir].entries[name]
Node(inode) == [inode |-> inode, kind |-> host[inode].kind, modified |-> host[inode].modified, changed |-> host[inode].changed]

(* A directory is entered, and a file read, by the name it was seen under when
   that still stands for what was seen. *)
Enter(dir, name, seen) == Found(dir, name) /\ At(dir, name) = seen.inode /\ host[seen.inode].kind = "dir"
Read(dir, name, seen) == Found(dir, name) /\ At(dir, name) = seen.inode /\ host[seen.inode].kind = "file"
Listing(dir) == DOMAIN host[dir].entries

(* An entry of the baseline: the node seen, what its content digests to, 0
   when that is not known, and whether the directory was listed. *)
Entry(node, content, listed) == [node |-> node, content |-> content, listed |-> listed]
Said(entry) == [inode |-> entry.node.inode, kind |-> entry.node.kind, modified |-> entry.node.modified]
Sayings(held) == [p \in DOMAIN held |-> Said(held[p])]

Unwritten == [written |-> FALSE, held |-> Nothing, observed |-> FALSE, fresh |-> {}, exclude |-> {}]
Off == [at |-> "off", held |-> Nothing, observed |-> FALSE, fresh |-> {}, exclude |-> {},
        dirty |-> {}, moved |-> FALSE, lost |-> FALSE, watcher |-> FALSE, watches |-> Nothing]
NoPlace == [dir |-> Above, path |-> <<>>, node |-> [inode |-> 0, kind |-> "none", modified |-> 0, changed |-> 0],
            unseen |-> FALSE, content |-> 0]
NoPass == [at |-> "none", whole |-> FALSE, jobs |-> {}, stack |-> <<>>, look |-> NoPlace,
           vanished |-> {}, appeared |-> {}, trees |-> Nothing]

Init ==
  /\ host \in Hosts /\ clock = 1
  /\ wanted = {}
  /\ file = Unwritten
  /\ proc = Off /\ pass = NoPass
  /\ told = Nothing

Event == clock <= MaxEvents /\ clock' = clock + 1

environment == <<host, clock, wanted>>

-----------------------------------------------------------------------------
(* excludes: a pattern leaves a name out, never the path the scope names. *)
excludes(exclude, path) == path # Root /\ Last(path) \in exclude
covers(exclude, path) == IsPrefix(Root, path) /\ ~excludes(exclude, path)

(* rebuild: an entry is held when the scope covers it and its directory is
   held. *)
rebuild(held, exclude) ==
  Restrict(held, {p \in DOMAIN held : \A q \in Under(held, Root) : IsPrefix(q, p) => ~excludes(exclude, q)})

(* rescope: what the new scope watches that the one before left out is fresh
   until a walk of every path ended. *)
rescoped(saved, exclude) ==
  [held |-> rebuild(saved.held, exclude), fresh |-> saved.fresh \cup (saved.exclude \ exclude)]

(* load: the baseline written down, within the scope given now, and nothing
   when there is none or it is damaged. *)
load == IF file.written THEN rescoped(file, wanted) ELSE [held |-> Nothing, fresh |-> {}]

Walk(whole) == [NoPass EXCEPT !.at = "above", !.whole = whole]

(* begin: the baseline written down, within the scope the agent is given now,
   or none, and a walk of every path. *)
begin ==
  /\ proc.at = "off"
  /\ \E watcher \in Watchers :
       LET held == load
       IN /\ proc' = [Off EXCEPT !.at = "pass", !.held = held.held, !.observed = file.written /\ file.observed, !.fresh = held.fresh,
                                 !.exclude = wanted, !.watcher = watcher]
          /\ told' = Sayings(held.held)
  /\ pass' = Walk(TRUE)
  /\ UNCHANGED <<environment, file>>

-----------------------------------------------------------------------------
(* watch: the kernel tells what happens in the directory, under the path the
   collector reached it by. *)
watch(p, dir, path) == IF p.watcher THEN [p EXCEPT !.watches = (dir :> path) @@ @] ELSE p

Held(path) == path \in DOMAIN proc.held
Apart(path) == \E top \in pass.appeared : IsPrefix(top, path)
fresh(path) == Last(path) \in proc.fresh

(* What compare finds between two looks at a name: when a name moved, that its
   inode changed is no change. *)
compare(before, after, moved) ==
  IF before.node.kind # after.node.kind THEN {"kind"}
  ELSE LET content == IF before.content # 0 /\ after.content # 0 THEN before.content # after.content
                      ELSE before.node.modified # after.node.modified
           changes == (IF before.node.inode # after.node.inode THEN {"identity"} ELSE {})
                      \cup (IF after.node.kind = "file" /\ content THEN {"content"} ELSE {})
       IN IF changes = {} /\ ~moved /\ after.node.kind = "file" /\ before.node.changed # after.node.changed
          THEN {"attributes"} ELSE changes

(* observe: a name new to the baseline is taken as it is when the module had
   not listed its directory or did not watch it before, and otherwise appeared;
   one the baseline holds is compared with it and updated in place, with what a
   directory held when it is none any more. *)
observe(p, at, content) ==
  LET now == Entry(at.node, content, FALSE)
      path == at.path
      after == [p EXCEPT !.at = IF at.node.kind = "dir" THEN "enter" ELSE "next", !.look = [at EXCEPT !.content = content]]
  IN \/ /\ Apart(path)
        /\ pass' = [after EXCEPT !.trees = (path :> now) @@ @]
        /\ UNCHANGED <<proc, told>>
     \/ /\ ~Apart(path) /\ ~Held(path) /\ (at.unseen \/ fresh(path))
        /\ proc' = [proc EXCEPT !.held = (path :> now) @@ @, !.observed = TRUE]
        /\ told' = (path :> Said(now)) @@ told
        /\ pass' = after
     \/ /\ ~Apart(path) /\ ~Held(path) /\ ~at.unseen /\ ~fresh(path)
        /\ pass' = [after EXCEPT !.appeared = @ \cup {path}, !.trees = (path :> now) @@ @]
        /\ UNCHANGED <<proc, told>>
     \/ /\ ~Apart(path) /\ Held(path)
        /\ LET prior == proc.held[path]
               gone == IF now.node.kind = "dir" THEN {} ELSE Within(proc.held, path)
               kept == [now EXCEPT !.listed = now.node.kind = "dir" /\ (prior.listed \/ prior.node.kind # "dir")]
               says == IF compare(prior, now, FALSE) = {} THEN told ELSE (path :> Said(now)) @@ told
           IN /\ proc' = [proc EXCEPT !.held = (path :> kept) @@ Without(@, gone), !.observed = TRUE]
              /\ told' = Without(says, gone)
              /\ pass' = after

(* content: a file seen before, and not changed since, is not read again. *)
Looked(p, at) ==
  LET seen == Held(at.path) /\ proc.held[at.path].content # 0 /\ proc.held[at.path].node = at.node
  IN \/ /\ at.node.kind = "file" /\ ~(seen /\ ~Apart(at.path))
        /\ pass' = [p EXCEPT !.at = "read", !.look = at]
        /\ UNCHANGED <<proc, told>>
     \/ /\ at.node.kind = "file" /\ seen /\ ~Apart(at.path)
        /\ observe(p, at, proc.held[at.path].content)
     \/ /\ at.node.kind = "dir"
        /\ observe(p, at, 0)

Placed(dir, path, unseen) == [dir |-> dir, path |-> path, node |-> Node(At(dir, Last(path))), unseen |-> unseen, content |-> 0]

(* root: the path the scope names, through the directory that holds it. *)
above ==
  /\ pass.at = "above"
  /\ proc' = watch(proc, Above, <<>>)
  /\ pass' = [pass EXCEPT !.at = "root"]
  /\ UNCHANGED <<environment, file, told>>

root ==
  /\ pass.at = "root"
  /\ \/ /\ ~Found(Above, 0)
        /\ proc' = [proc EXCEPT !.observed = TRUE, !.held = IF proc.observed THEN @ ELSE Nothing]
        /\ pass' = [pass EXCEPT !.at = "next", !.vanished = IF Held(Root) /\ proc.observed THEN @ \cup {Root} ELSE @]
        /\ UNCHANGED told
     \/ /\ Found(Above, 0)
        /\ Looked(pass, Placed(Above, Root, ~proc.observed))
  /\ UNCHANGED <<environment, file>>

(* hash: the file the name stands for is read when it is the one looked at;
   what was read is its digest when nothing changed it since the look. *)
read ==
  /\ pass.at = "read"
  /\ LET look == pass.look
     IN \/ /\ Read(look.dir, Last(look.path), look.node)
           /\ pass' = [pass EXCEPT !.at = "check", !.look.content = host[look.node.inode].modified]
           /\ UNCHANGED <<proc, told>>
        \/ /\ ~Read(look.dir, Last(look.path), look.node)
           /\ observe(pass, look, 0)
  /\ UNCHANGED <<environment, file>>

check ==
  /\ pass.at = "check"
  /\ observe(pass, pass.look, IF Node(pass.look.node.inode) = pass.look.node THEN pass.look.content ELSE 0)
  /\ UNCHANGED <<environment, file>>

-----------------------------------------------------------------------------
Listed(path) == IF Apart(path) THEN pass.trees[path].listed ELSE proc.held[path].listed
Frame(dir, path) == [dir |-> dir, path |-> path, todo |-> {}, present |-> {}, listed |-> Listed(path)]

(* descend: a directory is entered when its name still stands for it, and
   otherwise is not listed. *)
descend ==
  /\ pass.at = "enter"
  /\ LET look == pass.look
     IN \/ /\ Enter(look.dir, Last(look.path), look.node)
           /\ proc' = watch(proc, look.node.inode, look.path)
           /\ pass' = [pass EXCEPT !.at = "list", !.stack = <<Frame(look.node.inode, look.path)>> \o @, !.look = NoPlace]
        \/ /\ ~Enter(look.dir, Last(look.path), look.node)
           /\ pass' = [pass EXCEPT !.at = "next", !.look = NoPlace]
           /\ UNCHANGED proc
  /\ UNCHANGED <<environment, file, told>>

Top == Head(pass.stack)

(* visit: the names of the directory that the scope walks. *)
list ==
  /\ pass.at = "list"
  /\ pass' = [pass EXCEPT !.at = "next", !.stack[1].todo = {n \in Listing(Top.dir) : n \notin proc.exclude}]
  /\ UNCHANGED <<environment, file, proc, told>>

visit ==
  /\ pass.at = "next" /\ pass.stack # <<>> /\ Top.todo # {}
  /\ LET name == Min(Top.todo)
         path == Append(Top.path, name)
         rest == [pass EXCEPT !.stack[1].todo = @ \ {name}]
     IN \/ /\ ~Found(Top.dir, name)
           /\ pass' = rest
           /\ UNCHANGED <<proc, told>>
        \/ /\ Found(Top.dir, name)
           /\ Looked([pass EXCEPT !.stack[1].todo = @ \ {name}, !.stack[1].present = @ \cup {name}], Placed(Top.dir, path, ~Top.listed))
  /\ UNCHANGED <<environment, file>>

Saved(p) == [written |-> TRUE, held |-> p.held, observed |-> p.observed, fresh |-> p.fresh, exclude |-> p.exclude]

(* What the baseline holds of the directory and the listing does not name
   vanished, or was never known to be there. *)
leave ==
  /\ pass.at = "next" /\ pass.stack # <<>> /\ Top.todo = {}
  /\ LET path == Top.path
         missing == {p \in Children(proc.held, path) : Last(p) \notin Top.present /\ ~excludes(proc.exclude, p)}
         dropped == UNION {Under(proc.held, p) : p \in missing}
         left == [pass EXCEPT !.stack = Tail(@)]
     IN \/ /\ Apart(path)
           /\ pass' = [left EXCEPT !.trees[path].listed = TRUE]
           /\ UNCHANGED <<proc, told>>
        \/ /\ ~Apart(path) /\ Top.listed
           /\ pass' = [left EXCEPT !.vanished = @ \cup missing]
           /\ UNCHANGED <<proc, told>>
        \/ /\ ~Apart(path) /\ ~Top.listed
           /\ pass' = left
           /\ proc' = [proc EXCEPT !.held = [Without(@, dropped) EXCEPT ![path].listed = TRUE]]
           /\ told' = Without(told, dropped)
  /\ file' \in {file, Saved(proc')}
  /\ UNCHANGED environment

-----------------------------------------------------------------------------
(* hinted: the directory of every name is opened by its path, and is looked
   through when it is the one the baseline holds there; otherwise the path the
   scope names is walked. *)
Resolve(path) ==
  LET step(dir, name) == IF dir # Missing /\ name \in DOMAIN host[dir].entries THEN At(dir, name) ELSE Missing
      reached[n \in 0..Len(path)] == IF n = 0 THEN Above ELSE step(reached[n - 1], path[n])
  IN reached[Len(path)]
Opens(path) ==
  LET dir == Front(path)
  IN /\ path # Root
     /\ Held(dir) /\ proc.held[dir].node.kind = "dir"
     /\ Resolve(dir) = proc.held[dir].node.inode /\ host[Resolve(dir)].kind = "dir"

Hinted(hints, moved) ==
  LET ready == {p \in hints : covers(proc.exclude, p)}
  IN IF moved \/ \E p \in ready : ~Opens(p) THEN Walk(FALSE)
     ELSE [NoPass EXCEPT !.at = "next", !.jobs = {[dir |-> Resolve(Front(p)), path |-> p] : p \in ready}]

(* A name the kernel spoke of, through the directory that was opened. *)
job ==
  /\ pass.at = "next" /\ pass.stack = <<>>
  /\ \E j \in pass.jobs :
       LET parent == Front(j.path)
           same == Held(parent) /\ proc.held[parent].node.inode = j.dir
           listed == proc.held[parent].listed
           rest == [pass EXCEPT !.jobs = @ \ {j}]
       IN \/ /\ ~same
             /\ pass' = rest
             /\ UNCHANGED <<proc, told>>
          \/ /\ same /\ ~Found(j.dir, Last(j.path))
             /\ pass' = IF Held(j.path) /\ listed THEN [rest EXCEPT !.vanished = @ \cup {j.path}] ELSE rest
             /\ proc' = IF listed THEN proc ELSE [proc EXCEPT !.held = Without(@, Under(@, j.path))]
             /\ told' = IF listed THEN told ELSE Without(told, Under(told, j.path))
          \/ /\ same /\ Found(j.dir, Last(j.path))
             /\ Looked(rest, Placed(j.dir, j.path, ~listed))
  /\ UNCHANGED <<environment, file>>

-----------------------------------------------------------------------------
(* finish: a name that went and one that came are the one file moved when no
   other name that went or came is that file and it is alike in both looks. *)
alike(before, after) ==
  before.kind = after.kind /\ (after.kind = "dir" \/ before.modified = after.modified)

Moves ==
  {m \in pass.vanished \X pass.appeared :
     LET inode == pass.trees[m[2]].node.inode
     IN /\ {v \in pass.vanished : proc.held[v].node.inode = inode} = {m[1]}
        /\ {a \in pass.appeared : pass.trees[a].node.inode = inode} = {m[2]}
        /\ alike(proc.held[m[1]].node, pass.trees[m[2]].node)}

Shift(path, from, to) == to \o SubSeq(path, Len(from) + 1, Len(path))

(* within: beneath a directory that moved, what differs is told as far as both
   looks have a directory and the second listed it. *)
Both(from, to, path) ==
  /\ path \in DOMAIN pass.trees /\ pass.trees[path].node.kind = "dir" /\ pass.trees[path].listed
  /\ Shift(path, to, from) \in DOMAIN proc.held /\ proc.held[Shift(path, to, from)].node.kind = "dir"
Compared(from, to, path) == \A n \in Len(to)..Len(path) - 1 : Both(from, to, SubSeq(path, 1, n))

\* Slip: what is beneath a directory that moved is taken to be as it was.
withinNothing(from, to) ==
  (to :> Said(pass.trees[to])) @@
  [p \in {Shift(q, from, to) : q \in Under(told, from)} |-> told[Shift(p, to, from)]]

(* What the reports of a move say of the path it went to and those beneath. *)
within(from, to) ==
  LET was == {Shift(p, from, to) : p \in Under(proc.held, from)}
      now == Under(pass.trees, to)
      only(S, T) == {p \in S : \E q \in S \ T : q # to /\ IsPrefix(q, p) /\ Compared(from, to, q)}
      differs(p) == compare(proc.held[Shift(p, to, from)], pass.trees[p], TRUE) # {}
      modified == {p \in was \cap now : p # to /\ Compared(from, to, p) /\ differs(p)}
      shifted == [p \in {Shift(q, from, to) : q \in Under(told, from)} |-> told[Shift(p, to, from)]]
  IN [p \in {to} \cup only(now, was) \cup modified |-> Said(pass.trees[p])] @@ Without(shifted, only(was, now))

(* What vanished leaves the baseline, what appeared enters it where its
   directory is still held, and the reports say so. *)
finish ==
  /\ pass.at = "next" /\ pass.stack = <<>> /\ pass.jobs = {}
  /\ LET moves == Moves
         created == {a \in pass.appeared : ~\E m \in moves : m[2] = a}
         gone(f) == UNION {Under(f, v) : v \in pass.vanished}
         come == UNION {Under(pass.trees, a) : a \in created}
         went == [m \in moves |-> within(m[1], m[2])]
         says(p) == IF \E m \in moves : p \in DOMAIN went[m] THEN went[CHOOSE m \in moves : p \in DOMAIN went[m]][p]
                    ELSE IF p \in come THEN Said(pass.trees[p]) ELSE told[p]
         base == Without(proc.held, gone(proc.held))
         placed == {a \in pass.appeared : a = Root \/ Front(a) \in DOMAIN base}
     IN /\ proc' = [proc EXCEPT !.at = "save", !.fresh = IF pass.whole THEN {} ELSE @,
                                !.held = Restrict(pass.trees, UNION {Under(pass.trees, a) : a \in placed}) @@ base]
        /\ told' = [p \in (DOMAIN told \ gone(told)) \cup come \cup UNION {DOMAIN went[m] : m \in moves} |-> says(p)]
  /\ pass' = NoPass
  /\ UNCHANGED <<environment, file>>

(* save: the baseline replaces the one written down. *)
save ==
  /\ proc.at = "save"
  /\ file' = Saved(proc)
  /\ proc' = [proc EXCEPT !.at = "wait"]
  /\ UNCHANGED <<environment, pass, told>>

-----------------------------------------------------------------------------
(* serve: the collector walks every interval, applies the scope it is given,
   and looks at the names that settled; when hints were lost it forgets the
   rest and walks. *)
interval ==
  /\ proc.at = "wait"
  /\ proc' = [proc EXCEPT !.at = "pass"]
  /\ pass' = Walk(TRUE)
  /\ UNCHANGED <<environment, file, told>>

rescope ==
  /\ proc.at = "wait" /\ wanted # proc.exclude
  /\ LET held == rescoped(proc, wanted)
     IN /\ proc' = [proc EXCEPT !.at = "pass", !.held = held.held, !.fresh = held.fresh, !.exclude = wanted,
                                !.watches = Restrict(@, {d \in DOMAIN @ : @[d] = <<>> \/ covers(wanted, @[d])})]
        /\ told' = Restrict(told, DOMAIN told \cap DOMAIN held.held)
  /\ pass' = Walk(TRUE)
  /\ UNCHANGED <<environment, file>>

(* due: the hints that settled, which may be any of them. *)
due == {proc.dirty} \cup {{p} : p \in proc.dirty}

\* Slip: taking the hints that settled forgets the ones that did not.
realtimeClearing ==
  /\ proc.at = "wait"
  /\ \/ /\ proc.lost
        /\ proc' = [proc EXCEPT !.at = "pass", !.dirty = {}, !.moved = FALSE, !.lost = FALSE]
        /\ pass' = Walk(TRUE)
     \/ /\ ~proc.lost
        /\ \E ready \in due :
             /\ ready # {} \/ proc.moved
             /\ proc' = [proc EXCEPT !.at = "pass", !.dirty = {}, !.moved = FALSE]
             /\ pass' = Hinted(ready, proc.moved)
  /\ UNCHANGED <<environment, file, told>>

realtime ==
  /\ proc.at = "wait"
  /\ \/ /\ proc.lost
        /\ proc' = [proc EXCEPT !.at = "pass", !.dirty = {}, !.moved = FALSE, !.lost = FALSE]
        /\ pass' = Walk(TRUE)
     \/ /\ ~proc.lost
        /\ \E ready \in due :
             /\ ready # {} \/ proc.moved
             /\ proc' = [proc EXCEPT !.at = "pass", !.dirty = @ \ ready, !.moved = FALSE]
             /\ pass' = Hinted(ready, proc.moved)
  /\ UNCHANGED <<environment, file, told>>

-----------------------------------------------------------------------------
(* heard: what the kernel says of the directories it watches, the names
   changed in them and what happened to them. Hints it drops make the next
   look a walk. *)
Hints(changed, selves) ==
  {q \in {Append(proc.watches[c[1]], c[2]) : c \in {c \in changed : c[1] \in DOMAIN proc.watches}}
         \cup {proc.watches[d] : d \in selves \cap DOMAIN proc.watches} : covers(proc.exclude, q)}

heard(changed, selves, directory, ended) ==
  LET hints == Hints(changed, selves)
      known == [proc EXCEPT !.watches = Without(@, ended)]
  IN \/ proc' = [known EXCEPT !.dirty = @ \cup hints, !.moved = @ \/ (directory /\ hints # {})]
     \/ hints # {} /\ proc' = [known EXCEPT !.lost = TRUE]

Changing == Event /\ (Interleaved \/ proc.at = "wait")
Dirs == {d \in DOMAIN host : host[d].kind = "dir"}
Places == {p \in Dirs \X ({0} \cup Names) : p[2] \in DOMAIN host[p[1]].entries}
Location(dir) == IF dir = Above THEN <<>> ELSE CHOOSE p \in Paths \cup {<<Outside>> \o Tail(q) : q \in Paths} : Resolve(p) = dir
Free(dir, name) == name \notin DOMAIN host[dir].entries /\ (dir = Above => name \in {0, Outside}) /\ (dir # Above => name # 0)
Deepest(inode) == IF \E n \in DOMAIN host[inode].entries : host[host[inode].entries[n]].kind = "dir" THEN 2
                  ELSE IF DOMAIN host[inode].entries # {} THEN 1 ELSE 0

Create(dir, name, inode, kind) ==
  /\ Changing
  /\ Free(dir, name) /\ Len(Location(dir)) < MaxDepth
  /\ host[inode].kind = "none"
  /\ LET at == IF kind = "file" THEN clock' ELSE 0
     IN host' = [host EXCEPT ![dir].entries = (name :> inode) @@ @,
                             ![inode] = [kind |-> kind, modified |-> at, changed |-> at, entries |-> Nothing]]
  /\ heard({<<dir, name>>}, {}, FALSE, {})
  /\ UNCHANGED <<wanted, file, pass, told>>

Write(dir, name) ==
  /\ Changing
  /\ LET inode == At(dir, name)
     IN /\ host[inode].kind = "file"
        /\ host' = [host EXCEPT ![inode].modified = clock', ![inode].changed = clock']
  /\ heard({<<dir, name>>}, {}, FALSE, {})
  /\ UNCHANGED <<wanted, file, pass, told>>

Delete(dir, name) ==
  /\ Changing
  /\ LET inode == At(dir, name)
     IN /\ host[inode].entries = Nothing
        /\ host' = [host EXCEPT ![dir].entries = Without(@, {name}), ![inode] = NoNode]
        /\ heard({<<dir, name>>}, {inode}, FALSE, {inode})
  /\ UNCHANGED <<wanted, file, pass, told>>

(* A name moves to one that is free, or a file to that of another. *)
Move(dir, name, to, as) ==
  /\ Changing
  /\ LET inode == At(dir, name)
         over == IF Free(to, as) THEN {} ELSE {At(to, as)}
         taken == [host EXCEPT ![dir].entries = Without(@, {name})]
         moved == [taken EXCEPT ![to].entries = (as :> inode) @@ @,
                                ![inode].changed = IF host[inode].kind = "file" THEN clock' ELSE @]
         directory == host[inode].kind = "dir"
     IN /\ <<dir, name>> # <<to, as>>
        /\ \/ Free(to, as)
           \/ <<to, as>> \in Places /\ ~directory /\ host[At(to, as)].kind = "file"
        /\ ~IsPrefix(Append(Location(dir), name), Location(to))
        /\ Len(Location(to)) + 1 + Deepest(inode) <= MaxDepth
        /\ host' = [i \in DOMAIN host |-> IF i \in over THEN NoNode ELSE moved[i]]
        /\ heard({<<dir, name>>, <<to, as>>}, {inode}, directory, {})
  /\ UNCHANGED <<wanted, file, pass, told>>

Change ==
  \/ \E d \in Dirs, n \in {0} \cup Names :
       \/ \E i \in Inodes, kind \in {"file", "dir"} : Create(d, n, i, kind)
       \/ /\ <<d, n>> \in Places
          /\ \/ Write(d, n)
             \/ Delete(d, n)
             \/ \E e \in Dirs, m \in {0} \cup Names : Move(d, n, e, m)

(* The agent is given another scope. *)
Give(exclude) ==
  /\ Event
  /\ exclude # wanted /\ wanted' = exclude
  /\ UNCHANGED <<host, file, proc, pass, told>>

(* The agent stops, which writes the baseline down as the pass left it, or is
   killed. *)
End(written) ==
  /\ proc.at # "off" /\ Event
  /\ file' = IF written THEN Saved(proc) ELSE file
  /\ proc' = Off /\ pass' = NoPass /\ told' = Nothing
  /\ UNCHANGED <<host, wanted>>

Damage ==
  /\ proc.at = "off" /\ file.written /\ Event
  /\ file' = [file EXCEPT !.written = FALSE]
  /\ UNCHANGED <<host, wanted, proc, pass, told>>

Environment ==
  \/ Change \/ Damage
  \/ \E exclude \in {{}, {Max(Names)}} : Give(exclude)
  \/ \E written \in BOOLEAN : End(written)

Step ==
  \/ begin \/ above \/ root \/ read \/ check \/ descend \/ list \/ visit \/ leave
  \/ job \/ finish \/ save \/ rescope \/ realtime

Next == Step \/ interval \/ Environment

Spec == Init /\ [][Next]_vars

-----------------------------------------------------------------------------
(* Properties. *)

Seen == {p \in Paths : Resolve(p) # Missing /\ \A n \in 2..Len(p) : p[n] \notin proc.exclude}
Matches ==
  /\ DOMAIN proc.held = Seen
  /\ \A p \in Seen : Said(proc.held[p]) = Said([node |-> Node(Resolve(p))])
  /\ \A p \in Seen : proc.held[p].content = host[Resolve(p)].modified

(* What the reports say of the host, one after the other from the baseline the
   collector started from, is what its baseline holds, in every directory it
   listed: nothing enters, leaves or changes in the baseline without a report,
   whichever way a pass came to see it. *)
ToldIsHeld ==
  proc.at # "off" =>
    LET live == {p \in DOMAIN told : \A n \in 1..Len(p) : SubSeq(p, 1, n) \in DOMAIN told}
        known(p) == p = Root \/ (Front(p) \in DOMAIN proc.held /\ proc.held[Front(p)].listed)
    IN /\ \A p \in DOMAIN proc.held : known(p) => p \in live /\ told[p] = Said(proc.held[p])
       /\ \A p \in live : known(p) => p \in DOMAIN proc.held

(* Once the collector handled every hint the kernel gave it, the baseline is
   what the host holds: no change slips between the listing of a directory and
   the watch on it, whatever moved meanwhile. *)
QuietIsSeen ==
  proc.at = "wait" /\ proc.watcher /\ proc.dirty = {} /\ ~proc.moved /\ ~proc.lost /\ wanted = proc.exclude => Matches

(* A digest in the baseline is that of the file as its node describes it,
   whatever was written while the file was read. *)
DigestIsOfNode ==
  \A p \in DOMAIN proc.held :
    LET e == proc.held[p] IN e.content # 0 => e.content = e.node.modified
=============================================================================
