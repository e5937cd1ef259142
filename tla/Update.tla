------------------------------- MODULE Update -------------------------------
(***************************************************************************)
(* How a release reaches the host (internal/update and the update command  *)
(* of cmd/seagull-agent/updates.go). The follower, in the agent, judges    *)
(* what the platform offers and stages it; the installer, a service of its *)
(* own that a path unit starts, judges it again, installs it, checks that  *)
(* it runs and goes back when it does not. They share the staging          *)
(* directory and the installer's journal, and either may stop anywhere.    *)
(*                                                                         *)
(* A release is its version, a root its version, and a package the version *)
(* of the release it holds. Writes are whole or absent (keep, written).    *)
(***************************************************************************)
EXTENDS Naturals, Sequences

CONSTANTS
  Releases,        \* versions, in the order Version.Compare gives them
  Offers,          \* what the platform may hand over
  MaxTime,         \* bound: the clock stops here
  MaxStops         \* bound: how often the agent or the installer is stopped

ASSUME ReleasesAssumption == Releases \subseteq Nat \ {0}

None == 0
NoCatalog == [version |-> 0, by |-> 0, ends |-> 0, names |-> {}, replaces |-> {}, oldest |-> 0]
NoOffer == [roots |-> <<>>, version |-> None, catalog |-> NoCatalog]

VARIABLES
  now, stops,
  agent,           \* the release the agent's process runs, None while it is down
  began,           \* the moments the agent's run began after: "started", "since"
  generation,      \* the generation of the local state
  heldA, heldI,    \* what the agent and the installer verified: root, catalog
  follower,        \* the memory of the Follower
  staging,         \* the staging directory
  journal,         \* the installer's journal
  pending,         \* the mark the path unit watches
  kept,            \* the packages in the installer's directory
  installed,       \* the release whose files are on the host
  installer        \* the installer's process

memory == <<agent, began, generation, follower>>
disk == <<staging, journal, pending, kept>>
vars == <<now, stops, agent, began, generation, heldA, heldI, follower, staging,
          journal, pending, kept, installed, installer>>

Empty == [ready |-> FALSE, offer |-> NoOffer, packages |-> {}]
NoJournal == [stage |-> "none", version |-> None, previous |-> None, catalog |-> 0,
              packages |-> {}]
Off == [at |-> "off", running |-> None, journal |-> NoJournal]
Fresh == [at |-> "idle", offered |-> NoOffer, stagedAs |-> <<None, 0>>, fallback |-> None,
          state |-> [stage |-> "none", version |-> None, catalog |-> 0]]

Done(j) == j.stage \in {"none", "installed", "rolled_back", "failed"}

(* The generation of state a release keeps: the newest release moves it on. *)
Keeps(release) == IF \A r \in Releases : r <= release THEN 2 ELSE 1

Init ==
  /\ now = 0 /\ stops = 0
  /\ installed \in Releases
  /\ agent = installed /\ began = {} /\ generation = Keeps(installed)
  /\ heldA = [root |-> 1, catalog |-> 0] /\ heldI = heldA
  /\ follower = Fresh /\ staging = Empty
  /\ journal = NoJournal /\ pending = FALSE /\ kept = {} /\ installer = Off

-----------------------------------------------------------------------------
(* Root.Next and Root.Walk: a root follows when the root keys of the one
   trusted signed it, it is one decodeRoot takes and its version is the next
   one; any other is passed over. *)
Sound(envelope) == envelope.sound

(* signedBy: enough of the keys the root names for the role. *)
SignedBy(by, root) == by = root

NextRoot(root, envelope) ==
  IF Sound(envelope) /\ SignedBy(envelope.by, root) /\ envelope.version = root + 1 THEN root + 1 ELSE root

Walk(root, roots) ==
  LET after[i \in 0 .. Len(roots)] == IF i = 0 THEN root ELSE NextRoot(after[i - 1], roots[i])
  IN after[Len(roots)]

RootExpired(root, at) == at >= root
Expired(catalog, at) == at >= catalog.ends

(* Root.Catalog, for catalogs and releases validateCatalog takes. *)
Authentic(c, root) == c # NoCatalog /\ ~RootExpired(root, now) /\ SignedBy(c.by, root)

(* Version.Compare. *)
Older(version, than) == version < than

(* Whether a release may be installed over the one that runs, on state of a
   generation, with the running one to go back to. *)
MayInstall(c, version, running, state) ==
  /\ {version, running} \subseteq c.names
  /\ Older(version, running) => running \in c.replaces
  /\ Older(running, version) => ~Older(running, c.oldest)
  /\ Keeps(version) >= state

(* Judge. What it verified on the way is in the judgment when it refuses. *)
Judge(offer, held, running, state) ==
  LET root == Walk(held.root, offer.roots)
      c == offer.catalog
      given == c # NoCatalog
      verified == Authentic(c, root) /\ c.version >= held.catalog /\ ~Expired(c, now)
      asks == offer.version \notin {None, running}
      may == MayInstall(c, offer.version, running, state)
  IN [root |-> root,
      catalog |-> IF verified THEN c.version ELSE 0,
      target |-> IF verified /\ asks /\ may THEN offer.version ELSE None,
      refused |-> IF given THEN ~verified \/ (asks /\ ~may) ELSE offer.version # None]

Progressed(judged, held) == judged.root > held.root \/ judged.catalog > held.catalog

(* Judgment.Held, once it is more than what was held. *)
Held(judged, held) ==
  IF Progressed(judged, held) THEN [root |-> judged.root, catalog |-> judged.catalog] ELSE held

(* Store.Keep writes it whole, or what was held stays. *)
Keep(judged, held) == {held, Held(judged, held)}

-----------------------------------------------------------------------------
(* The follower. *)

About(stage, version, catalog) == [stage |-> stage, version |-> version, catalog |-> catalog]
StateOf(j) == About(j.stage, j.version, j.catalog)

(* consider, up to the packages it fetches, given the journal it read. What it
   cannot keep of what it verified stays as it was held. *)
consider(offered, read) ==
  LET judged == Judge(offered, heldA, agent, Keeps(agent))
      attempt == <<judged.target, judged.catalog>>
      tried == read.stage \in {"rolled_back", "failed"} /\ attempt = <<read.version, read.catalog>>
      says(state) == follower' = [follower EXCEPT !.offered = offered, !.state = state]
  IN \/ /\ ~Done(read)
        /\ says(StateOf(read))
        /\ UNCHANGED <<heldA, staging>>
     \/ /\ Done(read) /\ staging.ready
        /\ says(IF follower.state.stage = "staged" THEN follower.state ELSE About("staged", None, 0))
        /\ UNCHANGED <<heldA, staging>>
     \/ /\ Done(read) /\ ~staging.ready /\ offered = NoOffer
        /\ says(StateOf(read))
        /\ UNCHANGED <<heldA, staging>>
     \/ /\ Done(read) /\ ~staging.ready /\ offered # NoOffer
        /\ heldA' \in Keep(judged, heldA)
        /\ IF judged.refused
           THEN says(About("failed", offered.version, judged.catalog)) /\ UNCHANGED staging
           ELSE IF judged.target = None \/ tried
           THEN says(StateOf(read)) /\ UNCHANGED staging
           ELSE /\ staging' = IF follower.stagedAs = attempt THEN staging ELSE Empty
                /\ follower' = [follower EXCEPT
                     !.at = "fetch", !.offered = offered, !.stagedAs = attempt, !.fallback = agent,
                     !.state = About("downloading", judged.target, judged.catalog)]

(* A journal that cannot be read counts as absent. *)
Consider(offered) == \E read \in {journal, NoJournal} : consider(offered, read)

(* Ask: the platform answers with an offer, or with none. A request that fails
   changes nothing but when the next one is made. *)
Ask ==
  /\ agent # None /\ follower.at = "idle"
  /\ \E offered \in Offers \cup {NoOffer} : Consider(offered)
  /\ UNCHANGED <<now, stops, agent, began, generation, heldI, journal, pending, kept, installed, installer>>

(* Run considers again, between two questions, while awaiting says so. *)
awaiting == follower.state.stage \in {"staged", "installing", "checking", "reverting"}

(* Slip: what is staged is watched, what is being installed is not. *)
WatchStaged ==
  /\ agent # None /\ follower.at = "idle"
  /\ follower.state.stage = "staged"
  /\ Consider(follower.offered)
  /\ UNCHANGED <<now, stops, agent, began, generation, heldI, journal, pending, kept, installed, installer>>

Watch ==
  /\ agent # None /\ follower.at = "idle"
  /\ awaiting
  /\ Consider(follower.offered)
  /\ UNCHANGED <<now, stops, agent, began, generation, heldI, journal, pending, kept, installed, installer>>

(* written, and verified of what it wrote. *)
Fetched(packages) == staging' = [staging EXCEPT !.packages = @ \cup packages]

(* Fetch, for the target and the release to go back to: a package is kept only
   when it is the one the release names. *)
Fetch ==
  /\ agent # None /\ follower.at = "fetch"
  /\ \/ /\ Fetched({follower.stagedAs[1], follower.fallback})
        /\ follower' = [follower EXCEPT !.at = "offer"]
     \/ \E stage \in {"downloading", "failed"}, got \in SUBSET {follower.stagedAs[1]} :
          /\ Fetched(got)
          /\ follower' = [follower EXCEPT !.at = "idle", !.state.stage = stage]
  /\ UNCHANGED <<now, stops, agent, began, generation, heldA, heldI, journal, pending, kept, installed, installer>>

(* Hand: the offer first, the mark that starts the installer last. *)
HandOffer ==
  /\ agent # None /\ follower.at = "offer"
  /\ \/ /\ staging' = [staging EXCEPT !.offer = follower.offered]
        /\ follower' = [follower EXCEPT !.at = "ready"]
     \/ /\ follower' = [follower EXCEPT !.at = "idle", !.state.stage = "failed"]
        /\ UNCHANGED staging
  /\ UNCHANGED <<now, stops, agent, began, generation, heldA, heldI, journal, pending, kept, installed, installer>>

HandReady ==
  /\ agent # None /\ follower.at = "ready"
  /\ staging' = [staging EXCEPT !.ready = TRUE]
  /\ follower' = [follower EXCEPT !.at = "idle", !.state.stage = "staged"]
  /\ UNCHANGED <<now, stops, agent, began, generation, heldA, heldI, journal, pending, kept, installed, installer>>

(* The agent's service starts: KeepGeneration never lowers the generation. *)
AgentStarts ==
  /\ agent = None
  /\ agent' = installed
  /\ began' = {"started", "since"}
  /\ generation' = IF Keeps(installed) > generation THEN Keeps(installed) ELSE generation
  /\ follower' = Fresh
  /\ UNCHANGED <<now, stops, heldA, heldI, staging, journal, pending, kept, installed, installer>>

AgentStops ==
  /\ agent # None /\ stops < MaxStops
  /\ agent' = None /\ stops' = stops + 1
  /\ UNCHANGED <<now, began, generation, heldA, heldI, follower, staging, journal, pending, kept, installed, installer>>

-----------------------------------------------------------------------------
(* The installer. *)

(* resume, by the stage the journal was left at. *)
resume(j) ==
  [at |-> CASE j.stage = "installing" -> "install"
            [] j.stage = "checking" -> "check"
            [] j.stage = "reverting" -> "revert",
   running |-> installed, journal |-> j]

(* Slip: the path unit watches what is ready, and not what is pending. *)
InstallerStartsReady ==
  /\ installer.at = "off"
  /\ staging.ready
  /\ \/ /\ ~Done(journal)
        /\ installer' = resume(journal)
     \/ /\ Done(journal)
        /\ installer' = [at |-> "take", running |-> installed, journal |-> NoJournal]
  /\ UNCHANGED <<now, stops, agent, began, generation, heldA, heldI, follower, staging, journal, pending, kept, installed>>

(* The path unit starts the service, and Run reads the journal: an installation
   that was interrupted is resumed, a release that is ready is taken. *)
InstallerStarts ==
  /\ installer.at = "off"
  /\ staging.ready \/ pending
  /\ \/ /\ ~Done(journal)
        /\ installer' = resume(journal)
     \/ /\ Done(journal) /\ staging.ready
        /\ installer' = [at |-> "take", running |-> installed, journal |-> NoJournal]
  /\ UNCHANGED <<now, stops, agent, began, generation, heldA, heldI, follower, staging, journal, pending, kept, installed>>

Stays == <<now, stops, generation, heldA, follower>>

(* Staging.Clear. *)
Clear == staging' = Empty

(* ended: what was staged is cleared and the journal says failed; unmarking and
   pruning are what is left. *)
ended(j) ==
  /\ Clear
  /\ journal' = [j EXCEPT !.stage = "failed"]
  /\ installer' = [installer EXCEPT !.at = "unmark", !.journal = [j EXCEPT !.stage = "failed"]]

(* take, up to the judgment: what cannot be read is cleared, what is refused
   ends, and what asks for nothing is cleared. *)
TakeJudge ==
  /\ installer.at = "take"
  /\ LET judged == Judge(staging.offer, heldI, installer.running, generation)
         j == [stage |-> "none", version |-> staging.offer.version, previous |-> installer.running,
               catalog |-> judged.catalog, packages |-> {}]
     IN \/ /\ staging.offer = NoOffer \/ Progressed(judged, heldI)
           /\ Clear /\ installer' = Off
           /\ UNCHANGED <<heldI, journal>>
        \/ /\ staging.offer # NoOffer
           /\ heldI' = Held(judged, heldI)
           /\ IF judged.refused THEN ended(j)
              ELSE IF judged.target = None
              THEN Clear /\ installer' = Off /\ UNCHANGED journal
              ELSE installer' = [installer EXCEPT !.at = "copy", !.journal = j] /\ UNCHANGED <<staging, journal>>
  /\ UNCHANGED <<Stays, agent, began, pending, kept, installed>>

(* Staging.Take: a copy the agent's account cannot change, verified. *)
Taken(packages) == kept' = kept \cup packages

(* Slip: only the package of the target is copied. *)
TakeCopyTarget ==
  /\ installer.at = "copy"
  /\ LET j == installer.journal IN
     IF j.version \in staging.packages
     THEN /\ Taken({j.version})
          /\ Clear
          /\ installer' = [installer EXCEPT !.at = "match", !.journal.packages = {j.version}]
          /\ UNCHANGED journal
     ELSE ended(j) /\ UNCHANGED kept
  /\ UNCHANGED <<Stays, agent, began, heldI, pending, installed>>

(* take copies both packages, checking each copy, and clears the staging. *)
TakeCopy ==
  /\ installer.at = "copy"
  /\ LET j == installer.journal
         both == {j.version, j.previous}
     IN IF both \subseteq staging.packages
        THEN /\ Taken(both)
             /\ Clear
             /\ installer' = [installer EXCEPT !.at = "match", !.journal.packages = both]
             /\ UNCHANGED journal
        ELSE ended(j) /\ UNCHANGED kept
  /\ UNCHANGED <<Stays, agent, began, heldI, pending, installed>>

(* dpkg says whether each package is its release; then KeepJournal marks the
   installation pending. *)
TakeMatch ==
  /\ installer.at = "match"
  /\ \/ ended(installer.journal) /\ UNCHANGED pending
     \/ /\ pending' = TRUE
        /\ installer' = [installer EXCEPT !.at = "begin", !.journal.stage = "installing"]
        /\ UNCHANGED <<staging, journal>>
  /\ UNCHANGED <<Stays, agent, began, heldI, kept, installed>>

(* KeepJournal writes the journal of the installation that begins. A run of the
   agent that is up now began before it. *)
TakeBegin ==
  /\ installer.at = "begin"
  /\ journal' = installer.journal
  /\ installer' = [installer EXCEPT !.at = "install"]
  /\ began' = began \ {"started"}
  /\ UNCHANGED <<Stays, agent, heldI, staging, pending, kept, installed>>

(* Packages.Install replaces the files and restarts the agent, or fails, with
   the files of either release in place. *)
Package(release, then, otherwise) ==
  \/ /\ release \in kept
     /\ installed' = release /\ agent' = None
     /\ then
  \/ /\ installed' \in {installed, release}
     /\ UNCHANGED agent
     /\ otherwise

(* Slip: what dpkg said of the package is not looked at. *)
InstallAnyway ==
  /\ installer.at = "install"
  /\ Package(installer.journal.version,
             installer' = [installer EXCEPT !.at = "installed"],
             installer' = [installer EXCEPT !.at = "installed"])
  /\ UNCHANGED <<Stays, began, heldI, staging, journal, pending, kept>>

Install ==
  /\ installer.at = "install"
  /\ Package(installer.journal.version,
             installer' = [installer EXCEPT !.at = "installed"],
             installer' = [installer EXCEPT !.at = "revert"])
  /\ UNCHANGED <<Stays, began, heldI, staging, journal, pending, kept>>

KeepChecking ==
  /\ installer.at = "installed"
  /\ journal' = [installer.journal EXCEPT !.stage = "checking"]
  /\ installer' = [installer EXCEPT !.at = "check", !.journal = journal']
  /\ UNCHANGED <<Stays, agent, began, heldI, staging, pending, kept, installed>>

(* judged of updates.go: a run of the release that began after the moment says
   it runs as it should. *)
Healthy(release, moment) == agent = release /\ moment \in began

check ==
  /\ installer.at = "check"
  /\ \/ /\ Healthy(installer.journal.version, "started")
        /\ journal' = [installer.journal EXCEPT !.stage = "installed"]
        /\ installer' = [installer EXCEPT !.at = "unmark", !.journal = journal']
     \/ /\ installer' = [installer EXCEPT !.at = "revert"]
        /\ UNCHANGED journal
  /\ UNCHANGED <<Stays, agent, began, heldI, staging, pending, kept, installed>>

(* revert, up to the package: going back is refused once the state was moved
   past what the release before reads, and is written down otherwise. *)
revert ==
  /\ installer.at = "revert"
  /\ LET j == installer.journal IN
     IF Keeps(j.previous) < generation
     THEN ended(j) /\ UNCHANGED began
     ELSE /\ journal' = [j EXCEPT !.stage = "reverting"]
          /\ installer' = [installer EXCEPT !.at = "restore", !.journal = journal']
          /\ began' = IF j.stage = "reverting" THEN began ELSE began \ {"since"}
          /\ UNCHANGED staging
  /\ UNCHANGED <<Stays, agent, heldI, pending, kept, installed>>

Restore ==
  /\ installer.at = "restore"
  /\ Package(installer.journal.previous,
             installer' = [installer EXCEPT !.at = "recheck"] /\ UNCHANGED <<staging, journal>>,
             ended(installer.journal))
  /\ UNCHANGED <<Stays, began, heldI, pending, kept>>

Recheck ==
  /\ installer.at = "recheck"
  /\ \/ /\ Healthy(installer.journal.previous, "since")
        /\ journal' = [installer.journal EXCEPT !.stage = "rolled_back"]
        /\ installer' = [installer EXCEPT !.at = "unmark", !.journal = journal']
        /\ UNCHANGED staging
     \/ ended(installer.journal)
  /\ UNCHANGED <<Stays, agent, began, heldI, pending, kept, installed>>

(* KeepJournal takes the mark away once the journal is done, and pruned the
   packages the journal names. *)
Unmark ==
  /\ installer.at = "unmark"
  /\ pending' = FALSE
  /\ kept' = kept \ installer.journal.packages
  /\ installer' = Off
  /\ UNCHANGED <<Stays, agent, began, heldI, staging, journal, installed>>

(* The installer is killed, its time runs out, the host goes down, or a write
   of it fails: dpkg may have been halfway. *)
InstallerStops ==
  /\ installer.at # "off" /\ stops < MaxStops
  /\ stops' = stops + 1
  /\ installer' = Off
  /\ installed' \in {installed} \cup
       (IF installer.at = "install" THEN {installer.journal.version}
        ELSE IF installer.at = "restore" THEN {installer.journal.previous} ELSE {})
  /\ UNCHANGED <<now, memory, heldA, heldI, disk>>

Tick ==
  /\ now < MaxTime /\ now' = now + 1
  /\ UNCHANGED <<stops, memory, heldA, heldI, disk, installed, installer>>

Step ==
  \/ TakeJudge \/ TakeCopy \/ TakeMatch \/ TakeBegin \/ Install \/ KeepChecking
  \/ check \/ revert \/ Restore \/ Recheck \/ Unmark

Next ==
  \/ Ask \/ Watch \/ Fetch \/ HandOffer \/ HandReady \/ AgentStarts \/ AgentStops
  \/ InstallerStarts \/ Step \/ InstallerStops \/ Tick

(* The path unit starts the installer while there is something for it, the
   service restarts the agent, and a process that runs goes on: every command
   and every wait of either has a deadline. Nothing makes the platform answer. *)
Fairness ==
  /\ WF_vars(InstallerStarts) /\ WF_vars(Step) /\ WF_vars(AgentStarts)
  /\ WF_vars(Watch) /\ WF_vars(Fetch \/ HandOffer \/ HandReady)

Spec == Init /\ [][Next]_vars /\ Fairness

-----------------------------------------------------------------------------
(* An installation that is not over can be taken to either end, whenever the
   installer stopped (README: "Each step is written down before it is taken"):
   both packages are still in the installer's directory, the mark that has it
   started again stands, and the files are those of one of the two releases. *)
CanBeResumed ==
  ~Done(journal) => /\ {journal.version, journal.previous} \subseteq kept
                    /\ pending
                    /\ installed \in {journal.version, journal.previous}

(* The journal ends with what is on the host: a release it calls installed is
   the one whose files are there, and so is the one before once it says rolled
   back. *)
EndsAsRecorded ==
  /\ journal.stage \in {"checking", "installed"} => installed = journal.version
  /\ journal.stage = "rolled_back" => installed = journal.previous

(* An installation that began is taken to its end (README: "an installation a
   crash or a reboot interrupted is taken to its end"). *)
InstallationEnds == []<>Done(journal)

(* What is staged is taken up, and the follower's word that an update is under
   way gives way to how it ended, which is what the agent reports. *)
ReportMovesOn == []<>~awaiting

(* README: "It refuses a root or a catalog older than one it verified", which
   both hold by what their stores keep. *)
TrustNeverLowered ==
  [][/\ heldA'.root >= heldA.root /\ heldA'.catalog >= heldA.catalog
     /\ heldI'.root >= heldI.root /\ heldI'.catalog >= heldI.catalog]_vars
=============================================================================
