---------------------------- MODULE UpdateProofs ----------------------------
(***************************************************************************)
(* Proofs about Update, for any releases, any offers and any number of     *)
(* stops: what the installer wrote down is enough to go on from.           *)
(***************************************************************************)
EXTENDS Update, TLAPS

(* A journal and the installer's process have the fields the code gives them;
   which versions an offer names is left open. *)
IsJournal(j) ==
  j = [stage |-> j.stage, version |-> j.version, previous |-> j.previous,
       catalog |-> j.catalog, packages |-> j.packages]
Shape ==
  /\ IsJournal(journal) /\ IsJournal(installer.journal)
  /\ installer = [at |-> installer.at, running |-> installer.running, journal |-> installer.journal]

Taking == {"take", "copy", "match", "begin"}
Going == {"install", "installed", "check", "revert", "restore", "recheck", "unmark"}

(* While an installation is prepared, nothing is on the way: the journal is done,
   and the release to go back to is the one whose files are there. *)
TakingInv ==
  LET j == installer.journal IN
  /\ installer.at \in Taking => Done(journal)
  /\ installer.at = "take" => installer.running = installed
  /\ installer.at \in {"copy", "match", "begin"} => j.previous = installed
  /\ installer.at \in {"match", "begin"} => {j.version, j.previous} \subseteq kept
  /\ installer.at = "begin" => pending /\ j.stage = "installing"

(* From then on the journal in the installer's memory is the one on disk, and
   each step has the stage it is written down under. *)
GoingInv ==
  LET j == installer.journal IN
  /\ installer.at \in Taking \cup Going \cup {"off"}
  /\ installer.at \in Going => j = journal
  /\ installer.at \in {"install", "installed"} => j.stage = "installing"
  /\ installer.at = "check" => j.stage = "checking"
  /\ installer.at = "revert" => j.stage \in {"installing", "checking", "reverting"}
  /\ installer.at \in {"restore", "recheck"} => j.stage = "reverting"
  /\ installer.at = "unmark" => Done(j)
  /\ installer.at = "installed" => installed = j.version
  /\ installer.at = "recheck" => installed = j.previous

UpdateInv ==
  /\ Shape /\ TakingInv /\ GoingInv
  /\ journal.stage \in {"none", "installing", "checking", "reverting", "installed", "rolled_back", "failed"}
  /\ CanBeResumed /\ EndsAsRecorded

LEMMA InitUpdateInv == Init => UpdateInv
BY DEF Init, UpdateInv, Shape, IsJournal, TakingInv, GoingInv, Taking, Going, CanBeResumed,
       EndsAsRecorded, Off, NoJournal, Done

(* The follower, the agent's service and the clock touch none of it. *)
LEMMA OthersKeep ==
  ASSUME UpdateInv, UNCHANGED <<journal, pending, kept, installed, installer>>
  PROVE  UpdateInv'
BY DEF UpdateInv, Shape, IsJournal, TakingInv, GoingInv, CanBeResumed, EndsAsRecorded, Done

(* An installation that ends is written down as failed. *)
LEMMA EndedKeeps ==
  ASSUME UpdateInv, NEW j, IsJournal(j), ended(j)
  PROVE  UpdateInv'
<1> DEFINE failed == [j EXCEPT !.stage = "failed"]
<1>1. IsJournal(failed) /\ failed.stage = "failed" /\ Done(failed)
  BY DEF IsJournal, Done
<1>2. journal' = failed /\ installer' = [at |-> "unmark", running |-> installer.running, journal |-> failed]
  BY Zenon DEF ended, UpdateInv, Shape
<1>3. Shape'
  BY <1>1, <1>2, Zenon DEF Shape, IsJournal
<1> HIDE DEF failed
<1>4. TakingInv' /\ GoingInv'
  BY <1>1, <1>2, Zenon DEF TakingInv, GoingInv, Taking, Going, Done
<1>. QED
  BY <1>1, <1>2, <1>3, <1>4, Zenon DEF UpdateInv, CanBeResumed, EndsAsRecorded, Done

(* The steps of the installer. *)
LEMMA StepKeeps == ASSUME UpdateInv, Step PROVE UpdateInv'
<1> USE DEF UpdateInv
<1>0. IsJournal(NoJournal) BY Zenon DEF IsJournal, NoJournal
<1>j. IsJournal(installer.journal) BY Zenon DEF Shape
<1>e. ASSUME ended(installer.journal) PROVE UpdateInv'
  BY <1>j, <1>e, EndedKeeps, Zenon
<1>1. CASE TakeJudge
  <2> DEFINE judged == Judge(staging.offer, heldI, installer.running, generation)
             j == [stage |-> "none", version |-> staging.offer.version, previous |-> installer.running,
                   catalog |-> judged.catalog, packages |-> {}]
  <2>0. /\ IsJournal(j)
        /\ j.previous = installer.running
    BY Zenon DEF IsJournal
  <2>a. installer.at = "take" /\ UNCHANGED <<kept, pending, installed>> BY <1>1, Zenon DEF TakeJudge
  <2>b. \/ ended(j)
        \/ installer' = Off /\ UNCHANGED journal
        \/ installer' = [installer EXCEPT !.at = "copy", !.journal = j] /\ UNCHANGED journal
    BY <1>1, Zenon DEF TakeJudge
  <2> HIDE DEF j
  <2>1. CASE ended(j)
    BY <2>0, <2>1, EndedKeeps, Zenon
  <2>2. CASE installer' = Off /\ UNCHANGED journal
    BY <2>a, <2>2, <1>0, Zenon DEF Off, Shape, IsJournal, TakingInv, GoingInv, Taking, Going, CanBeResumed,
             EndsAsRecorded, Done
  <2>3. CASE installer' = [installer EXCEPT !.at = "copy", !.journal = j] /\ UNCHANGED journal
    <3>1. installer' = [at |-> "copy", running |-> installer.running, journal |-> j]
      BY <2>3, Zenon DEF Shape
    <3>. QED BY <2>a, <2>0, <2>3, <3>1, Zenon DEF Shape, IsJournal, TakingInv, GoingInv, Taking, Going, CanBeResumed,
             EndsAsRecorded, Done
  <2>. QED
    BY <2>b, <2>1, <2>2, <2>3, Zenon
<1>2. CASE TakeCopy
  <2> DEFINE both == {installer.journal.version, installer.journal.previous}
             new == [at |-> "match", running |-> installer.running,
                     journal |-> [installer.journal EXCEPT !.packages = both]]
  <2>1. CASE both \subseteq staging.packages
    <3>1. installer' = new BY <1>2, <2>1, Zenon DEF TakeCopy, Shape
    <3>2. /\ IsJournal(new.journal)
          /\ new.journal.version = installer.journal.version
          /\ new.journal.previous = installer.journal.previous
      BY <1>j, Zenon DEF IsJournal
    <3>3. installer.at = "copy" /\ kept' = kept \cup both /\ UNCHANGED <<journal, pending, installed>>
      BY <1>2, <2>1, Zenon DEF TakeCopy, Taken
    <3>. QED BY <3>1, <3>2, <3>3, Zenon DEF Shape, IsJournal, TakingInv, GoingInv, Taking, Going, CanBeResumed,
             EndsAsRecorded, Done
  <2>. QED BY <1>2, <2>1, <1>e, Zenon DEF TakeCopy
<1>3. CASE TakeMatch
  <2>1. CASE ~ended(installer.journal)
    <3> DEFINE new == [at |-> "begin", running |-> installer.running,
                       journal |-> [installer.journal EXCEPT !.stage = "installing"]]
    <3>1. installer' = new BY <1>3, <2>1, Zenon DEF TakeMatch, Shape
    <3>2. /\ IsJournal(new.journal) /\ new.journal.stage = "installing"
          /\ new.journal.version = installer.journal.version
          /\ new.journal.previous = installer.journal.previous
      BY <1>j, Zenon DEF IsJournal
    <3>3. installer.at = "match" /\ pending' = TRUE /\ UNCHANGED <<kept, journal, installed>>
      BY <1>3, <2>1, Zenon DEF TakeMatch
    <3>. QED BY <3>1, <3>2, <3>3, Zenon DEF Shape, IsJournal, TakingInv, GoingInv, Taking, Going, CanBeResumed,
             EndsAsRecorded, Done
  <2>. QED BY <2>1, <1>e, Zenon
<1>4. CASE TakeBegin
  BY <1>4, Zenon DEF TakeBegin, Shape, IsJournal, TakingInv, GoingInv, Taking, Going, CanBeResumed,
             EndsAsRecorded, Done
<1>5. CASE Install
  BY <1>5, Zenon DEF Install, Package, Shape, IsJournal, TakingInv, GoingInv, Taking, Going, CanBeResumed,
             EndsAsRecorded, Done
<1>6. CASE KeepChecking
  BY <1>6, Zenon DEF KeepChecking, Shape, IsJournal, TakingInv, GoingInv, Taking, Going, CanBeResumed,
             EndsAsRecorded, Done
<1>7. CASE check
  <2>0. installer.at = "check" /\ UNCHANGED <<kept, pending, installed>> BY <1>7, Zenon DEF check
  <2>1. CASE installer' = [installer EXCEPT !.at = "revert"] /\ UNCHANGED journal
    <3>1. installer' = [at |-> "revert", running |-> installer.running, journal |-> installer.journal]
      BY <2>1, Zenon DEF Shape
    <3>. QED BY <2>0, <2>1, <3>1, Zenon DEF Shape, IsJournal, TakingInv, GoingInv, Taking, Going, CanBeResumed,
             EndsAsRecorded, Done
  <2>2. CASE journal' = [installer.journal EXCEPT !.stage = "installed"]
             /\ installer' = [installer EXCEPT !.at = "unmark", !.journal = journal']
    <3>1. installer' = [at |-> "unmark", running |-> installer.running, journal |-> journal']
      BY <2>2, Zenon DEF Shape
    <3>2. /\ IsJournal(journal') /\ journal'.stage = "installed"
          /\ journal'.version = installer.journal.version
      BY <1>j, <2>2, Zenon DEF IsJournal
    <3>. QED BY <2>0, <3>1, <3>2 DEF Shape, IsJournal, TakingInv, GoingInv, Taking, Going, CanBeResumed,
             EndsAsRecorded, Done
  <2>. QED BY <1>7, <2>1, <2>2, Zenon DEF check
<1>8. CASE revert
  <2>0. installer.at = "revert" /\ UNCHANGED <<kept, pending, installed>> BY <1>8, Zenon DEF revert
  <2>1. CASE ~ended(installer.journal)
    <3>1. /\ journal' = [installer.journal EXCEPT !.stage = "reverting"]
          /\ installer' = [at |-> "restore", running |-> installer.running, journal |-> journal']
      BY <1>8, <2>1, Zenon DEF revert, Shape
    <3>2. /\ IsJournal(journal') /\ journal'.stage = "reverting"
          /\ journal'.version = installer.journal.version
          /\ journal'.previous = installer.journal.previous
      BY <1>j, <3>1, Zenon DEF IsJournal
    <3>. QED BY <2>0, <3>1, <3>2 DEF Shape, IsJournal, TakingInv, GoingInv, Taking, Going, CanBeResumed,
             EndsAsRecorded, Done
  <2>. QED BY <2>1, <1>e, Zenon
<1>9. CASE Restore
  <2>1. CASE ~ended(installer.journal)
    <3>1. /\ installer' = [at |-> "recheck", running |-> installer.running, journal |-> installer.journal]
          /\ installer.at = "restore" /\ installed' = installer.journal.previous
          /\ UNCHANGED <<journal, kept, pending>>
      BY <1>9, <2>1, Zenon DEF Restore, Package, Shape
    <3>. QED BY <3>1, Zenon DEF Shape, IsJournal, TakingInv, GoingInv, Taking, Going, CanBeResumed,
             EndsAsRecorded, Done
  <2>. QED BY <2>1, <1>e, Zenon
<1>10. CASE Recheck
  <2>1. CASE ~ended(installer.journal)
    <3>1. /\ journal' = [installer.journal EXCEPT !.stage = "rolled_back"]
          /\ installer' = [at |-> "unmark", running |-> installer.running, journal |-> journal']
          /\ installer.at = "recheck" /\ UNCHANGED <<kept, pending, installed>>
      BY <1>10, <2>1, Zenon DEF Recheck, Shape
    <3>2. /\ IsJournal(journal') /\ journal'.stage = "rolled_back"
          /\ journal'.previous = installer.journal.previous
      BY <1>j, <3>1, Zenon DEF IsJournal
    <3>. QED BY <3>1, <3>2, Zenon DEF Shape, IsJournal, TakingInv, GoingInv, Taking, Going, CanBeResumed,
             EndsAsRecorded, Done
  <2>. QED BY <2>1, <1>e, Zenon
<1>11. CASE Unmark
  BY <1>11, <1>0, Zenon DEF Unmark, Off, Shape, IsJournal, TakingInv, GoingInv, Taking, Going, CanBeResumed,
             EndsAsRecorded, Done
<1>. QED
  BY <1>1, <1>2, <1>3, <1>4, <1>5, <1>6, <1>7, <1>8, <1>9, <1>10, <1>11, Zenon DEF Step

(* The installer starts, on what the journal says, and stops anywhere. *)
LEMMA StartKeeps == ASSUME UpdateInv, InstallerStarts PROVE UpdateInv'
BY DEF UpdateInv, InstallerStarts, resume, NoJournal, Shape, IsJournal, TakingInv, GoingInv, Taking, Going, CanBeResumed,
       EndsAsRecorded, Done

LEMMA StopKeeps == ASSUME UpdateInv, InstallerStops PROVE UpdateInv'
BY Zenon DEF UpdateInv, InstallerStops, disk, Off, NoJournal, Shape, IsJournal, TakingInv, GoingInv, Taking, Going,
       CanBeResumed, EndsAsRecorded, Done

LEMMA UpdateInvHolds == Spec => []UpdateInv
<1>1. ASSUME UpdateInv, [Next]_vars PROVE UpdateInv'
  <2>1. CASE Ask \/ Watch \/ Fetch \/ HandOffer \/ HandReady \/ AgentStarts \/ AgentStops \/ Tick \/ UNCHANGED vars
    BY <1>1, <2>1, OthersKeep, Zenon DEF Ask, Watch, Fetch, HandOffer, HandReady, AgentStarts, AgentStops, Tick, disk, vars
  <2>. QED
    BY <1>1, <2>1, StepKeeps, StartKeeps, StopKeeps, Zenon DEF Next
<1>. QED
  BY <1>1, InitUpdateInv, PTL DEF Spec

(* Whenever the installer stopped, an installation that is not over has both
   packages, the mark that starts the installer again, and the files of one of
   its two releases. *)
THEOREM ResumedFromAnywhere == Spec => []CanBeResumed
<1>1. UpdateInv => CanBeResumed BY Zenon DEF UpdateInv
<1>. QED BY <1>1, UpdateInvHolds, PTL

(* What the journal calls installed, or rolled back, is what is on the host. *)
THEOREM JournalIsTrue == Spec => []EndsAsRecorded
<1>1. UpdateInv => EndsAsRecorded BY Zenon DEF UpdateInv
<1>. QED BY <1>1, UpdateInvHolds, PTL
=============================================================================
