---------------------------- MODULE HostRecords ----------------------------
(***************************************************************************)
(* The parts of Records.tla with the two that keep account of what the     *)
(* host holds: its network (Network.tla) and its files (Integrity.tla).    *)
(* Each has a behaviour of its own as the others have.                     *)
(***************************************************************************)
EXTENDS Records

CONSTANTS
  MaxSpaces, Ports, Sockets, MaxTalks, Linger, MaxFlows, MaxBoot, MaxLosses,   \* Network.tla
  Names, Inodes, Hosts, MaxDepth, Watchers, Interleaved, MaxEvents             \* Integrity.tla

VARIABLES
  present, boot, network, whole, looking, state, told, stale, losses,
  host, events, wanted, tree, watcher, pass, reported

networks == <<present, boot, network, whole, looking, state, told, stale, losses>>
files == <<host, events, wanted, tree, watcher, pass, reported>>

N == INSTANCE Network WITH
       MaxStops <- MaxLosses, held <- network, at <- looking, file <- state, lost <- stale, stops <- losses
F == INSTANCE Integrity WITH clock <- events, file <- tree, proc <- watcher, told <- reported

HostInit ==
  /\ RecordsInit
  /\ N!Init
  /\ F!Init
  /\ part # "files" => host = CHOOSE h \in Hosts : TRUE

HostNext ==
  \/ RecordsNext /\ UNCHANGED <<networks, files>>
  \/ part = "network" /\ N!Next /\ UNCHANGED <<every, files>>
  \/ part = "files" /\ F!Next /\ UNCHANGED <<every, networks>>

HostSpec == HostInit /\ [][HostNext]_<<every, networks, files>>

-----------------------------------------------------------------------------
(* Properties, stated in the modules of the parts. *)

(* Network: a reader of the reports is never wrong about what they told of. *)
ToldIsTrue == N!ToldIsTrue

(* Integrity: nothing enters, leaves or changes in the baseline of the files
   without a report, in the directories it listed. *)
ToldIsHeld == F!ToldIsHeld

(* Integrity: once the collector handled every hint the kernel gave it, the
   baseline is what the host holds, and a digest in it is always that of the
   file as its node describes it. *)
BaselineIsTrue == F!QuietIsSeen /\ F!DigestIsOfNode
=============================================================================
