---------------------------- MODULE ComposeFiles ----------------------------
(***************************************************************************)
(* The compose files on disk and the threads that use them.                *)
(*                                                                         *)
(* A file is abstracted to what the control flow tells apart: an opaque id *)
(* (what the operator wrote) and whether the shared network declaration    *)
(* has been injected.  Broken ids do not parse; Refused ids parse but      *)
(* break the security rules.                                               *)
(***************************************************************************)
EXTENDS Naturals

CONSTANTS
  Apps,      \* app slugs
  Watchers,  \* concurrent Reconcile passes the debounced watcher may run
  Jobs,      \* API request goroutines
  Ids,       \* what an operator can write
  Refused,   \* ids ValidateComposeSecurity refuses
  Broken,    \* ids that do not parse
  NoFile,    \* no docker-compose.yml (no app directory)
  Nobody     \* no thread / no app

ASSUME FilesAssumption ==
  /\ Refused \subseteq Ids
  /\ Broken \subseteq Ids
  /\ Refused \cap Broken = {}

Content == [id : Ids, net : BOOLEAN]
File == Content \cup {NoFile}

ASSUME NoFileAssumption == NoFile \notin Content

(***************************************************************************)
(* One Reconcile pass runs per watcher callback and per queued retry (the  *)
(* retry of app a is pass a).  A pass runs deployApp in one goroutine per  *)
(* app it deploys; every other goroutine is a job.                         *)
(***************************************************************************)
Passes == Watchers \cup Apps
Threads == (Passes \X Apps) \cup Jobs

ASSUME ThreadsAssumption ==
  /\ Watchers \cap Apps = {}
  /\ Nobody \notin Threads
  /\ Nobody \notin Apps
  /\ \A j \in Jobs : j \notin Passes \X Apps /\ j \notin Passes

Present(f) == f # NoFile
Parses(f) == Present(f) /\ f.id \notin Broken
Allowed(f) == Parses(f) /\ f.id \notin Refused
IsRefused(f) == Present(f) /\ f.id \in Refused

\* Mutant: the file is rewritten even when it has the network.
MutNeedsNetwork(f) == Parses(f)

\* InjectSharedNetwork leaves a file it cannot parse alone.
NeedsNetwork(f) == Parses(f) /\ ~f.net
InjectSharedNetwork(f) == [f EXCEPT !.net = TRUE]

\* hashFile: injective on contents, "" when the file cannot be read.
NoHash == <<>>
hashFile(f) == IF Present(f) THEN <<f>> ELSE NoHash
Hash == {NoHash} \cup {<<c>> : c \in Content}
=============================================================================
