------------------------------ MODULE AppStore ------------------------------
(***************************************************************************)
(* The apps and compose_versions tables, and the archive tombstones kept   *)
(* beside the database.  Every operation is one SQLite transaction.        *)
(***************************************************************************)
EXTENDS ComposeFiles, Sequences

CONSTANTS
  NoRow,         \* no row with this slug
  KeepVersions   \* CreateComposeVersion prunes to this many (10)

ASSUME KeepVersionsAssumption == KeepVersions \in Nat \ {0}

VARIABLES row, nextId, versions, tombs

storeVars == <<row, nextId, versions, tombs>>

Status == {"running", "unstable", "error", "stopped"}
Row == [id : Nat, hash : Hash, status : Status, archived : BOOLEAN,
        path : {"ok", "old"}]

ASSUME NoRowAssumption == NoRow \notin Row

StoreType ==
  /\ row \in [Apps -> Row \cup {NoRow}]
  /\ nextId \in Nat
  /\ versions \in [Apps -> Seq(Content)]
  /\ \A a \in Apps : Len(versions[a]) <= KeepVersions
  /\ tombs \subseteq Apps

HasRow(a) == row[a] # NoRow

\* ListApps returns the rows that are not archived.
Listed(a) == HasRow(a) /\ ~row[a].archived
ListApps == [a \in Apps |-> IF Listed(a) THEN row[a] ELSE NoRow]

StoredHash(a) == IF HasRow(a) THEN row[a].hash ELSE NoHash

(***************************************************************************)
(* UpsertApp keeps id and archived_at of an existing row and gives a new   *)
(* row the next AUTOINCREMENT id.  archived_at is never cleared.           *)
(***************************************************************************)
UpsertApp(a, hash, status, path) ==
  \/ /\ HasRow(a)
     /\ row' = [row EXCEPT ![a].hash = hash, ![a].status = status,
                           ![a].path = path]
     /\ UNCHANGED <<nextId, versions, tombs>>
  \/ /\ ~HasRow(a)
     /\ row' = [row EXCEPT ![a] = [id |-> nextId, hash |-> hash,
                  status |-> status, archived |-> FALSE, path |-> path]]
     /\ nextId' = nextId + 1
     /\ UNCHANGED <<versions, tombs>>

\* UpdateAppStatus reports an error when there is no row; callers ignore it.
UpdateAppStatus(a, status) ==
  /\ row' = IF HasRow(a) THEN [row EXCEPT ![a].status = status] ELSE row
  /\ UNCHANGED <<nextId, versions, tombs>>

MarkAppArchived(a) ==
  /\ row' = IF HasRow(a) THEN [row EXCEPT ![a].archived = TRUE] ELSE row
  /\ UNCHANGED <<nextId, versions, tombs>>

\* PurgeApp deletes the row and its history (versions cascade).
PurgeApp(a) ==
  /\ row' = [row EXCEPT ![a] = NoRow]
  /\ versions' = [versions EXCEPT ![a] = <<>>]
  /\ UNCHANGED <<nextId, tombs>>

\* Mutant: the prune keeps one version too many.
MutNewest(s) == IF Len(s) > KeepVersions + 1 THEN Tail(s) ELSE s

\* Prune to the KeepVersions newest; at most one is over.
Newest(s) == IF Len(s) > KeepVersions THEN Tail(s) ELSE s

\* Mutant: no foreign key, the version of a purged app is kept.
MutCreateVersion(a, id, c) ==
  /\ versions' = [versions EXCEPT ![a] = Newest(Append(versions[a], c))]
  /\ UNCHANGED <<row, nextId, tombs>>

\* The insert fails (foreign key) when the row it belongs to is gone.
CreateComposeVersion(a, id, c) ==
  /\ versions' = IF HasRow(a) /\ row[a].id = id
                 THEN [versions EXCEPT ![a] = Newest(Append(versions[a], c))]
                 ELSE versions
  /\ UNCHANGED <<row, nextId, tombs>>

WriteTombstone(a) ==
  /\ tombs' = tombs \cup {a}
  /\ UNCHANGED <<row, nextId, versions>>

DeleteTombstone(a) ==
  /\ tombs' = tombs \ {a}
  /\ UNCHANGED <<row, nextId, versions>>
=============================================================================
