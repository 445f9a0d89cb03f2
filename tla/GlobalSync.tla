----------------------------- MODULE GlobalSync -----------------------------
(***************************************************************************)
(* The global rows and their two files (internal/configsync, the boot      *)
(* steps of cmd/simpledeploy): users, API keys, registries and webhooks    *)
(* live in the database; config.yml lists them and secrets.yml holds their *)
(* secrets.  The server mirrors every change into the files after a        *)
(* debounce, and on boot takes the files as the truth.                     *)
(*                                                                         *)
(* A user stands for any row with a name and a secret (registries and      *)
(* webhooks are handled alike).  One of them, Owner, may have an API key.  *)
(* A secret is the number of the change that set it; 0 is no secret.       *)
(***************************************************************************)
EXTENDS Integers, FiniteSets

CONSTANTS
    Users,        \* names of users
    Owner,        \* the user whose API key is modelled
    MaxChanges,   \* bound on changes made in the dashboard
    MaxFaults,    \* bound on what befalls the files and the database
    NewHost,      \* may the files be moved to a host that never ran the server?
    Gone,         \* no row, or no secret in secrets.yml
    Absent,       \* the file does not exist
    Malformed,    \* a hand edit left the file unreadable
    Unknown       \* nothing is promised about the rows after the next boot

\* The marks are told apart from what they stand beside.
ASSUME OwnerAssumption ==
    /\ Owner \in Users /\ Gone \notin Nat /\ Absent # Malformed
    /\ \A mark \in {Absent, Malformed} :
         /\ mark \notin [users : SUBSET Users, key : BOOLEAN]
         /\ mark \notin [pw : [Users -> Nat \cup {Gone}], keys : SUBSET Nat]

VARIABLES
    globals,     \* the database: [pw: Users -> secret or Gone, keys: set of key hashes]
    seeded,      \* system_meta: the first-boot seed is done
    backfilled,  \* the file .configsync_backfill_v1 exists
    config,      \* config.yml: [users: names, key: is Owner's key listed?]
    secrets,     \* secrets.yml: [pw: Users -> secret or Gone, keys: set of key hashes]
    server,      \* "down", a step of the boot, "up" or "exit"
    pending,     \* a write of the files is scheduled
    writer,      \* WriteGlobal calls: one of the timer or the boot, one of Close
    nChange, nFault,
    promised     \* the rows at the last clean stop, while a boot must bring them back

disk == <<config, secrets, backfilled>>
store == <<globals, seeded>>
ghosts == <<nChange, nFault, promised>>
globalVars == <<store, disk, server, pending, writer, ghosts>>

Writers == {"timer", "closer"}
Idle == [pc |-> "idle"]
EmptyRows == [pw |-> [u \in Users |-> Gone], keys |-> {}]
Named(d) == {u \in Users : d.pw[u] # Gone}

\* The two files that WriteGlobal renders.  secrets.yml omits empty secrets.
RenderConfig(d) == [users |-> Named(d), key |-> d.keys # {}]
RenderSecrets(d) ==
    [pw |-> [u \in Users |-> IF d.pw[u] = 0 THEN Gone ELSE d.pw[u]], keys |-> d.keys]

\* An installed server whose first user is Owner.
GlobalInit ==
    /\ globals = [pw |-> [u \in Users |-> IF u = Owner THEN 1 ELSE Gone], keys |-> {}]
    /\ seeded = TRUE /\ backfilled = TRUE
    /\ config = RenderConfig(globals) /\ secrets = RenderSecrets(globals)
    /\ server = "up" /\ pending = FALSE /\ writer = [w \in Writers |-> Idle]
    /\ nChange = 1 /\ nFault = 0 /\ promised = Unknown
-----------------------------------------------------------------------------
(* The running server                                                      *)

\* A handler commits a change and the mutation hook schedules a write.
Change(d) ==
    /\ server = "up" /\ nChange < MaxChanges
    /\ globals' = d /\ nChange' = nChange + 1 /\ pending' = TRUE
    /\ UNCHANGED <<seeded, disk, server, writer, nFault, promised>>

\* CreateUser, UpdatePassword.
SetPassword == \E u \in Users : Change([globals EXCEPT !.pw[u] = nChange + 1])

\* DeleteUser: its keys go with it.  The last user stays.
DropUser == \E u \in Named(globals) :
    /\ Cardinality(Named(globals)) > 1
    /\ Change([pw |-> [globals.pw EXCEPT ![u] = Gone],
               keys |-> IF u = Owner THEN {} ELSE globals.keys])

\* CreateAPIKey refuses a second key of the same name; DeleteAPIKey.
CreateKey ==
    globals.pw[Owner] # Gone /\ globals.keys = {} /\ Change([globals EXCEPT !.keys = {nChange + 1}])
DropKey == globals.keys # {} /\ Change([globals EXCEPT !.keys = {}])

\* WriteGlobal reads the rows ...
StartWrite(w) ==
    writer' = [writer EXCEPT ![w] = [pc |-> "secrets", data |-> globals]]

\* The timer of ScheduleGlobalWrite fires.
FireTimer ==
    /\ server = "up" /\ pending /\ writer["timer"] = Idle
    /\ pending' = FALSE /\ StartWrite("timer")
    /\ UNCHANGED <<store, disk, server, ghosts>>

\* ... replaces secrets.yml first ...
WriteSecrets(w) ==
    /\ writer[w].pc = "secrets"
    /\ secrets' = RenderSecrets(writer[w].data)
    /\ writer' = [writer EXCEPT ![w].pc = "config"]
    /\ UNCHANGED <<store, config, backfilled, server, pending, ghosts>>

\* ... and then config.yml.
WriteConfig(w) ==
    /\ writer[w].pc = "config"
    /\ config' = RenderConfig(writer[w].data)
    /\ writer' = [writer EXCEPT ![w] = Idle]
    /\ UNCHANGED <<store, secrets, backfilled, server, pending, ghosts>>

\* SIGTERM: Close stops the timer and writes the files itself if a write was
\* pending. It does not wait for a write in progress, which the exit cuts off.
Close ==
    /\ server = "up" /\ server' = "exit"
    /\ IF pending THEN StartWrite("closer") ELSE UNCHANGED writer
    /\ pending' = FALSE
    /\ promised' = IF writer["timer"] = Idle /\ (pending \/ Absent \notin {config, secrets})
                      THEN globals ELSE Unknown
    /\ UNCHANGED <<store, disk, nChange, nFault>>

Exit ==
    /\ server = "exit" /\ writer["closer"] = Idle
    /\ server' = "down" /\ writer' = [w \in Writers |-> Idle]
    /\ UNCHANGED <<store, disk, pending, ghosts>>

\* A crash loses the scheduled write and cuts a running one off.
Crash ==
    /\ server # "down" /\ nFault < MaxFaults /\ nFault' = nFault + 1
    /\ server' = "down" /\ pending' = FALSE /\ writer' = [w \in Writers |-> Idle]
    /\ promised' = Unknown
    /\ UNCHANGED <<store, disk, nChange>>
-----------------------------------------------------------------------------
(* What happens to a stopped server                                        *)

\* A second loss leaves nothing to restore from.
Damage ==
    /\ server = "down" /\ nFault < MaxFaults /\ nFault' = nFault + 1
    /\ UNCHANGED <<server, pending, writer, nChange>>
IsWhole == globals # EmptyRows /\ seeded /\ Absent \notin {config, secrets}
StillPromised == promised' = IF IsWhole THEN promised ELSE Unknown

\* The database is moved aside; on another host the marker is missing too.
LoseDatabase ==
    /\ Damage /\ StillPromised
    /\ globals' = EmptyRows /\ seeded' = FALSE
    /\ backfilled' \in {backfilled, backfilled /\ ~NewHost}
    /\ UNCHANGED <<config, secrets>>

LoseSecrets ==
    /\ Damage /\ StillPromised /\ secrets' = Absent
    /\ UNCHANGED <<store, config, backfilled>>

LoseConfig ==
    /\ Damage /\ StillPromised /\ config' = Absent
    /\ UNCHANGED <<store, secrets, backfilled>>

MalformConfig ==
    /\ Damage /\ config \notin {Absent, Malformed} /\ config' = Malformed
    /\ promised' = Unknown
    /\ UNCHANGED <<store, secrets, backfilled>>

-----------------------------------------------------------------------------
(* The boot                                                                *)

SecretOf(u) == IF secrets = Absent \/ secrets.pw[u] = Gone THEN 0 ELSE secrets.pw[u]

\* UpsertAPIKey for the listed key: without its secret the hash is empty.
ListedKey == IF ~config.key THEN {}
             ELSE IF secrets = Absent \/ secrets.keys = {} THEN {0} ELSE secrets.keys

\* ImportGlobal into a database without users.
ImportGlobal ==
    [pw |-> [u \in Users |-> IF u \in config.users THEN SecretOf(u) ELSE Gone],
     keys |-> ListedKey]

\* MUTANT: the seed is left to be done after an import.
MutSeedLater ==
    /\ server = "down" /\ server' = "backfill"
    /\ IF Named(globals) = {} /\ config # Absent
          THEN globals' = IF config = Malformed THEN globals ELSE ImportGlobal
          ELSE UNCHANGED globals
    /\ UNCHANGED <<seeded, disk, pending, writer, ghosts>>

\* initConfigSync: ImportGlobalIfEmpty marks the seed as done before it reads
\* the files, so that a failed import leaves them alone.
ImportGlobalIfEmpty ==
    /\ server = "down" /\ server' = "backfill"
    /\ IF Named(globals) = {} /\ config # Absent
          THEN /\ seeded' = TRUE
               /\ globals' = IF config = Malformed THEN globals ELSE ImportGlobal
          ELSE UNCHANGED store
    /\ UNCHANGED <<disk, pending, writer, ghosts>>

\* The two steps that write the files when their mark is missing: the
\* backfill of initConfigSync and then RunFirstBootSeedIfNeeded.
BootWrite(step, writing) ==
    /\ server = step /\ server' = writing /\ StartWrite("timer")
    /\ UNCHANGED <<store, disk, pending, ghosts>>

BootGoesOn(step, next) ==
    /\ server = step /\ writer["timer"] = Idle /\ server' = next
    /\ UNCHANGED <<globals, config, secrets, pending, writer, ghosts>>

Backfill ==
    \/ ~backfilled /\ BootWrite("backfill", "backfilling")
    \/ BootGoesOn("backfilling", "seed") /\ backfilled' = TRUE /\ UNCHANGED seeded
    \/ backfilled /\ BootGoesOn("backfill", "seed") /\ UNCHANGED <<seeded, backfilled>>

RunFirstBootSeedIfNeeded ==
    \/ ~seeded /\ BootWrite("seed", "seeding")
    \/ BootGoesOn("seeding", "reload") /\ seeded' = TRUE /\ UNCHANGED backfilled
    \/ seeded /\ BootGoesOn("seed", "reload") /\ UNCHANGED <<seeded, backfilled>>

\* MUTANT: a missing secrets.yml counts as one without entries.
MutWipeSecrets ==
    [pw |-> [u \in Users |-> IF u \in config.users THEN SecretOf(u) ELSE Gone],
     keys |-> IF config.key THEN ListedKey ELSE {}]

\* ApplyGlobalSidecar: the rows become those of the files. Without secrets.yml
\* only names are taken: secrets stay as they are and keys are not touched.
ApplyGlobalSidecar ==
    LET hasSecrets == secrets # Absent
        PwOf(u) == IF hasSecrets THEN SecretOf(u)
                   ELSE IF globals.pw[u] = Gone THEN 0 ELSE globals.pw[u]
        stays == IF Owner \in config.users THEN globals.keys ELSE {}
    IN [pw |-> [u \in Users |-> IF u \in config.users THEN PwOf(u) ELSE Gone],
        keys |-> IF ~hasSecrets THEN stays
                 ELSE IF ~config.key THEN {} ELSE stays \cup ListedKey]

\* ReconcileDBFromFS; the rows it writes schedule a write of the files.
ReconcileDBFromFS ==
    /\ server = "reload" /\ config # Malformed
    /\ server' = "up" /\ promised' = Unknown
    /\ IF config = Absent THEN UNCHANGED <<globals, pending>>
       ELSE /\ globals' = ApplyGlobalSidecar
            /\ pending' = (Named(globals) \cup config.users # {})
    /\ UNCHANGED <<seeded, disk, writer, nChange, nFault>>

\* An unreadable config.yml stops the boot.
BootFails ==
    /\ server = "reload" /\ config = Malformed
    /\ server' = "down" /\ promised' = Unknown
    /\ UNCHANGED <<store, disk, pending, writer, nChange, nFault>>
-----------------------------------------------------------------------------
GlobalNext ==
    \/ SetPassword \/ DropUser \/ CreateKey \/ DropKey
    \/ FireTimer \/ Close \/ Exit \/ Crash
    \/ \E w \in Writers : WriteSecrets(w) \/ WriteConfig(w)
    \/ LoseDatabase \/ LoseSecrets \/ LoseConfig \/ MalformConfig
    \/ ImportGlobalIfEmpty \/ Backfill \/ RunFirstBootSeedIfNeeded
    \/ ReconcileDBFromFS \/ BootFails

GlobalSpec == GlobalInit /\ [][GlobalNext]_globalVars
-----------------------------------------------------------------------------
(* Properties                                                              *)

\* After a clean stop, whichever one of the database, config.yml and
\* secrets.yml is then lost, the next boot ends with the rows of the stop:
\* no user, password or key is dropped, revived or emptied.
RestartKeepsRows ==
    [][(server = "reload" /\ server' = "up" /\ promised # Unknown) => globals' = promised]_globalVars

\* docs/operations/config-sidecars.md:67: an unreadable config.yml is never
\* replaced with the contents of the empty database, nor are the secrets of
\* its users; the boot stops and the operator can fix the file. On a host that
\* has run the server before: on a new one (NewHost) the marker of the backfill
\* is missing, and the boot does write over the file.
BadFileKept ==
    [][config = Malformed /\ Named(globals) = {} /\ server # "down"
         => config' = config /\ secrets' = secrets]_globalVars
=============================================================================
