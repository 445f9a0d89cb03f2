--------------------------- MODULE ResourceProofs ---------------------------
(***************************************************************************)
(* What the services that keep something promise, for any number of apps,  *)
(* domains, loaders, users, runs and entries.                              *)
(*                                                                         *)
(* The proxy.  What Caddy runs is the published state, or, while a         *)
(* SetRoutes is on its way, the state that it will put back if it fails    *)
(* (ToRestore); and the key of the last load tells the certificate files   *)
(* that Caddy read from later ones (KeyTellsFiles), because no two writes  *)
(* of a file have the same modification time.                              *)
(*                                                                         *)
(* The log ring.  The i-th newest line lies i places behind the position   *)
(* at which the next one goes, as far as the ring holds lines (RingInv).   *)
(*                                                                         *)
(* The global rows.  From a clean stop until the next server is up, the    *)
(* rows that were stopped with are in the database, with whatever files    *)
(* are left agreeing with them, or else both files hold them (KeptAs).     *)
(* A running server has written its rows or owes the write (UpIsWritten);  *)
(* secrets.yml goes before config.yml (SecretsFirst), so that a config.yml *)
(* never names a user whose secret is not there yet.                       *)
(*                                                                         *)
(* Backups of the database.  A file is named after the second in which     *)
(* its schedule fired.  With one schedule at a time no two runs have the   *)
(* same name, and so no run, when it prunes, removes the file of a run     *)
(* that is still listed (RunsAre).                                         *)
(*                                                                         *)
(* The rate limiter.  For every request of the watched client, the         *)
(* requests let through since are those paid for by the tokens of so many  *)
(* fillings and those paid for by a burst that was given once (Spent):     *)
(* while no window passes without a refusal, the bucket knows of one when  *)
(* it is filled again (TellsOver), and the burst is not given back.        *)
(***************************************************************************)
EXTENDS Proxy, RateLimit, LogRing, SystemBackup, GlobalSync, FiniteSetTheorems,
  SequenceTheorems, TLAPS

\* A loader is a record of its locals; only a refresh of the routes is at "set".
IsLoader(x) ==
    /\ x \in [pc : {x.pc}, op : {x.op}, want : {x.want}, prev : {x.prev}, had : {x.had},
              v : {x.v}, key : {x.key}]
    /\ x.pc = "set" => x.op = "routes"
    /\ x.pc \in {"key", "rmKey", "force"} => x.op # "routes"
LoaderShape ==
    /\ ld = [l \in Loaders |-> ld[l]]
    /\ \A l \in Loaders : IsLoader(ld[l])

\* Who builds or loads a config holds loadMu.
HoldsLoadMu ==
    /\ loadMu \in Loaders \cup {NoLoader}
    /\ \A l \in Loaders : ld[l].pc \in {"build", "load"} <=> loadMu = l

\* The rules are those of the routes, and every route is its owner's.
Consistent(p) ==
    /\ p.rules = registerRouteRules(p.routes)
    /\ \A r \in p.routes : r.dom \in DOMAIN p.owners /\ p.owners[r.dom] = r.app

\* The state that a failed load leaves.
InSetRoutes == loadMu # NoLoader /\ ld[loadMu].op = "routes"
ToRestore == IF InSetRoutes THEN ld[loadMu].prev ELSE px

\* Caddy runs the published state, or the one before it.
CaddyRuns ==
    /\ Consistent(px) /\ Consistent(ToRestore)
    /\ caddy.routes = Config(ToRestore.routes)

\* What SetRoutes has published is what it computed from the state before.
Published ==
    InSetRoutes =>
        /\ px.owners = claimDomains(ld[loadMu].want, ld[loadMu].prev.owners)
        /\ px.routes = Kept(ld[loadMu].want, px.owners)

\* The key of the last load names the routes that Caddy runs.
KeyTellsRoutes ==
    /\ lastKey = NoKey \/ lastKey = <<caddy.routes, lastKey[2], lastKey[3]>>
    /\ \A l \in Loaders : ld[l].pc = "load" =>
          ld[l].key = <<Config(px.routes), ld[l].key[2], ld[l].key[3]>>

RoutesInv == LoaderShape /\ HoldsLoadMu /\ CaddyRuns /\ Published /\ KeyTellsRoutes

----------------------------------------------------------------------------
\* A fresh proxy serves nothing.
LEMMA RoutesInit == ProxyInit => RoutesInv
<1> SUFFICES ASSUME ProxyInit PROVE RoutesInv
  OBVIOUS
<1>1. LoaderShape /\ HoldsLoadMu
  BY ProxyAssumption DEF ProxyInit, LoaderShape, IsLoader, HoldsLoadMu, PxIdle, NoLoader
<1>2. CaddyRuns
  BY DEF ProxyInit, CaddyRuns, Consistent, ToRestore, InSetRoutes, NoRoutes, registerRouteRules, Config
<1>3. Published /\ KeyTellsRoutes
  BY DEF ProxyInit, Published, InSetRoutes, KeyTellsRoutes, PxIdle
<1> QED BY <1>1, <1>2, <1>3 DEF RoutesInv

\* A loader that goes on without loadMu (a scan, the files of a certificate)
\* leaves the routes alone.
LEMMA OutsideMutex ==
  ASSUME RoutesInv, UNCHANGED <<px, caddy, lastKey, loadMu>>,
         \/ UNCHANGED ld
         \/ \E l \in Loaders : \E r :
              /\ ld' = [ld EXCEPT ![l] = r] /\ IsLoader(r)
              /\ ld[l].pc \notin {"build", "load"} /\ r.pc \notin {"build", "load"}
  PROVE  RoutesInv'
<1>1. /\ LoaderShape'
      /\ \A l \in Loaders : \/ ld'[l] = ld[l]
                            \/ ld[l].pc \notin {"build", "load"} /\ ld'[l].pc \notin {"build", "load"}
  BY DEF RoutesInv, LoaderShape
<1>2. HoldsLoadMu'
  BY <1>1 DEF RoutesInv, HoldsLoadMu
<1>3. loadMu \in Loaders => ld'[loadMu] = ld[loadMu]
  BY <1>1 DEF RoutesInv, HoldsLoadMu
<1>4. InSetRoutes' = InSetRoutes /\ ToRestore' = ToRestore
  BY <1>3 DEF RoutesInv, HoldsLoadMu, InSetRoutes, ToRestore
<1>5. CaddyRuns' /\ Published'
  BY <1>3, <1>4 DEF RoutesInv, CaddyRuns, Consistent, Published, HoldsLoadMu, InSetRoutes
<1>6. KeyTellsRoutes'
  BY <1>1 DEF RoutesInv, KeyTellsRoutes
<1> QED BY <1>1, <1>2, <1>5, <1>6 DEF RoutesInv

\* The steps of a loader that do not hold loadMu.
LEMMA ScanStep ==
  ASSUME RoutesInv, NEW l \in Loaders,
         \/ ScanRoutes(l) \/ UploadCrt(l) \/ UploadKey(l) \/ DeleteCert(l) \/ DeleteKey(l)
         \/ RestoreCrt(l) \/ RestoreKey(l)
  PROVE  RoutesInv'
<1> DEFINE next(r) == /\ ld' = [ld EXCEPT ![l] = r] /\ IsLoader(r)
                      /\ ld[l].pc \notin {"build", "load"} /\ r.pc \notin {"build", "load"}
<1> USE DEF GoPx, AtPx, IsLoader, PxIdle
<1>1. UNCHANGED <<px, caddy, lastKey, loadMu>> /\ IsLoader(ld[l])
  BY DEF RoutesInv, LoaderShape, ScanRoutes, UploadCrt, UploadKey, DeleteCert, DeleteKey, RestoreCrt, RestoreKey
<1>2. \E r : next(r)
  <2>1. CASE ScanRoutes(l)
    <3>1. next([PxIdle EXCEPT !.pc = "set", !.op = "routes", !.want = ResolveRoutes])
      BY <2>1 DEF ScanRoutes
    <3> QED BY <3>1
  <2>2. CASE UploadCrt(l)
    <3>1. next([PxIdle EXCEPT !.pc = "key", !.op = "upload", !.v = nCerts', !.had = cert])
      BY <2>2 DEF UploadCrt
    <3> QED BY <3>1
  <2>3. CASE UploadKey(l)
    <3>1. next([ld[l] EXCEPT !.pc = "force"])
      BY <1>1, <2>3 DEF UploadKey
    <3> QED BY <3>1
  <2>4. CASE DeleteCert(l)
    <3>1. next([PxIdle EXCEPT !.pc = "rmKey", !.op = "delete"])
      BY <2>4 DEF DeleteCert
    <3> QED BY <3>1
  <2>5. CASE RestoreCrt(l)
    <3>1. next([ld[l] EXCEPT !.pc = "unKey"])
      BY <1>1, <2>5 DEF RestoreCrt
    <3> QED BY <3>1
  <2>6. CASE RestoreKey(l)
    <3>1. next(PxIdle)
      BY <2>6 DEF RestoreKey
    <3> QED BY <3>1
  <2>7. CASE DeleteKey(l)
    <3>1. next([ld[l] EXCEPT !.pc = "force"])
      BY <1>1, <2>7 DEF DeleteKey
    <3> QED BY <3>1
  <2> QED BY <2>1, <2>2, <2>3, <2>4, <2>5, <2>6, <2>7
<1> QED BY <1>1, <1>2, OutsideMutex

\* claimDomains and Kept leave each domain to one owner, whose route it is.
LEMMA KeptIsConsistent ==
  ASSUME NEW want, NEW prev
  PROVE  LET owners == claimDomains(want, prev)
             kept == Kept(want, owners)
         IN  Consistent([routes |-> kept, owners |-> owners, rules |-> registerRouteRules(kept)])
  BY DEF claimDomains, Kept, Consistent

\* SetRoutes publishes what it computed and keeps what there was.
LEMMA SetStep ==
  ASSUME RoutesInv, NEW l \in Loaders, SetRoutes(l)
  PROVE  RoutesInv'
<1> DEFINE want == ld[l].want
           owners == claimDomains(want, px.owners)
           kept == Kept(want, owners)
<1>1. /\ ld[l].pc = "set" /\ loadMu = NoLoader /\ loadMu' = l
      /\ px' = [routes |-> kept, owners |-> owners, rules |-> registerRouteRules(kept)]
      /\ ld' = [ld EXCEPT ![l] = [ld[l] EXCEPT !.pc = "build", !.prev = px]]
      /\ UNCHANGED <<caddy, lastKey>> /\ IsLoader(ld[l])
  BY DEF SetRoutes, AtPx, GoPx, RoutesInv, LoaderShape
<1>2. /\ IsLoader(ld'[l]) /\ ld'[l].pc = "build" /\ ld'[l].prev = px
      /\ ld'[l].op = ld[l].op /\ ld'[l].want = want
  BY <1>1 DEF RoutesInv, LoaderShape, IsLoader
<1>3. LoaderShape' /\ \A m \in Loaders \ {l} : ld'[m] = ld[m]
  BY <1>1, <1>2 DEF RoutesInv, LoaderShape
<1>4. HoldsLoadMu'
  BY <1>1, <1>2, <1>3, ProxyAssumption DEF RoutesInv, HoldsLoadMu, NoLoader
<1>5. Consistent(px)' /\ Consistent(px) /\ caddy'.routes = Config(px.routes)
  BY <1>1, KeptIsConsistent DEF RoutesInv, CaddyRuns, ToRestore, InSetRoutes, Consistent
<1>6. InSetRoutes' /\ ToRestore' = px
  BY <1>1, <1>2, ProxyAssumption DEF InSetRoutes, ToRestore, IsLoader, NoLoader
<1>7. CaddyRuns'
  BY <1>5, <1>6 DEF CaddyRuns
<1>8. Published'
  BY <1>1, <1>2 DEF Published
<1>9. KeyTellsRoutes'
  <2>1. \A m \in Loaders : ld'[m].pc # "load"
    BY <1>1, <1>2, <1>3, ProxyAssumption DEF RoutesInv, HoldsLoadMu, NoLoader
  <2> QED BY <1>1, <2>1 DEF RoutesInv, KeyTellsRoutes
<1> QED BY <1>3, <1>4, <1>7, <1>8, <1>9 DEF RoutesInv

\* ForceReload takes loadMu with the published state as it is.
LEMMA ForceStep ==
  ASSUME RoutesInv, NEW l \in Loaders, ForceReload(l)
  PROVE  RoutesInv'
<1>1. /\ ld[l].pc = "force" /\ loadMu = NoLoader /\ loadMu' = l
      /\ ld' = [ld EXCEPT ![l] = [ld[l] EXCEPT !.pc = "build"]]
      /\ UNCHANGED <<px, caddy, lastKey>> /\ IsLoader(ld[l])
  BY DEF ForceReload, AtPx, GoPx, RoutesInv, LoaderShape
<1>2. IsLoader(ld'[l]) /\ ld'[l].pc = "build" /\ ld'[l].op # "routes"
  BY <1>1 DEF RoutesInv, LoaderShape, IsLoader
<1>3. LoaderShape' /\ \A m \in Loaders \ {l} : ld'[m] = ld[m]
  BY <1>1, <1>2 DEF RoutesInv, LoaderShape
<1>4. HoldsLoadMu'
  BY <1>1, <1>2, <1>3, ProxyAssumption DEF RoutesInv, HoldsLoadMu, NoLoader
<1>5. ~InSetRoutes /\ ~InSetRoutes' /\ ToRestore = px /\ ToRestore' = px
  BY <1>1, <1>2 DEF InSetRoutes, ToRestore
<1>6. CaddyRuns' /\ Published'
  BY <1>1, <1>5 DEF RoutesInv, CaddyRuns, Consistent, Published
<1>7. KeyTellsRoutes'
  BY <1>1, <1>2, <1>3 DEF RoutesInv, HoldsLoadMu, KeyTellsRoutes
<1> QED BY <1>3, <1>4, <1>6, <1>7 DEF RoutesInv

\* Whoever leaves loadMu with a state that Caddy runs, leaves the routes right.
LEMMA LeaveStep ==
  ASSUME RoutesInv, NEW l \in Loaders, loadMu = l, loadMu' = NoLoader,
         NEW r, ld' = [ld EXCEPT ![l] = r], IsLoader(r), r.pc \notin {"build", "load"},
         Consistent(px)', caddy'.routes = Config(px'.routes),
         lastKey' = NoKey \/ lastKey' = <<caddy'.routes, lastKey'[2], lastKey'[3]>>
  PROVE  RoutesInv'
<1>1. LoaderShape' /\ ld'[l] = r /\ \A m \in Loaders \ {l} : ld'[m] = ld[m]
  BY DEF RoutesInv, LoaderShape
<1>2. HoldsLoadMu'
  BY <1>1, ProxyAssumption DEF RoutesInv, HoldsLoadMu, NoLoader
<1>3. CaddyRuns' /\ Published'
  BY DEF CaddyRuns, Published, InSetRoutes, ToRestore
<1>4. KeyTellsRoutes'
  BY <1>1, <1>2, ProxyAssumption DEF HoldsLoadMu, KeyTellsRoutes, NoLoader
<1> QED BY <1>1, <1>2, <1>3, <1>4 DEF RoutesInv

\* The key is built, or the load skipped because the last key is the same.
LEMMA BuildStep ==
  ASSUME RoutesInv, NEW l \in Loaders, BuildConfig(l)
  PROVE  RoutesInv'
<1> DEFINE key == ConfigKey(px.routes)
<1>1. /\ ld[l].pc = "build" /\ loadMu = l /\ IsLoader(ld[l])
      /\ UNCHANGED <<px, caddy, lastKey>>
  BY DEF BuildConfig, AtPx, RoutesInv, HoldsLoadMu, LoaderShape
<1>2. key = <<Config(px.routes), key[2], key[3]>>
  BY DEF ConfigKey
<1> HIDE DEF key
<1>3. CASE lastKey = key /\ loadMu' = NoLoader /\ ld' = [ld EXCEPT ![l] = PxIdle]
  <2>1. caddy'.routes = Config(px'.routes)
    BY <1>1, <1>2, <1>3 DEF RoutesInv, KeyTellsRoutes, NoKey
  <2> QED
    BY <1>1, <1>3, <2>1, LeaveStep DEF RoutesInv, CaddyRuns, Consistent, KeyTellsRoutes, IsLoader, PxIdle
<1>4. CASE /\ ld' = [ld EXCEPT ![l] = [ld[l] EXCEPT !.pc = "load", !.key = key]]
           /\ UNCHANGED loadMu
  <2>1. /\ IsLoader(ld'[l]) /\ ld'[l].pc = "load" /\ ld'[l].key = key
        /\ ld'[l].op = ld[l].op /\ ld'[l].want = ld[l].want /\ ld'[l].prev = ld[l].prev
    BY <1>1, <1>4 DEF RoutesInv, LoaderShape, IsLoader
  <2>2. LoaderShape' /\ \A m \in Loaders \ {l} : ld'[m] = ld[m]
    BY <1>4, <2>1 DEF RoutesInv, LoaderShape
  <2>3. HoldsLoadMu'
    BY <1>1, <1>4, <2>1, <2>2 DEF RoutesInv, HoldsLoadMu
  <2>4. InSetRoutes' = InSetRoutes /\ ToRestore' = ToRestore
    BY <1>1, <1>4, <2>1 DEF InSetRoutes, ToRestore
  <2>5. CaddyRuns' /\ Published'
    BY <1>1, <1>4, <2>1, <2>4 DEF RoutesInv, CaddyRuns, Consistent, Published
  <2>6. KeyTellsRoutes'
    BY <1>1, <1>2, <2>1, <2>2 DEF RoutesInv, KeyTellsRoutes
  <2> QED BY <2>2, <2>3, <2>5, <2>6 DEF RoutesInv
<1> QED BY <1>3, <1>4 DEF BuildConfig, GoPx, key

\* caddy.Load: Caddy runs the published state, or goes on with the one that is
\* put back.
LEMMA LoadStep ==
  ASSUME RoutesInv, NEW l \in Loaders, LoadConfig(l) \/ LoadFails(l)
  PROVE  RoutesInv'
<1>1. ld[l].pc = "load" /\ loadMu = l /\ IsLoader(ld[l]) /\ loadMu' = NoLoader
  BY DEF LoadConfig, LoadFails, ReloadFailed, AtPx, RoutesInv, HoldsLoadMu, LoaderShape
<1>2. loadMu # NoLoader
  BY <1>1, ProxyAssumption DEF NoLoader
<1>3. CASE LoadConfig(l)
  <2>1. /\ ld' = [ld EXCEPT ![l] = PxIdle] /\ UNCHANGED px /\ lastKey' = ld[l].key
        /\ caddy'.routes = Config(px.routes)
    BY <1>3 DEF LoadConfig, GoPx
  <2>2. Consistent(px)' /\ lastKey' = <<caddy'.routes, lastKey'[2], lastKey'[3]>>
    BY <1>1, <2>1 DEF RoutesInv, CaddyRuns, Consistent, KeyTellsRoutes
  <2> QED BY <1>1, <2>1, <2>2, LeaveStep DEF IsLoader, PxIdle
<1>4. CASE LoadFails(l)
  <2>1. PICK r : /\ ld' = [ld EXCEPT ![l] = r] /\ IsLoader(r)
                 /\ r.pc \notin {"build", "load"}
    <3>1. CASE ld[l].op = "upload"
      <4> DEFINE r == [ld[l] EXCEPT !.pc = "unCrt"]
      <4>1. IsLoader(r) /\ r.pc = "unCrt"
        BY <1>1 DEF IsLoader
      <4>2. ld' = [ld EXCEPT ![l] = r]
        BY <1>4, <3>1 DEF LoadFails, ReloadFailed, GoPx
      <4> HIDE DEF r
      <4> QED BY <4>1, <4>2
    <3>2. CASE ld[l].op # "upload"
      <4>1. IsLoader(PxIdle) /\ PxIdle.pc = "idle"
        BY DEF IsLoader, PxIdle
      <4>2. ld' = [ld EXCEPT ![l] = PxIdle]
        BY <1>4, <3>2 DEF LoadFails, ReloadFailed, GoPx
      <4> QED BY <4>1, <4>2
    <3> QED BY <3>1, <3>2
  <2>2. px' = ToRestore /\ UNCHANGED caddy /\ lastKey' = NoKey
    BY <1>1, <1>2, <1>4 DEF LoadFails, ReloadFailed, ToRestore, InSetRoutes
  <2>3. Consistent(px)' /\ caddy'.routes = Config(px'.routes)
    BY <2>2 DEF RoutesInv, CaddyRuns, Consistent
  <2> QED BY <1>1, <2>1, <2>2, <2>3, LeaveStep
<1> QED BY <1>3, <1>4

\* The inductive invariant of the routes.
LEMMA RoutesStep == RoutesInv /\ [ProxyNext]_proxyVars => RoutesInv'
<1> SUFFICES ASSUME RoutesInv, [ProxyNext]_proxyVars PROVE RoutesInv'
  OBVIOUS
<1>1. CASE UNCHANGED <<px, caddy, lastKey, loadMu, ld>>
  BY <1>1, OutsideMutex
<1>2. CASE RenewCert \/ \E a \in PxApps : EditEndpoints(a)
  BY <1>1, <1>2 DEF RenewCert, EditEndpoints
<1> QED
  BY <1>1, <1>2, ScanStep, SetStep, ForceStep, BuildStep, LoadStep DEF ProxyNext, proxyVars

\* SetRoutes: between updates the published routes, owners and rules are those
\* of the config that Caddy runs.
THEOREM RoutesAreLoaded == ProxySpec => []RulesMatchLoaded
<1>1. RoutesInv => RulesMatchLoaded
  BY DEF RoutesInv, CaddyRuns, Consistent, ToRestore, InSetRoutes, RulesMatchLoaded
<1> QED BY <1>1, RoutesInit, RoutesStep, PTL DEF ProxySpec

----------------------------------------------------------------------------
(* Domains                                                                 *)

\* A domain that Caddy serves has one app.
LEMMA ServedByOne ==
  ASSUME RoutesInv, NEW r \in caddy.routes
  PROVE  r = <<r[1], r[2]>> /\ r[2] \in DOMAIN ToRestore.owners /\ ToRestore.owners[r[2]] = r[1]
  BY DEF RoutesInv, CaddyRuns, Consistent, Config

\* claimDomains: an app keeps the domain it serves for as long as it claims it.
THEOREM DomainsAreKept == ProxySpec => DomainKept
<1>1. RoutesInv /\ RoutesInv' /\ [ProxyNext]_proxyVars
        => [\A r \in caddy.routes, s \in caddy'.routes :
              s[2] = r[2] /\ s[1] # r[1] => r[1] \notin Claimants(ld[loadMu].want, r[2])]_proxyVars
  <2> SUFFICES ASSUME RoutesInv, RoutesInv', ProxyNext,
                      NEW r \in caddy.routes, NEW s \in caddy'.routes,
                      s[2] = r[2], s[1] # r[1]
               PROVE  r[1] \notin Claimants(ld[loadMu].want, r[2])
    OBVIOUS
  <2>1. CASE UNCHANGED caddy
    BY <2>1, ServedByOne
  <2>2. ASSUME NEW l \in Loaders, LoadConfig(l)
        PROVE  r[1] \notin Claimants(ld[loadMu].want, r[2])
    <3>1. loadMu = l /\ loadMu # NoLoader /\ caddy'.routes = Config(px.routes)
      BY <2>2, ProxyAssumption DEF LoadConfig, AtPx, RoutesInv, HoldsLoadMu, NoLoader
    <3>2. s[2] \in DOMAIN px.owners /\ px.owners[s[2]] = s[1]
      BY <3>1 DEF RoutesInv, CaddyRuns, Consistent, Config
    <3>3. CASE ~InSetRoutes
      BY <3>2, <3>3, ServedByOne DEF ToRestore
    <3>4. CASE InSetRoutes
      <4>1. r[2] \in DOMAIN ld[l].prev.owners /\ ld[l].prev.owners[r[2]] = r[1]
        BY <3>1, <3>4, ServedByOne DEF ToRestore
      <4>2. px.owners = claimDomains(ld[l].want, ld[l].prev.owners)
        BY <3>1, <3>4 DEF RoutesInv, Published
      <4> QED BY <3>1, <3>2, <4>1, <4>2 DEF claimDomains
    <3> QED BY <3>3, <3>4
  <2>3. \/ UNCHANGED caddy
        \/ \E l \in Loaders : LoadConfig(l)
    BY DEF ProxyNext, RenewCert, EditEndpoints, ScanRoutes, SetRoutes, BuildConfig, LoadFails,
           UploadCrt, UploadKey, DeleteCert, DeleteKey, ForceReload, RestoreCrt, RestoreKey
  <2> QED BY <2>1, <2>2, <2>3
<1> QED BY <1>1, RoutesInit, RoutesStep, PTL DEF ProxySpec, DomainKept

----------------------------------------------------------------------------
(* Certificate files                                                       *)

\* A file written by time n; one that does not exist has no time.
IsFile(f, n) ==
    /\ f \in [v : Nat, t : Nat] /\ f.t <= n
    /\ f.v = Missing <=> f.t = 0
IsPair(c, n) == c \in [crt : {c.crt}, key : {c.key}] /\ IsFile(c.crt, n) /\ IsFile(c.key, n)

\* A key of a config with a certificate has the times of files that existed.
KeyFits(k, n) == k[2] => k[3] \in (1 .. n) \X (1 .. n)

\* So have the files and keys that loaders hold.
LoadersFit ==
    \A l \in Loaders :
        /\ IsPair(ld[l].had, nCerts)
        /\ ld[l].pc = "key" => ld[l].v \in Nat \ {0}
        /\ ld[l].pc = "load" => KeyFits(ld[l].key, nCerts)

\* As long as the files have the times of the last load's key, Caddy has the
\* certificate that is in them.
KeyTellsFiles ==
    lastKey # NoKey =>
        /\ KeyFits(lastKey, nCerts)
        /\ lastKey[2] /\ lastKey[3] = <<cert.crt.t, cert.key.t>> => caddy.cert = cert.crt.v

FilesInv == nCerts \in Nat /\ IsPair(cert, nCerts) /\ LoadersFit /\ KeyTellsFiles

\* A fresh proxy has no certificate.
LEMMA FilesInit == ProxyInit => FilesInv
  BY DEF ProxyInit, FilesInv, IsPair, IsFile, LoadersFit, KeyTellsFiles, NoPair, File, Missing, PxIdle

\* Time passes: what was a file, a pair or a key stays one.
LEMMA FilesAge ==
  ASSUME NEW m \in Nat, NEW n \in Nat, m <= n
  PROVE  /\ \A c : IsPair(c, m) => IsPair(c, n)
         /\ \A k : KeyFits(k, m) => KeyFits(k, n)
<1>1. ASSUME NEW f, IsFile(f, m) PROVE IsFile(f, n)
  BY <1>1 DEF IsFile
<1>2. ASSUME NEW c, IsPair(c, m) PROVE IsPair(c, n)
  BY <1>1, <1>2 DEF IsPair
<1>3. ASSUME NEW k, KeyFits(k, m) PROVE KeyFits(k, n)
  BY <1>3 DEF KeyFits
<1> QED BY <1>2, <1>3

\* A step of one loader, at whatever point: the others keep what they have.
LEMMA LoaderFits ==
  ASSUME FilesInv, nCerts' \in Nat, nCerts <= nCerts', LoaderShape,
         NEW l \in Loaders, NEW r, ld' = [ld EXCEPT ![l] = r],
         IsPair(r.had, nCerts'), r.pc = "key" => r.v \in Nat \ {0},
         r.pc = "load" => KeyFits(r.key, nCerts')
  PROVE  LoadersFit'
<1>1. ld'[l] = r /\ \A m \in Loaders \ {l} : ld'[m] = ld[m]
  BY DEF LoaderShape
<1>2. \A m \in Loaders : /\ IsPair(ld[m].had, nCerts')
                         /\ ld[m].pc = "load" => KeyFits(ld[m].key, nCerts')
  BY FilesAge DEF FilesInv, LoadersFit
<1>3. ASSUME NEW m \in Loaders
      PROVE  /\ IsPair(ld'[m].had, nCerts')
             /\ ld'[m].pc = "key" => ld'[m].v \in Nat \ {0}
             /\ ld'[m].pc = "load" => KeyFits(ld'[m].key, nCerts')
  BY <1>1, <1>2 DEF FilesInv, LoadersFit
<1> QED BY <1>3 DEF LoadersFit

\* A file is written: no key so far has its time.
LEMMA FileStep ==
  ASSUME FilesInv, WriteFile, UNCHANGED <<lastKey, caddy>>,
         cert'.crt = cert.crt \/ cert'.crt.t \in {0, nCerts'},
         cert'.key = cert.key \/ cert'.key.t \in {0, nCerts'}
  PROVE  nCerts' \in Nat /\ nCerts <= nCerts' /\ KeyTellsFiles'
<1>1. nCerts' = nCerts + 1 /\ nCerts \in Nat
  BY DEF WriteFile, FilesInv
<1>2. CASE lastKey = NoKey
  BY <1>1, <1>2 DEF KeyTellsFiles
<1>3. CASE lastKey # NoKey
  <2>1. KeyFits(lastKey, nCerts) /\ KeyFits(lastKey, nCerts')
    BY <1>1, <1>3, FilesAge DEF FilesInv, KeyTellsFiles
  <2>2. ASSUME lastKey[2], lastKey[3] = <<cert'.crt.t, cert'.key.t>>
        PROVE  cert'.crt = cert.crt /\ cert'.key = cert.key
    BY <1>1, <2>1, <2>2 DEF KeyFits
  <2> QED BY <1>1, <1>3, <2>1, <2>2 DEF FilesInv, KeyTellsFiles
<1> QED BY <1>1, <1>2, <1>3

\* The files of a certificate request: written, removed or put back.
LEMMA RequestFiles ==
  ASSUME FilesInv, LoaderShape, NEW l \in Loaders,
         UploadCrt(l) \/ UploadKey(l) \/ DeleteCert(l) \/ DeleteKey(l) \/ RestoreCrt(l) \/ RestoreKey(l)
  PROVE  FilesInv'
<1>1. /\ UNCHANGED <<lastKey, caddy>> /\ WriteFile
      /\ nCerts \in Nat /\ nCerts' = nCerts + 1
      /\ IsLoader(ld[l]) /\ IsPair(ld[l].had, nCerts') /\ IsPair(cert, nCerts') /\ IsPair(NoPair, nCerts')
  <2>1. nCerts \in Nat /\ WriteFile /\ UNCHANGED <<lastKey, caddy>>
    BY DEF FilesInv, UploadCrt, UploadKey, DeleteCert, DeleteKey, RestoreCrt, RestoreKey, NewCert
  <2>2. nCerts' = nCerts + 1 /\ nCerts' \in Nat
    BY <2>1 DEF WriteFile
  <2>3. IsPair(ld[l].had, nCerts) /\ IsPair(cert, nCerts) /\ IsLoader(ld[l])
    BY DEF FilesInv, LoadersFit, LoaderShape
  <2>4. IsPair(NoPair, nCerts)
    BY <2>1 DEF NoPair, File, Missing, IsPair, IsFile
  <2> QED BY <2>1, <2>2, <2>3, <2>4, FilesAge
<1> DEFINE fits(r) == /\ ld' = [ld EXCEPT ![l] = r] /\ IsPair(r.had, nCerts')
                      /\ r.pc = "key" => r.v \in Nat \ {0}
                      /\ r.pc # "load"
           renewed(c) == /\ IsPair(c, nCerts')
                         /\ c.crt = cert.crt \/ c.crt.t \in {0, nCerts'}
                         /\ c.key = cert.key \/ c.key.t \in {0, nCerts'}
<1>2. ASSUME NEW v \in Nat \ {0}
      PROVE  IsFile(File(v, nCerts'), nCerts') /\ File(v, nCerts').t = nCerts'
  BY <1>1 DEF IsFile, File, Missing
<1>3. ASSUME NEW f, IsFile(f, nCerts')
      PROVE  IsFile(Rewritten(f), nCerts') /\ Rewritten(f).t \in {0, nCerts'}
  BY <1>1, <1>3 DEF Rewritten, IsFile, Missing
<1>4. (\E r : fits(r)) /\ renewed(cert')
  <2> USE DEF GoPx, AtPx
  <2>1. CASE UploadCrt(l)
    <3>1. fits([PxIdle EXCEPT !.pc = "key", !.op = "upload", !.v = nCerts', !.had = cert])
      BY <1>1, <2>1 DEF UploadCrt, PxIdle
    <3>2. cert' = [cert EXCEPT !.crt = File(nCerts', nCerts')]
      BY <2>1 DEF UploadCrt
    <3>3. renewed(cert')
      BY <1>1, <1>2, <3>2 DEF IsPair
    <3> QED BY <3>1, <3>3
  <2>2. CASE UploadKey(l)
    <3>1. fits([ld[l] EXCEPT !.pc = "force"])
      BY <1>1, <2>2 DEF UploadKey, IsLoader
    <3>2. cert' = [cert EXCEPT !.key = File(ld[l].v, nCerts')] /\ ld[l].v \in Nat \ {0}
      BY <2>2 DEF UploadKey, FilesInv, LoadersFit
    <3>3. renewed(cert')
      BY <1>1, <1>2, <3>2 DEF IsPair
    <3> QED BY <3>1, <3>3
  <2>3. CASE DeleteCert(l)
    <3>1. fits([PxIdle EXCEPT !.pc = "rmKey", !.op = "delete"])
      BY <1>1, <2>3 DEF DeleteCert, PxIdle
    <3>2. cert' = [cert EXCEPT !.crt = NoPair.crt]
      BY <2>3 DEF DeleteCert
    <3>3. renewed(cert')
      BY <1>1, <3>2 DEF IsPair, NoPair, File
    <3> QED BY <3>1, <3>3
  <2>4. CASE RestoreCrt(l)
    <3>1. fits([ld[l] EXCEPT !.pc = "unKey"])
      BY <1>1, <2>4 DEF RestoreCrt, IsLoader
    <3>2. cert' = [cert EXCEPT !.crt = Rewritten(ld[l].had.crt)]
      BY <2>4 DEF RestoreCrt
    <3>3. renewed(cert')
      BY <1>1, <1>3, <3>2 DEF IsPair
    <3> QED BY <3>1, <3>3
  <2>5. CASE RestoreKey(l)
    <3>1. fits(PxIdle)
      BY <1>1, <2>5 DEF RestoreKey, PxIdle
    <3>2. cert' = [cert EXCEPT !.key = Rewritten(ld[l].had.key)]
      BY <2>5 DEF RestoreKey
    <3>3. renewed(cert')
      BY <1>1, <1>3, <3>2 DEF IsPair
    <3> QED BY <3>1, <3>3
  <2>6. CASE DeleteKey(l)
    <3>1. fits([ld[l] EXCEPT !.pc = "force"])
      BY <1>1, <2>6 DEF DeleteKey, IsLoader
    <3>2. cert' = [cert EXCEPT !.key = NoPair.key]
      BY <2>6 DEF DeleteKey
    <3>3. renewed(cert')
      BY <1>1, <3>2 DEF IsPair, NoPair, File
    <3> QED BY <3>1, <3>3
  <2> QED BY <2>1, <2>2, <2>3, <2>4, <2>5, <2>6
<1>5. LoadersFit'
  <2>1. PICK r : fits(r)
    BY <1>4
  <2>2. nCerts' \in Nat /\ nCerts <= nCerts'
    BY <1>1
  <2> QED BY <2>1, <2>2, LoaderFits
<1> QED BY <1>1, <1>4, <1>5, FileStep DEF FilesInv

\* The steps of a loader that write no file.
LEMMA LoaderFiles ==
  ASSUME FilesInv, RoutesInv, NEW l \in Loaders,
         \/ ScanRoutes(l) \/ SetRoutes(l) \/ ForceReload(l) \/ BuildConfig(l)
         \/ LoadConfig(l) \/ LoadFails(l)
  PROVE  FilesInv'
<1>1. UNCHANGED <<cert, nCerts>> /\ nCerts \in Nat /\ IsLoader(ld[l]) /\ LoaderShape
  BY DEF ScanRoutes, SetRoutes, ForceReload, BuildConfig, LoadConfig, LoadFails, FilesInv, RoutesInv, LoaderShape
<1> DEFINE fits(r) == /\ ld' = [ld EXCEPT ![l] = r] /\ IsPair(r.had, nCerts)
                      /\ r.pc # "key"
                      /\ r.pc = "load" => KeyFits(r.key, nCerts)
<1>2. IsPair(NoPair, nCerts) /\ IsPair(ld[l].had, nCerts)
  BY <1>1 DEF FilesInv, LoadersFit, NoPair, File, Missing, IsPair, IsFile
<1>3. \E r : fits(r)
  <2> USE DEF GoPx
  <2>1. CASE ScanRoutes(l)
    <3>1. fits([PxIdle EXCEPT !.pc = "set", !.op = "routes", !.want = ResolveRoutes])
      BY <1>2, <2>1 DEF ScanRoutes, PxIdle
    <3> QED BY <3>1
  <2>2. CASE SetRoutes(l)
    <3>1. fits([ld[l] EXCEPT !.pc = "build", !.prev = px])
      BY <1>1, <1>2, <2>2 DEF SetRoutes, IsLoader
    <3> QED BY <3>1
  <2>3. CASE ForceReload(l)
    <3>1. fits([ld[l] EXCEPT !.pc = "build"])
      BY <1>1, <1>2, <2>3 DEF ForceReload, IsLoader
    <3> QED BY <3>1
  <2>4. CASE BuildConfig(l)
    <3>1. KeyFits(ConfigKey(px.routes), nCerts)
      BY DEF FilesInv, IsPair, IsFile, KeyFits, ConfigKey, Loads, certFingerprint
    <3>2. CASE ld' = [ld EXCEPT ![l] = PxIdle]
      <4>1. fits(PxIdle)
        BY <1>2, <3>2 DEF PxIdle
      <4> QED BY <4>1
    <3>3. CASE ld' = [ld EXCEPT ![l] = [ld[l] EXCEPT !.pc = "load", !.key = ConfigKey(px.routes)]]
      <4>1. fits([ld[l] EXCEPT !.pc = "load", !.key = ConfigKey(px.routes)])
        BY <1>1, <1>2, <3>1, <3>3 DEF IsLoader
      <4> QED BY <4>1
    <3> QED BY <2>4, <3>2, <3>3 DEF BuildConfig
  <2>5. CASE LoadConfig(l) \/ LoadFails(l)
    <3>1. CASE ld' = [ld EXCEPT ![l] = PxIdle]
      <4>1. fits(PxIdle)
        BY <1>2, <3>1 DEF PxIdle
      <4> QED BY <4>1
    <3>2. CASE ld' = [ld EXCEPT ![l] = [ld[l] EXCEPT !.pc = "unCrt"]]
      <4>1. fits([ld[l] EXCEPT !.pc = "unCrt"])
        BY <1>1, <1>2, <3>2 DEF IsLoader
      <4> QED BY <4>1
    <3> QED BY <2>5, <3>1, <3>2 DEF LoadConfig, LoadFails, ReloadFailed
  <2> QED BY <2>1, <2>2, <2>3, <2>4, <2>5
<1>4. LoadersFit'
  <2>1. PICK r : fits(r)
    BY <1>3
  <2>2. nCerts' \in Nat /\ nCerts <= nCerts'
        /\ IsPair(r.had, nCerts') /\ (r.pc = "load" => KeyFits(r.key, nCerts'))
    BY <1>1, <2>1
  <2> QED BY <1>1, <2>1, <2>2, LoaderFits
<1>5. KeyTellsFiles'
  <2>1. CASE UNCHANGED <<lastKey, caddy>>
    BY <1>1, <2>1 DEF FilesInv, KeyTellsFiles
  <2>2. CASE LoadConfig(l)
    <3>1. KeyFits(ld[l].key, nCerts) /\ lastKey' = ld[l].key /\ (ld[l].key[2] => caddy'.cert = cert.crt.v)
      BY <2>2 DEF LoadConfig, AtPx, FilesInv, LoadersFit
    <3> QED BY <1>1, <3>1 DEF KeyTellsFiles
  <2>3. CASE LoadFails(l)
    BY <2>3 DEF LoadFails, KeyTellsFiles
  <2> QED BY <2>1, <2>2, <2>3 DEF ScanRoutes, SetRoutes, ForceReload, BuildConfig
<1> QED BY <1>1, <1>4, <1>5 DEF FilesInv

\* The invariant of the certificate files, beside that of the routes.
LEMMA FilesStep == FilesInv /\ RoutesInv /\ [ProxyNext]_proxyVars => FilesInv'
<1> SUFFICES ASSUME FilesInv, RoutesInv, [ProxyNext]_proxyVars PROVE FilesInv'
  OBVIOUS
<1>1. CASE UNCHANGED <<cert, nCerts, ld, lastKey, caddy>>
  BY <1>1 DEF FilesInv, LoadersFit, KeyTellsFiles
<1>2. CASE \E a \in PxApps : EditEndpoints(a)
  BY <1>1, <1>2 DEF EditEndpoints
<1>3. CASE RenewCert
  <2>1. /\ WriteFile /\ UNCHANGED <<ld, lastKey, caddy>>
        /\ cert' = [crt |-> File(nCerts', nCerts'), key |-> File(nCerts', nCerts')]
    BY <1>3 DEF RenewCert, NewCert
  <2>2. nCerts \in Nat /\ nCerts' = nCerts + 1
    BY <2>1 DEF WriteFile, FilesInv
  <2>3. IsPair(cert', nCerts') /\ cert'.crt.t = nCerts' /\ cert'.key.t = nCerts'
    BY <2>1, <2>2 DEF IsPair, IsFile, File, Missing
  <2>4. LoadersFit'
    BY <2>1, <2>2, FilesAge DEF FilesInv, LoadersFit
  <2> QED BY <2>1, <2>2, <2>3, <2>4, FileStep DEF FilesInv
<1> QED
  BY <1>1, <1>2, <1>3, RequestFiles, LoaderFiles DEF ProxyNext, proxyVars, RoutesInv

\* reloadLocked: a reload is skipped only when Caddy already serves these routes
\* and the certificate that is in the files.
THEOREM SkipsAreSafe == ProxySpec => []SkipIsSafe
<1>1. RoutesInv /\ FilesInv => SkipIsSafe
  <2> SUFFICES ASSUME RoutesInv, FilesInv, lastKey = ConfigKey(px.routes), loadMu = NoLoader
               PROVE  /\ caddy.routes = Config(px.routes)
                      /\ Loads(px.routes) => caddy.cert = cert.crt.v
    BY DEF SkipIsSafe
  <2>1. caddy.routes = Config(px.routes)
    BY DEF RoutesInv, CaddyRuns, ToRestore, InSetRoutes
  <2>2. ASSUME Loads(px.routes) PROVE caddy.cert = cert.crt.v
    <3>1. lastKey # NoKey /\ lastKey[2] /\ lastKey[3] = <<cert.crt.t, cert.key.t>>
      BY <2>2 DEF ConfigKey, Loads, certFingerprint, NoKey
    <3> QED BY <3>1 DEF FilesInv, KeyTellsFiles
  <2> QED BY <2>1, <2>2
<1> QED BY <1>1, RoutesInit, RoutesStep, FilesInit, FilesStep, PTL DEF ProxySpec

-----------------------------------------------------------------------------
(* The log ring                                                            *)

\* Where the i-th newest line lies, and how many lines the ring holds.
Back(p, i) == IF p - i < 0 THEN p - i + RingSize ELSE p - i
Held == Least(RingSize, Len(written))

\* The ring holds the newest lines, each at its place.
RingInv ==
    /\ written \in Seq(Nat)
    /\ ring \in [entries : [0..(RingSize - 1) -> Nat], pos : 0..(RingSize - 1), full : BOOLEAN]
    /\ IF ring.full THEN Len(written) >= RingSize ELSE ring.pos = Len(written)
    /\ \A i \in 1..Held : ring.entries[Back(ring.pos, i)] = written[Len(written) - i + 1]

\* One place further the i-th newest line is where the one before it was.
LEMMA BackMoves ==
  ASSUME NEW p \in 0..(RingSize - 1), NEW i \in 2..RingSize
  PROVE  /\ Back(IF p + 1 >= RingSize THEN 0 ELSE p + 1, i) = Back(p, i - 1)
         /\ Back(p, i - 1) # p /\ Back(p, i - 1) \in 0..(RingSize - 1)
<1>1. CASE p + 1 >= RingSize
  BY <1>1, RingAssumption DEF Back
<1>2. CASE p + 1 < RingSize
  BY <1>2, RingAssumption DEF Back
<1> QED BY <1>1, <1>2, RingAssumption

\* The empty ring holds the empty list.
LEMMA EmptyRingFits == ring = EmptyRing /\ written = <<>> => RingInv
<1> SUFFICES ASSUME ring = EmptyRing, written = <<>> PROVE RingInv
  OBVIOUS
<1>1. Len(written) = 0 /\ written \in Seq(Nat)
  BY EmptySeq
<1>2. Held = 0
  BY <1>1, RingAssumption DEF Held, Least
<1>3. ring \in [entries : [0..(RingSize - 1) -> Nat], pos : 0..(RingSize - 1), full : BOOLEAN]
  BY RingAssumption DEF EmptyRing
<1> QED BY <1>1, <1>2, <1>3 DEF RingInv, EmptyRing

\* Writing a line: it becomes the newest, and the others move one place back.
LEMMA WriteFits == RingInv /\ WriteEntry => RingInv'
<1> SUFFICES ASSUME RingInv, WriteEntry PROVE RingInv'
  OBVIOUS
<1> DEFINE n == Len(written)
           x == n + 1
<1>1. /\ n \in Nat /\ written' = Append(written, x) /\ written' \in Seq(Nat) /\ Len(written') = n + 1
      /\ \A i \in 1..n : written'[i] = written[i]
      /\ written'[n + 1] = x
  <2>1. written \in Seq(Nat) /\ n \in Nat /\ written' = Append(written, x)
    BY DEF RingInv, WriteEntry
  <2>2. x \in Nat
    BY <2>1
  <2> HIDE DEF x
  <2>3. QED BY <2>1, <2>2, AppendProperties
<1>2. /\ ring.pos \in 0..(RingSize - 1) /\ ring.full \in BOOLEAN
      /\ ring.entries \in [0..(RingSize - 1) -> Nat]
      /\ ring'.entries = [ring.entries EXCEPT ![ring.pos] = x]
      /\ ring'.pos = IF ring.pos + 1 >= RingSize THEN 0 ELSE ring.pos + 1
      /\ ring'.full <=> (ring.full \/ ring.pos + 1 >= RingSize)
      /\ RingSize \in Nat
  BY RingAssumption DEF RingInv, WriteEntry
<1>3. ring' \in [entries : [0..(RingSize - 1) -> Nat], pos : 0..(RingSize - 1), full : BOOLEAN]
  BY <1>1, <1>2, RingAssumption DEF WriteEntry
<1>4. IF ring'.full THEN Len(written') >= RingSize ELSE ring'.pos = Len(written')
  <2>1. IF ring.full THEN n >= RingSize ELSE ring.pos = n
    BY DEF RingInv
  <2> HIDE DEF n
  <2> QED BY <1>1, <1>2, <2>1, RingAssumption
<1>5. ASSUME NEW i \in 1..Held'
      PROVE  ring'.entries[Back(ring'.pos, i)] = written'[Len(written') - i + 1]
  <2>0. i \in Nat /\ 1 <= i /\ i <= RingSize /\ i <= n + 1
    BY <1>1, RingAssumption DEF Held, Least
  <2>1. CASE i = 1
    <3>1. Back(ring'.pos, 1) = ring.pos
      BY <1>2, RingAssumption DEF Back
    <3> QED BY <1>1, <1>2, <2>1, <3>1
  <2>2. CASE i # 1
    <3>1. i - 1 \in 1..Held
      BY <1>1, <2>0, <2>2, RingAssumption DEF Held, Least
    <3>2. i \in 2..RingSize
      BY <1>2, <2>0, <2>2
    <3>3. ring'.pos = IF ring.pos + 1 >= RingSize THEN 0 ELSE ring.pos + 1
      BY <1>2
    <3>4. ring.pos \in 0..(RingSize - 1)
      BY <1>2
    <3>5. Back(ring'.pos, i) = Back(ring.pos, i - 1)
          /\ Back(ring.pos, i - 1) # ring.pos /\ Back(ring.pos, i - 1) \in 0..(RingSize - 1)
      BY ONLY <3>2, <3>3, <3>4, BackMoves, ZenonT(30)
    <3>6. ring'.entries[Back(ring'.pos, i)] = ring.entries[Back(ring.pos, i - 1)]
      BY <1>2, <3>5
    <3>7. ring.entries[Back(ring.pos, i - 1)] = written[n - (i - 1) + 1]
      BY <3>1 DEF RingInv
    <3>8. n - (i - 1) + 1 = (n + 1) - i + 1 /\ (n + 1) - i + 1 \in 1..n
      BY <1>1, <2>0, <2>2
    <3> QED BY <1>1, <3>6, <3>7, <3>8
  <2> QED BY <2>1, <2>2
<1> QED BY <1>1, <1>3, <1>4, <1>5 DEF RingInv

\* Buffer.Recent: the newest lines in the order they were written, for every
\* limit, wherever the ring has wrapped round.
THEOREM RecentIsNewest == RingSpec => []RecentIsSuffix
<1>1. RingInv => RecentIsSuffix
  <2> SUFFICES ASSUME RingInv, NEW limit \in 0..RingSize + 1
               PROVE  LET n == Least(limit, Least(RingSize, Len(written)))
                      IN Recent(limit) = SubSeq(written, Len(written) - n + 1, Len(written))
    BY DEF RecentIsSuffix
  <2> DEFINE m == Len(written)
             n == Least(limit, Held)
             count == IF ring.full THEN RingSize ELSE ring.pos
  <2>1. m \in Nat /\ written \in Seq(Nat) /\ ring.pos \in 0..(RingSize - 1)
    BY DEF RingInv
  <2>2. count = Held
    BY <2>1, RingAssumption DEF RingInv, Held, Least
  <2>3. n \in 0..Held /\ Held \in 0..m /\ Held \in 0..RingSize
    BY <2>1, RingAssumption DEF Held, Least
  <2>4. (IF limit > count THEN count ELSE limit) = n
    BY <2>2, <2>3, RingAssumption DEF Least
  <2>5. Recent(limit) = [i \in 1..n |-> ring.entries[RingIndex(i - 1, n)]]
    BY <2>4 DEF Recent
  <2>6. ASSUME NEW i \in 1..n
        PROVE  ring.entries[RingIndex(i - 1, n)] = written[m - n + i]
    <3>1. n - i + 1 \in 1..Held
      BY <2>3
    <3>2. RingIndex(i - 1, n) = Back(ring.pos, n - i + 1)
      BY <2>1, <2>3, RingAssumption, SMTT(30) DEF RingIndex, Back
    <3>3. ring.entries[Back(ring.pos, n - i + 1)] = written[m - (n - i + 1) + 1]
      BY <3>1 DEF RingInv
    <3>4. m - (n - i + 1) + 1 = m - n + i
      BY <2>1, <2>3
    <3> QED BY <3>2, <3>3, <3>4
  <2>7. SubSeq(written, m - n + 1, m) = [i \in 1..n |-> written[m - n + i]]
    <3> HIDE DEF n
    <3>1. m - (m - n + 1) + 1 = n
      BY <2>1, <2>3
    <3>2. SubSeq(written, m - n + 1, m) = [i \in 1..n |-> written[i + (m - n + 1) - 1]]
      BY <2>1, <2>3, <3>1, SMTT(30)
    <3>3. \A i \in 1..n : i + (m - n + 1) - 1 = m - n + i
      BY <2>1, <2>3
    <3> QED BY <3>2, <3>3
  <2> HIDE DEF n
  <2>8. Recent(limit) = SubSeq(written, m - n + 1, m)
    BY <2>5, <2>6, <2>7
  <2> QED BY <2>8 DEF n, Held
<1>2. RingInit => RingInv
  BY EmptyRingFits DEF RingInit
<1>3. RingInv /\ [RingNext]_ringVars => RingInv'
  <2> SUFFICES ASSUME RingInv, [RingNext]_ringVars PROVE RingInv'
    OBVIOUS
  <2>1. CASE WriteEntry
    BY <2>1, WriteFits
  <2>2. CASE ClearRing
    <3>1. (ring = EmptyRing /\ written = <<>> => RingInv)'
      BY EmptyRingFits, PTL
    <3> QED BY <2>2, <3>1 DEF ClearRing, EmptyRing
  <2>3. CASE UNCHANGED ringVars
    BY <2>3 DEF ringVars, RingInv, Held, Back
  <2> QED BY <2>1, <2>2, <2>3 DEF RingNext
<1> QED BY <1>1, <1>2, <1>3, PTL DEF RingSpec

-----------------------------------------------------------------------------
(* The global rows and their two files                                     *)

\* The users and API keys of a database or of secrets.yml.
Rows == [pw : [Users -> Nat \cup {Gone}], keys : SUBSET Nat]
\* A key belongs to its user.
GoodRows == {d \in Rows : d.keys # {} => d.pw[Owner] # Gone}
GoodConfig == {c \in [users : SUBSET Users, key : BOOLEAN] : c.key => Owner \in c.users}
\* Where a server is in its boot, and where nothing is being written.
Booting == {"backfill", "backfilling", "seed", "seeding", "reload"}
Resting == {"down", "backfill", "seed", "reload"}
\* A WriteGlobal before either of its two files.
Active == [pc : {"secrets", "config"}, data : GoodRows]

\* Rows are in order, and so are the files that a server wrote.
GlobalShapes ==
    /\ globals \in GoodRows
    /\ config \in GoodConfig \cup {Absent, Malformed}
    /\ secrets \in Rows \cup {Absent}
    /\ seeded \in BOOLEAN /\ backfilled \in BOOLEAN /\ pending \in BOOLEAN
    /\ server \in Booting \cup {"down", "up", "exit"}
    /\ writer \in [Writers -> Active \cup {Idle}]
    /\ nChange \in Nat

\* The timer writes for a server that runs or boots, Close for one that exits.
RestQuiet ==
    /\ server \in Resting => writer["timer"] = Idle
    /\ server # "exit" => writer["closer"] = Idle
    /\ server # "up" => ~pending

\* A config.yml that cannot be read is met by a stopped server, or by a boot that
\* has found the seed marker and will write neither file.
BadFileWaits ==
    /\ backfilled
    /\ ~seeded => Named(globals) = {}
    /\ server \in {"up", "exit", "reload"} => seeded
    /\ config = Malformed =>
         server = "down" \/ (seeded /\ server \in {"backfill", "seed", "reload"})

BadFileInv == GlobalShapes /\ RestQuiet /\ BadFileWaits

\* Both files are there and give the rows d; or those that are there do not
\* contradict d.
Faithful(d) ==
    /\ config = RenderConfig(d) /\ secrets # Absent
    /\ \A u \in Named(d) : SecretOf(u) = d.pw[u]
    /\ ListedKey = d.keys
Readable(d) == config = Absent \/ (config = RenderConfig(d) /\ (secrets = Absent \/ Faithful(d)))

\* The writer of the timer or the boot has rendered what it read.
SecretsFirst ==
    server # "exit" => (writer["timer"].pc = "config" => secrets = RenderSecrets(writer["timer"].data))

\* A running server has its rows in the files, or a write of them is due or under
\* way, or an operator has removed a file.
UpIsWritten ==
    server = "up" /\ ~pending =>
        IF writer["timer"] = Idle THEN Absent \in {config, secrets} \/ Faithful(globals)
        ELSE writer["timer"].data = globals

\* What a boot writes is what the database has.
BootWritesRows ==
    server \in {"backfilling", "seeding"} /\ writer["timer"] # Idle => writer["timer"].data = globals

\* The rows p of a clean stop, on their way to the next server.
KeptAs(p) ==
    /\ p \in GoodRows
    /\ server # "up"
    /\ server = "exit" =>
         /\ writer["timer"] = Idle /\ globals = p
         /\ IF writer["closer"] = Idle THEN Faithful(p)
            ELSE /\ writer["closer"].data = p
                 /\ writer["closer"].pc = "config" => secrets = RenderSecrets(p)
    /\ server = "down" =>
         \/ globals = p /\ Readable(p)
         \/ globals = EmptyRows /\ Faithful(p)
    /\ server \in Booting => globals = p /\ Readable(p)

RowsKept == promised # Unknown => KeptAs(promised)

RowsInv == GlobalShapes /\ RestQuiet /\ SecretsFirst /\ UpIsWritten /\ BootWritesRows /\ RowsKept

\* What WriteGlobal renders of rows in order is in order.
LEMMA RowsAreRendered ==
    ASSUME NEW d \in GoodRows
    PROVE  RenderConfig(d) \in GoodConfig /\ RenderSecrets(d) \in Rows
<1>1. Named(d) \in SUBSET Users /\ (d.keys # {} => Owner \in Named(d))
  BY OwnerAssumption DEF GoodRows, Named
<1>2. RenderConfig(d) \in GoodConfig
  BY <1>1 DEF RenderConfig, GoodConfig
<1>3. d.pw \in [Users -> Nat \cup {Gone}] /\ d.keys \in SUBSET Nat
  BY DEF GoodRows, Rows
<1>4. RenderSecrets(d) \in Rows
  BY <1>3 DEF RenderSecrets, Rows
<1> QED BY <1>2, <1>4

\* A new database has rows in order, and no users.
LEMMA EmptyRowsAreGood == EmptyRows \in GoodRows /\ Named(EmptyRows) = {}
BY DEF EmptyRows, GoodRows, Rows, Named

\* So has a database that a boot read from the files.
LEMMA ReadIsGood ==
    ASSUME GlobalShapes, config \notin {Absent, Malformed}
    PROVE  ImportGlobal \in GoodRows /\ ApplyGlobalSidecar \in GoodRows
<1>1. /\ config \in [users : SUBSET Users, key : BOOLEAN]
      /\ config.key => Owner \in config.users
      /\ config.users \subseteq Users
  BY DEF GlobalShapes, GoodConfig
<1>2. secrets # Absent => secrets.pw \in [Users -> Nat \cup {Gone}] /\ secrets.keys \in SUBSET Nat
  BY DEF GlobalShapes, Rows
<1>3. \A u \in Users : SecretOf(u) \in Nat
  BY <1>2 DEF SecretOf
<1>4. ListedKey \in SUBSET Nat /\ (ListedKey # {} => config.key)
  BY <1>2 DEF ListedKey
<1>5. \A n \in Nat : n # Gone
  BY OwnerAssumption
<1>6. globals.pw \in [Users -> Nat \cup {Gone}] /\ globals.keys \in SUBSET Nat
  BY DEF GlobalShapes, GoodRows, Rows
<1>7. ImportGlobal \in GoodRows
  <2>1. ImportGlobal \in Rows
    BY <1>3, <1>4 DEF ImportGlobal, Rows
  <2>2. ASSUME ImportGlobal.keys # {} PROVE ImportGlobal.pw[Owner] # Gone
    <3>0. ImportGlobal.keys = ListedKey
      BY DEF ImportGlobal
    <3>1. Owner \in config.users
      <4>1. ListedKey # {}
        BY <2>2, <3>0
      <4> QED BY <4>1, <1>4, <1>1, Zenon
    <3>2. ImportGlobal.pw[Owner] = SecretOf(Owner)
      BY <3>1, OwnerAssumption DEF ImportGlobal
    <3> QED BY <3>2, <1>3, <1>5, OwnerAssumption
  <2> QED BY <2>1, <2>2 DEF GoodRows
<1>8. ApplyGlobalSidecar \in GoodRows
  <2> DEFINE pwOf(u) == IF secrets # Absent THEN SecretOf(u)
                        ELSE IF globals.pw[u] = Gone THEN 0 ELSE globals.pw[u]
             stays == IF Owner \in config.users THEN globals.keys ELSE {}
             ks == IF ~(secrets # Absent) THEN stays
                   ELSE IF ~config.key THEN {} ELSE stays \cup ListedKey
  <2>1. ApplyGlobalSidecar = [pw |-> [u \in Users |-> IF u \in config.users THEN pwOf(u) ELSE Gone],
                              keys |-> ks]
    BY DEF ApplyGlobalSidecar
  <2>2. \A u \in Users : pwOf(u) \in Nat
    BY <1>3, <1>6
  <2>3. ks \in SUBSET Nat /\ (ks # {} => Owner \in config.users)
    <3>1. stays \in SUBSET Nat /\ (stays # {} => Owner \in config.users)
      BY <1>6
    <3> HIDE DEF stays
    <3>2. CASE secrets = Absent
      BY <3>1, <3>2
    <3>3. CASE secrets # Absent /\ config.key
      <4>1. ks = stays \cup ListedKey
        BY <3>3, Zenon
      <4>2. Owner \in config.users
        BY <3>3, <1>1, Zenon
      <4> QED BY <4>1, <4>2, <3>1, <1>4
    <3>4. CASE secrets # Absent /\ ~config.key
      BY <3>4
    <3> QED BY <3>2, <3>3, <3>4
  <2> HIDE DEF pwOf, ks
  <2>4. ApplyGlobalSidecar \in Rows
    BY <2>1, <2>2, <2>3 DEF Rows
  <2>5. ASSUME ApplyGlobalSidecar.keys # {} PROVE ApplyGlobalSidecar.pw[Owner] # Gone
    <3>1. Owner \in config.users
      BY <2>5, <2>1, <2>3
    <3>2. ApplyGlobalSidecar.pw[Owner] = pwOf(Owner)
      BY <2>1, <3>1, OwnerAssumption
    <3> QED BY <3>2, <2>2, <1>5, OwnerAssumption
  <2> QED BY <2>4, <2>5 DEF GoodRows
<1> QED BY <1>7, <1>8

\* Two files written by one WriteGlobal give its rows back.
LEMMA RenderingIsFaithful ==
    ASSUME NEW d \in GoodRows, config' = RenderConfig(d), secrets' = RenderSecrets(d)
    PROVE  Faithful(d)'
<1>1. d.pw \in [Users -> Nat \cup {Gone}] /\ d.keys \in SUBSET Nat
  BY DEF GoodRows, Rows
<1>2. secrets' # Absent
  BY RowsAreRendered, OwnerAssumption DEF Rows
<1>3. /\ secrets'.pw = [u \in Users |-> IF d.pw[u] = 0 THEN Gone ELSE d.pw[u]]
      /\ secrets'.keys = d.keys
  BY DEF RenderSecrets
<1>4. config'.key <=> (d.keys # {})
  BY DEF RenderConfig
<1>5. \A u \in Named(d) : SecretOf(u)' = d.pw[u]
  BY <1>1, <1>2, <1>3, OwnerAssumption DEF SecretOf, Named
<1>6. ListedKey' = d.keys
  BY <1>2, <1>3, <1>4 DEF ListedKey
<1> QED BY <1>2, <1>5, <1>6 DEF Faithful

\* What ImportGlobal and ApplyGlobalSidecar make of the files: rows that the files
\* give back, and, where secrets.yml is missing, secrets kept from the database.
LEMMA ReadBack ==
    ASSUME NEW d \in GoodRows
    PROVE  /\ Faithful(d) => ImportGlobal = d
           /\ Faithful(d) /\ globals = d => ApplyGlobalSidecar = d
           /\ config = RenderConfig(d) /\ secrets = Absent /\ globals = d => ApplyGlobalSidecar = d
           /\ config = RenderConfig(d) /\ Named(d) = {} => ImportGlobal = d
<1>1. /\ d \in Rows /\ d.pw \in [Users -> Nat \cup {Gone}] /\ d.keys \in SUBSET Nat
      /\ d.keys # {} => Owner \in Named(d)
  BY OwnerAssumption DEF GoodRows, Rows, Named
<1>2. d = [pw |-> [u \in Users |-> IF u \in Named(d) THEN d.pw[u] ELSE Gone], keys |-> d.keys]
  <2>1. d.pw = [u \in Users |-> IF u \in Named(d) THEN d.pw[u] ELSE Gone]
    BY <1>1 DEF Named
  <2>2. d = [pw |-> d.pw, keys |-> d.keys]
    BY <1>1 DEF Rows
  <2> QED BY <2>1, <2>2
<1>3. config = RenderConfig(d) => config.users = Named(d) /\ (config.key <=> (d.keys # {}))
  <2>1. ASSUME config = RenderConfig(d) PROVE config.key <=> (d.keys # {})
    BY <2>1 DEF RenderConfig
  <2>2. ASSUME config = RenderConfig(d) PROVE config.users = Named(d)
    BY <2>2 DEF RenderConfig
  <2> QED BY <2>1, <2>2
<1>4. ASSUME Faithful(d) PROVE ImportGlobal = d
  BY <1>2, <1>3, <1>4 DEF ImportGlobal, Faithful
<1>5. ASSUME Faithful(d), globals = d PROVE ApplyGlobalSidecar = d
  <2> DEFINE stays == IF Owner \in Named(d) THEN d.keys ELSE {}
  <2>1. (IF ~config.key THEN {} ELSE stays \cup ListedKey) = d.keys
    BY <1>1, <1>3, <1>5 DEF Faithful
  <2>2. [u \in Users |-> IF u \in config.users THEN SecretOf(u) ELSE Gone] = d.pw
    BY <1>1, <1>3, <1>5 DEF Faithful, Named
  <2>3. ApplyGlobalSidecar
          = [pw |-> [u \in Users |-> IF u \in config.users THEN SecretOf(u) ELSE Gone],
             keys |-> IF ~config.key THEN {} ELSE stays \cup ListedKey]
    BY <1>3, <1>5 DEF ApplyGlobalSidecar, Faithful
  <2> QED BY <2>1, <2>2, <2>3, <1>1 DEF Rows
<1>6. ASSUME config = RenderConfig(d), secrets = Absent, globals = d PROVE ApplyGlobalSidecar = d
  <2>1. (IF Owner \in config.users THEN d.keys ELSE {}) = d.keys
    BY <1>1, <1>3, <1>6
  <2>2. [u \in Users |-> IF u \in config.users
                         THEN IF d.pw[u] = Gone THEN 0 ELSE d.pw[u] ELSE Gone] = d.pw
    BY <1>1, <1>3, <1>6 DEF Named
  <2>3. ApplyGlobalSidecar
          = [pw |-> [u \in Users |-> IF u \in config.users
                                     THEN IF d.pw[u] = Gone THEN 0 ELSE d.pw[u] ELSE Gone],
             keys |-> IF Owner \in config.users THEN d.keys ELSE {}]
    BY <1>6 DEF ApplyGlobalSidecar
  <2> QED BY <2>1, <2>2, <2>3, <1>1 DEF Rows
<1>7. ASSUME config = RenderConfig(d), Named(d) = {} PROVE ImportGlobal = d
  <2>1. ListedKey = d.keys
    BY <1>1, <1>3, <1>7 DEF ListedKey
  <2> QED BY <1>2, <1>3, <1>7, <2>1 DEF ImportGlobal
<1> QED BY <1>4, <1>5, <1>6, <1>7

\* What the files give back depends on the files alone.
LEMMA FilesUnchanged ==
    ASSUME UNCHANGED <<config, secrets>>, NEW d
    PROVE  (Faithful(d)' <=> Faithful(d)) /\ (Readable(d)' <=> Readable(d))
BY DEF Faithful, Readable, SecretOf, ListedKey

SafeShapes == GlobalShapes /\ RestQuiet

\* What a change of the dashboard makes of the rows.
ChangedRows(d) ==
    \/ \E u \in Users : d = [globals EXCEPT !.pw[u] = nChange + 1]
    \/ \E u \in Users :
         d = [pw |-> [globals.pw EXCEPT ![u] = Gone], keys |-> IF u = Owner THEN {} ELSE globals.keys]
    \/ globals.pw[Owner] # Gone /\ d = [globals EXCEPT !.keys = {nChange + 1}]
    \/ d = [globals EXCEPT !.keys = {}]

Dashboard == SetPassword \/ DropUser \/ CreateKey \/ DropKey

\* Every request of the dashboard leaves rows in order.
LEMMA ChangedAreGood ==
    ASSUME GlobalShapes, NEW d, ChangedRows(d)
    PROVE  d \in GoodRows
<1> PICK g : g = globals
  OBVIOUS
<1>1. /\ g = [pw |-> g.pw, keys |-> g.keys]
      /\ g.pw \in [Users -> Nat \cup {Gone}] /\ g.keys \in SUBSET Nat
      /\ g.keys # {} => g.pw[Owner] # Gone
  BY DEF GlobalShapes, GoodRows, Rows
<1>2. nChange + 1 \in Nat /\ nChange + 1 # Gone /\ Owner \in Users
  BY OwnerAssumption DEF GlobalShapes
<1>3. CASE \E u \in Users : d = [globals EXCEPT !.pw[u] = nChange + 1]
  <2> PICK u \in Users : d = [g EXCEPT !.pw[u] = nChange + 1]
    BY <1>3
  <2>1. d = [pw |-> [g.pw EXCEPT ![u] = nChange + 1], keys |-> g.keys]
    BY <1>1
  <2>2. [g.pw EXCEPT ![u] = nChange + 1] \in [Users -> Nat \cup {Gone}]
    BY <1>1, <1>2
  <2>3. g.keys # {} => [g.pw EXCEPT ![u] = nChange + 1][Owner] # Gone
    BY <1>1, <1>2
  <2> QED BY <2>1, <2>2, <2>3, <1>1 DEF GoodRows, Rows
<1>4. CASE \E u \in Users :
         d = [pw |-> [globals.pw EXCEPT ![u] = Gone], keys |-> IF u = Owner THEN {} ELSE globals.keys]
  <2> PICK u \in Users :
         d = [pw |-> [g.pw EXCEPT ![u] = Gone], keys |-> IF u = Owner THEN {} ELSE g.keys]
    BY <1>4
  <2>1. [g.pw EXCEPT ![u] = Gone] \in [Users -> Nat \cup {Gone}]
    BY <1>1
  <2>2. u # Owner => [g.pw EXCEPT ![u] = Gone][Owner] = g.pw[Owner]
    BY <1>1, <1>2
  <2> QED BY <2>1, <2>2, <1>1 DEF GoodRows, Rows
<1>5. CASE globals.pw[Owner] # Gone /\ d = [globals EXCEPT !.keys = {nChange + 1}]
  <2>1. d = [pw |-> g.pw, keys |-> {nChange + 1}]
    BY <1>1, <1>5
  <2> QED BY <2>1, <1>1, <1>2, <1>5 DEF GoodRows, Rows
<1>6. CASE d = [globals EXCEPT !.keys = {}]
  <2>1. d = [pw |-> g.pw, keys |-> {}]
    BY <1>1, <1>6
  <2> QED BY <2>1, <1>1 DEF GoodRows, Rows
<1> QED BY <1>3, <1>4, <1>5, <1>6 DEF ChangedRows

\* Every such request is a change of the rows.
LEMMA DashboardChanges ==
    ASSUME GlobalShapes, Dashboard
    PROVE  \E d \in GoodRows : Change(d)
<1>1. ASSUME NEW d, ChangedRows(d), Change(d) PROVE \E e \in GoodRows : Change(e)
  BY <1>1, ChangedAreGood
<1>2. Owner \in Users
  BY OwnerAssumption
<1>3. CASE SetPassword
  BY <1>1, <1>3 DEF SetPassword, ChangedRows
<1>4. CASE DropUser
  BY <1>1, <1>4 DEF DropUser, ChangedRows, Named
<1>5. CASE CreateKey
  BY <1>1, <1>5 DEF CreateKey, ChangedRows
<1>6. CASE DropKey
  BY <1>1, <1>6 DEF DropKey, ChangedRows
<1> QED BY <1>3, <1>4, <1>5, <1>6 DEF Dashboard

\* The steps of WriteGlobal, whoever calls it.
LEMMA WriterSteps ==
    ASSUME GlobalShapes, NEW w \in Writers
    PROVE  /\ StartWrite(w) => /\ writer' \in [Writers -> Active \cup {Idle}]
                               /\ writer'[w] = [pc |-> "secrets", data |-> globals]
                               /\ \A v \in Writers \ {w} : writer'[v] = writer[v]
           /\ WriteSecrets(w) => /\ writer[w] \in Active /\ writer[w].data \in GoodRows
                                 /\ writer' \in [Writers -> Active \cup {Idle}]
                                 /\ writer'[w] = [pc |-> "config", data |-> writer[w].data]
                                 /\ \A v \in Writers \ {w} : writer'[v] = writer[v]
           /\ WriteConfig(w) => /\ writer[w] \in Active /\ writer[w].data \in GoodRows
                                /\ writer[w].pc = "config"
                                /\ writer' \in [Writers -> Active \cup {Idle}]
                                /\ writer'[w] = Idle
                                /\ \A v \in Writers \ {w} : writer'[v] = writer[v]
<1> PICK wr : wr = writer
  OBVIOUS
<1>1. wr \in [Writers -> Active \cup {Idle}] /\ globals \in GoodRows
  BY DEF GlobalShapes
<1>2. Idle.pc = "idle"
  BY DEF Idle
<1>3. ASSUME StartWrite(w)
      PROVE  /\ writer' \in [Writers -> Active \cup {Idle}]
             /\ writer'[w] = [pc |-> "secrets", data |-> globals]
             /\ \A v \in Writers \ {w} : writer'[v] = writer[v]
  <2>1. [pc |-> "secrets", data |-> globals] \in Active
    BY <1>1 DEF Active
  <2> QED BY <1>1, <1>3, <2>1 DEF StartWrite
<1>4. ASSUME wr[w].pc \in {"secrets", "config"}
      PROVE  wr[w] \in Active /\ wr[w].data \in GoodRows /\ wr[w] = [pc |-> wr[w].pc, data |-> wr[w].data]
  <2>1. wr[w] \in Active
    BY <1>1, <1>2, <1>4
  <2> QED BY <2>1 DEF Active
<1>5. ASSUME WriteSecrets(w)
      PROVE  /\ writer[w] \in Active /\ writer[w].data \in GoodRows
             /\ writer' \in [Writers -> Active \cup {Idle}]
             /\ writer'[w] = [pc |-> "config", data |-> writer[w].data]
             /\ \A v \in Writers \ {w} : writer'[v] = writer[v]
  <2>1. wr[w].pc = "secrets" /\ writer' = [wr EXCEPT ![w].pc = "config"]
    BY <1>5 DEF WriteSecrets
  <2>2. [pc |-> "config", data |-> wr[w].data] \in Active
    BY <1>4, <2>1 DEF Active
  <2>3. writer' = [wr EXCEPT ![w] = [pc |-> "config", data |-> wr[w].data]]
    <3>1. writer' = [wr EXCEPT ![w] = [wr[w] EXCEPT !.pc = "config"]]
      BY <2>1
    <3>2. [wr[w] EXCEPT !.pc = "config"] = [pc |-> "config", data |-> wr[w].data]
      <4> PICK r : r = wr[w]
        OBVIOUS
      <4>1. r = [pc |-> r.pc, data |-> r.data]
        BY <1>4, <2>1
      <4>2. [r EXCEPT !.pc = "config"] = [pc |-> "config", data |-> r.data]
        BY <4>1
      <4> QED BY <4>2
    <3> QED BY <3>1, <3>2
  <2> DEFINE next == [pc |-> "config", data |-> wr[w].data]
  <2> HIDE DEF next
  <2>4. next \in Active /\ writer' = [wr EXCEPT ![w] = next]
    BY <2>2, <2>3 DEF next
  <2>5. /\ writer' \in [Writers -> Active \cup {Idle}] /\ writer'[w] = next
        /\ \A v \in Writers \ {w} : writer'[v] = wr[v]
    BY <1>1, <2>4
  <2> QED BY <1>4, <2>1, <2>5 DEF next
<1>6. ASSUME WriteConfig(w)
      PROVE  /\ writer[w] \in Active /\ writer[w].data \in GoodRows
             /\ writer[w].pc = "config"
             /\ writer' \in [Writers -> Active \cup {Idle}]
             /\ writer'[w] = Idle
             /\ \A v \in Writers \ {w} : writer'[v] = writer[v]
  <2>1. wr[w].pc = "config" /\ writer' = [wr EXCEPT ![w] = Idle]
    BY <1>6 DEF WriteConfig
  <2> QED BY <1>1, <1>4, <2>1
<1> QED BY <1>3, <1>5, <1>6

\* An installed server has rows and files in order, and nothing to write.
LEMMA ShapesStart == GlobalInit => SafeShapes
<1> SUFFICES ASSUME GlobalInit PROVE SafeShapes
  OBVIOUS
<1>1. globals \in GoodRows
  BY OwnerAssumption DEF GlobalInit, GoodRows, Rows
<1>2. config \in GoodConfig /\ secrets \in Rows
  BY <1>1, RowsAreRendered DEF GlobalInit
<1>3. writer \in [Writers -> Active \cup {Idle}] /\ writer["closer"] = Idle /\ writer["timer"] = Idle
  BY DEF GlobalInit, Writers
<1> QED BY <1>1, <1>2, <1>3 DEF GlobalInit, SafeShapes, GlobalShapes, RestQuiet, Resting

\* Every step keeps them so.
LEMMA ShapesStep == SafeShapes /\ [GlobalNext]_globalVars => SafeShapes'
<1> SUFFICES ASSUME SafeShapes, [GlobalNext]_globalVars PROVE SafeShapes'
  OBVIOUS
<1> USE DEF SafeShapes
<1>a. Writers = {"timer", "closer"} /\ "timer" \in Writers /\ "closer" \in Writers /\ Idle.pc = "idle"
  BY DEF Writers, Idle
<1>1. CASE Dashboard
  <2>1. PICK d \in GoodRows : Change(d)
    BY <1>1, DashboardChanges
  <2> QED BY <2>1 DEF Change, GlobalShapes, RestQuiet, Resting, disk
<1>2. CASE FireTimer
  <2>1. StartWrite("timer") /\ server = "up" /\ UNCHANGED <<globals, seeded, config, secrets, backfilled, server, nChange>> /\ pending' = FALSE
    BY <1>2 DEF FireTimer, store, disk, ghosts
  <2>2. writer' \in [Writers -> Active \cup {Idle}] /\ writer'["closer"] = writer["closer"]
    BY <2>1, <1>a, WriterSteps
  <2> QED BY <2>1, <2>2 DEF GlobalShapes, RestQuiet, Resting
<1>3. CASE Close
  <2>1. /\ server' = "exit" /\ pending' = FALSE /\ (StartWrite("closer") \/ UNCHANGED writer)
        /\ UNCHANGED <<globals, seeded, config, secrets, backfilled, nChange>>
    BY <1>3 DEF Close, store, disk
  <2>2. writer' \in [Writers -> Active \cup {Idle}]
    BY <2>1, <1>a, WriterSteps DEF GlobalShapes
  <2> QED BY <2>1, <2>2 DEF GlobalShapes, RestQuiet, Resting
<1>4. CASE Exit
  <2>1. writer' \in [Writers -> Active \cup {Idle}] /\ writer'["timer"] = Idle /\ writer'["closer"] = Idle
    BY <1>4, <1>a DEF Exit
  <2> QED BY <1>4, <2>1 DEF Exit, GlobalShapes, RestQuiet, Resting, store, disk, ghosts
<1>5. CASE Crash
  <2>1. writer' \in [Writers -> Active \cup {Idle}] /\ writer'["timer"] = Idle /\ writer'["closer"] = Idle
    BY <1>5, <1>a DEF Crash
  <2> QED BY <1>5, <2>1 DEF Crash, GlobalShapes, RestQuiet, Resting, store, disk, ghosts
<1>6. ASSUME NEW w \in Writers, WriteSecrets(w) PROVE SafeShapes'
  <2>1. /\ writer[w].data \in GoodRows /\ writer[w] # Idle
        /\ writer' \in [Writers -> Active \cup {Idle}]
        /\ \A v \in Writers \ {w} : writer'[v] = writer[v]
    BY <1>6, WriterSteps, <1>a DEF WriteSecrets
  <2>2. secrets' \in Rows /\ UNCHANGED <<globals, seeded, config, backfilled, server, pending, nChange>>
    BY <1>6, <2>1, RowsAreRendered DEF WriteSecrets, store, ghosts
  <2> QED BY <2>1, <2>2, <1>a DEF GlobalShapes, RestQuiet, Resting
<1>7. ASSUME NEW w \in Writers, WriteConfig(w) PROVE SafeShapes'
  <2>1. /\ writer[w].data \in GoodRows /\ writer[w] # Idle
        /\ writer' \in [Writers -> Active \cup {Idle}]
        /\ \A v \in Writers \ {w} : writer'[v] = writer[v]
    BY <1>7, WriterSteps, <1>a DEF WriteConfig
  <2>2. config' \in GoodConfig /\ UNCHANGED <<globals, seeded, secrets, backfilled, server, pending, nChange>>
    BY <1>7, <2>1, RowsAreRendered DEF WriteConfig, store, ghosts
  <2> QED BY <2>1, <2>2, <1>a DEF GlobalShapes, RestQuiet, Resting
<1>8. CASE LoseDatabase \/ LoseSecrets \/ LoseConfig \/ MalformConfig
  <2>1. server' = server /\ writer' = writer /\ pending' = pending /\ nChange' = nChange
    BY <1>8 DEF LoseDatabase, LoseSecrets, LoseConfig, MalformConfig, Damage
  <2>2. globals' \in GoodRows /\ seeded' \in BOOLEAN /\ backfilled' \in BOOLEAN
    BY <1>8, EmptyRowsAreGood DEF LoseDatabase, LoseSecrets, LoseConfig, MalformConfig, store, GlobalShapes
  <2>3. config' \in GoodConfig \cup {Absent, Malformed} /\ secrets' \in Rows \cup {Absent}
    BY <1>8 DEF LoseDatabase, LoseSecrets, LoseConfig, MalformConfig, GlobalShapes
  <2> QED BY <2>1, <2>2, <2>3 DEF GlobalShapes, RestQuiet, Resting
<1>9. CASE ImportGlobalIfEmpty
  <2>1. globals' \in GoodRows /\ seeded' \in BOOLEAN
    BY <1>9, ReadIsGood DEF ImportGlobalIfEmpty, GlobalShapes, store
  <2>2. UNCHANGED <<config, secrets, backfilled, pending, writer, nChange>>
    BY <1>9 DEF ImportGlobalIfEmpty, disk, ghosts
  <2> QED BY <1>9, <2>1, <2>2 DEF ImportGlobalIfEmpty, GlobalShapes, RestQuiet, Resting, Booting
<1>10. ASSUME NEW step, NEW writing \in {"backfilling", "seeding"}, BootWrite(step, writing), step # "up", step # "exit"
       PROVE  SafeShapes'
  <2>1. StartWrite("timer") /\ UNCHANGED <<globals, seeded, config, secrets, backfilled, pending, nChange>>
        /\ server' = writing /\ server = step
    BY <1>10 DEF BootWrite, store, disk, ghosts
  <2>2. writer' \in [Writers -> Active \cup {Idle}] /\ writer'["closer"] = writer["closer"]
    BY <2>1, <1>a, WriterSteps
  <2> QED BY <2>1, <2>2, <1>10 DEF GlobalShapes, RestQuiet, Resting, Booting
<1>11. ASSUME NEW step, NEW next \in {"seed", "reload"}, BootGoesOn(step, next), step # "up", step # "exit",
              seeded' \in BOOLEAN, backfilled' \in BOOLEAN, step \in {"backfilling", "seeding", "backfill", "seed"}
       PROVE  SafeShapes'
  <2>1. UNCHANGED <<globals, config, secrets, pending, writer, nChange>>
        /\ server' = next /\ server = step /\ writer["timer"] = Idle
    BY <1>11 DEF BootGoesOn, ghosts
  <2> QED BY <2>1, <1>11 DEF GlobalShapes, RestQuiet, Resting, Booting
<1>12. CASE Backfill
  BY <1>12, <1>10, <1>11 DEF Backfill, GlobalShapes
<1>13. CASE RunFirstBootSeedIfNeeded
  BY <1>13, <1>10, <1>11 DEF RunFirstBootSeedIfNeeded, GlobalShapes
<1>14. CASE ReconcileDBFromFS
  <2>1. globals' \in GoodRows /\ pending' \in BOOLEAN
    BY <1>14, ReadIsGood DEF ReconcileDBFromFS, GlobalShapes
  <2>2. UNCHANGED <<config, secrets, backfilled, seeded, writer, nChange>> /\ server' = "up" /\ server = "reload"
    BY <1>14 DEF ReconcileDBFromFS, disk
  <2> QED BY <2>1, <2>2 DEF GlobalShapes, RestQuiet, Resting, Booting
<1>15. CASE BootFails
  BY <1>15 DEF BootFails, GlobalShapes, RestQuiet, Resting, Booting, store, disk
<1>16. CASE UNCHANGED globalVars
  BY <1>16 DEF globalVars, store, disk, ghosts, GlobalShapes, RestQuiet
<1> QED
  BY <1>1, <1>2, <1>3, <1>4, <1>5, <1>6, <1>7, <1>8, <1>9, <1>12, <1>13, <1>14, <1>15, <1>16
  DEF GlobalNext, Dashboard

\* On the host of the backfill marker, the steps of the boot that write the files
\* are skipped when config.yml cannot be read.
LEMMA BadFileWaitsStep ==
    ASSUME ~NewHost, SafeShapes, BadFileWaits, [GlobalNext]_globalVars
    PROVE  BadFileWaits'
<1> USE DEF SafeShapes
<1>a. Writers = {"timer", "closer"} /\ Idle.pc = "idle"
  BY DEF Writers, Idle
<1>b. \A d \in GoodRows : RenderConfig(d) # Malformed
  BY RowsAreRendered, OwnerAssumption DEF GoodConfig
<1>1. CASE Dashboard
  <2>1. PICK d \in GoodRows : Change(d)
    BY <1>1, DashboardChanges
  <2> QED BY <2>1 DEF Change, BadFileWaits, disk
<1>2. CASE FireTimer \/ Close \/ Exit \/ Crash
  BY <1>2 DEF FireTimer, Close, Exit, Crash, BadFileWaits, store, disk, Named
<1>3. ASSUME NEW w \in Writers, WriteSecrets(w) PROVE BadFileWaits'
  BY <1>3 DEF WriteSecrets, BadFileWaits, store, Named
<1>4. ASSUME NEW w \in Writers, WriteConfig(w) PROVE BadFileWaits'
  <2>1. config' # Malformed
    BY <1>4, <1>b, WriterSteps DEF WriteConfig
  <2> QED BY <1>4, <2>1 DEF WriteConfig, BadFileWaits, store, Named
<1>5. CASE LoseDatabase
  BY <1>5, EmptyRowsAreGood DEF LoseDatabase, Damage, BadFileWaits
<1>6. CASE LoseSecrets \/ LoseConfig \/ MalformConfig
  BY <1>6, OwnerAssumption DEF LoseSecrets, LoseConfig, MalformConfig, Damage, BadFileWaits, store, Named
<1>7. CASE ImportGlobalIfEmpty
  BY <1>7, OwnerAssumption DEF ImportGlobalIfEmpty, BadFileWaits, store, disk, Named
<1>8. CASE Backfill
  BY <1>8 DEF Backfill, BootWrite, BootGoesOn, BadFileWaits, store, disk, Named
<1>9. CASE RunFirstBootSeedIfNeeded
  BY <1>9 DEF RunFirstBootSeedIfNeeded, BootWrite, BootGoesOn, BadFileWaits, store, disk, Named
<1>10. CASE ReconcileDBFromFS
  BY <1>10 DEF ReconcileDBFromFS, BadFileWaits, disk
<1>11. CASE BootFails
  BY <1>11 DEF BootFails, BadFileWaits, store, disk, Named
<1>12. CASE UNCHANGED globalVars
  BY <1>12 DEF globalVars, store, disk, BadFileWaits, Named
<1> QED
  BY <1>1, <1>2, <1>3, <1>4, <1>5, <1>6, <1>7, <1>8, <1>9, <1>10, <1>11, <1>12
  DEF GlobalNext, Dashboard

\* The invariant of unreadable files.
LEMMA BadFileInvariant == ASSUME ~NewHost PROVE GlobalSpec => []BadFileInv
<1>1. GlobalInit => BadFileInv
  <2> SUFFICES ASSUME GlobalInit PROVE BadFileWaits
    BY ShapesStart DEF BadFileInv, SafeShapes
  <2>1. globals \in GoodRows
    BY ShapesStart DEF SafeShapes, GlobalShapes
  <2>2. config # Malformed
    BY <2>1, RowsAreRendered, OwnerAssumption DEF GlobalInit, GoodConfig
  <2> QED BY <2>2 DEF GlobalInit, BadFileWaits
<1>2. BadFileInv /\ [GlobalNext]_globalVars => BadFileInv'
  BY BadFileWaitsStep, ShapesStep DEF BadFileInv, SafeShapes
<1> QED BY <1>1, <1>2, PTL DEF GlobalSpec

\* An unreadable config.yml stops the boot before anything is written over it or over
\* secrets.yml, provided the files stay on the host that has run the server: on a new
\* one, initConfigSync backfills them.
THEOREM BadFilesAreKept == ASSUME ~NewHost PROVE GlobalSpec => BadFileKept
<1> DEFINE A == config = Malformed /\ Named(globals) = {} /\ server # "down"
                  => config' = config /\ secrets' = secrets
<1>1. BadFileInv /\ [GlobalNext]_globalVars => [A]_globalVars
  <2> SUFFICES ASSUME BadFileInv, GlobalNext, config = Malformed, server # "down"
               PROVE  config' = config /\ secrets' = secrets
    OBVIOUS
  <2>1. server \in {"backfill", "seed", "reload"}
    BY DEF BadFileInv, BadFileWaits
  <2>2. \A w \in Writers : writer[w].pc = "idle"
    BY <2>1 DEF BadFileInv, RestQuiet, Resting, Writers, Idle
  <2>3. ~Dashboard
    BY <2>1, DashboardChanges DEF Change, BadFileInv
  <2>4. \A w \in Writers : ~WriteSecrets(w) /\ ~WriteConfig(w)
    BY <2>2 DEF WriteSecrets, WriteConfig
  <2>5. CASE FireTimer \/ Close \/ Exit \/ Crash
    BY <2>5 DEF FireTimer, Close, Exit, Crash, disk
  <2>6. CASE LoseDatabase \/ LoseSecrets \/ LoseConfig \/ MalformConfig
    BY <2>6, <2>1 DEF LoseDatabase, LoseSecrets, LoseConfig, MalformConfig, Damage
  <2>7. CASE ImportGlobalIfEmpty \/ Backfill \/ RunFirstBootSeedIfNeeded
    BY <2>7 DEF ImportGlobalIfEmpty, Backfill, RunFirstBootSeedIfNeeded, BootWrite, BootGoesOn, disk
  <2>8. CASE ReconcileDBFromFS \/ BootFails
    BY <2>8 DEF ReconcileDBFromFS, BootFails, disk
  <2> QED BY <2>3, <2>4, <2>5, <2>6, <2>7, <2>8 DEF GlobalNext, Dashboard
<1> QED BY <1>1, BadFileInvariant, PTL DEF GlobalSpec, BadFileKept

\* WriteGlobal replaces secrets.yml before config.yml.
LEMMA SecretsFirstStep ==
    ASSUME SafeShapes, SecretsFirst, [GlobalNext]_globalVars
    PROVE  SecretsFirst'
<1> USE DEF SafeShapes
<1>a. Writers = {"timer", "closer"} /\ "timer" \in Writers /\ "closer" \in Writers /\ Idle.pc = "idle"
  BY DEF Writers, Idle
<1>1. CASE Dashboard
  <2>1. PICK d \in GoodRows : Change(d)
    BY <1>1, DashboardChanges
  <2> QED BY <2>1 DEF Change, SecretsFirst, disk
<1>2. ASSUME StartWrite("timer") PROVE SecretsFirst'
  <2>1. writer'["timer"].pc = "secrets"
    BY <1>2, <1>a, WriterSteps
  <2> QED BY <2>1 DEF SecretsFirst
<1>3. CASE FireTimer \/ Close
  BY <1>3, <1>2 DEF FireTimer, Close, SecretsFirst
<1>4. CASE Exit \/ Crash
  <2>1. writer'["timer"] = Idle
    BY <1>4, <1>a DEF Exit, Crash
  <2> QED BY <2>1, <1>a DEF SecretsFirst
<1>5. ASSUME NEW w \in Writers, WriteSecrets(w) PROVE SecretsFirst'
  <2> SUFFICES ASSUME server' # "exit", writer'["timer"].pc = "config"
               PROVE  secrets' = RenderSecrets(writer'["timer"].data)
    BY DEF SecretsFirst
  <2>1. w = "timer"
    BY <1>5, <1>a DEF WriteSecrets, RestQuiet
  <2>2. writer'["timer"] = [pc |-> "config", data |-> writer["timer"].data]
    BY <2>1, <1>5, WriterSteps
  <2>3. secrets' = RenderSecrets(writer["timer"].data)
    BY <2>1, <1>5 DEF WriteSecrets
  <2> QED BY <2>2, <2>3
<1>6. ASSUME NEW w \in Writers, WriteConfig(w) PROVE SecretsFirst'
  <2> SUFFICES ASSUME server' # "exit" PROVE writer'["timer"].pc # "config"
    BY DEF SecretsFirst
  <2>1. w = "timer"
    BY <1>6, <1>a DEF WriteConfig, RestQuiet
  <2> QED BY <2>1, <1>6, <1>a, WriterSteps
<1>7. CASE LoseDatabase \/ LoseSecrets \/ LoseConfig \/ MalformConfig
  <2>1. writer'["timer"] = Idle
    BY <1>7 DEF LoseDatabase, LoseSecrets, LoseConfig, MalformConfig, Damage, RestQuiet, Resting
  <2> QED BY <2>1, <1>a DEF SecretsFirst
<1>8. CASE ImportGlobalIfEmpty \/ ReconcileDBFromFS \/ BootFails
  BY <1>8 DEF ImportGlobalIfEmpty, ReconcileDBFromFS, BootFails, SecretsFirst, disk
<1>9. CASE Backfill \/ RunFirstBootSeedIfNeeded
  BY <1>9, <1>2 DEF Backfill, RunFirstBootSeedIfNeeded, BootWrite, BootGoesOn, SecretsFirst
<1>10. CASE UNCHANGED globalVars
  BY <1>10 DEF globalVars, disk, SecretsFirst
<1> QED
  BY <1>1, <1>3, <1>4, <1>5, <1>6, <1>7, <1>8, <1>9, <1>10 DEF GlobalNext, Dashboard

\* A running server owes the files a write, or they give its rows back.
LEMMA UpIsWrittenStep ==
    ASSUME SafeShapes, SecretsFirst, UpIsWritten, [GlobalNext]_globalVars
    PROVE  UpIsWritten'
<1> USE DEF SafeShapes
<1>a. Writers = {"timer", "closer"} /\ "timer" \in Writers /\ "closer" \in Writers /\ Idle.pc = "idle"
  BY DEF Writers, Idle
<1> SUFFICES ASSUME server' = "up", ~pending'
             PROVE  IF writer'["timer"] = Idle THEN (Absent \in {config, secrets} \/ Faithful(globals))'
                    ELSE writer'["timer"].data = globals'
  BY DEF UpIsWritten
<1>1. CASE Dashboard
  BY <1>1, DashboardChanges DEF Change
<1>2. CASE FireTimer
  <2>1. writer'["timer"] = [pc |-> "secrets", data |-> globals] /\ globals' = globals
    BY <1>2, <1>a, WriterSteps DEF FireTimer, store
  <2> QED BY <2>1, <1>a
<1>3. CASE Close \/ Exit \/ Crash
  BY <1>3 DEF Close, Exit, Crash
<1>4. ASSUME NEW w \in Writers, WriteSecrets(w) PROVE UpIsWritten'
  <2>1. server = "up" /\ ~pending /\ globals' = globals
    BY <1>4 DEF WriteSecrets, store
  <2>2. w = "timer" /\ writer[w] # Idle
    BY <1>4, <2>1, <1>a DEF WriteSecrets, RestQuiet
  <2>3. writer'["timer"] = [pc |-> "config", data |-> writer["timer"].data]
    BY <2>2, <1>4, WriterSteps
  <2> QED BY <2>1, <2>2, <2>3, <1>a DEF UpIsWritten
<1>5. ASSUME NEW w \in Writers, WriteConfig(w) PROVE UpIsWritten'
  <2>1. server = "up" /\ ~pending /\ globals' = globals /\ secrets' = secrets
    BY <1>5 DEF WriteConfig, store
  <2>2. w = "timer" /\ writer[w] # Idle /\ writer[w].pc = "config"
    BY <1>5, <2>1, <1>a DEF WriteConfig, RestQuiet
  <2>3. writer["timer"].data = globals
    BY <2>1, <2>2 DEF UpIsWritten
  <2>4. secrets' = RenderSecrets(globals) /\ config' = RenderConfig(globals)
    BY <1>5, <2>1, <2>2, <2>3 DEF WriteConfig, SecretsFirst
  <2>5. Faithful(globals)'
    <3> PICK d : d = globals
      OBVIOUS
    <3>1. Faithful(d)'
      BY <2>4, RenderingIsFaithful DEF GlobalShapes
    <3> QED BY <3>1, <2>1 DEF Faithful
  <2>6. writer'["timer"] = Idle
    BY <1>5, <2>2, WriterSteps
  <2> QED BY <2>5, <2>6 DEF UpIsWritten
<1>6. CASE LoseDatabase \/ LoseSecrets \/ LoseConfig \/ MalformConfig
  BY <1>6 DEF LoseDatabase, LoseSecrets, LoseConfig, MalformConfig, Damage
<1>7. CASE ImportGlobalIfEmpty \/ Backfill \/ RunFirstBootSeedIfNeeded \/ BootFails
  BY <1>7 DEF ImportGlobalIfEmpty, Backfill, RunFirstBootSeedIfNeeded, BootFails, BootWrite, BootGoesOn
<1>8. CASE ReconcileDBFromFS
  <2>1. /\ writer'["timer"] = Idle /\ UNCHANGED <<config, secrets>>
        /\ config # Malformed
    BY <1>8 DEF ReconcileDBFromFS, RestQuiet, Resting, disk
  <2>2. CASE config = Absent
    BY <2>1, <2>2
  <2>3. CASE config # Absent /\ secrets # Absent
    <3>1. globals' = ApplyGlobalSidecar /\ Named(globals) \cup config.users = {}
      BY <1>8, <2>3 DEF ReconcileDBFromFS
    <3>2. /\ config \in GoodConfig /\ config.users = {} /\ ~config.key
      BY <2>1, <2>3, <3>1 DEF GlobalShapes, GoodConfig
    <3>3. globals' = EmptyRows
      BY <2>3, <3>1, <3>2 DEF ApplyGlobalSidecar, EmptyRows
    <3>4. config' = RenderConfig(EmptyRows)
      <4>1. EmptyRows.keys = {}
        BY DEF EmptyRows
      <4>2. RenderConfig(EmptyRows) \in [users : SUBSET Users, key : BOOLEAN]
        BY EmptyRowsAreGood, RowsAreRendered DEF GoodConfig
      <4>3. RenderConfig(EmptyRows).users = {} /\ ~RenderConfig(EmptyRows).key
        BY <4>1, EmptyRowsAreGood DEF RenderConfig
      <4>4. config' \in [users : SUBSET Users, key : BOOLEAN] /\ config'.users = {} /\ ~config'.key
        BY <2>1, <3>2 DEF GoodConfig
      <4> QED BY <4>2, <4>3, <4>4
    <3>5. Faithful(EmptyRows)'
      <4>1. ListedKey' = {} /\ EmptyRows.keys = {}
        BY <2>1, <3>2 DEF ListedKey, EmptyRows
      <4> QED BY <4>1, <3>4, <2>1, <2>3, EmptyRowsAreGood DEF Faithful
    <3> QED BY <3>3, <3>5, <2>1 DEF Faithful
  <2> QED BY <2>1, <2>2, <2>3
<1>9. CASE UNCHANGED globalVars
  <2>1. /\ server = "up" /\ ~pending /\ writer' = writer /\ globals' = globals
        /\ UNCHANGED <<config, secrets>>
    BY <1>9 DEF globalVars, store, disk
  <2>2. Faithful(globals)' <=> Faithful(globals)
    BY <2>1 DEF Faithful, SecretOf, ListedKey
  <2> QED BY <2>1, <2>2 DEF UpIsWritten
<1>10. UpIsWritten' <=> IF writer'["timer"] = Idle THEN (Absent \in {config, secrets} \/ Faithful(globals))'
                    ELSE writer'["timer"].data = globals'
  BY DEF UpIsWritten
<1> QED
  BY <1>1, <1>2, <1>3, <1>4, <1>5, <1>6, <1>7, <1>8, <1>9, <1>10 DEF GlobalNext, Dashboard

\* The backfill and the seed write the rows of the database.
LEMMA BootWritesRowsStep ==
    ASSUME SafeShapes, BootWritesRows, [GlobalNext]_globalVars
    PROVE  BootWritesRows'
<1> USE DEF SafeShapes
<1>a. Writers = {"timer", "closer"} /\ "timer" \in Writers /\ "closer" \in Writers /\ Idle.pc = "idle"
  BY DEF Writers, Idle
<1> SUFFICES ASSUME server' \in {"backfilling", "seeding"}, writer'["timer"] # Idle
             PROVE  writer'["timer"].data = globals'
  BY DEF BootWritesRows
<1>1. CASE Dashboard
  BY <1>1, DashboardChanges DEF Change
<1>2. CASE FireTimer \/ Close \/ Exit \/ Crash \/ LoseDatabase \/ LoseSecrets \/ LoseConfig \/ MalformConfig
  BY <1>2 DEF FireTimer, Close, Exit, Crash, LoseDatabase, LoseSecrets, LoseConfig, MalformConfig, Damage
<1>3. ASSUME NEW w \in Writers, WriteSecrets(w) \/ WriteConfig(w)
      PROVE  writer'["timer"].data = globals'
  <2>1. server \in {"backfilling", "seeding"} /\ globals' = globals
    BY <1>3 DEF WriteSecrets, WriteConfig, store
  <2>2. w = "timer" /\ writer[w] # Idle
    BY <1>3, <2>1, <1>a DEF WriteSecrets, WriteConfig, RestQuiet
  <2>3. writer["timer"].data = globals
    BY <2>1, <2>2 DEF BootWritesRows
  <2>4. writer'["timer"] = [pc |-> "config", data |-> writer["timer"].data]
    BY <1>3, <2>2, WriterSteps
  <2> QED BY <2>1, <2>3, <2>4
<1>4. ASSUME StartWrite("timer"), globals' = globals PROVE writer'["timer"].data = globals'
  <2>1. writer'["timer"] = [pc |-> "secrets", data |-> globals]
    BY <1>4, <1>a, WriterSteps
  <2> QED BY <2>1, <1>4
<1>5. CASE ImportGlobalIfEmpty \/ ReconcileDBFromFS \/ BootFails
  BY <1>5 DEF ImportGlobalIfEmpty, ReconcileDBFromFS, BootFails
<1>6. CASE Backfill
  BY <1>6, <1>4 DEF Backfill, BootWrite, BootGoesOn, store
<1>7. CASE RunFirstBootSeedIfNeeded
  BY <1>7, <1>4 DEF RunFirstBootSeedIfNeeded, BootWrite, BootGoesOn, store
<1>8. CASE UNCHANGED globalVars
  BY <1>8 DEF globalVars, store, BootWritesRows
<1> QED
  BY <1>1, <1>2, <1>3, <1>5, <1>6, <1>7, <1>8 DEF GlobalNext, Dashboard

\* While a boot is promised to bring the rows back, one of the database and the
\* two files still holds them.
LEMMA RowsKeptStep ==
    ASSUME SafeShapes, SecretsFirst, UpIsWritten, BootWritesRows, RowsKept, [GlobalNext]_globalVars
    PROVE  RowsKept'
<1> USE DEF SafeShapes
<1>a. Writers = {"timer", "closer"} /\ "timer" \in Writers /\ "closer" \in Writers /\ Idle.pc = "idle"
  BY DEF Writers, Idle
<1> SUFFICES ASSUME NEW p, p = promised', p # Unknown PROVE KeptAs(p)'
  BY DEF RowsKept, KeptAs, Faithful, Readable
<1>k. ASSUME promised' = promised PROVE KeptAs(p)
  BY <1>k DEF RowsKept, KeptAs, Faithful, Readable
<1>g. p \in GoodRows \/ promised' # promised
  BY <1>k DEF KeptAs
<1>1. CASE Dashboard
  BY <1>1, <1>k, DashboardChanges DEF Change, KeptAs
<1>2. CASE FireTimer
  BY <1>2, <1>k DEF FireTimer, KeptAs, ghosts
<1>3. CASE Close
  <2>1. /\ server = "up" /\ server' = "exit" /\ globals' = globals /\ UNCHANGED <<config, secrets>>
        /\ p = globals /\ p \in GoodRows /\ writer["timer"] = Idle /\ writer["closer"] = Idle
        /\ pending \/ Absent \notin {config, secrets}
    BY <1>3 DEF Close, GlobalShapes, RestQuiet, store, disk
  <2>2. CASE pending
    <3>1. writer'["closer"] = [pc |-> "secrets", data |-> globals] /\ writer'["timer"] = Idle
      BY <1>3, <2>1, <2>2, <1>a, WriterSteps DEF Close
    <3> QED BY <2>1, <3>1, <1>a DEF KeptAs, Booting
  <2>3. CASE ~pending
    <3>1. writer' = writer
      BY <1>3, <2>3 DEF Close
    <3>2. Faithful(p)
      BY <2>1, <2>3 DEF UpIsWritten
    <3>3. Faithful(p)'
      BY <3>2, <2>1, FilesUnchanged
    <3> QED BY <2>1, <3>1, <3>3 DEF KeptAs, Booting
  <2> QED BY <2>2, <2>3
<1>4. CASE Exit
  <2>1. /\ server = "exit" /\ server' = "down" /\ globals' = globals /\ UNCHANGED <<config, secrets>>
        /\ promised' = promised /\ writer["closer"] = Idle
    BY <1>4 DEF Exit, store, disk, ghosts
  <2>2. globals = p /\ Faithful(p) /\ p \in GoodRows
    BY <2>1, <1>k DEF KeptAs
  <2>3. Readable(p)'
    BY <2>1, <2>2, FilesUnchanged DEF Readable, Faithful
  <2> QED BY <2>1, <2>2, <2>3 DEF KeptAs, Booting
<1>5. CASE Crash
  BY <1>5 DEF Crash
<1>6. ASSUME NEW w \in Writers, WriteSecrets(w) PROVE KeptAs(p)'
  <2>1. /\ UNCHANGED <<globals, config, server, promised>> /\ KeptAs(p) /\ p \in GoodRows
        /\ writer[w] # Idle
        /\ writer'[w] = [pc |-> "config", data |-> writer[w].data]
        /\ \A v \in Writers \ {w} : writer'[v] = writer[v]
        /\ secrets' = RenderSecrets(writer[w].data)
    BY <1>6, <1>a, <1>k, WriterSteps DEF WriteSecrets, store, ghosts, KeptAs
  <2>2. CASE server = "exit"
    <3>1. w = "closer" /\ writer["closer"].data = p
      BY <2>1, <2>2, <1>a DEF KeptAs
    <3>2. /\ writer'["closer"] = [pc |-> "config", data |-> p] /\ writer'["timer"] = Idle
          /\ secrets' = RenderSecrets(p)
      BY <2>1, <2>2, <3>1, <1>a DEF KeptAs
    <3> QED BY <2>1, <2>2, <3>2, <1>a DEF KeptAs, Booting
  <2>3. CASE server # "exit"
    <3>1. w = "timer"
      BY <2>1, <2>3, <1>a DEF RestQuiet
    <3>2. server \in {"backfilling", "seeding"}
      BY <2>1, <2>3, <3>1 DEF KeptAs, RestQuiet, Resting, GlobalShapes, Booting
    <3>3. writer["timer"].data = p /\ globals = p
      BY <2>1, <3>1, <3>2 DEF BootWritesRows, KeptAs, Booting
    <3>4. config = Absent \/ config = RenderConfig(p)
      BY <2>1, <3>2 DEF KeptAs, Readable, Booting
    <3>5. secrets' = RenderSecrets(p)
      BY <2>1, <3>1, <3>3
    <3>6. Readable(p)'
      <4>1. CASE config = Absent
        BY <4>1, <2>1 DEF Readable
      <4>2. CASE config = RenderConfig(p)
        <5>1. Faithful(p)'
          BY <4>2, <2>1, <3>5, RenderingIsFaithful
        <5> QED BY <5>1, <4>2, <2>1 DEF Readable
      <4> QED BY <3>4, <4>1, <4>2
    <3> QED BY <2>1, <3>2, <3>3, <3>6 DEF KeptAs, Booting
  <2> QED BY <2>2, <2>3
<1>7. ASSUME NEW w \in Writers, WriteConfig(w) PROVE KeptAs(p)'
  <2>1. /\ UNCHANGED <<globals, secrets, server, promised>> /\ KeptAs(p) /\ p \in GoodRows
        /\ writer[w] # Idle /\ writer[w].pc = "config"
        /\ writer'[w] = Idle
        /\ \A v \in Writers \ {w} : writer'[v] = writer[v]
        /\ config' = RenderConfig(writer[w].data)
    BY <1>7, <1>a, <1>k, WriterSteps DEF WriteConfig, store, ghosts, KeptAs
  <2>2. CASE server = "exit"
    <3>1. w = "closer" /\ writer["closer"].data = p /\ secrets = RenderSecrets(p)
      BY <2>1, <2>2, <1>a DEF KeptAs
    <3>2. writer'["closer"] = Idle /\ writer'["timer"] = Idle
      BY <2>1, <2>2, <3>1, <1>a DEF KeptAs
    <3>3. Faithful(p)'
      BY <2>1, <3>1, RenderingIsFaithful
    <3> QED BY <2>1, <2>2, <3>2, <3>3 DEF KeptAs, Booting
  <2>3. CASE server # "exit"
    <3>1. w = "timer"
      BY <2>1, <2>3, <1>a DEF RestQuiet
    <3>2. server \in {"backfilling", "seeding"}
      BY <2>1, <2>3, <3>1 DEF KeptAs, RestQuiet, Resting, GlobalShapes, Booting
    <3>3. writer["timer"].data = p /\ globals = p
      BY <2>1, <3>1, <3>2 DEF BootWritesRows, KeptAs, Booting
    <3>4. secrets = RenderSecrets(p)
      BY <2>1, <2>3, <3>1, <3>3 DEF SecretsFirst
    <3>5. Faithful(p)' /\ config' = RenderConfig(p)
      BY <2>1, <3>1, <3>3, <3>4, RenderingIsFaithful
    <3>6. Readable(p)'
      BY <3>5 DEF Readable
    <3> QED BY <2>1, <3>2, <3>3, <3>6 DEF KeptAs, Booting
  <2> QED BY <2>2, <2>3
<1>8. ASSUME server' = "down", server = "down", StillPromised, UNCHANGED config \/ UNCHANGED secrets
      PROVE  p \in GoodRows /\ globals = p /\ Faithful(p)
  <2>1. IsWhole /\ KeptAs(p)
    BY <1>8, <1>k DEF StillPromised
  <2> QED BY <2>1, <1>8 DEF KeptAs, IsWhole, Readable
<1>9. CASE LoseDatabase
  <2>1. /\ server = "down" /\ server' = "down" /\ StillPromised /\ UNCHANGED <<config, secrets>>
        /\ globals' = EmptyRows
    BY <1>9 DEF LoseDatabase, Damage
  <2>2. p \in GoodRows /\ Faithful(p)'
    BY <2>1, <1>8, FilesUnchanged
  <2> QED BY <2>1, <2>2 DEF KeptAs, Booting
<1>10. CASE LoseSecrets
  <2>1. /\ server = "down" /\ server' = "down" /\ StillPromised /\ UNCHANGED <<config, globals>>
        /\ secrets' = Absent
    BY <1>10 DEF LoseSecrets, Damage, store
  <2>2. p \in GoodRows /\ globals = p /\ config = RenderConfig(p)
    BY <2>1, <1>8 DEF Faithful
  <2>3. Readable(p)'
    BY <2>1, <2>2 DEF Readable
  <2> QED BY <2>1, <2>2, <2>3 DEF KeptAs, Booting
<1>11. CASE LoseConfig
  <2>1. /\ server = "down" /\ server' = "down" /\ StillPromised /\ UNCHANGED <<secrets, globals>>
        /\ config' = Absent
    BY <1>11 DEF LoseConfig, Damage, store
  <2>2. p \in GoodRows /\ globals = p
    BY <2>1, <1>8
  <2>3. Readable(p)'
    BY <2>1 DEF Readable
  <2> QED BY <2>1, <2>2, <2>3 DEF KeptAs, Booting
<1>12. CASE MalformConfig
  BY <1>12 DEF MalformConfig
<1>13. CASE ImportGlobalIfEmpty
  <2>1. /\ server = "down" /\ server' = "backfill" /\ UNCHANGED <<config, secrets>>
        /\ promised' = promised
    BY <1>13 DEF ImportGlobalIfEmpty, disk, ghosts
  <2>2. KeptAs(p) /\ p \in GoodRows
    BY <2>1, <1>k DEF KeptAs
  <2>3. Readable(p)' /\ globals' = p
    <3>1. CASE globals = EmptyRows /\ Faithful(p)
      <4>1. config # Absent /\ config # Malformed
        BY <3>1, <2>2, RowsAreRendered, OwnerAssumption DEF Faithful, GoodConfig
      <4>2. globals' = ImportGlobal
        BY <1>13, <3>1, <4>1, EmptyRowsAreGood DEF ImportGlobalIfEmpty
      <4>3. globals' = p
        BY <4>2, <3>1, <2>2, ReadBack
      <4>4. Readable(p)
        BY <3>1 DEF Readable, Faithful
      <4> QED BY <4>3, <4>4, <2>1, FilesUnchanged
    <3>2. CASE globals = p /\ Readable(p)
      <4>1. Readable(p)'
        BY <3>2, <2>1, FilesUnchanged
      <4>2. CASE Named(globals) = {} /\ config # Absent
        <5>1. config = RenderConfig(p) /\ config # Malformed
          BY <4>2, <3>2, <2>2, RowsAreRendered, OwnerAssumption DEF Readable, GoodConfig
        <5>2. globals' = ImportGlobal
          BY <1>13, <4>2, <5>1 DEF ImportGlobalIfEmpty
        <5> QED BY <4>1, <5>1, <5>2, <4>2, <3>2, <2>2, ReadBack
      <4>3. CASE ~(Named(globals) = {} /\ config # Absent)
        BY <1>13, <4>1, <4>3, <3>2 DEF ImportGlobalIfEmpty, store
      <4> QED BY <4>2, <4>3
    <3> QED BY <2>1, <2>2, <3>1, <3>2 DEF KeptAs
  <2> QED BY <2>1, <2>2, <2>3 DEF KeptAs, Booting
<1>14. CASE Backfill \/ RunFirstBootSeedIfNeeded
  <2>1. /\ server \in Booting /\ server' \in Booting /\ UNCHANGED <<config, secrets, globals>>
        /\ promised' = promised
    BY <1>14 DEF Backfill, RunFirstBootSeedIfNeeded, BootWrite, BootGoesOn, Booting, store, disk, ghosts
  <2>2. globals = p /\ p \in GoodRows /\ Readable(p)
    BY <2>1, <1>k DEF KeptAs
  <2>3. Readable(p)'
    BY <2>1, <2>2, FilesUnchanged
  <2> QED BY <2>1, <2>2, <2>3 DEF KeptAs, Booting
<1>15. CASE ReconcileDBFromFS \/ BootFails
  BY <1>15 DEF ReconcileDBFromFS, BootFails
<1>16. CASE UNCHANGED globalVars
  <2>1. UNCHANGED <<config, secrets, globals, server, writer, promised>>
    BY <1>16 DEF globalVars, store, disk, ghosts
  <2>2. (Faithful(p)' <=> Faithful(p)) /\ (Readable(p)' <=> Readable(p)) /\ KeptAs(p)
    BY <2>1, <1>k, FilesUnchanged
  <2> QED BY <2>1, <2>2 DEF KeptAs
<1> QED
  BY <1>1, <1>2, <1>3, <1>4, <1>5, <1>6, <1>7, <1>9, <1>10, <1>11, <1>12, <1>13, <1>14, <1>15, <1>16
  DEF GlobalNext, Dashboard

\* The invariant of rows and files.
LEMMA RowsInvariant == GlobalSpec => []RowsInv
<1>1. GlobalInit => RowsInv
  <2> SUFFICES ASSUME GlobalInit PROVE SecretsFirst /\ UpIsWritten /\ BootWritesRows /\ RowsKept
    BY ShapesStart DEF RowsInv, SafeShapes
  <2>1. writer["timer"] = Idle /\ Idle.pc = "idle" /\ server = "up" /\ promised = Unknown
    BY DEF GlobalInit, Writers, Idle
  <2>2. Faithful(globals)
    <3>1. globals.pw \in [Users -> Nat \cup {Gone}] /\ globals.keys = {} /\ globals \in GoodRows
      BY ShapesStart DEF SafeShapes, GlobalShapes, GoodRows, Rows, GlobalInit
    <3>2. secrets # Absent
      BY <3>1, RowsAreRendered, OwnerAssumption DEF Rows, GlobalInit
    <3>3. \A u \in Named(globals) : SecretOf(u) = globals.pw[u]
      <4>1. secrets.pw = [u \in Users |-> IF globals.pw[u] = 0 THEN Gone ELSE globals.pw[u]]
        BY DEF GlobalInit, RenderSecrets
      <4> QED BY <4>1, <3>1, <3>2, OwnerAssumption DEF SecretOf, Named
    <3>4. ListedKey = globals.keys
      <4>1. config.key <=> (globals.keys # {})
        BY DEF GlobalInit, RenderConfig
      <4> QED BY <4>1, <3>1 DEF ListedKey
    <3> QED BY <3>2, <3>3, <3>4 DEF Faithful, GlobalInit
  <2> QED BY <2>1, <2>2 DEF SecretsFirst, UpIsWritten, BootWritesRows, RowsKept
<1>2. RowsInv /\ [GlobalNext]_globalVars => RowsInv'
  BY ShapesStep, SecretsFirstStep, UpIsWrittenStep, BootWritesRowsStep, RowsKeptStep DEF RowsInv, SafeShapes
<1> QED BY <1>1, <1>2, PTL DEF GlobalSpec

\* After a clean stop, the loss of any one of the database, config.yml and secrets.yml
\* is made good by the next boot, on any host: no user, password or API key is dropped,
\* revived or emptied.
THEOREM RestartsKeepRows == GlobalSpec => RestartKeepsRows
<1> DEFINE A == (server = "reload" /\ server' = "up" /\ promised # Unknown) => globals' = promised
<1>1. RowsInv /\ [GlobalNext]_globalVars => [A]_globalVars
  <2> SUFFICES ASSUME RowsInv, GlobalNext, server = "reload", server' = "up", promised # Unknown
               PROVE  globals' = promised
    OBVIOUS
  <2>1. globals = promised /\ promised \in GoodRows /\ Readable(promised)
    BY DEF RowsInv, RowsKept, KeptAs, Booting
  <2>2. CASE ReconcileDBFromFS
    <3>1. CASE config = Absent
      BY <2>1, <2>2, <3>1 DEF ReconcileDBFromFS
    <3>2. CASE config # Absent
      <4>1. globals' = ApplyGlobalSidecar
        BY <2>2, <3>2 DEF ReconcileDBFromFS
      <4>2. Faithful(promised) \/ (config = RenderConfig(promised) /\ secrets = Absent)
        BY <2>1, <3>2 DEF Readable
      <4> QED BY <4>1, <4>2, <2>1, ReadBack
    <3> QED BY <3>1, <3>2
  <2>3. ~Dashboard
    BY DashboardChanges DEF Change, RowsInv
  <2>4. CASE ~ReconcileDBFromFS
    BY <2>3, <2>4 DEF GlobalNext, Dashboard, FireTimer, Close, Exit, Crash, WriteSecrets, WriteConfig,
       LoseDatabase, LoseSecrets, LoseConfig, MalformConfig, Damage, ImportGlobalIfEmpty, Backfill,
       RunFirstBootSeedIfNeeded, BootWrite, BootGoesOn, BootFails
  <2> QED BY <2>2, <2>4
<1> QED BY <1>1, RowsInvariant, PTL DEF GlobalSpec, RestartKeepsRows

-----------------------------------------------------------------------------
(* Backups of the server's database                                        *)

\* One request at a time changes the settings.
OneSaver == \A s, t \in SysSavers : s = t

\* A schedule, a run and a request are records of their locals.
CronFits(x) == x \in [dir : {x.dir}, keep : {x.keep}, fired : Nat] /\ x.fired <= sysNow
RunFits(x) == x \in [pc : {"copy", "record", "prune", "remove"}, keep : {x.keep},
                     file : {x.file}, old : {x.old}]
PutFits(x) == \/ x = PutIdle
              \/ x \in [pc : {"save", "stop", "start"}, set : {x.set}, left : {x.left}, id : {x.id}]

\* The schedule is stopped before the next one starts.
ScheduleInv ==
    /\ sysNow \in Nat
    /\ crons = [c \in DOMAIN crons |-> crons[c]]
    /\ \A c \in DOMAIN crons : CronFits(crons[c])
    /\ put = [s \in SysSavers |-> put[s]]
    /\ \A s \in SysSavers : PutFits(put[s])
    /\ OneSchedule
    /\ \A s \in SysSavers : put[s].pc = "start" => DOMAIN crons = {}

\* A file is not named after a second to come, nor after one at which a
\* schedule has yet to fire.
Before(f, t) == f[2] \in Nat /\ f[2] <= t
InTime(f) == Before(f, sysNow) /\ \A c \in DOMAIN crons : Before(f, crons[c].fired)

\* Runs J, rows R and files F: no two runs and no two rows have one file, a run
\* that has no row yet keeps its file to itself, and what a run is about to
\* remove is not listed.
RunsAre(J, R, F) ==
    /\ J = [j \in DOMAIN J |-> J[j]]
    /\ \A j \in DOMAIN J : /\ RunFits(J[j])
                           /\ InTime(J[j].file) /\ \A f \in J[j].old : InTime(f)
                           /\ J[j].pc = "record" => J[j].file \in F
                           /\ \A r \in R : r.file \notin J[j].old
                           /\ J[j].pc \in {"copy", "record"} =>
                                /\ \A r \in R : r.file # J[j].file
                                /\ \A i \in DOMAIN J : J[j].file \notin J[i].old
    /\ \A i, j \in DOMAIN J : J[i].file = J[j].file => i = j
    /\ \A r \in R : InTime(r.file) /\ (r.ok => r.file \in F)
    /\ \A r, q \in R : r.file = q.file => r = q

RunsInv == RunsAre(sysJob, runRow, sysFiles)
SystemInv == ScheduleInv /\ RunsInv

\* Two fields of a request change at once.
LEMMA PutGoesOn ==
    ASSUME NEW p, p \in [pc : {"save", "stop", "start"}, set : {p.set}, left : {p.left}, id : {p.id}],
           NEW next, NEW rest
    PROVE  [[p EXCEPT !.left = rest] EXCEPT !.pc = next]
             = [pc |-> next, set |-> p.set, left |-> rest, id |-> p.id]
<1>1. [p EXCEPT !.left = rest] = [pc |-> p.pc, set |-> p.set, left |-> rest, id |-> p.id]
  OBVIOUS
<1>2. \A pc, left : [[pc |-> pc, set |-> p.set, left |-> left, id |-> p.id] EXCEPT !.pc = next]
                     = [pc |-> next, set |-> p.set, left |-> left, id |-> p.id]
  OBVIOUS
<1>3. [[pc |-> p.pc, set |-> p.set, left |-> rest, id |-> p.id] EXCEPT !.pc = next]
        = [pc |-> next, set |-> p.set, left |-> rest, id |-> p.id]
  BY <1>2, Zenon
<1> QED BY <1>1, <1>3, Zenon

\* Without settings nothing is scheduled.
LEMMA ScheduleStart == SystemInit => ScheduleInv
<1> SUFFICES ASSUME SystemInit PROVE ScheduleInv
  OBVIOUS
<1>1. DOMAIN crons = {} /\ crons = [c \in DOMAIN crons |-> crons[c]]
  BY DEF SystemInit
<1>2. put = [s \in SysSavers |-> put[s]] /\ \A s \in SysSavers : put[s] = PutIdle
  BY DEF SystemInit
<1> QED BY <1>1, <1>2 DEF SystemInit, ScheduleInv, PutFits, OneSchedule

\* handleSetDBBackupConfig stops the schedule that runs before it starts the next.
LEMMA ScheduleStep ==
    ASSUME OneSaver, ScheduleInv, [SystemNext]_sysVars
    PROVE  ScheduleInv'
<1>a. PutIdle.pc = "idle"
  BY DEF PutIdle
<1>b. put = [s \in SysSavers |-> put[s]] /\ \A s \in SysSavers : PutFits(put[s])
  BY DEF ScheduleInv
<1>c. ASSUME NEW s \in SysSavers, put[s].pc # "idle"
      PROVE  put[s] \in [pc : {"save", "stop", "start"}, set : {put[s].set},
                         left : {put[s].left}, id : {put[s].id}]
  BY <1>a, <1>b, <1>c DEF PutFits
\* A request goes on, and the schedule is not touched.
<1>1. ASSUME NEW s \in SysSavers, NEW x, PutFits(x), x.pc # "start", put' = [put EXCEPT ![s] = x],
             UNCHANGED <<crons, sysCron, sysNow>>
      PROVE  ScheduleInv'
  <2>1. put' = [t \in SysSavers |-> put'[t]] /\ \A t \in SysSavers : put'[t] = IF t = s THEN x ELSE put[t]
    BY <1>1, <1>b
  <2>2. \A t \in SysSavers : PutFits(put'[t])
    BY <2>1, <1>1, <1>b
  <2>3. \A t \in SysSavers : put'[t].pc = "start" => DOMAIN crons' = {}
    BY <2>1, <1>1 DEF ScheduleInv
  <2> QED BY <1>1, <2>1, <2>2, <2>3 DEF ScheduleInv, CronFits, PutFits, OneSchedule
<1>2. ASSUME NEW s \in SysSavers, BeginPut(s) PROVE ScheduleInv'
  <2> PICK set \in Settings :
         put' = [put EXCEPT ![s] = [pc |-> "save", set |-> set, left |-> SettingKeys, id |-> nSave']]
    BY <1>2 DEF BeginPut
  <2> DEFINE x == [pc |-> "save", set |-> set, left |-> SettingKeys, id |-> nSave']
  <2>1. PutFits(x) /\ x.pc # "start"
    BY DEF PutFits
  <2> HIDE DEF x
  <2>2. UNCHANGED <<crons, sysCron, sysNow>>
    BY <1>2 DEF BeginPut
  <2>3. put' = [put EXCEPT ![s] = x]
    BY DEF x
  <2> QED BY <2>1, <2>2, <2>3, <1>1
<1>3. ASSUME NEW s \in SysSavers, SetDBBackupConfig(s) PROVE ScheduleInv'
  <2>1. UNCHANGED <<crons, sysCron, sysNow>> /\ put[s].pc = "save"
    BY <1>3 DEF SetDBBackupConfig
  <2>2. CASE put' = [put EXCEPT ![s] = PutIdle]
    <3>1. PutFits(PutIdle) /\ PutIdle.pc # "start"
      BY <1>a DEF PutFits
    <3> QED BY <2>1, <2>2, <3>1, <1>1
  <2>3. ASSUME NEW k \in put[s].left,
               put' = [put EXCEPT ![s].left = @ \ {k},
                                  ![s].pc = IF put[s].left = {k} THEN "stop" ELSE "save"]
        PROVE  ScheduleInv'
    <3> PICK p : p = put[s]
      OBVIOUS
    <3> DEFINE x == [pc |-> IF p.left = {k} THEN "stop" ELSE "save", set |-> p.set,
                     left |-> p.left \ {k}, id |-> p.id]
    <3>1. p = [pc |-> p.pc, set |-> p.set, left |-> p.left, id |-> p.id]
      BY <1>c, <2>1
    <3>2. [[p EXCEPT !.left = @ \ {k}] EXCEPT !.pc = IF p.left = {k} THEN "stop" ELSE "save"] = x
      BY <1>c, <2>1, PutGoesOn, ZenonT(30)
    <3>3. put' = [put EXCEPT ![s] = x]
      <4>1. put' = [put EXCEPT ![s] = [[p EXCEPT !.left = @ \ {k}]
                                        EXCEPT !.pc = IF p.left = {k} THEN "stop" ELSE "save"]]
        BY <2>3, <1>b
      <4> QED BY <4>1, <3>2
    <3>4. PutFits(x) /\ x.pc # "start"
      BY DEF PutFits
    <3> HIDE DEF x
    <3> QED BY <3>3, <3>4, <2>1, <1>1
  <2> QED BY <1>3, <2>2, <2>3 DEF SetDBBackupConfig
<1>4. ASSUME NEW s \in SysSavers, StopSchedule(s) PROVE ScheduleInv'
  <2>1. /\ crons' = Dropped(crons, sysCron) /\ put[s].pc = "stop" /\ UNCHANGED <<sysCron, sysNow>>
        /\ put' = [put EXCEPT ![s].pc = "start"]
    BY <1>4 DEF StopSchedule
  <2>2. DOMAIN crons' = {} /\ crons' = [c \in DOMAIN crons' |-> crons'[c]]
    <3> PICK d : d = Dropped(crons, sysCron)
      OBVIOUS
    <3>1. DOMAIN d = DOMAIN crons \ {sysCron} /\ d = [c \in DOMAIN d |-> d[c]]
      BY DEF Dropped
    <3>2. DOMAIN crons \ {sysCron} = {}
      BY DEF ScheduleInv, OneSchedule
    <3> QED BY <2>1, <3>1, <3>2
  <2> PICK p : p = put[s]
    OBVIOUS
  <2>3. p = [pc |-> p.pc, set |-> p.set, left |-> p.left, id |-> p.id]
    BY <1>c, <2>1
  <2> DEFINE x == [pc |-> "start", set |-> p.set, left |-> p.left, id |-> p.id]
  <2>4. put' = [put EXCEPT ![s] = x]
    <3>1. [p EXCEPT !.pc = "start"] = x
      BY <2>3
    <3>2. put' = [put EXCEPT ![s] = [p EXCEPT !.pc = "start"]]
      BY <2>1, <1>b
    <3> QED BY <3>1, <3>2
  <2>5. PutFits(x)
    BY DEF PutFits
  <2> HIDE DEF x
  <2>6. put' = [t \in SysSavers |-> put'[t]] /\ \A t \in SysSavers : PutFits(put'[t])
    BY <2>4, <2>5, <1>b
  <2> QED BY <2>1, <2>2, <2>6 DEF ScheduleInv, OneSchedule, PutFits
<1>5. ASSUME NEW s \in SysSavers, StartSchedule(s) PROVE ScheduleInv'
  <2>1. put[s].pc = "start" /\ put' = [put EXCEPT ![s] = PutIdle] /\ sysNow' = sysNow
    BY <1>5 DEF StartSchedule
  <2>2. put' = [t \in SysSavers |-> put'[t]] /\ \A t \in SysSavers : put'[t] = PutIdle
    BY <2>1, <1>b DEF OneSaver
  <2>3. DOMAIN crons = {}
    BY <2>1 DEF ScheduleInv
  <2>4. CASE crons' = Added(crons, sysCron', NewCron(put[s].set))
    <3> DEFINE new == NewCron(put[s].set)
    <3>1. new \in [dir : {new.dir}, keep : {new.keep}, fired : Nat] /\ new.fired = sysNow
      BY DEF NewCron, ScheduleInv
    <3> HIDE DEF new
    <3>2. /\ DOMAIN crons' = {sysCron'} /\ crons'[sysCron'] = new
          /\ crons' = [c \in DOMAIN crons' |-> crons'[c]]
      <4> PICK k : k = sysCron'
        OBVIOUS
      <4> PICK a : a = Added(crons, k, new)
        OBVIOUS
      <4>1. DOMAIN a = {k} /\ a[k] = new /\ a = [c \in DOMAIN a |-> a[c]]
        BY <2>3 DEF Added
      <4>2. crons' = a
        BY <2>4 DEF new
      <4> QED BY <4>1, <4>2
    <3>3. \A c \in DOMAIN crons' : CronFits(crons[c])'
      BY <3>1, <3>2, <2>1 DEF CronFits, ScheduleInv
    <3> QED BY <2>1, <2>2, <3>2, <3>3, <1>a DEF ScheduleInv, OneSchedule, PutFits
  <2>5. CASE UNCHANGED crons
    BY <2>1, <2>2, <2>3, <2>5, <1>a DEF ScheduleInv, OneSchedule, PutFits
  <2> QED BY <1>5, <2>4, <2>5 DEF StartSchedule
<1>6. ASSUME NEW c \in DOMAIN crons, FireCron(c) PROVE ScheduleInv'
  <2> PICK old : old = crons[c]
    OBVIOUS
  <2>1. UNCHANGED <<sysCron, put, sysNow>> /\ crons' = [crons EXCEPT ![c].fired = sysNow]
    BY <1>6 DEF FireCron
  <2>2. old = [dir |-> old.dir, keep |-> old.keep, fired |-> old.fired] /\ sysNow \in Nat
    BY DEF ScheduleInv, CronFits
  <2> DEFINE new == [dir |-> old.dir, keep |-> old.keep, fired |-> sysNow]
  <2>3. [old EXCEPT !.fired = sysNow] = new
    BY <2>2
  <2>4. crons' = [crons EXCEPT ![c] = [old EXCEPT !.fired = sysNow]]
    BY <2>1 DEF ScheduleInv
  <2>5. new \in [dir : {new.dir}, keep : {new.keep}, fired : Nat] /\ new.fired = sysNow
    BY <2>2
  <2> HIDE DEF new
  <2>6. /\ DOMAIN crons' = DOMAIN crons /\ crons' = [x \in DOMAIN crons' |-> crons'[x]]
        /\ \A x \in DOMAIN crons : crons'[x] = IF x = c THEN new ELSE crons[x]
    BY <2>3, <2>4 DEF ScheduleInv
  <2>7. \A x \in DOMAIN crons' : CronFits(crons[x])'
    BY <2>1, <2>5, <2>6, <2>2 DEF ScheduleInv, CronFits
  <2> QED BY <2>1, <2>6, <2>7 DEF ScheduleInv, OneSchedule, PutFits
<1>7. ASSUME NEW j \in DOMAIN sysJob,
             VacuumInto(j) \/ CreateDBBackupRun(j) \/ PruneDBBackupRuns(j) \/ RemoveOld(j)
      PROVE  ScheduleInv'
  BY <1>7, ZenonT(30) DEF VacuumInto, CreateDBBackupRun, PruneDBBackupRuns, RemoveOld,
              ScheduleInv, CronFits, PutFits, OneSchedule
<1>8. CASE SysTick
  <2>1. UNCHANGED <<crons, sysCron, put>> /\ sysNow' = sysNow + 1 /\ sysNow \in Nat
    BY <1>8 DEF SysTick, ScheduleInv
  <2>2. \A c \in DOMAIN crons : CronFits(crons[c])'
    BY <2>1 DEF ScheduleInv, CronFits
  <2> QED BY <2>1, <2>2 DEF ScheduleInv, PutFits, OneSchedule
<1>9. CASE RestartServer
  <2>1. sysNow' = sysNow /\ put' = [s \in SysSavers |-> PutIdle]
    BY <1>9 DEF RestartServer
  <2>2. put' = [t \in SysSavers |-> put'[t]] /\ \A t \in SysSavers : put'[t] = PutIdle
    BY <2>1
  <2>3. CASE sysCron' = 0 /\ crons' = Added(<<>>, 0, NewCron(sysRow'))
    <3> DEFINE new == NewCron(sysRow')
    <3>1. new \in [dir : {new.dir}, keep : {new.keep}, fired : Nat] /\ new.fired = sysNow
      BY DEF NewCron, ScheduleInv
    <3> HIDE DEF new
    <3>2. DOMAIN <<>> = {}
      OBVIOUS
    <3>3. /\ DOMAIN crons' = {sysCron'} /\ crons'[sysCron'] = new
          /\ crons' = [c \in DOMAIN crons' |-> crons'[c]]
      <4> PICK a : a = Added(<<>>, 0, new)
        OBVIOUS
      <4>1. DOMAIN a = {0} /\ a[0] = new /\ a = [c \in DOMAIN a |-> a[c]]
        BY <3>2 DEF Added
      <4>2. crons' = a
        BY <2>3 DEF new
      <4> QED BY <4>1, <4>2, <2>3
    <3>4. \A c \in DOMAIN crons' : CronFits(crons[c])'
      BY <3>1, <3>3, <2>1 DEF CronFits, ScheduleInv
    <3> QED BY <2>1, <2>2, <3>3, <3>4, <1>a DEF ScheduleInv, OneSchedule, PutFits
  <2>4. CASE crons' = <<>>
    <3>1. DOMAIN crons' = {} /\ crons' = [c \in DOMAIN crons' |-> crons'[c]]
      BY <2>4
    <3> QED BY <2>1, <2>2, <3>1, <1>a DEF ScheduleInv, OneSchedule, PutFits
  <2> QED BY <1>9, <2>3, <2>4 DEF RestartServer
<1>10. CASE UNCHANGED sysVars
  BY <1>10 DEF sysVars, ScheduleInv, CronFits, PutFits, OneSchedule
<1>11. CASE ApplyDBBackupConfig
  BY <1>11 DEF ApplyDBBackupConfig, ScheduleInv, CronFits, PutFits, OneSchedule
<1> QED
  BY <1>2, <1>3, <1>4, <1>5, <1>6, <1>7, <1>8, <1>9, <1>10, <1>11 DEF SystemNext

\* No run, no row, no file.
LEMMA RunsStart == SystemInit => RunsInv
<1> SUFFICES ASSUME SystemInit PROVE RunsInv
  OBVIOUS
<1>1. DOMAIN sysJob = {} /\ sysJob = [j \in DOMAIN sysJob |-> sysJob[j]]
  BY DEF SystemInit
<1> QED BY <1>1 DEF SystemInit, RunsInv, RunsAre

\* A schedule is new or has not fired in this step.
StartsNow(c) ==
    \/ crons'[c].fired = sysNow
    \/ c \in DOMAIN crons /\ crons'[c].fired = crons[c].fired

\* A step of the schedule or the clock leaves every name in the past.
LEMMA StillInTime ==
    ASSUME ScheduleInv, sysNow' \in Nat, sysNow <= sysNow', NEW f, InTime(f),
           \A c \in DOMAIN crons' : StartsNow(c)
    PROVE  InTime(f)'
<1>1. f[2] \in Nat /\ f[2] <= sysNow /\ sysNow \in Nat
  BY DEF InTime, Before, ScheduleInv
<1>2. f[2] <= sysNow'
  BY <1>1
<1>3. ASSUME NEW c \in DOMAIN crons' PROVE f[2] <= crons'[c].fired
  BY <1>1, <1>3 DEF StartsNow, InTime, Before
<1> QED BY <1>1, <1>2, <1>3 DEF InTime, Before

\* So it does with the names of all runs and rows.
LEMMA RunsStayInTime ==
    ASSUME ScheduleInv, NEW J, NEW R, NEW F, RunsAre(J, R, F),
           sysNow' \in Nat, sysNow <= sysNow',
           \A c \in DOMAIN crons' : StartsNow(c)
    PROVE  RunsAre(J, R, F)'
<1>1. \A f : InTime(f) => InTime(f)'
  BY StillInTime
<1>2. /\ \A j \in DOMAIN J : InTime(J[j].file)' /\ \A f \in J[j].old : InTime(f)'
      /\ \A r \in R : InTime(r.file)'
  BY <1>1 DEF RunsAre
<1> QED BY <1>2 DEF RunsAre, RunFits

\* RunsInv says of the next state what RunsAre says of its values.
LEMMA RunsAreNext ==
    ASSUME NEW J, NEW R, NEW F, RunsAre(J, R, F)', sysJob' = J, runRow' = R, sysFiles' = F
    PROVE  RunsInv'
BY DEF RunsInv, RunsAre, InTime, Before, RunFits

\* A step of a run beside the schedule and the clock is judged by its values.
LEMMA SameSchedule ==
    ASSUME NEW J, NEW R, NEW F, RunsAre(J, R, F), UNCHANGED <<crons, sysNow>>,
           sysJob' = J, runRow' = R, sysFiles' = F
    PROVE  RunsInv'
BY DEF RunsInv, RunsAre, InTime, Before, RunFits

\* A run that ends leaves the others as they were.
LEMMA RunEnds ==
    ASSUME NEW J, NEW R, NEW F, RunsAre(J, R, F), NEW j \in DOMAIN J
    PROVE  RunsAre(Dropped(J, j), R, F)
<1> PICK D : D = Dropped(J, j)
  OBVIOUS
<1>1. /\ DOMAIN D = DOMAIN J \ {j} /\ \A i \in DOMAIN D : D[i] = J[i]
      /\ D = [i \in DOMAIN D |-> D[i]]
  BY DEF Dropped
<1>2. RunsAre(D, R, F)
  BY <1>1 DEF RunsAre
<1> QED BY <1>2

\* Two fields of a run change at once.
LEMMA RunRemoves ==
    ASSUME NEW q, q \in [pc : {"copy", "record", "prune", "remove"}, keep : {q.keep},
                         file : {q.file}, old : {q.old}],
           NEW gone
    PROVE  [[q EXCEPT !.pc = "remove"] EXCEPT !.old = gone]
             = [pc |-> "remove", keep |-> q.keep, file |-> q.file, old |-> gone]
<1>1. [q EXCEPT !.pc = "remove"] = [pc |-> "remove", keep |-> q.keep, file |-> q.file, old |-> q.old]
  OBVIOUS
<1>2. \A old : [[pc |-> "remove", keep |-> q.keep, file |-> q.file, old |-> old] EXCEPT !.old = gone]
              = [pc |-> "remove", keep |-> q.keep, file |-> q.file, old |-> gone]
  OBVIOUS
<1>3. [[pc |-> "remove", keep |-> q.keep, file |-> q.file, old |-> q.old] EXCEPT !.old = gone]
        = [pc |-> "remove", keep |-> q.keep, file |-> q.file, old |-> gone]
  BY <1>2, Zenon
<1> QED BY <1>1, <1>3, Zenon

\* Every step of runDBBackup, its schedule and a restart keeps the files apart.
LEMMA RunsStep ==
    ASSUME ScheduleInv, RunsInv, [SystemNext]_sysVars
    PROVE  RunsInv'
<1> PICK J : J = sysJob
  OBVIOUS
<1> PICK R : R = runRow
  OBVIOUS
<1> PICK F : F = sysFiles
  OBVIOUS
<1>a. RunsAre(J, R, F)
  BY DEF RunsInv
<1>b. sysNow \in Nat
  BY DEF ScheduleInv
\* The schedule changes beside the runs.
<1>1. ASSUME UNCHANGED <<sysJob, runRow, sysFiles>>, sysNow' \in Nat, sysNow <= sysNow',
             \A c \in DOMAIN crons' : StartsNow(c)
      PROVE  RunsInv'
  <2>1. RunsAre(J, R, F)'
    BY <1>a, <1>1, RunsStayInTime
  <2> QED BY <2>1, <1>1, RunsAreNext
<1>2. ASSUME NEW s \in SysSavers,
             BeginPut(s) \/ SetDBBackupConfig(s) \/ StopSchedule(s) \/ StartSchedule(s)
      PROVE  RunsInv'
  <2>1. UNCHANGED <<sysJob, runRow, sysFiles>> /\ sysNow' = sysNow
    BY <1>2 DEF BeginPut, SetDBBackupConfig, StopSchedule, StartSchedule
  <2>2. \A c \in DOMAIN crons' : StartsNow(c)
    <3>1. CASE crons' = crons
      BY <3>1 DEF StartsNow
    <3>2. CASE crons' = Dropped(crons, sysCron)
      BY <3>2 DEF Dropped, StartsNow
    <3>3. CASE crons' = Added(crons, sysCron', NewCron(put[s].set))
      <4>1. NewCron(put[s].set).fired = sysNow
        BY DEF NewCron
      <4> QED BY <3>3, <4>1 DEF Added, StartsNow
    <3> QED BY <1>2, <3>1, <3>2, <3>3 DEF BeginPut, SetDBBackupConfig, StopSchedule, StartSchedule
  <2> QED BY <2>1, <2>2, <1>1, <1>b
<1>3. ASSUME NEW c \in DOMAIN crons, FireCron(c) PROVE RunsInv'
  <2> PICK old : old = crons[c]
    OBVIOUS
  <2>f. PICK f : f = FileName(old.dir, sysNow)
    OBVIOUS
  <2>x. PICK x : x = [pc |-> "copy", keep |-> old.keep, file |-> f, old |-> {}]
    OBVIOUS
  <2>k. PICK k : k = <<c, sysNow>>
    OBVIOUS
  <2>K. PICK K : K = Added(J, k, x)
    OBVIOUS
  <2>1. /\ old.fired < sysNow /\ UNCHANGED <<runRow, sysFiles, sysNow>> /\ sysJob' = K
        /\ crons' = [crons EXCEPT ![c].fired = sysNow]
    BY <1>3, <2>f, <2>x, <2>k, <2>K DEF FireCron
  <2>2. old = [dir |-> old.dir, keep |-> old.keep, fired |-> old.fired]
    BY DEF ScheduleInv, CronFits
  <2>3. /\ DOMAIN crons' = DOMAIN crons /\ crons'[c].fired = sysNow
        /\ \A d \in DOMAIN crons : d = c
    <3>1. [old EXCEPT !.fired = sysNow].fired = sysNow
      BY <2>2
    <3> QED BY <2>1, <3>1 DEF ScheduleInv, OneSchedule
  <2>4. f[2] = sysNow
    BY <2>f DEF FileName
  <2>5. InTime(f)'
    BY <2>1, <2>3, <2>4, <1>b DEF InTime, Before
  <2>6. RunsAre(J, R, F)'
    BY <1>a, <2>1, <2>3, <1>b, RunsStayInTime DEF StartsNow
  <2>7. /\ \A j \in DOMAIN J : J[j].file # f /\ f \notin J[j].old
        /\ \A r \in R : r.file # f
    BY <1>a, <2>1, <2>4, <1>b DEF RunsAre, InTime, Before, ScheduleInv, CronFits
  <2>8. /\ x.pc = "copy" /\ x.file = f /\ x.old = {} /\ RunFits(x)
    BY <2>x DEF RunFits
  <2>9. /\ DOMAIN K = DOMAIN J \cup {k} /\ K[k] = x
        /\ \A j \in DOMAIN J \ {k} : K[j] = J[j]
        /\ K = [j \in DOMAIN K |-> K[j]]
    BY <2>K DEF Added
  <2>10. RunsAre(K, R, F)'
    <3>1. \A i \in DOMAIN K : IF i = k THEN K[i] = x ELSE i \in DOMAIN J /\ K[i] = J[i]
      BY <2>9
    <3>2. \A i \in DOMAIN K : RunFits(K[i])'
      BY <3>1, <2>8, <1>a DEF RunsAre, RunFits
    <3>3. \A i \in DOMAIN K : InTime(K[i].file)' /\ \A g \in K[i].old : InTime(g)'
      <4>1. \A i \in DOMAIN J : InTime(J[i].file)' /\ \A g \in J[i].old : InTime(g)'
        BY <2>6 DEF RunsAre
      <4>2. InTime(x.file)' /\ \A g \in x.old : InTime(g)'
        BY <2>5, <2>8
      <4> QED BY <3>1, <4>1, <4>2
    <3>4. \A i \in DOMAIN K : /\ K[i].pc = "record" => K[i].file \in F
                             /\ \A r \in R : r.file \notin K[i].old
      BY <3>1, <2>8, <1>a DEF RunsAre
    <3>5. \A i \in DOMAIN K : K[i].pc \in {"copy", "record"} =>
             /\ \A r \in R : r.file # K[i].file
             /\ \A h \in DOMAIN K : K[i].file \notin K[h].old
      BY <3>1, <2>7, <2>8, <1>a DEF RunsAre
    <3>6. \A i, h \in DOMAIN K : K[i].file = K[h].file => i = h
      BY <3>1, <2>7, <2>8, <1>a DEF RunsAre
    <3>7. /\ \A r \in R : InTime(r.file)' /\ (r.ok => r.file \in F)
          /\ \A r, h \in R : r.file = h.file => r = h
      BY <2>6 DEF RunsAre
    <3> QED BY <2>9, <3>2, <3>3, <3>4, <3>5, <3>6, <3>7 DEF RunsAre
  <2> QED BY <2>10, <2>1, RunsAreNext
<1>4. CASE SysTick
  BY <1>4, <1>1, <1>b DEF SysTick, StartsNow
<1>5. CASE RestartServer
  <2>1. sysJob' = <<>> /\ UNCHANGED <<runRow, sysFiles, sysNow>>
    BY <1>5 DEF RestartServer
  <2>2. \A c \in DOMAIN crons' : crons'[c].fired = sysNow
    <3>1. CASE crons' = Added(<<>>, 0, NewCron(sysRow'))
      <4>1. NewCron(sysRow').fired = sysNow /\ DOMAIN <<>> = {}
        BY DEF NewCron
      <4> QED BY <3>1, <4>1 DEF Added
    <3>2. CASE crons' = <<>>
      BY <3>2
    <3> QED BY <1>5, <3>1, <3>2 DEF RestartServer
  <2>3. RunsAre(J, R, F)'
    BY <1>a, <2>1, <2>2, <1>b, RunsStayInTime DEF StartsNow
  <2> PICK K : K = sysJob'
    OBVIOUS
  <2>4. DOMAIN K = {} /\ K = [j \in DOMAIN K |-> K[j]]
    BY <2>1
  <2>5. RunsAre(K, R, F)'
    BY <2>3, <2>4 DEF RunsAre
  <2> QED BY <2>1, <2>5, RunsAreNext
<1>6. ASSUME NEW j \in DOMAIN sysJob, NEW x, RunFits(x), x.file = J[j].file,
             sysJob' = [J EXCEPT ![j] = x]
      PROVE  \E K : /\ sysJob' = K /\ DOMAIN K = DOMAIN J /\ K = [i \in DOMAIN K |-> K[i]]
                    /\ \A i \in DOMAIN J : K[i] = IF i = j THEN x ELSE J[i]
  <2> PICK K : K = [J EXCEPT ![j] = x]
    OBVIOUS
  <2>1. DOMAIN K = DOMAIN J /\ \A i \in DOMAIN J : K[i] = IF i = j THEN x ELSE J[i]
    BY <1>a DEF RunsAre
  <2>2. K = [i \in DOMAIN K |-> K[i]]
    BY <1>a DEF RunsAre
  <2> QED BY <2>1, <2>2, <1>6
<1>7. ASSUME NEW j \in DOMAIN sysJob, NEW pc \in {"record", "prune", "remove"},
             sysJob' = [J EXCEPT ![j].pc = pc]
      PROVE  sysJob' = [J EXCEPT ![j] = [pc |-> pc, keep |-> J[j].keep, file |-> J[j].file, old |-> J[j].old]]
  <2> PICK q : q = J[j]
    OBVIOUS
  <2>1. q \in [pc : {"copy", "record", "prune", "remove"}, keep : {q.keep}, file : {q.file}, old : {q.old}]
    BY <1>a DEF RunsAre, RunFits
  <2>2. [q EXCEPT !.pc = pc] = [pc |-> pc, keep |-> q.keep, file |-> q.file, old |-> q.old]
    BY <2>1
  <2>3. sysJob' = [J EXCEPT ![j] = [q EXCEPT !.pc = pc]]
    BY <1>7, <1>a DEF RunsAre
  <2> QED BY <2>2, <2>3
<1>8. ASSUME NEW j \in DOMAIN sysJob, VacuumInto(j) PROVE RunsInv'
  <2> PICK q : q = J[j]
    OBVIOUS
  <2>1. q.pc = "copy" /\ UNCHANGED <<crons, sysNow>>
    BY <1>8 DEF VacuumInto
  <2>2. CASE sysFiles' = F \cup {q.file} /\ runRow' = R /\ sysJob' = [J EXCEPT ![j].pc = "record"]
    <3> DEFINE x == [pc |-> "record", keep |-> q.keep, file |-> q.file, old |-> q.old]
    <3>1. RunFits(x) /\ x.file = q.file /\ x.pc = "record" /\ x.old = q.old
      BY DEF RunFits
    <3>2. sysJob' = [J EXCEPT ![j] = x]
      BY <2>2, <1>7
    <3> HIDE DEF x
    <3>3. PICK K : /\ sysJob' = K /\ DOMAIN K = DOMAIN J /\ K = [i \in DOMAIN K |-> K[i]]
                   /\ \A i \in DOMAIN J : K[i] = IF i = j THEN x ELSE J[i]
      BY <3>1, <3>2, <1>6
    <3>4. RunsAre(K, R, F \cup {q.file})
      BY <1>a, <2>1, <3>1, <3>3 DEF RunsAre
    <3> QED BY <3>4, <3>3, <2>1, <2>2, SameSchedule
  <2>3. CASE CreateRun(q.file, FALSE) /\ sysJob' = Dropped(J, j) /\ sysFiles' = F
    <3> DEFINE row == [file |-> q.file, ok |-> FALSE, at |-> sysNow]
    <3>1. row.file = q.file /\ ~row.ok /\ runRow' = R \cup {row}
      BY <2>3 DEF CreateRun
    <3> HIDE DEF row
    <3> PICK D : D = Dropped(J, j)
      OBVIOUS
    <3>2. DOMAIN D = DOMAIN J \ {j} /\ \A i \in DOMAIN D : D[i] = J[i]
      BY DEF Dropped
    <3>3. RunsAre(D, R, F)
      BY <1>a, RunEnds
    <3>4. RunsAre(D, R \cup {row}, F)
      BY <1>a, <2>1, <3>1, <3>2, <3>3 DEF RunsAre
    <3> QED BY <3>4, <3>1, <2>1, <2>3, SameSchedule
  <2> QED BY <1>8, <2>2, <2>3 DEF VacuumInto
<1>9. ASSUME NEW j \in DOMAIN sysJob, CreateDBBackupRun(j) PROVE RunsInv'
  <2> PICK q : q = J[j]
    OBVIOUS
  <2>1. q.pc = "record" /\ UNCHANGED <<crons, sysNow>>
    BY <1>9 DEF CreateDBBackupRun
  <2>2. CASE CreateRun(q.file, TRUE) /\ sysFiles' = F /\ sysJob' = [J EXCEPT ![j].pc = "prune"]
    <3> DEFINE x == [pc |-> "prune", keep |-> q.keep, file |-> q.file, old |-> q.old]
               row == [file |-> q.file, ok |-> TRUE, at |-> sysNow]
    <3>1. RunFits(x) /\ x.file = q.file /\ x.pc = "prune" /\ x.old = q.old
      BY DEF RunFits
    <3>2. sysJob' = [J EXCEPT ![j] = x]
      BY <2>2, <1>7
    <3>3. row.file = q.file /\ runRow' = R \cup {row}
      BY <2>2 DEF CreateRun
    <3> HIDE DEF x, row
    <3>4. PICK K : /\ sysJob' = K /\ DOMAIN K = DOMAIN J /\ K = [i \in DOMAIN K |-> K[i]]
                   /\ \A i \in DOMAIN J : K[i] = IF i = j THEN x ELSE J[i]
      BY <3>1, <3>2, <1>6
    <3>5. RunsAre(K, R \cup {row}, F)
      BY <1>a, <2>1, <3>1, <3>3, <3>4 DEF RunsAre
    <3> QED BY <3>5, <3>3, <3>4, <2>1, <2>2, SameSchedule
  <2>3. CASE CreateRun(q.file, FALSE) /\ sysJob' = Dropped(J, j) /\ sysFiles' = F \ {q.file}
    <3> DEFINE row == [file |-> q.file, ok |-> FALSE, at |-> sysNow]
    <3>1. row.file = q.file /\ ~row.ok /\ runRow' = R \cup {row}
      BY <2>3 DEF CreateRun
    <3> HIDE DEF row
    <3> PICK D : D = Dropped(J, j)
      OBVIOUS
    <3>2. DOMAIN D = DOMAIN J \ {j} /\ \A i \in DOMAIN D : D[i] = J[i]
      BY DEF Dropped
    <3>3. RunsAre(D, R, F)
      BY <1>a, RunEnds
    <3>4. RunsAre(D, R \cup {row}, F \ {q.file})
      BY <1>a, <2>1, <3>1, <3>2, <3>3 DEF RunsAre
    <3> QED BY <3>4, <3>1, <2>1, <2>3, SameSchedule
  <2> QED BY <1>9, <2>2, <2>3 DEF CreateDBBackupRun
<1>10. ASSUME NEW j \in DOMAIN sysJob, PruneDBBackupRuns(j) PROVE RunsInv'
  <2> PICK q : q = J[j]
    OBVIOUS
  <2>s. PICK S \in SUBSET R :
         /\ runRow' = R \ S
         /\ sysJob' = [J EXCEPT ![j].pc = "remove", ![j].old = {r.file : r \in S}]
    BY <1>10 DEF PruneDBBackupRuns
  <2>1. q.pc = "prune" /\ UNCHANGED <<crons, sysNow, sysFiles>>
    BY <1>10 DEF PruneDBBackupRuns
  <2>g. PICK gone : gone = {r.file : r \in S}
    OBVIOUS
  <2> DEFINE x == [pc |-> "remove", keep |-> q.keep, file |-> q.file, old |-> gone]
  <2>2. RunFits(x) /\ x.file = q.file /\ x.pc = "remove" /\ x.old = gone
    BY DEF RunFits
  <2>3. sysJob' = [J EXCEPT ![j] = x]
    <3>1. q \in [pc : {"copy", "record", "prune", "remove"}, keep : {q.keep}, file : {q.file}, old : {q.old}]
      BY <1>a DEF RunsAre, RunFits
    <3>2. sysJob' = [J EXCEPT ![j] = [[q EXCEPT !.pc = "remove"] EXCEPT !.old = gone]]
      BY <1>a, <2>s, <2>g DEF RunsAre
    <3>3. [[q EXCEPT !.pc = "remove"] EXCEPT !.old = gone] = x
      BY <3>1, RunRemoves
    <3> QED BY <3>2, <3>3
  <2> HIDE DEF x
  <2>4. PICK K : /\ sysJob' = K /\ DOMAIN K = DOMAIN J /\ K = [i \in DOMAIN K |-> K[i]]
                 /\ \A i \in DOMAIN J : K[i] = IF i = j THEN x ELSE J[i]
    BY <2>2, <2>3, <1>6
  <2>5. /\ \A f \in gone : InTime(f)
        /\ \A r \in R \ S : r.file \notin gone
        /\ \A i \in DOMAIN J : J[i].pc \in {"copy", "record"} => J[i].file \notin gone
    <3>1. \A r \in S : r \in R
      OBVIOUS
    <3>2. \A f \in gone : \E r \in S : f = r.file
      BY <2>g
    <3>3. \A f \in gone : InTime(f)
      BY <1>a, <3>1, <3>2 DEF RunsAre
    <3>4. \A r \in R \ S : r.file \notin gone
      BY <1>a, <3>1, <3>2 DEF RunsAre
    <3>5. \A i \in DOMAIN J : J[i].pc \in {"copy", "record"} => J[i].file \notin gone
      BY <1>a, <3>1, <3>2 DEF RunsAre
    <3> QED BY <3>3, <3>4, <3>5
  <2>6. RunsAre(K, R \ S, F)
    BY <1>a, <2>1, <2>2, <2>4, <2>5 DEF RunsAre
  <2> QED BY <2>6, <2>4, <2>1, <2>s, SameSchedule
<1>11. ASSUME NEW j \in DOMAIN sysJob, RemoveOld(j) PROVE RunsInv'
  <2>1. /\ sysFiles' = F \ J[j].old /\ sysJob' = Dropped(J, j) /\ runRow' = R
        /\ UNCHANGED <<crons, sysNow>>
    BY <1>11 DEF RemoveOld
  <2> PICK D : D = Dropped(J, j)
    OBVIOUS
  <2>2. DOMAIN D = DOMAIN J \ {j} /\ \A i \in DOMAIN D : D[i] = J[i]
    BY DEF Dropped
  <2>3. RunsAre(D, R, F)
    BY <1>a, RunEnds
  <2>4. RunsAre(D, R, F \ J[j].old)
    BY <1>a, <2>2, <2>3 DEF RunsAre
  <2> QED BY <2>4, <2>1, SameSchedule
<1>12. CASE UNCHANGED sysVars
  BY <1>12, <1>a, SameSchedule DEF sysVars
<1>13. CASE ApplyDBBackupConfig
  BY <1>13, <1>a, SameSchedule DEF ApplyDBBackupConfig
<1> QED
  BY <1>2, <1>3, <1>4, <1>5, <1>8, <1>9, <1>10, <1>11, <1>12, <1>13 DEF SystemNext

\* The invariant of the backups of the database.
LEMMA SystemInvariant == ASSUME OneSaver PROVE SystemSpec => []SystemInv
<1>1. SystemInit => SystemInv
  BY ScheduleStart, RunsStart DEF SystemInv
<1>2. SystemInv /\ [SystemNext]_sysVars => SystemInv'
  BY ScheduleStep, RunsStep DEF SystemInv
<1> QED BY <1>1, <1>2, PTL DEF SystemSpec

\* With one request at a time to change the settings, every run that is listed as ok
\* has its file, whatever runs overlap, fail or are cut off.
THEOREM ListedRunsHaveFiles == ASSUME OneSaver PROVE SystemSpec => []ListedHasFile
<1>1. SystemInv => ListedHasFile
  BY DEF SystemInv, RunsInv, RunsAre, ListedHasFile
<1> QED BY <1>1, SystemInvariant, PTL

\* With one request at a time, scheduleDBBackup leaves one cron, the one it can stop.
THEOREM OneScheduleRuns == ASSUME OneSaver PROVE SystemSpec => []OneSchedule
<1>1. SystemInv => OneSchedule
  BY DEF SystemInv, ScheduleInv
<1> QED BY <1>1, SystemInvariant, PTL

----------------------------------------------------------------------------
(* The rate limiter                                                        *)

CallsOf == [t : Nat, ok : BOOLEAN]
BucketsOf == [tokens : 0 .. Quota, spare : 0 .. Burst, over : BOOLEAN, reset : Nat, used : Nat]

Let(c, i, j) == Cardinality({n \in i .. j : c[n].ok})
Goes(c, i, j) ==
    \A s \in c[i].t .. (c[j].t - Window) :
        \E m \in i .. j : ~c[m].ok /\ c[m].t \in s .. (s + Window - 1)
InOrder(c) == \A n \in 1 .. Len(c) : \A m \in 1 .. n : c[m].t <= c[n].t

\* The bucket b filled at b.reset has let through T requests by tokens, S by the burst
\* since the i-th, in k fillings after the one that the i-th met.
Spent(c, b, i, k, T, S) ==
    /\ Let(c, i, Len(c)) = T + S
    /\ T + b.tokens <= (k + 1) * Quota
    /\ S + b.spare <= Burst
    /\ k * Window < b.reset - c[i].t + Window
    /\ b.reset < c[i].t /\ ~b.over => S = 0

Fits(c, b) ==
    /\ b \in BucketsOf /\ c # <<>>
    /\ b.used = c[Len(c)].t /\ b.reset <= b.used /\ b.used < b.reset + Window
TellsOver(c, b) == \A m \in 1 .. Len(c) : ~c[m].ok /\ c[m].t >= b.reset => b.over
Accounts(c, b) ==
    \A i \in 1 .. Len(c) : Goes(c, i, Len(c)) =>
        \E k \in Nat, T \in Nat, S \in Nat : Spent(c, b, i, k, T, S)
Steady(c) ==
    \A j \in 1 .. Len(c) : \A i \in 1 .. j :
        Goes(c, i, j) => Let(c, i, j) <= (((c[j].t - c[i].t) \div Window) + 2) * Quota + Burst

RateInv ==
    /\ clock \in Nat
    /\ calls \in Seq(CallsOf) /\ InOrder(calls)
    /\ \A n \in 1 .. Len(calls) : calls[n].t <= clock
    /\ Watched \in DOMAIN buckets => Fits(calls, buckets[Watched])
    /\ ~evicted =>
        /\ Watched \in DOMAIN buckets =>
               TellsOver(calls, buckets[Watched]) /\ Accounts(calls, buckets[Watched])
        /\ Watched \notin DOMAIN buckets /\ calls # <<>> => calls[Len(calls)].t < clock - 2 * Window
        /\ Steady(calls)

\* Numbers of the limiter.
LEMMA RateNumbers == Quota \in Nat \ {0} /\ Window \in Nat \ {0} /\ Burst \in Nat /\ 0 .. Burst \subseteq Nat
BY RateAssumption

\* One call more.
LEMMA CallMore ==
  ASSUME NEW c \in Seq(CallsOf), NEW e \in CallsOf, NEW d, d = Append(c, e),
         InOrder(c), \A n \in 1 .. Len(c) : c[n].t <= e.t
  PROVE  /\ d \in Seq(CallsOf) /\ Len(c) \in Nat /\ Len(d) = Len(c) + 1 /\ d # <<>>
         /\ \A n \in 1 .. Len(c) : d[n] = c[n] /\ c[n] \in CallsOf
         /\ d[Len(d)] = e /\ d[Len(c) + 1] = e
         /\ InOrder(d)
<1>1. /\ d \in Seq(CallsOf) /\ Len(c) \in Nat /\ Len(d) = Len(c) + 1 /\ d # <<>>
      /\ \A n \in 1 .. Len(c) : d[n] = c[n] /\ c[n] \in CallsOf
      /\ d[Len(d)] = e /\ d[Len(c) + 1] = e
  BY AppendProperties, ElementOfSeq, LenProperties
<1>2. InOrder(d)
  <2> SUFFICES ASSUME NEW n \in 1 .. Len(d), NEW m \in 1 .. n PROVE d[m].t <= d[n].t
    BY DEF InOrder
  <2>1. CASE n \in 1 .. Len(c)
    <3>1. m \in 1 .. Len(c) /\ c[m].t <= c[n].t
      BY <1>1, <2>1 DEF InOrder
    <3> QED BY <1>1, <2>1, <3>1
  <2>2. CASE n = Len(c) + 1
    <3>1. d[n] = e /\ e.t \in Nat
      BY <1>1, <2>2 DEF CallsOf
    <3>2. CASE m \in 1 .. Len(c)
      BY <1>1, <3>1, <3>2
    <3>3. CASE m = n
      BY <3>1, <3>3
    <3> QED BY <1>1, <2>2, <3>2, <3>3
  <2> QED BY <1>1, <2>1, <2>2
<1> QED BY <1>1, <1>2

\* It counts if it was let through.
LEMMA LetMore ==
  ASSUME NEW c \in Seq(CallsOf), NEW e \in CallsOf, NEW d, d = Append(c, e),
         InOrder(c), \A n \in 1 .. Len(c) : c[n].t <= e.t
  PROVE  /\ \A j \in 1 .. Len(c) : \A i \in 1 .. j : Let(d, i, j) = Let(c, i, j)
         /\ \A i \in 1 .. Len(c) + 1 :
                /\ e.ok => Let(d, i, Len(d)) = Let(c, i, Len(c)) + 1
                /\ ~e.ok => Let(d, i, Len(d)) = Let(c, i, Len(c))
         /\ \A i \in 1 .. Len(c) + 1 : Let(c, i, Len(c)) \in Nat
         /\ Let(c, Len(c) + 1, Len(c)) = 0
<1>1. /\ Len(c) \in Nat /\ Len(d) = Len(c) + 1 /\ d[Len(c) + 1] = e
      /\ \A n \in 1 .. Len(c) : d[n] = c[n]
  BY CallMore
<1>2. ASSUME NEW j \in 1 .. Len(c), NEW i \in 1 .. j PROVE Let(d, i, j) = Let(c, i, j)
  <2>1. \A n \in i .. j : d[n] = c[n]
    BY <1>1
  <2>2. {n \in i .. j : d[n].ok} = {n \in i .. j : c[n].ok}
    BY <2>1
  <2> QED BY <2>2 DEF Let
<1>3. ASSUME NEW i \in 1 .. Len(c) + 1
      PROVE  /\ e.ok => Let(d, i, Len(d)) = Let(c, i, Len(c)) + 1
             /\ ~e.ok => Let(d, i, Len(d)) = Let(c, i, Len(c))
             /\ Let(c, i, Len(c)) \in Nat
  <2>1. PICK A : A = {n \in i .. Len(c) : c[n].ok}
    OBVIOUS
  <2>2. PICK B : B = {n \in i .. Len(d) : d[n].ok}
    OBVIOUS
  <2>3. IsFiniteSet(i .. Len(c))
    BY <1>1, FS_Interval
  <2>4. IsFiniteSet(A) /\ Cardinality(A) \in Nat /\ Len(c) + 1 \notin A
    <3>1. IsFiniteSet(A)
      BY <2>1, <2>3, FS_Subset
    <3> QED BY <1>1, <2>1, <3>1, FS_CardinalityType
  <2>5. B = IF e.ok THEN A \cup {Len(c) + 1} ELSE A
    <3>1. \A n : n \in i .. Len(d) <=> n \in i .. Len(c) \/ n = Len(c) + 1
      BY <1>1
    <3>2. \A n \in i .. Len(c) : d[n] = c[n]
      BY <1>1
    <3>3. \A n : n \in B <=> (n \in A \/ (n = Len(c) + 1 /\ e.ok))
      BY <1>1, <2>1, <2>2, <3>1, <3>2
    <3> QED BY <3>3
  <2>6. Cardinality(A \cup {Len(c) + 1}) = Cardinality(A) + 1
    BY <2>4, FS_AddElement
  <2> QED BY <2>1, <2>2, <2>4, <2>5, <2>6 DEF Let
<1>4. Let(c, Len(c) + 1, Len(c)) = 0
  <2>1. {n \in (Len(c) + 1) .. Len(c) : c[n].ok} = {}
    BY <1>1
  <2> QED BY <2>1, FS_EmptySet DEF Let
<1> QED BY <1>2, <1>3, <1>4

\* Who goes over from the i-th call to one more went over before it.
LEMMA GoesBack ==
  ASSUME NEW c \in Seq(CallsOf), NEW e \in CallsOf, NEW d, d = Append(c, e),
         InOrder(c), \A n \in 1 .. Len(c) : c[n].t <= e.t
  PROVE  /\ \A j \in 1 .. Len(c) : \A i \in 1 .. j : Goes(d, i, j) <=> Goes(c, i, j)
         /\ \A i \in 1 .. Len(c) : Goes(d, i, Len(d)) => Goes(c, i, Len(c))
<1>1. /\ Len(c) \in Nat /\ Len(d) = Len(c) + 1 /\ d[Len(d)] = e
      /\ \A n \in 1 .. Len(c) : d[n] = c[n] /\ c[n] \in CallsOf
  BY CallMore
<1>2. ASSUME NEW j \in 1 .. Len(c), NEW i \in 1 .. j PROVE Goes(d, i, j) <=> Goes(c, i, j)
  <2>1. \A n \in i .. j : d[n] = c[n]
    BY <1>1
  <2>2. d[i] = c[i] /\ d[j] = c[j]
    BY <1>1
  <2> QED BY <2>1, <2>2 DEF Goes
<1>3. ASSUME NEW i \in 1 .. Len(c), Goes(d, i, Len(d)) PROVE Goes(c, i, Len(c))
  <2> SUFFICES ASSUME NEW s \in c[i].t .. (c[Len(c)].t - Window)
               PROVE  \E m \in i .. Len(c) : ~c[m].ok /\ c[m].t \in s .. (s + Window - 1)
    BY DEF Goes
  <2>1. /\ c[i].t \in Nat /\ c[Len(c)].t \in Nat /\ e.t \in Nat /\ c[Len(c)].t <= e.t
        /\ Window \in Nat \ {0}
    BY <1>1, RateNumbers DEF CallsOf
  <2>2. s \in d[i].t .. (d[Len(d)].t - Window)
    BY <1>1, <2>1
  <2>3. PICK m \in i .. Len(d) : ~d[m].ok /\ d[m].t \in s .. (s + Window - 1)
    BY <1>3, <2>2 DEF Goes
  <2>4. m # Len(d)
    BY <1>1, <2>1, <2>3
  <2>5. m \in i .. Len(c) /\ d[m] = c[m]
    BY <1>1, <2>3, <2>4
  <2> QED BY <2>3, <2>5
<1> QED BY <1>2, <1>3

\* What Refill does to a bucket.
LEMMA RefillFacts ==
  ASSUME NEW b \in BucketsOf, clock \in Nat, b.reset <= clock
  PROVE  /\ Refill(b) \in BucketsOf /\ Refill(b).used = clock
         /\ Refill(b).reset <= clock /\ clock < Refill(b).reset + Window
         /\ clock - b.reset < Window =>
                /\ Refill(b).tokens = b.tokens /\ Refill(b).spare = b.spare
                /\ (Refill(b).over <=> b.over) /\ Refill(b).reset = b.reset
         /\ clock - b.reset >= Window =>
                /\ Refill(b).tokens = Quota /\ Refill(b).reset = clock /\ ~Refill(b).over
                /\ Refill(b).spare = IF ~b.over \/ clock - b.reset >= 2 * Window THEN Burst ELSE b.spare
<1>1. /\ b = [tokens |-> b.tokens, spare |-> b.spare, over |-> b.over, reset |-> b.reset, used |-> b.used]
      /\ b.tokens \in 0 .. Quota /\ b.spare \in 0 .. Burst /\ b.over \in BOOLEAN /\ b.reset \in Nat
  BY DEF BucketsOf
<1>2. CASE clock - b.reset < Window
  <2>1. Refill(b) = [tokens |-> b.tokens, spare |-> b.spare, over |-> b.over, reset |-> b.reset,
                     used |-> clock]
    BY <1>1, <1>2, RateNumbers DEF Refill
  <2> QED BY <1>1, <1>2, <2>1, RateNumbers DEF BucketsOf
<1>3. CASE clock - b.reset >= Window
  <2>1. PICK p \in 0 .. Burst : p = IF ~b.over \/ clock - b.reset >= 2 * Window THEN Burst ELSE b.spare
    BY <1>1, RateNumbers
  <2>2. Refill(b) = [tokens |-> Quota, spare |-> p, over |-> FALSE, reset |-> clock, used |-> clock]
    BY <1>3, <2>1 DEF Refill
  <2> QED BY <1>1, <1>3, <2>1, <2>2, RateNumbers DEF BucketsOf
<1> QED BY <1>1, <1>2, <1>3, RateNumbers

\* What Take does to it.
LEMMA TakeFacts ==
  ASSUME NEW b \in BucketsOf
  PROVE  /\ Take(b) \in BucketsOf /\ Take(b).reset = b.reset /\ Take(b).used = b.used
         /\ b.tokens > 0 => /\ Take(b).tokens = b.tokens - 1 /\ Take(b).spare = b.spare
                            /\ (Take(b).over <=> b.over)
         /\ ~(b.tokens > 0) => /\ Take(b).tokens = 0 /\ Take(b).over
                               /\ Take(b).spare = IF b.spare > 0 THEN b.spare - 1 ELSE 0
         /\ b.over => Take(b).over
<1>1. /\ b = [tokens |-> b.tokens, spare |-> b.spare, over |-> b.over, reset |-> b.reset, used |-> b.used]
      /\ b.tokens \in 0 .. Quota /\ b.spare \in 0 .. Burst /\ b.over \in BOOLEAN
      /\ b.reset \in Nat /\ b.used \in Nat
  BY DEF BucketsOf
<1>2. CASE b.tokens > 0
  <2>1. Take(b) = [tokens |-> b.tokens - 1, spare |-> b.spare, over |-> b.over, reset |-> b.reset,
                   used |-> b.used]
    BY <1>1, <1>2 DEF Take
  <2> QED BY <1>1, <1>2, <2>1, RateNumbers DEF BucketsOf
<1>3. CASE ~(b.tokens > 0)
  <2>1. PICK p \in 0 .. Burst : p = IF b.spare > 0 THEN b.spare - 1 ELSE 0
    BY <1>1, RateNumbers
  <2>2. Take(b) = [tokens |-> 0, spare |-> p, over |-> TRUE, reset |-> b.reset, used |-> b.used]
    BY <1>3, <2>1 DEF Take
  <2> QED BY <1>1, <1>3, <2>1, <2>2, RateNumbers DEF BucketsOf
<1> QED BY <1>2, <1>3

\* Filling the bucket of a client that keeps going over gives back no burst that it
\* has used.
LEMMA SpentRefill ==
  ASSUME clock \in Nat, NEW c \in Seq(CallsOf), InOrder(c), \A n \in 1 .. Len(c) : c[n].t <= clock,
         NEW e \in CallsOf, e.t = clock, NEW d, d = Append(c, e),
         NEW b, Fits(c, b), TellsOver(c, b), NEW i \in 1 .. Len(c), Goes(d, i, Len(d)),
         NEW k \in Nat, NEW T \in Nat, NEW S \in Nat, Spent(c, b, i, k, T, S)
  PROVE  \E q \in Nat : Spent(c, Refill(b), i, q, T, S)
<1>1. /\ Len(c) \in Nat /\ Len(d) = Len(c) + 1 /\ d[Len(d)] = e
      /\ \A n \in 1 .. Len(c) : d[n] = c[n] /\ c[n] \in CallsOf
  BY CallMore
<1>2. /\ b \in BucketsOf /\ b.tokens \in 0 .. Quota /\ b.spare \in 0 .. Burst /\ b.reset \in Nat
      /\ b.over \in BOOLEAN
      /\ b.reset <= clock /\ c[Len(c)].t < b.reset + Window /\ c[Len(c)].t \in Nat
  BY <1>1 DEF Fits, BucketsOf, CallsOf
<1>3. c[i].t \in Nat /\ c[i].t <= c[Len(c)].t /\ c[i].t <= clock
  <2>1. c[i] \in CallsOf /\ Len(c) \in 1 .. Len(c) /\ i \in 1 .. Len(c)
    BY <1>1
  <2>2. c[i].t <= c[Len(c)].t
    BY <2>1 DEF InOrder
  <2> QED BY <2>1, <2>2 DEF CallsOf
<1>30. PICK x \in Nat, r \in Nat, l \in Nat, w \in Nat \ {0} :
          /\ x = c[i].t /\ r = b.reset /\ l = c[Len(c)].t /\ w = Window
          /\ x <= l /\ l <= clock /\ r <= clock /\ l < r + w
  <2>1. c[Len(c)].t <= clock
    BY <1>1
  <2> QED BY <1>2, <1>3, <2>1, RateNumbers
<1>31. x <= l /\ l <= clock /\ r <= clock /\ l < r + w
  BY <1>30
<1>4. PICK f \in BucketsOf : f = Refill(b)
  BY <1>2, RefillFacts
<1>5. /\ Let(c, i, Len(c)) = T + S /\ T + b.tokens <= (k + 1) * Quota /\ S + b.spare <= Burst
      /\ k * Window < b.reset - c[i].t + Window
      /\ b.reset < c[i].t /\ ~b.over => S = 0
  BY DEF Spent
<1>6. CASE clock - b.reset < Window
  <2>1. f.tokens = b.tokens /\ f.spare = b.spare /\ (f.over <=> b.over) /\ f.reset = b.reset
    BY <1>2, <1>4, <1>6, RefillFacts
  <2>2. Spent(c, f, i, k, T, S)
    BY <1>5, <2>1 DEF Spent
  <2> QED BY <1>4, <2>2
<1>7. CASE clock - b.reset >= Window
  <2>1. /\ f.tokens = Quota /\ f.reset = clock
        /\ f.spare = IF ~b.over \/ clock - b.reset >= 2 * Window THEN Burst ELSE b.spare
    BY <1>2, <1>4, <1>7, RefillFacts
  <2>2. ASSUME NEW s \in Nat, c[i].t <= s, s + Window <= clock
        PROVE  \E m \in 1 .. Len(c) : ~c[m].ok /\ c[m].t >= s /\ c[m].t <= c[Len(c)].t
    <3>1. s \in d[i].t .. (d[Len(d)].t - Window)
      BY <1>1, <1>3, <2>2, RateNumbers
    <3>2. PICK m \in i .. Len(d) : ~d[m].ok /\ d[m].t \in s .. (s + Window - 1)
      BY <3>1 DEF Goes
    <3>3. m # Len(d)
      BY <1>1, <2>2, <3>2, RateNumbers
    <3>4. m \in 1 .. Len(c) /\ d[m] = c[m]
      <4>0. Len(c) \in Nat
        BY <1>1
      <4>1. m \in i .. Len(c) + 1 /\ m # Len(c) + 1
        BY <1>1, <3>3
      <4>2. m \in 1 .. Len(c)
        BY ONLY <4>0, <4>1, i \in 1 .. Len(c)
      <4> QED BY <1>1, <4>2
    <3>5. c[m].t <= c[Len(c)].t
      BY <1>1, <3>4 DEF InOrder
    <3> QED BY <3>2, <3>4, <3>5
  <2>3. ~b.over => S = 0
    <3>0. ~(b.reset < c[i].t) => c[i].t <= b.reset
      BY <1>2, <1>3
    <3> SUFFICES ASSUME ~b.over, c[i].t <= b.reset PROVE FALSE
      BY <1>5, <3>0, Zenon
    <3>1. b.reset + Window <= clock
      BY <1>2, <1>7, RateNumbers
    <3>2. PICK m \in 1 .. Len(c) : ~c[m].ok /\ c[m].t >= b.reset
      BY <1>2, <2>2, <3>1
    <3> QED BY <3>2 DEF TellsOver
  <2>4. clock - b.reset < 2 * Window
    <3> SUFFICES ASSUME clock - b.reset >= 2 * Window PROVE FALSE
      BY <1>2, RateNumbers
    <3>1. b.reset + Window \in Nat /\ c[i].t <= b.reset + Window /\ (b.reset + Window) + Window <= clock
      <4>1. clock - r >= 2 * w
        BY <1>30
      <4>2. r + w \in Nat /\ x <= r + w /\ (r + w) + w <= clock
        BY ONLY <1>31, <4>1, clock \in Nat
      <4> QED BY <1>30, <4>2
    <3>2. PICK m \in 1 .. Len(c) : c[m].t >= b.reset + Window /\ c[m].t <= c[Len(c)].t
      BY <2>2, <3>1
    <3>3. c[m].t \in Nat
      BY <1>1 DEF CallsOf
    <3>4. r + w <= c[m].t /\ c[m].t <= l
      BY <1>30, <3>2
    <3>5. PICK y \in Nat : y = c[m].t
      BY <3>3
    <3>6. r + w <= y /\ y <= l
      BY <3>4, <3>5
    <3>7. r + w <= l
      BY ONLY <3>6, r \in Nat, w \in Nat, y \in Nat, l \in Nat
    <3> QED BY <1>31, <3>7
  <2>5. S + f.spare <= Burst
    <3>1. CASE b.over
      BY <1>2, <1>5, <2>1, <2>4, <3>1, RateNumbers, SMTT(30)
    <3>2. CASE ~b.over
      BY <2>1, <2>3, <3>2, RateNumbers
    <3> QED BY <3>1, <3>2
  <2>6. T + f.tokens <= ((k + 1) + 1) * Quota
    <3>1. PICK u \in Nat : u = (k + 1) * Quota /\ T + b.tokens <= u
      <4>1. (k + 1) * Quota \in Nat
        BY RateNumbers
      <4> QED BY <1>5, <4>1
    <3>2. ((k + 1) + 1) * Quota = u + Quota
      BY <3>1, RateNumbers
    <3>3. T <= u
      BY <1>2, <3>1
    <3>4. T + Quota <= u + Quota
      BY <3>3, RateNumbers
    <3> QED BY <2>1, <3>2, <3>4
  <2>7. (k + 1) * Window < f.reset - c[i].t + Window
    <3>1. PICK u \in Nat : u = k * Window /\ u < b.reset - c[i].t + Window
      <4>1. k * Window \in Nat
        BY RateNumbers
      <4> QED BY <1>5, <4>1
    <3>2. (k + 1) * Window = u + Window
      BY <3>1, RateNumbers
    <3>3. u + Window < clock - c[i].t + Window
      <4>1. u < r - x + w
        BY <1>30, <3>1
      <4>2. clock - r >= w
        BY <1>7, <1>30
      <4>3. u + w < clock - x + w
        BY ONLY <4>1, <4>2, u \in Nat, r \in Nat, x \in Nat, w \in Nat, clock \in Nat
      <4> QED BY <1>30, <4>3
    <3> QED BY <2>1, <3>2, <3>3
  <2>8. ~(f.reset < c[i].t)
    BY <1>3, <2>1
  <2>9. PICK q \in Nat : q = k + 1
    OBVIOUS
  <2>10. Let(c, i, Len(c)) = T + S
    BY <1>5
  <2>11. T + f.tokens <= (q + 1) * Quota
    BY ONLY <2>6, <2>9
  <2>12. q * Window < f.reset - c[i].t + Window
    BY ONLY <2>7, <2>9
  <2>13. f.reset < c[i].t /\ ~f.over => S = 0
    BY <2>8
  <2>14. Spent(c, f, i, q, T, S)
    BY ONLY <2>5, <2>10, <2>11, <2>12, <2>13, Zenon DEF Spent
  <2> QED BY <1>4, <2>14
<1>8. clock - b.reset < Window \/ clock - b.reset >= Window
  <2>1. clock - r < w \/ clock - r >= w
    BY ONLY clock \in Nat, r \in Nat, w \in Nat
  <2> QED BY <1>30, <2>1
<1> QED BY <1>6, <1>7, <1>8

\* Taking from it.
LEMMA SpentTake ==
  ASSUME clock \in Nat, NEW c \in Seq(CallsOf), InOrder(c), \A n \in 1 .. Len(c) : c[n].t <= clock,
         NEW b \in BucketsOf, NEW e \in CallsOf, e.t = clock, e.ok <=> Passes(b),
         NEW d, d = Append(c, e),
         NEW i \in 1 .. Len(c), NEW k \in Nat, NEW T \in Nat, NEW S \in Nat, Spent(c, b, i, k, T, S)
  PROVE  \E X \in Nat, Y \in Nat : Spent(d, Take(b), i, k, X, Y)
<1>2. Len(c) \in Nat /\ d[i] = c[i] /\ c[i].t \in Nat /\ i \in 1 .. Len(c) + 1
  <2>1. Len(c) \in Nat /\ d[i] = c[i] /\ c[i] \in CallsOf
    BY CallMore
  <2> QED BY <2>1 DEF CallsOf
<1>3. /\ e.ok => Let(d, i, Len(d)) = Let(c, i, Len(c)) + 1
      /\ ~e.ok => Let(d, i, Len(d)) = Let(c, i, Len(c))
  BY <1>2, LetMore, ZenonT(30)
<1>4. PICK f \in BucketsOf : f = Take(b)
  BY TakeFacts
<1>5. /\ b.tokens \in 0 .. Quota /\ b.spare \in 0 .. Burst /\ b.reset \in Nat
      /\ f.tokens \in 0 .. Quota /\ f.spare \in 0 .. Burst /\ f.reset = b.reset
  BY <1>4, TakeFacts DEF BucketsOf
<1>6. /\ Let(c, i, Len(c)) = T + S /\ T + b.tokens <= (k + 1) * Quota /\ S + b.spare <= Burst
      /\ k * Window < b.reset - c[i].t + Window
      /\ b.reset < c[i].t /\ ~b.over => S = 0
  BY DEF Spent
<1>7. PICK u \in Nat : u = (k + 1) * Quota /\ T + b.tokens <= u
  <2>1. (k + 1) * Quota \in Nat
    BY RateNumbers
  <2> QED BY <1>6, <2>1
<1>8. CASE b.tokens > 0
  <2>1. f.tokens = b.tokens - 1 /\ f.spare = b.spare /\ (f.over <=> b.over) /\ e.ok
    BY <1>4, <1>8, TakeFacts DEF Passes
  <2>2. Let(d, i, Len(d)) = (T + 1) + S /\ (T + 1) + f.tokens <= u
    <3>1. Let(d, i, Len(d)) = (T + S) + 1
      BY <1>3, <1>6, <2>1
    <3>2. (T + 1) + (b.tokens - 1) <= u
      BY <1>5, <1>7
    <3> QED BY <2>1, <3>1, <3>2
  <2>3. Spent(d, f, i, k, T + 1, S)
    BY <1>2, <1>5, <1>6, <1>7, <2>1, <2>2 DEF Spent
  <2>4. T + 1 \in Nat /\ \E Y \in Nat : Spent(d, f, i, k, T + 1, Y)
    BY <2>3
  <2> QED BY <1>4, <2>4
<1>9. CASE ~(b.tokens > 0) /\ b.spare > 0
  <2>1. f.tokens = 0 /\ f.spare = b.spare - 1 /\ f.over /\ e.ok
    BY <1>4, <1>9, TakeFacts DEF Passes
  <2>2. Let(d, i, Len(d)) = T + (S + 1) /\ T + f.tokens <= u /\ (S + 1) + f.spare <= Burst
    <3>1. Let(d, i, Len(d)) = (T + S) + 1
      BY <1>3, <1>6, <2>1
    <3>2. T + 0 <= u
      BY <1>5, <1>7
    <3>3. (S + 1) + (b.spare - 1) <= Burst
      <4>1. PICK p \in Nat : p = b.spare /\ p > 0 /\ S + p <= Burst
        BY <1>5, <1>6, <1>9, RateNumbers
      <4>2. (S + 1) + (p - 1) <= Burst
        BY ONLY <4>1, S \in Nat, RateNumbers
      <4> QED BY <4>1, <4>2
    <3> QED BY <2>1, <3>1, <3>2, <3>3
  <2>3. Spent(d, f, i, k, T, S + 1)
    BY <1>2, <1>5, <1>6, <1>7, <2>1, <2>2 DEF Spent
  <2>4. S + 1 \in Nat
    OBVIOUS
  <2>5. \E Y \in Nat : Spent(d, f, i, k, T, Y)
    BY <2>3, <2>4
  <2> QED BY <1>4, <2>5
<1>10. CASE ~(b.tokens > 0) /\ ~(b.spare > 0)
  <2>1. f.tokens = 0 /\ f.spare = 0 /\ f.over /\ ~e.ok
    BY <1>4, <1>10, TakeFacts DEF Passes
  <2>2. Let(d, i, Len(d)) = T + S /\ T + f.tokens <= u /\ S + f.spare <= Burst
    <3>1. Let(d, i, Len(d)) = T + S
      BY <1>3, <1>6, <2>1
    <3>2. T + 0 <= u
      BY <1>5, <1>7
    <3>3. S + 0 <= Burst
      BY <1>5, <1>6, RateNumbers, SMTT(30)
    <3> QED BY <2>1, <3>1, <3>2, <3>3
  <2>3. Spent(d, f, i, k, T, S)
    BY <1>2, <1>5, <1>6, <1>7, <2>1, <2>2 DEF Spent
  <2>4. \E Y \in Nat : Spent(d, f, i, k, T, Y)
    BY <2>3
  <2> QED BY <1>4, <2>4
<1> QED BY <1>8, <1>9, <1>10

\* A new stretch of calls starts with what one request can take.
LEMMA SpentNew ==
  ASSUME clock \in Nat, NEW c \in Seq(CallsOf), InOrder(c), \A n \in 1 .. Len(c) : c[n].t <= clock,
         NEW b \in BucketsOf, b.reset <= clock, clock < b.reset + Window,
         NEW e \in CallsOf, e.t = clock, e.ok <=> Passes(b), NEW d, d = Append(c, e)
  PROVE  \E T \in Nat, S \in Nat : Spent(d, Take(b), Len(d), 0, T, S)
<1>1. Len(c) \in Nat /\ Len(d) = Len(c) + 1 /\ d[Len(d)] = e
  BY CallMore
<1>2. /\ e.ok => Let(d, Len(d), Len(d)) = 0 + 1
      /\ ~e.ok => Let(d, Len(d), Len(d)) = 0
  <2>1. PICK n : n = Len(c) + 1 /\ n \in 1 .. Len(c) + 1 /\ n = Len(d)
    BY <1>1
  <2>2. Let(c, n, Len(c)) = 0
    BY <2>1, LetMore
  <2>3. /\ e.ok => Let(d, n, Len(d)) = Let(c, n, Len(c)) + 1
        /\ ~e.ok => Let(d, n, Len(d)) = Let(c, n, Len(c))
    BY <2>1, LetMore, ZenonT(30)
  <2> QED BY <2>1, <2>2, <2>3
<1>3. PICK f \in BucketsOf : f = Take(b)
  BY TakeFacts
<1>4. /\ b.tokens \in 0 .. Quota /\ b.spare \in 0 .. Burst /\ b.reset \in Nat
      /\ f.tokens \in 0 .. Quota /\ f.spare \in 0 .. Burst /\ f.reset = b.reset
  BY <1>3, TakeFacts DEF BucketsOf
<1>5. 0 * Window < f.reset - d[Len(d)].t + Window /\ (0 + 1) * Quota = Quota
  <2>1. PICK r \in Nat, w \in Nat \ {0} : r = b.reset /\ w = Window /\ clock < r + w
    BY <1>4, RateNumbers
  <2>2. 0 * w < r - clock + w
    BY <2>1
  <2>3. 0 * Window < f.reset - d[Len(d)].t + Window
    BY <1>1, <1>4, <2>1, <2>2
  <2>4. (0 + 1) * Quota = Quota
    BY ONLY RateNumbers
  <2> QED BY <2>3, <2>4
<1>6. CASE b.tokens > 0
  <2>1. f.tokens = b.tokens - 1 /\ f.spare = b.spare /\ e.ok
    BY <1>3, <1>6, TakeFacts DEF Passes
  <2>2. Let(d, Len(d), Len(d)) = 1 + 0 /\ 1 + f.tokens <= Quota /\ 0 + f.spare <= Burst
    BY <1>2, <1>4, <2>1, RateNumbers
  <2>3. Spent(d, f, Len(d), 0, 1, 0)
    BY <1>5, <2>2 DEF Spent
  <2> QED BY <1>3, <2>3
<1>7. CASE ~(b.tokens > 0) /\ b.spare > 0
  <2>1. f.tokens = 0 /\ f.spare = b.spare - 1 /\ f.over /\ e.ok
    BY <1>3, <1>7, TakeFacts DEF Passes
  <2>2. Let(d, Len(d), Len(d)) = 0 + 1 /\ 0 + f.tokens <= Quota /\ 1 + f.spare <= Burst
    BY <1>2, <1>4, <2>1, RateNumbers
  <2>3. Spent(d, f, Len(d), 0, 0, 1)
    BY <1>5, <2>1, <2>2 DEF Spent
  <2> QED BY <1>3, <2>3
<1>8. CASE ~(b.tokens > 0) /\ ~(b.spare > 0)
  <2>1. f.tokens = 0 /\ f.spare = 0 /\ ~e.ok
    BY <1>3, <1>8, <1>4, TakeFacts DEF Passes
  <2>2. Let(d, Len(d), Len(d)) = 0 + 0 /\ 0 + f.tokens <= Quota /\ 0 + f.spare <= Burst
    BY <1>2, <1>4, <2>1, RateNumbers
  <2>3. Spent(d, f, Len(d), 0, 0, 0)
    BY <1>5, <2>2 DEF Spent
  <2> QED BY <1>3, <2>3
<1> QED BY <1>6, <1>7, <1>8

\* What was spent in the windows that a stretch of calls can touch.
LEMMA SpentIsSteady ==
  ASSUME NEW c \in Seq(CallsOf), InOrder(c), NEW b, Fits(c, b), NEW i \in 1 .. Len(c),
         NEW k \in Nat, NEW T \in Nat, NEW S \in Nat, Spent(c, b, i, k, T, S)
  PROVE  Let(c, i, Len(c)) <= (((c[Len(c)].t - c[i].t) \div Window) + 2) * Quota + Burst
<1>1. /\ b.tokens \in Nat /\ b.spare \in Nat /\ b.reset \in Nat
      /\ b.reset <= c[Len(c)].t
  BY RateNumbers DEF Fits, BucketsOf
<1>2. c[i].t \in Nat /\ c[Len(c)].t \in Nat /\ c[i].t <= c[Len(c)].t
  <2>1. Len(c) \in 1 .. Len(c) /\ i \in 1 .. Len(c)
    BY LenProperties
  <2>2. c[i].t <= c[Len(c)].t
    BY <2>1 DEF InOrder
  <2>3. c[i] \in CallsOf /\ c[Len(c)] \in CallsOf
    BY <2>1, ElementOfSeq
  <2> QED BY <2>2, <2>3 DEF CallsOf
<1>3. PICK x \in Nat, r \in Nat, l \in Nat, w \in Nat \ {0}, q \in Nat :
          x = c[i].t /\ r = b.reset /\ l = c[Len(c)].t /\ w = Window /\ q = Quota
  BY <1>1, <1>2, RateNumbers
<1>4. r <= l /\ x <= l /\ k * w < r - x + w
  BY <1>1, <1>2, <1>3 DEF Spent
<1>5. PICK v \in Int : v = (l - x) \div w
  BY <1>3
<1>6. k + 1 <= v + 2 /\ v + 2 \in Nat
  <2>1. l - x \in Nat /\ k * w < (l - x) + w
    BY ONLY <1>4, k \in Nat
  <2>2. v \in Nat /\ l - x < (v + 1) * w
    BY <1>5, <2>1
  <2>3. k * w < (v + 1) * w + w
    BY <2>1, <2>2
  <2>4. (v + 1) * w + w = (v + 2) * w
    BY <2>2
  <2>5. k < v + 2
    BY <2>2, <2>3, <2>4
  <2> QED BY <2>2, <2>5
<1>7. (k + 1) * q <= (v + 2) * q
  BY <1>6
<1>8. T + S <= (v + 2) * q + Burst
  <2>1. T <= (k + 1) * q
    <3>1. PICK u \in Nat : u = (k + 1) * q
      OBVIOUS
    <3>2. T + b.tokens <= u
      BY <1>3, <3>1 DEF Spent
    <3> QED BY <1>1, <3>1, <3>2
  <2>2. S <= Burst
    BY <1>1, RateNumbers DEF Spent
  <2>3. PICK u \in Nat : u = (v + 2) * q /\ T <= u
    <3>1. (v + 2) * q \in Nat /\ (k + 1) * q \in Nat
      BY <1>6
    <3> QED BY <1>7, <2>1, <3>1
  <2>4. T + S <= u + Burst
    BY <2>2, <2>3, RateNumbers
  <2> QED BY <2>3, <2>4
<1>9. Let(c, i, Len(c)) = T + S
  BY DEF Spent
<1> QED BY <1>3, <1>5, <1>8, <1>9


\* A request leaves a bucket that fits it.
LEMMA FitsMore ==
  ASSUME clock \in Nat, NEW c \in Seq(CallsOf), InOrder(c), \A n \in 1 .. Len(c) : c[n].t <= clock,
         NEW b \in BucketsOf, b.reset <= clock, clock < b.reset + Window, b.used = clock,
         NEW e \in CallsOf, e.t = clock, NEW d, d = Append(c, e)
  PROVE  Fits(d, Take(b))
<1>1. d # <<>> /\ d[Len(d)] = e
  BY CallMore
<1> QED BY <1>1, TakeFacts DEF Fits

\* The accounts after a request, from those of the bucket it took from.
LEMMA AccountsMore ==
  ASSUME clock \in Nat, NEW c \in Seq(CallsOf), InOrder(c), \A n \in 1 .. Len(c) : c[n].t <= clock,
         NEW b \in BucketsOf, b.reset <= clock, clock < b.reset + Window, b.used = clock,
         NEW e \in CallsOf, e.t = clock, e.ok <=> Passes(b), NEW d, d = Append(c, e),
         \A i \in 1 .. Len(c) : Goes(d, i, Len(d)) =>
             \E k \in Nat, T \in Nat, S \in Nat : Spent(c, b, i, k, T, S),
         TellsOver(c, b), Steady(c)
  PROVE  TellsOver(d, Take(b)) /\ Accounts(d, Take(b)) /\ Steady(d)
<1>0. \A n \in 1 .. Len(c) : c[n].t <= e.t
  OBVIOUS
<1>1. /\ d \in Seq(CallsOf) /\ Len(c) \in Nat /\ Len(d) = Len(c) + 1 /\ d[Len(d)] = e /\ InOrder(d)
      /\ \A n \in 1 .. Len(c) : d[n] = c[n]
  <2>1. d \in Seq(CallsOf) /\ InOrder(d)
    BY ONLY <1>0, InOrder(c), d = Append(c, e), c \in Seq(CallsOf), e \in CallsOf, CallMore
  <2>2. /\ Len(c) \in Nat /\ Len(d) = Len(c) + 1 /\ d[Len(d)] = e
        /\ \A n \in 1 .. Len(c) : d[n] = c[n]
    BY CallMore
  <2> QED BY <2>1, <2>2
<1>2. PICK f \in BucketsOf : f = Take(b)
  BY TakeFacts
<1>3. TellsOver(d, f)
  <2> SUFFICES ASSUME NEW m \in 1 .. Len(d), ~d[m].ok, d[m].t >= f.reset PROVE f.over
    BY DEF TellsOver
  <2>1. CASE m \in 1 .. Len(c)
    <3>1. b.over
      BY <1>1, <1>2, <2>1, TakeFacts DEF TellsOver
    <3> QED BY <1>2, <3>1, TakeFacts
  <2>2. CASE m = Len(d)
    <3>1. ~(b.tokens > 0)
      BY <1>1, <2>2 DEF Passes
    <3> QED BY <1>2, <3>1, TakeFacts
  <2> QED BY <1>1, <2>1, <2>2
<1>4. Accounts(d, f)
  <2> SUFFICES ASSUME NEW i \in 1 .. Len(d), Goes(d, i, Len(d))
               PROVE  \E k \in Nat, T \in Nat, S \in Nat : Spent(d, f, i, k, T, S)
    BY DEF Accounts
  <2>1. CASE i \in 1 .. Len(c)
    <3>1. PICK k \in Nat, T \in Nat, S \in Nat : Spent(c, b, i, k, T, S)
      BY <2>1
    <3>2. \E X \in Nat, Y \in Nat : Spent(d, Take(b), i, k, X, Y)
      BY <2>1, <3>1, SpentTake
    <3> QED BY <1>2, <3>2
  <2>2. CASE i = Len(d)
    <3>1. \E T \in Nat, S \in Nat : Spent(d, Take(b), Len(d), 0, T, S)
      BY SpentNew
    <3> QED BY <1>2, <2>2, <3>1
  <2> QED BY <1>1, <2>1, <2>2
<1>5. Fits(d, f)
  BY <1>2, FitsMore
<1>6. Steady(d)
  <2> SUFFICES ASSUME NEW j \in 1 .. Len(d), NEW i \in 1 .. j, Goes(d, i, j)
               PROVE  Let(d, i, j) <= (((d[j].t - d[i].t) \div Window) + 2) * Quota + Burst
    BY DEF Steady
  <2>1. CASE j \in 1 .. Len(c)
    <3>1. Let(d, i, j) = Let(c, i, j)
      BY <2>1, LetMore
    <3>2. Goes(c, i, j)
      <4>1. Goes(d, i, j) <=> Goes(c, i, j)
        BY ONLY <1>0, <2>1, i \in 1 .. j, InOrder(c), d = Append(c, e), c \in Seq(CallsOf),
                e \in CallsOf, GoesBack
      <4> QED BY <4>1
    <3>3. d[i] = c[i] /\ d[j] = c[j]
      BY <1>1, <2>1
    <3> QED BY <2>1, <3>1, <3>2, <3>3 DEF Steady
  <2>2. CASE j = Len(d)
    <3>1. i \in 1 .. Len(d) /\ Goes(d, i, Len(d))
      BY <2>2
    <3>2. PICK k \in Nat, T \in Nat, S \in Nat : Spent(d, f, i, k, T, S)
      BY <1>4, <3>1 DEF Accounts
    <3>3. Let(d, i, Len(d)) <= (((d[Len(d)].t - d[i].t) \div Window) + 2) * Quota + Burst
      BY <1>1, <1>5, <3>1, <3>2, SpentIsSteady
    <3> QED BY <2>2, <3>3
  <2> QED BY <1>1, <2>1, <2>2
<1> QED BY <1>2, <1>3, <1>4, <1>6

\* The bucket of an earlier request, filled again when its window has passed.
LEMMA OldBucket ==
  ASSUME clock \in Nat, NEW c \in Seq(CallsOf), InOrder(c), \A n \in 1 .. Len(c) : c[n].t <= clock,
         NEW p, Fits(c, p), TellsOver(c, p), Accounts(c, p),
         NEW e \in CallsOf, e.t = clock, NEW d, d = Append(c, e)
  PROVE  /\ \A i \in 1 .. Len(c) : Goes(d, i, Len(d)) =>
                \E k \in Nat, T \in Nat, S \in Nat : Spent(c, Refill(p), i, k, T, S)
         /\ TellsOver(c, Refill(p))
<1>1. /\ p \in BucketsOf /\ p.reset \in Nat /\ p.reset <= clock
      /\ c[Len(c)].t < p.reset + Window /\ Len(c) \in 1 .. Len(c)
  <2>1. Len(c) \in 1 .. Len(c)
    BY LenProperties, EmptySeq DEF Fits
  <2>2. c[Len(c)] \in CallsOf /\ c[Len(c)].t <= clock
    BY <2>1, ElementOfSeq
  <2> QED BY <2>1, <2>2 DEF Fits, BucketsOf, CallsOf
<1>2. ASSUME NEW i \in 1 .. Len(c), Goes(d, i, Len(d))
      PROVE  \E k \in Nat, T \in Nat, S \in Nat : Spent(c, Refill(p), i, k, T, S)
  <2>1. Goes(c, i, Len(c))
    BY <1>2, GoesBack
  <2>2. PICK k \in Nat, T \in Nat, S \in Nat : Spent(c, p, i, k, T, S)
    BY <2>1 DEF Accounts
  <2>3. \E q \in Nat : Spent(c, Refill(p), i, q, T, S)
    BY <1>2, <2>2, SpentRefill
  <2> QED BY <2>3
<1>3. TellsOver(c, Refill(p))
  <2> SUFFICES ASSUME NEW m \in 1 .. Len(c), ~c[m].ok, c[m].t >= Refill(p).reset
               PROVE  Refill(p).over
    BY DEF TellsOver
  <2>1. CASE clock - p.reset < Window
    BY <1>1, <2>1, RefillFacts DEF TellsOver
  <2>2. CASE clock - p.reset >= Window
    <3>1. Refill(p).reset = clock
      BY <1>1, <2>2, RefillFacts
    <3>2. c[m].t <= c[Len(c)].t /\ c[m].t \in Nat /\ c[Len(c)].t \in Nat
      <4>1. c[m].t <= c[Len(c)].t
        BY <1>1 DEF InOrder
      <4>2. c[m] \in CallsOf /\ c[Len(c)] \in CallsOf
        BY <1>1, ElementOfSeq
      <4> QED BY <4>1, <4>2 DEF CallsOf
    <3>3. c[Len(c)].t < clock
      BY <1>1, <2>2, <3>2, RateNumbers
    <3> QED BY <3>1, <3>2, <3>3
  <2> QED BY <1>1, <2>1, <2>2, RateNumbers
<1> QED BY <1>2, <1>3

\* A fresh one: the client was away for two windows, or is new.
LEMMA NewBucket ==
  ASSUME clock \in Nat, NEW c \in Seq(CallsOf), InOrder(c), \A n \in 1 .. Len(c) : c[n].t <= clock,
         c # <<>> => c[Len(c)].t < clock - 2 * Window,
         NEW e \in CallsOf, e.t = clock, NEW d, d = Append(c, e), NEW b \in BucketsOf, b.reset = clock
  PROVE  /\ \A i \in 1 .. Len(c) : Goes(d, i, Len(d)) =>
                \E k \in Nat, T \in Nat, S \in Nat : Spent(c, b, i, k, T, S)
         /\ TellsOver(c, b)
<1>1. /\ Len(c) \in Nat /\ Len(d) = Len(c) + 1 /\ d[Len(d)] = e
      /\ \A n \in 1 .. Len(c) : d[n] = c[n] /\ c[n] \in CallsOf
  BY CallMore
<1>2. ASSUME NEW m \in 1 .. Len(c)
      PROVE  /\ c[m].t \in Nat /\ c[Len(c)].t \in Nat /\ c[m].t <= c[Len(c)].t
             /\ c[Len(c)].t < clock - 2 * Window
  <2>1. Len(c) \in 1 .. Len(c) /\ c # <<>>
    BY <1>1, EmptySeq
  <2>2. c[m].t <= c[Len(c)].t
    BY <2>1 DEF InOrder
  <2> QED BY <1>1, <2>1, <2>2 DEF CallsOf
<1>3. ASSUME NEW i \in 1 .. Len(c), Goes(d, i, Len(d)) PROVE FALSE
  <2>1. PICK s \in Nat : s = c[Len(c)].t + 1
    BY <1>2
  <2>2. s \in d[i].t .. (d[Len(d)].t - Window)
    BY <1>1, <1>2, <2>1, RateNumbers
  <2>3. PICK m \in i .. Len(d) : ~d[m].ok /\ d[m].t \in s .. (s + Window - 1)
    BY <1>3, <2>2 DEF Goes
  <2>4. CASE m = Len(d)
    <3>1. d[m].t = clock
      BY <1>1, <2>4
    <3>2. clock <= s + Window - 1
      BY <2>3, <3>1
    <3> QED BY <1>2, <2>1, <3>2, RateNumbers
  <2>5. CASE m \in 1 .. Len(c)
    BY <1>1, <1>2, <2>1, <2>3, <2>5
  <2> QED BY <1>1, <2>3, <2>4, <2>5
<1>4. TellsOver(c, b)
  BY <1>2, RateNumbers DEF TellsOver
<1> QED BY <1>3, <1>4

\* What a request does to the watched bucket.
LEMMA WatchedBucket ==
  ASSUME NEW key \in Keys, Allow(key), clock \in Nat
  PROVE  /\ clock' = clock
         /\ key # Watched =>
                /\ calls' = calls
                /\ \/ /\ Watched \in DOMAIN buckets /\ Watched \in DOMAIN buckets'
                      /\ buckets'[Watched] = buckets[Watched]
                   \/ /\ Watched \notin DOMAIN buckets'
                      /\ \/ Watched \notin DOMAIN buckets
                         \/ buckets[Watched].used < clock - 2 * Window
                         \/ evicted'
         /\ key = Watched =>
                /\ Watched \in DOMAIN buckets'
                /\ \/ /\ Watched \in DOMAIN buckets
                      /\ calls' = Append(calls, [t |-> clock, ok |-> Passes(Refill(buckets[Watched]))])
                      /\ buckets'[Watched] = Take(Refill(buckets[Watched]))
                   \/ /\ calls' = Append(calls, [t |-> clock, ok |-> Passes(Refill(Fresh))])
                      /\ buckets'[Watched] = Take(Refill(Fresh))
                      /\ \/ Watched \notin DOMAIN buckets
                         \/ buckets[Watched].used < clock - 2 * Window
                         \/ evicted'
         /\ evicted => evicted'
<1>1. PICK idle : idle = IdleSince(buckets, clock - 2 * Window)
  OBVIOUS
<1>2. PICK live : live = Forget(buckets, idle)
  OBVIOUS
<1>3. PICK gone : gone = IF key \in DOMAIN live THEN {} ELSE MakeRoom(live)
  OBVIOUS
<1>4. PICK kept : kept = Forget(live, gone)
  OBVIOUS
<1>5. PICK b : b = Refill(IF key \in DOMAIN kept THEN kept[key] ELSE Fresh)
  OBVIOUS
<1>6. /\ buckets' = [j \in DOMAIN kept \cup {key} |-> IF j = key THEN Take(b) ELSE kept[j]]
      /\ calls' = IF key = Watched THEN Append(calls, [t |-> clock, ok |-> Passes(b)]) ELSE calls
      /\ evicted' = (evicted \/ Watched \in gone)
      /\ clock' = clock
  BY <1>1, <1>2, <1>3, <1>4, <1>5 DEF Allow
<1>7. /\ DOMAIN live = DOMAIN buckets \ idle /\ DOMAIN kept = DOMAIN live \ gone
      /\ \A j \in DOMAIN kept : kept[j] = buckets[j]
  BY <1>2, <1>4 DEF Forget
<1>8. Watched \in DOMAIN buckets /\ Watched \notin DOMAIN kept =>
          buckets[Watched].used < clock - 2 * Window \/ evicted'
  BY <1>1, <1>6, <1>7 DEF IdleSince
<1>9. CASE key # Watched
  <2>1. DOMAIN buckets' = DOMAIN kept \cup {key} /\ calls' = calls
    BY <1>6, <1>9
  <2>2. Watched \in DOMAIN kept => buckets'[Watched] = buckets[Watched]
    BY <1>6, <1>7, <1>9
  <2> QED BY <1>6, <1>7, <1>8, <1>9, <2>1, <2>2
<1>10. CASE key = Watched
  <2>1. /\ DOMAIN buckets' = DOMAIN kept \cup {key} /\ buckets'[Watched] = Take(b)
        /\ calls' = Append(calls, [t |-> clock, ok |-> Passes(b)])
    BY <1>6, <1>10
  <2>2. Watched \in DOMAIN kept => b = Refill(buckets[Watched]) /\ Watched \in DOMAIN buckets
    BY <1>5, <1>7, <1>10
  <2>3. Watched \notin DOMAIN kept => b = Refill(Fresh)
    BY <1>5, <1>10
  <2> QED BY <1>6, <1>8, <1>10, <2>1, <2>2, <2>3
<1> QED BY <1>9, <1>10

\* A request of the watched client keeps the accounts.
LEMMA WatchedCalls ==
  ASSUME RateInv, Allow(Watched) PROVE RateInv'
<1>1. /\ clock \in Nat /\ calls \in Seq(CallsOf) /\ InOrder(calls)
      /\ \A n \in 1 .. Len(calls) : calls[n].t <= clock
  BY DEF RateInv
<1>2. PICK b : /\ clock' = clock /\ (evicted => evicted') /\ Watched \in DOMAIN buckets'
               /\ calls' = Append(calls, [t |-> clock, ok |-> Passes(b)])
               /\ buckets'[Watched] = Take(b)
               /\ \/ Watched \in DOMAIN buckets /\ b = Refill(buckets[Watched])
                  \/ /\ b = Refill(Fresh)
                     /\ \/ Watched \notin DOMAIN buckets
                        \/ buckets[Watched].used < clock - 2 * Window
                        \/ evicted'
  BY <1>1, WatchedBucket, RateAssumption
<1>3. PICK e \in CallsOf : e = [t |-> clock, ok |-> Passes(b)] /\ e.t = clock /\ (e.ok <=> Passes(b))
  <2>1. PICK p \in BOOLEAN : p = Passes(b)
    BY DEF Passes
  <2>2. PICK e : e = [t |-> clock, ok |-> p]
    OBVIOUS
  <2>3. e \in CallsOf /\ e.t = clock /\ e.ok = p
    BY <1>1, <2>2 DEF CallsOf
  <2> QED BY <2>1, <2>2, <2>3
<1>4. PICK d \in Seq(CallsOf) : /\ d = Append(calls, e) /\ d = calls' /\ InOrder(d)
                                /\ \A n \in 1 .. Len(d) : d[n].t <= clock'
  <2>1. \A n \in 1 .. Len(calls) : calls[n].t <= e.t
    BY <1>1, <1>3
  <2>2. PICK d : d = Append(calls, e)
    OBVIOUS
  <2>3. d \in Seq(CallsOf) /\ InOrder(d)
    BY <1>1, <2>1, <2>2, CallMore
  <2>4. /\ Len(calls) \in Nat /\ Len(d) = Len(calls) + 1 /\ d[Len(d)] = e
        /\ \A n \in 1 .. Len(calls) : d[n] = calls[n]
    BY <1>1, <2>1, <2>2, CallMore
  <2>5. \A n \in 1 .. Len(d) : d[n].t <= clock'
    BY <1>1, <1>2, <1>3, <2>4
  <2> QED BY <1>2, <1>3, <2>2, <2>3, <2>5
<1>5. Fresh \in BucketsOf /\ Fresh.reset = clock /\ Refill(Fresh).reset = clock
  <2>1. Fresh \in BucketsOf /\ Fresh.reset = clock
    BY <1>1, RateNumbers DEF Fresh, BucketsOf
  <2>2. clock - Fresh.reset < Window /\ Fresh.reset <= clock
    BY <1>1, <2>1, RateNumbers
  <2> QED BY <1>1, <2>1, <2>2, RefillFacts
<1>6. b \in BucketsOf /\ b.reset <= clock /\ clock < b.reset + Window /\ b.used = clock
  <2>1. CASE Watched \in DOMAIN buckets /\ b = Refill(buckets[Watched])
    <3>1. Fits(calls, buckets[Watched]) /\ Len(calls) \in 1 .. Len(calls)
      <4>1. Fits(calls, buckets[Watched])
        BY <2>1 DEF RateInv
      <4> QED BY <1>1, <4>1, LenProperties, EmptySeq DEF Fits
    <3>2. calls[Len(calls)].t <= clock /\ calls[Len(calls)].t \in Nat
      <4>1. calls[Len(calls)] \in CallsOf
        BY <1>1, <3>1, ElementOfSeq
      <4> QED BY <1>1, <3>1, <4>1 DEF CallsOf
    <3>3. buckets[Watched] \in BucketsOf /\ buckets[Watched].reset <= clock
      BY <1>1, <3>1, <3>2 DEF Fits, BucketsOf
    <3> QED BY <1>1, <2>1, <3>3, RefillFacts
  <2>2. CASE b = Refill(Fresh)
    <3>1. Fresh.reset <= clock
      BY <1>1, <1>5
    <3> QED BY <1>1, <1>5, <2>2, <3>1, RefillFacts
  <2> QED BY <1>2, <2>1, <2>2
<1>7. Fits(d, Take(b))
  BY <1>1, <1>3, <1>4, <1>6, FitsMore
<1>8. ASSUME ~evicted' PROVE TellsOver(d, Take(b)) /\ Accounts(d, Take(b)) /\ Steady(d)
  <2>1. /\ Watched \in DOMAIN buckets =>
               /\ Fits(calls, buckets[Watched]) /\ TellsOver(calls, buckets[Watched])
               /\ Accounts(calls, buckets[Watched])
        /\ Watched \notin DOMAIN buckets /\ calls # <<>> => calls[Len(calls)].t < clock - 2 * Window
        /\ Steady(calls)
    BY <1>2, <1>8 DEF RateInv
  <2>2. /\ \A i \in 1 .. Len(calls) : Goes(d, i, Len(d)) =>
               \E k \in Nat, T \in Nat, S \in Nat : Spent(calls, b, i, k, T, S)
        /\ TellsOver(calls, b)
    <3>1. CASE Watched \in DOMAIN buckets /\ b = Refill(buckets[Watched])
      BY <1>1, <1>3, <1>4, <2>1, <3>1, OldBucket
    <3>2. CASE /\ b = Refill(Fresh)
               /\ Watched \notin DOMAIN buckets \/ buckets[Watched].used < clock - 2 * Window
      <4>1. calls # <<>> => calls[Len(calls)].t < clock - 2 * Window
        BY <2>1, <3>2 DEF Fits
      <4>2. b.reset = clock
        BY <1>5, <3>2
      <4> QED BY <1>1, <1>3, <1>4, <1>6, <4>1, <4>2, NewBucket
    <3> QED BY <1>2, <1>8, <3>1, <3>2
  <2> QED BY <1>1, <1>3, <1>4, <1>6, <2>1, <2>2, AccountsMore
<1> QED BY <1>1, <1>2, <1>4, <1>7, <1>8 DEF RateInv

\* A request of another client leaves the watched bucket alone, or forgets it.
LEMMA OtherCalls ==
  ASSUME RateInv, NEW key \in Keys \ {Watched}, Allow(key) PROVE RateInv'
<1>1. /\ clock \in Nat /\ clock' = clock /\ calls' = calls /\ (evicted => evicted')
      /\ \/ /\ Watched \in DOMAIN buckets /\ Watched \in DOMAIN buckets'
            /\ buckets'[Watched] = buckets[Watched]
         \/ /\ Watched \notin DOMAIN buckets'
            /\ \/ Watched \notin DOMAIN buckets
               \/ buckets[Watched].used < clock - 2 * Window
               \/ evicted'
  <2>1. clock \in Nat /\ key \in Keys /\ key # Watched
    BY DEF RateInv
  <2> QED BY <2>1, WatchedBucket
<1>2. CASE Watched \in DOMAIN buckets /\ Watched \in DOMAIN buckets' /\ buckets'[Watched] = buckets[Watched]
  BY <1>1, <1>2 DEF RateInv
<1>3. CASE /\ Watched \notin DOMAIN buckets'
           /\ \/ Watched \notin DOMAIN buckets
              \/ buckets[Watched].used < clock - 2 * Window
              \/ evicted'
  <2>1. ~evicted' /\ calls # <<>> => calls[Len(calls)].t < clock - 2 * Window
    BY <1>1, <1>3 DEF RateInv, Fits
  <2> QED BY <1>1, <1>3, <2>1 DEF RateInv
<1> QED BY <1>1, <1>2, <1>3

\* The accounts of the watched client hold in every state.
LEMMA RateKept == RateSpec => []RateInv
<1>1. RateInit => RateInv
  <2> SUFFICES ASSUME RateInit PROVE RateInv
    OBVIOUS
  <2>1. clock \in Nat /\ calls \in Seq(CallsOf) /\ Len(calls) = 0 /\ calls = <<>>
    BY EmptySeq DEF RateInit
  <2>2. InOrder(calls) /\ Steady(calls) /\ \A n \in 1 .. Len(calls) : calls[n].t <= clock
    BY <2>1 DEF InOrder, Steady
  <2>3. Watched \notin DOMAIN buckets
    BY DEF RateInit
  <2> QED BY <2>1, <2>2, <2>3 DEF RateInv
<1>2. RateInv /\ [RateNext]_rateVars => RateInv'
  <2> SUFFICES ASSUME RateInv, [RateNext]_rateVars PROVE RateInv'
    OBVIOUS
  <2>1. CASE TickClock
    <3>1. clock \in Nat /\ clock' = clock + 1 /\ UNCHANGED <<buckets, calls, evicted>>
      BY <2>1 DEF TickClock, RateInv
    <3>2. \A n \in 1 .. Len(calls) : calls[n].t <= clock'
      <4> SUFFICES ASSUME NEW n \in 1 .. Len(calls) PROVE calls[n].t <= clock'
        OBVIOUS
      <4>1. calls[n] \in CallsOf /\ calls[n].t <= clock
        BY ElementOfSeq DEF RateInv
      <4> QED BY <3>1, <4>1 DEF CallsOf
    <3>3. calls # <<>> /\ calls[Len(calls)].t < clock - 2 * Window =>
              calls[Len(calls)].t < clock' - 2 * Window
      <4> SUFFICES ASSUME calls # <<>>, calls[Len(calls)].t < clock - 2 * Window
                   PROVE  calls[Len(calls)].t < clock' - 2 * Window
        OBVIOUS
      <4>1. Len(calls) \in 1 .. Len(calls)
        BY LenProperties, EmptySeq DEF RateInv
      <4>2. calls[Len(calls)] \in CallsOf
        BY <4>1, ElementOfSeq DEF RateInv
      <4>3. calls[Len(calls)].t \in Nat
        BY <4>2 DEF CallsOf
      <4> QED BY <3>1, <4>3, RateNumbers
    <3>4. clock' \in Nat
      BY <3>1
    <3> QED BY <3>1, <3>2, <3>3, <3>4 DEF RateInv
  <2>2. CASE \E key \in Keys : Allow(key)
    BY <2>2, WatchedCalls, OtherCalls
  <2>3. CASE UNCHANGED rateVars
    BY <2>3 DEF rateVars, RateInv
  <2> QED BY <2>1, <2>2, <2>3 DEF RateNext
<1> QED BY <1>1, <1>2, PTL DEF RateSpec

\* ratelimit.go promises that "a client that keeps going over is held to the steady
\* rate": for every quota, burst, window, table size and number of clients, a stretch of
\* requests in which no window passes without a refusal is given the burst once.
THEOREM BurstIsGivenOnce == RateSpec => []SteadyRate
<1>1. RateInv => SteadyRate
  <2> SUFFICES ASSUME RateInv, ~evicted, NEW j \in DOMAIN calls, NEW i \in 1 .. j, KeepsGoingOver(i, j)
               PROVE  LetThrough(i, j) <= Windows(i, j) * Quota + Burst
    BY DEF SteadyRate
  <2>1. j \in 1 .. Len(calls) /\ Steady(calls)
    BY LenProperties DEF RateInv
  <2>2. Goes(calls, i, j)
    BY DEF KeepsGoingOver, Goes
  <2>3. Let(calls, i, j) <= (((calls[j].t - calls[i].t) \div Window) + 2) * Quota + Burst
    BY <2>1, <2>2 DEF Steady
  <2> QED BY <2>3 DEF Let, LetThrough, Windows
<1> QED BY <1>1, RateKept, PTL
=============================================================================
