-------------------------------- MODULE Proxy --------------------------------
(***************************************************************************)
(* The reverse proxy's routes (src/internal/proxy) and the custom          *)
(* certificates it serves (src/internal/api/cert.go).                      *)
(*                                                                         *)
(* Refreshes of the route table and certificate requests run side by side; *)
(* loadMu lets one of them at a time build a Caddy config and load it.     *)
(* The routes, the domain owners and the per-domain rules are published    *)
(* before the load and taken back when it fails.  A load is skipped when   *)
(* its key, the config with the metadata of the certificate files, is the  *)
(* key of the last load that succeeded.                                    *)
(***************************************************************************)
EXTENDS Integers, FiniteSets

CONSTANTS
  PxApps,      \* apps, by store id: the lowest claims a free domain
  PxDomains,   \* normalised domains
  Custom,      \* the domain served with a custom certificate
  PxRules,     \* rate limit and allowlist of an app, as one value
  Loaders,     \* route refreshes and certificate requests in flight
  Uploaders,   \* the loaders that may be certificate requests
  MaxClaims,   \* bound on compose edits
  MaxCerts     \* bound on the writes of certificate files before a new change

ASSUME ProxyAssumption ==
  /\ PxApps \subseteq Nat
  /\ Custom \in PxDomains
  /\ Uploaders \subseteq Loaders
  /\ "nobody" \notin Loaders

VARIABLES
  claim,    \* what the compose files ask for: [doms, rule] of each app
  px,       \* CaddyProxy: [routes, owners, rules]; rules are the registries
  caddy,    \* what Caddy runs: [routes, cert]
  lastKey,  \* key of the last successful load, or NoKey
  loadMu,   \* the loader holding loadMu, or NoLoader
  ld,       \* each loader's program counter and locals
  cert,     \* certificate and key file of Custom: [crt, key], each [v, t]
  nClaims,
  nCerts    \* writes of certificate files so far; also their modification times

proxyVars == <<claim, px, caddy, lastKey, loadMu, ld, cert, nClaims, nCerts>>

NoKey == <<>>
NoLoader == "nobody"
Missing == 0       \* version of a file that does not exist

File(v, t) == [v |-> v, t |-> t]
NoPair == [crt |-> File(Missing, 0), key |-> File(Missing, 0)]
NoRoutes == [routes |-> {}, owners |-> <<>>, rules |-> {}]

\* A loader's locals: what it does, the routes it scanned, the state and the
\* files to put back, the version it uploads, the key of its config.
PxIdle == [pc |-> "idle", op |-> "none", want |-> {}, prev |-> NoRoutes,
           had |-> NoPair, v |-> Missing, key |-> NoKey]
AtPx(l, pc) == ld[l].pc = pc
GoPx(l, next) == ld' = [ld EXCEPT ![l] = next]

\* ResolveRoutes of every app on disk, as RefreshRoutes collects them.
ResolveRoutes ==
  UNION {{[app |-> a, dom |-> d, rule |-> claim[a].rule] : d \in claim[a].doms} :
           a \in PxApps}

Claimants(routes, d) == {r.app : r \in {x \in routes : x.dom = d}}

Lowest(apps) == CHOOSE a \in apps : \A b \in apps : a <= b

MutLowestWins(routes, prev) ==
  [d \in {r.dom : r \in routes} |-> Lowest(Claimants(routes, d))]

\* claimDomains: the owner that still claims a domain keeps it, otherwise the
\* lowest id takes it.
claimDomains(routes, prev) ==
  [d \in {r.dom : r \in routes} |->
     IF d \in DOMAIN prev /\ prev[d] \in Claimants(routes, d)
     THEN prev[d]
     ELSE Lowest(Claimants(routes, d))]

\* The owners' routes, and the part of them that is in Caddy's config: the rules
\* are not, its handlers look them up by domain.
Config(routes) == {<<r.app, r.dom>> : r \in routes}
Kept(routes, owners) == {r \in routes : owners[r.dom] = r.app}

\* registerRouteRules: the registries hold exactly the rules of these routes.
registerRouteRules(routes) == {<<r.dom, r.rule>> : r \in routes}

ProxyInit ==
  /\ claim = [a \in PxApps |-> [doms |-> {}, rule |-> CHOOSE r \in PxRules : TRUE]]
  /\ px = NoRoutes
  /\ caddy = [routes |-> {}, cert |-> Missing]
  /\ lastKey = NoKey
  /\ loadMu = NoLoader
  /\ ld = [l \in Loaders |-> PxIdle]
  /\ cert = NoPair
  /\ nClaims = 0
  /\ nCerts = 0

\* An edit of an app's endpoints or rules.
EditEndpoints(a) ==
  \E doms \in SUBSET PxDomains, rule \in PxRules :
    /\ nClaims < MaxClaims
    /\ nClaims' = nClaims + 1
    /\ claim' = [claim EXCEPT ![a] = [doms |-> doms, rule |-> rule]]
    /\ UNCHANGED <<px, caddy, lastKey, loadMu, ld, cert, nCerts>>

----------------------------------------------------------------------------
(* SetRoutes                                                               *)

\* RefreshRoutes scans the compose files, then calls SetRoutes.
ScanRoutes(l) ==
  /\ AtPx(l, "idle")
  /\ GoPx(l, [PxIdle EXCEPT !.pc = "set", !.op = "routes",
                           !.want = ResolveRoutes])
  /\ UNCHANGED <<claim, px, caddy, lastKey, loadMu, cert, nClaims, nCerts>>

\* SetRoutes up to the reload: the new routes, owners and rules are published.
SetRoutes(l) ==
  LET want == ld[l].want
      owners == claimDomains(want, px.owners)
      kept == Kept(want, owners)
  IN /\ AtPx(l, "set")
     /\ loadMu = NoLoader
     /\ loadMu' = l
     /\ px' = [routes |-> kept, owners |-> owners,
               rules |-> registerRouteRules(kept)]
     /\ GoPx(l, [ld[l] EXCEPT !.pc = "build", !.prev = px])
     /\ UNCHANGED <<claim, caddy, lastKey, cert, nClaims, nCerts>>

\* A certificate is loaded when a route asks for it and both files exist.
Loads(routes) ==
  /\ \E r \in routes : r.dom = Custom
  /\ cert.crt.v # Missing
  /\ cert.key.v # Missing

MutNoFingerprint(routes) == <<>>

\* certFingerprint: size and modification time of the files the routes use.
certFingerprint(routes) ==
  IF \E r \in routes : r.dom = Custom THEN <<cert.crt.t, cert.key.t>> ELSE <<>>

ConfigKey(routes) == <<Config(routes), Loads(routes), certFingerprint(routes)>>

MutKeepRules(l) ==
  /\ px' = IF ld[l].op = "routes"
           THEN [ld[l].prev EXCEPT !.rules = px.rules] ELSE px
  /\ loadMu' = NoLoader
  /\ GoPx(l, IF ld[l].op = "upload" THEN [ld[l] EXCEPT !.pc = "unCrt"] ELSE PxIdle)

\* Both callers of reloadLocked return here; a failed SetRoutes puts the
\* published state back, a failed upload its files.
ReloadFailed(l) ==
  /\ px' = IF ld[l].op = "routes" THEN ld[l].prev ELSE px
  /\ loadMu' = NoLoader
  /\ GoPx(l, IF ld[l].op = "upload" THEN [ld[l] EXCEPT !.pc = "unCrt"] ELSE PxIdle)

\* reloadLocked builds the config and its key and may skip the load.
BuildConfig(l) ==
  /\ AtPx(l, "build")
  /\ IF ld[l].op = "routes" /\ lastKey = ConfigKey(px.routes)
     THEN loadMu' = NoLoader /\ GoPx(l, PxIdle)
     ELSE /\ GoPx(l, [ld[l] EXCEPT !.pc = "load", !.key = ConfigKey(px.routes)])
          /\ UNCHANGED loadMu
  /\ UNCHANGED <<claim, px, caddy, lastKey, cert, nClaims, nCerts>>

\* caddy.Load succeeds: the files are read now, and must be a pair.
LoadConfig(l) ==
  /\ AtPx(l, "load")
  /\ ld[l].key[2] => cert.crt.v = cert.key.v /\ cert.crt.v # Missing
  /\ caddy' = [routes |-> Config(px.routes),
               cert |-> IF ld[l].key[2] THEN cert.crt.v ELSE Missing]
  /\ lastKey' = ld[l].key
  /\ loadMu' = NoLoader
  /\ GoPx(l, PxIdle)
  /\ UNCHANGED <<claim, px, cert, nClaims, nCerts>>

\* caddy.Load fails, for a bad pair or any other reason, and Caddy goes on
\* with the config it has.
LoadFails(l) ==
  /\ AtPx(l, "load")
  /\ lastKey' = NoKey
  /\ ReloadFailed(l)
  /\ UNCHANGED <<claim, caddy, cert, nClaims, nCerts>>

----------------------------------------------------------------------------
(* Certificate requests                                                    *)

\* No two writes have the same modification time.
WriteFile == nCerts' = nCerts + 1
NewCert == nCerts < MaxCerts /\ WriteFile

\* handleUploadCert checks that the domain is one of the app's endpoints,
\* keeps the files there are and writes the certificate, then the key.
UploadCrt(l) ==
  /\ AtPx(l, "idle") /\ l \in Uploaders
  /\ \E a \in PxApps : Custom \in claim[a].doms
  /\ NewCert
  /\ cert' = [cert EXCEPT !.crt = File(nCerts', nCerts')]
  /\ GoPx(l, [PxIdle EXCEPT !.pc = "key", !.op = "upload", !.v = nCerts',
                           !.had = cert])
  /\ UNCHANGED <<claim, px, caddy, lastKey, loadMu, nClaims>>

UploadKey(l) ==
  /\ AtPx(l, "key")
  /\ WriteFile
  /\ cert' = [cert EXCEPT !.key = File(ld[l].v, nCerts')]
  /\ GoPx(l, [ld[l] EXCEPT !.pc = "force"])
  /\ UNCHANGED <<claim, px, caddy, lastKey, loadMu, nClaims>>

\* handleDeleteCert removes the certificate, then the key, and reloads; a removal
\* counts as a write.
DeleteCert(l) ==
  /\ AtPx(l, "idle") /\ l \in Uploaders
  /\ \E a \in PxApps : Custom \in claim[a].doms
  /\ NewCert
  /\ cert' = [cert EXCEPT !.crt = NoPair.crt]
  /\ GoPx(l, [PxIdle EXCEPT !.pc = "rmKey", !.op = "delete"])
  /\ UNCHANGED <<claim, px, caddy, lastKey, loadMu, nClaims>>

DeleteKey(l) ==
  /\ AtPx(l, "rmKey")
  /\ WriteFile
  /\ cert' = [cert EXCEPT !.key = NoPair.key]
  /\ GoPx(l, [ld[l] EXCEPT !.pc = "force"])
  /\ UNCHANGED <<claim, px, caddy, lastKey, loadMu, nClaims>>

\* ForceReload takes loadMu and reloads whatever the key.
ForceReload(l) ==
  /\ AtPx(l, "force")
  /\ loadMu = NoLoader
  /\ loadMu' = l
  /\ GoPx(l, [ld[l] EXCEPT !.pc = "build"])
  /\ UNCHANGED <<claim, px, caddy, lastKey, cert, nClaims, nCerts>>

\* The upload's restore writes the kept files back, with new times.
Rewritten(f) == IF f.v = Missing THEN f ELSE [f EXCEPT !.t = nCerts']

RestoreCrt(l) ==
  /\ AtPx(l, "unCrt")
  /\ WriteFile
  /\ cert' = [cert EXCEPT !.crt = Rewritten(ld[l].had.crt)]
  /\ GoPx(l, [ld[l] EXCEPT !.pc = "unKey"])
  /\ UNCHANGED <<claim, px, caddy, lastKey, loadMu, nClaims>>

RestoreKey(l) ==
  /\ AtPx(l, "unKey")
  /\ WriteFile
  /\ cert' = [cert EXCEPT !.key = Rewritten(ld[l].had.key)]
  /\ GoPx(l, PxIdle)
  /\ UNCHANGED <<claim, px, caddy, lastKey, loadMu, nClaims>>

\* The operator renews the files in place, with no request (reloadLocked:
\* "a cert rewritten in place still triggers a reload").
RenewCert ==
  /\ NewCert
  /\ cert' = [crt |-> File(nCerts', nCerts'), key |-> File(nCerts', nCerts')]
  /\ UNCHANGED <<claim, px, caddy, lastKey, loadMu, ld, nClaims>>

ProxyNext ==
  \/ RenewCert
  \/ \E a \in PxApps : EditEndpoints(a)
  \/ \E l \in Loaders :
       \/ ScanRoutes(l) \/ SetRoutes(l) \/ BuildConfig(l)
       \/ LoadConfig(l) \/ LoadFails(l)
       \/ UploadCrt(l) \/ UploadKey(l) \/ DeleteCert(l) \/ DeleteKey(l)
       \/ ForceReload(l) \/ RestoreCrt(l) \/ RestoreKey(l)

ProxySpec == ProxyInit /\ [][ProxyNext]_proxyVars

----------------------------------------------------------------------------
(* Properties                                                              *)

\* Between updates the published routes, owners and rules are those of the
\* config Caddy runs, whatever loads failed or were skipped in between: no
\* domain is served under another route set's rules (SetRoutes).
RulesMatchLoaded ==
  loadMu = NoLoader =>
    /\ Config(px.routes) = caddy.routes
    /\ px.rules = registerRouteRules(px.routes)
    /\ \A r \in px.routes : px.owners[r.dom] = r.app

\* A reload is skipped only when Caddy already serves these routes and these
\* certificate files (reloadLocked's key).
SkipIsSafe ==
  lastKey = ConfigKey(px.routes) /\ loadMu = NoLoader =>
    /\ caddy.routes = Config(px.routes)
    /\ Loads(px.routes) => caddy.cert = cert.crt.v

\* An app keeps the domain it serves for as long as it claims it, through
\* failed loads and other apps' claims (claimDomains).
DomainKept ==
  [][\A r \in caddy.routes, s \in caddy'.routes :
       s[2] = r[2] /\ s[1] # r[1] => r[1] \notin Claimants(ld[loadMu].want, r[2])]_proxyVars

----------------------------------------------------------------------------
(* Statements of comments that the code breaks                             *)

\* cert.go: after a failed reload the previous files are put back "to keep
\* disk and proxy in step".  Read as: the files are a pair again once no
\* request is in flight.
PairOnDisk ==
  (\A l \in Loaders : AtPx(l, "idle")) => cert.crt.v = cert.key.v

\* domaincache.go: "Lowest ID wins a shared domain, like proxy domain
\* ownership".  Stated where a further refresh would change nothing.
Refreshed ==
  /\ \A l \in Loaders : AtPx(l, "idle")
  /\ px.routes = Kept(ResolveRoutes, claimDomains(ResolveRoutes, px.owners))
AttributedToServer ==
  Refreshed => \A r \in px.routes : r.app = Lowest(Claimants(ResolveRoutes, r.dom))
=============================================================================
