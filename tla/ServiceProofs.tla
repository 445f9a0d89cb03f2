---------------------------- MODULE ServiceProofs ----------------------------
(***************************************************************************)
(* What alerts, logins and request statistics promise, for any number of   *)
(* rules, webhooks, accounts, callers, tiers and requests.                 *)
(*                                                                         *)
(* Alerts.  The evaluator decides on a snapshot and acts some statements   *)
(* later, so neither property is inductive.  The proof needs what the      *)
(* evaluator still knows at each of its steps (EvaluatorKnows): only it    *)
(* opens an alert, so a rule that had none when it looked has none when it *)
(* records; and an open alert was told of (OpenWasTold).                   *)
(*                                                                         *)
(* Sessions.  A login reads a row of users, compares hashes, and hands out *)
(* the token version it read.  What was read may be old, but is never      *)
(* newer than the row, and whoever changes a password raises the version   *)
(* or is a sidecar (Forward); so equal versions mean equal passwords       *)
(* (Known).  Ids are not given out twice, so a session of a deleted user   *)
(* is never taken for one of somebody else.                                *)
(*                                                                         *)
(* The lockout.  IsLocked is asked before the password is compared and     *)
(* RecordFailure called after it.  LockInv counts, once the lock is on,    *)
(* the failures recorded together with those that may still be.            *)
(*                                                                         *)
(* Request statistics.  A total is a sum over tiers of sums over rows.     *)
(* The lemmas on sums hold for every finite set (by SetsFromEmpty); the    *)
(* ones that matter are SumPlus and SumOfGroups, by which a rollup into    *)
(* buckets keeps the total (AggregateKeeps).  MovedIsOld says how old a    *)
(* row is by the time it is in a tier that a view does not read.           *)
(***************************************************************************)
EXTENDS Alerts, Access, RequestStats, FiniteSetTheorems, SequenceTheorems, WellFoundedInduction, TLAPS

OpenShape ==
    /\ open = [r \in RuleIds |-> open[r]]
    /\ \A r \in RuleIds : open[r] = <<>> \/ open[r] = <<open[r][1]>>

EvaluatorShape ==
    /\ ev = [pc |-> ev.pc, todo |-> ev.todo]
    /\ told \in [RuleIds -> {"none", "firing", "resolved"}]

\* What the evaluator still knows of the rule it is at.
EvaluatorKnows ==
    Current \in RuleIds =>
        /\ ev.pc \in {"fire", "record", "notify"} => open[Current] = <<>>
        /\ ev.pc \in {"record", "resolve", "notify"} => told[Current] = "firing"

\* An open alert was told of, and that was the last notice.
OpenWasTold == \A r \in RuleIds : open[r] # <<>> => told[r] = "firing"

AlertsInv == OpenShape /\ EvaluatorShape /\ EvaluatorKnows /\ OpenWasTold

----------------------------------------------------------------------------
\* What alert_history holds of a rule with one open alert.
LEMMA OneRow ==
  ASSUME NEW x
  PROVE  /\ Append(<<>>, x) = <<x>> /\ Tail(<<x>>) = <<>>
         /\ Len(<<x>>) = 1 /\ <<x>> # <<>> /\ <<x>>[1] = x
<1>1. <<>> \in Seq({x}) /\ <<x>> \in Seq({x})
  OBVIOUS
<1>2. Append(<<>>, x) = <<x>>
  BY <1>1, AppendProperties, SeqEqual
<1>3. Tail(<<x>>) = <<>>
  BY <1>1, HeadTailProperties, EmptySeq
<1> QED BY <1>2, <1>3

\* A server that starts with its rules has no alert yet.
LEMMA AlertsInitInv == AlertsInit => AlertsInv
  BY DEF AlertsInit, AlertsInv, OpenShape, EvaluatorShape, EvaluatorKnows, OpenWasTold, IdleEv

\* The evaluator takes the next rule, or rests: it knows nothing yet.
LEMMA AdvanceForgets ==
  ASSUME Advance
  PROVE  ev' = [pc |-> ev.pc, todo |-> ev.todo]' /\ ev.pc' \in {"idle", "look"}
  BY DEF Advance

\* The evaluator only moves on with the rule it is at.
LEMMA GotoStays ==
  ASSUME NEW pc, EvaluatorShape, Goto(pc)
  PROVE  /\ ev' = [pc |-> ev.pc, todo |-> ev.todo]' /\ ev.pc' = pc /\ Current' = Current
<1>1. ev' = [pc |-> pc, todo |-> ev.todo]
  BY DEF Goto, EvaluatorShape
<1> QED BY <1>1 DEF Current

\* The step that reads a rule's points and open alert (Evaluator.EvaluateOnce).
LEMMA LookStep == AlertsInv /\ (StartTick \/ Look) => AlertsInv'
<1> SUFFICES ASSUME AlertsInv, StartTick \/ Look PROVE AlertsInv'
  OBVIOUS
<1> USE DEF AlertsInv
<1>1. UNCHANGED <<open, told>>
  BY DEF StartTick, Look
<1>2. OpenShape' /\ OpenWasTold'
  BY <1>1 DEF OpenShape, OpenWasTold
<1>3. EvaluatorShape' /\ EvaluatorKnows'
  <2>1. CASE StartTick
    BY <1>1, <2>1 DEF StartTick, EvaluatorShape, EvaluatorKnows
  <2>2. CASE Look /\ Advance
    BY <1>1, <2>2, AdvanceForgets DEF EvaluatorShape, EvaluatorKnows
  <2>3. CASE Look /\ Goto("fire") /\ AllSatisfy(CurrentRow) /\ open[Current] = <<>>
    BY <1>1, <2>3, GotoStays DEF EvaluatorShape, EvaluatorKnows
  <2>4. CASE Look /\ Goto("resolve") /\ open[Current] # <<>>
    BY <1>1, <2>4, GotoStays DEF EvaluatorShape, EvaluatorKnows, OpenWasTold
  <2> QED BY <2>1, <2>2, <2>3, <2>4 DEF Look
<1> QED BY <1>2, <1>3

\* The steps that send a notice.
LEMMA NoticeStep == AlertsInv /\ (Fire \/ SendResolved) => AlertsInv'
<1> SUFFICES ASSUME AlertsInv, Fire \/ SendResolved PROVE AlertsInv'
  OBVIOUS
<1> USE DEF AlertsInv
<1>1. UNCHANGED open /\ OpenShape'
  BY DEF Fire, SendResolved, OpenShape
<1>2. CASE Fire /\ Goto("record")
  <2>1. told' = [told EXCEPT ![Current] = "firing"]
    BY <1>2 DEF Fire, Advance, Goto, EvaluatorShape
  <2> QED
    BY <1>1, <1>2, <2>1, GotoStays DEF Fire, AtStep, EvaluatorShape, EvaluatorKnows, OpenWasTold
<1>3. CASE Fire /\ Advance /\ UNCHANGED told
  BY <1>1, <1>3, AdvanceForgets DEF EvaluatorShape, EvaluatorKnows, OpenWasTold
<1>4. CASE SendResolved
  BY <1>1, <1>4, AdvanceForgets
     DEF SendResolved, AtStep, EvaluatorShape, EvaluatorKnows, OpenWasTold
<1> QED BY <1>2, <1>3, <1>4 DEF Fire

\* The steps that write alert_history: one row more for a rule that has none,
\* or the oldest row of a rule resolved.
LEMMA HistoryStep == AlertsInv /\ (CreateAlertHistory \/ ResolveAlert) => AlertsInv'
<1> SUFFICES ASSUME AlertsInv, CreateAlertHistory \/ ResolveAlert PROVE AlertsInv'
  OBVIOUS
<1> USE DEF AlertsInv
<1>1. UNCHANGED told
  BY DEF CreateAlertHistory, ResolveAlert
<1>2. CASE CreateAlertHistory
  <2> DEFINE new == [shown |-> Snap(CurrentRow), fired |-> Snap(CurrentRow)]
  <2> HIDE DEF new
  <2>1. \/ open' = open
        \/ open' = [open EXCEPT ![Current] = Append(@, new)]
    BY <1>2 DEF CreateAlertHistory, new
  <2>2. Current \in RuleIds => Append(open[Current], new) = <<new>> /\ told[Current] = "firing"
    BY <1>2, OneRow DEF CreateAlertHistory, AtStep, EvaluatorKnows
  <2>3. OpenShape' /\ OpenWasTold'
    <3>1. <<new>> # <<>> /\ <<new>>[1] = new
      BY OneRow
    <3>2. \A r \in RuleIds : open'[r] = open[r] \/ (r = Current /\ open'[r] = <<new>>)
      BY <2>1, <2>2 DEF OpenShape
    <3>3. OpenShape'
      BY <2>1, <3>1, <3>2 DEF OpenShape
    <3> QED BY <1>1, <2>2, <3>2, <3>3 DEF OpenWasTold
  <2>4. EvaluatorShape' /\ EvaluatorKnows'
    BY <1>1, <1>2, AdvanceForgets DEF CreateAlertHistory, EvaluatorShape, EvaluatorKnows
  <2> QED BY <2>3, <2>4
<1>3. CASE ResolveAlert /\ Goto("notify")
  <2>1. \/ open' = [open EXCEPT ![Current] = IF @ = <<>> THEN @ ELSE Tail(@)]
        \/ UNCHANGED open /\ open[Current] = <<>>
    BY <1>3 DEF ResolveAlert
  <2>2. Current \in RuleIds /\ open[Current] # <<>> => Tail(open[Current]) = <<>>
    <3>1. Tail(<<open[Current][1]>>) = <<>>
      BY OneRow
    <3> QED BY <3>1 DEF OpenShape
  <2>3. OpenShape' /\ OpenWasTold' /\ (Current \in RuleIds => open'[Current] = <<>>)
    BY <1>1, <2>1, <2>2 DEF OpenShape, OpenWasTold
  <2>4. EvaluatorShape' /\ EvaluatorKnows'
    BY <1>1, <1>3, <2>3, GotoStays DEF ResolveAlert, AtStep, EvaluatorShape, EvaluatorKnows
  <2> QED BY <2>3, <2>4
<1>4. CASE ResolveAlert /\ Advance /\ UNCHANGED open
  BY <1>1, <1>4, AdvanceForgets DEF OpenShape, OpenWasTold, EvaluatorShape, EvaluatorKnows
<1> QED BY <1>2, <1>3, <1>4 DEF ResolveAlert

\* Requests resolve, rewrite and delete rows of history; none of them opens an
\* alert.
LEMMA RequestsOpenNothing ==
  ASSUME AlertsInv, Requested
  PROVE  OpenShape' /\ \A r \in RuleIds : open'[r] # <<>> => open[r] # <<>>
<1> USE DEF AlertsInv, OpenShape
<1>1. ASSUME NEW S, NEW orph,
             \/ DropRules(S) \/ ResolveAlertsByRule(S)
      PROVE  OpenShape' /\ \A r \in RuleIds : open'[r] # <<>> => open[r] # <<>>
  BY <1>1 DEF DropRules, ResolveAlertsByRule
<1>2. CASE UpdateSnapshot
  <2> DEFINE show(x) == [x EXCEPT !.shown = Snap(edit.row)]
             shown(s) == [i \in DOMAIN s |-> show(s[i])]
  <2>1. open' = [open EXCEPT ![edit.rule] = shown(@)]
    BY <1>2 DEF UpdateSnapshot
  <2>2. shown(<<>>) = <<>>
    OBVIOUS
  <2>3. ASSUME NEW x PROVE shown(<<x>>) = <<show(x)>>
    <3> HIDE DEF show
    <3> QED OBVIOUS
  <2> HIDE DEF shown, show
  <2>4. /\ open' = [r \in RuleIds |-> open'[r]]
        /\ \A r \in RuleIds : open'[r] = open[r] \/ open'[r] = shown(open[r])
    BY <2>1
  <2>5. ASSUME NEW r \in RuleIds
        PROVE  /\ open'[r] = <<>> \/ open'[r] = <<open'[r][1]>>
               /\ open'[r] # <<>> => open[r] # <<>>
    <3>1. CASE open'[r] = open[r]
      BY <3>1
    <3>2. CASE open'[r] = shown(open[r]) /\ open[r] = <<>>
      BY <2>2, <3>2
    <3>3. CASE open'[r] = shown(open[r]) /\ open[r] = <<open[r][1]>>
      <4>1. open'[r] = <<show(open[r][1])>>
        BY <2>3, <3>3
      <4>2. <<show(open[r][1])>>[1] = show(open[r][1]) /\ open[r] # <<>>
        BY <3>3, OneRow
      <4> QED BY <4>1, <4>2
    <3> QED BY <2>4, <3>1, <3>2, <3>3 DEF OpenShape
  <2> QED BY <2>4, <2>5
<1>3. CASE ClearAlertHistory \/ PurgeAppAlerts
  BY <1>3 DEF ClearAlertHistory, PurgeAppAlerts
<1>4. CASE UpdateAlertRule \/ \E r \in RuleIds, row \in NewRules : CreateAlertRule(r, row)
  BY <1>4 DEF UpdateAlertRule, CreateAlertRule
<1>5. CASE \E r \in RuleIds, row \in NewRules : BeginUpdate(r, row)
  BY <1>1, <1>5 DEF BeginUpdate
<1>6. CASE \/ DeleteAlertRules \/ \E w \in Hooks : DeleteWebhook(w)
           \/ \E S \in {{r} : r \in DOMAIN rules} \cup {DOMAIN rules} : BeginDelete(S)
  BY <1>1, <1>6 DEF DeleteAlertRules, DeleteWebhook, BeginDelete
<1> QED BY <1>2, <1>3, <1>4, <1>5, <1>6 DEF Requested

\* No request touches the evaluator.
LEMMA RequestsAreQuiet == Requested => Quiet
  BY DEF Requested, CreateAlertRule, BeginUpdate, UpdateAlertRule, UpdateSnapshot, BeginDelete,
         DeleteAlertRules, DeleteWebhook, ClearAlertHistory, PurgeAppAlerts

\* The steps of requests, of a restart and of the collector.
LEMMA OutsideStep == AlertsInv /\ (Requested \/ RestartAlerts \/ SampleMetrics) => AlertsInv'
<1> SUFFICES ASSUME AlertsInv, Requested \/ RestartAlerts \/ SampleMetrics PROVE AlertsInv'
  OBVIOUS
<1>1. CASE Requested
  BY <1>1, RequestsOpenNothing, RequestsAreQuiet
     DEF Quiet, AlertsInv, EvaluatorShape, EvaluatorKnows, OpenWasTold, Current
<1>2. CASE RestartAlerts
  BY <1>2 DEF RestartAlerts, AlertsInv, OpenShape, EvaluatorShape, EvaluatorKnows, OpenWasTold, IdleEv
<1>3. CASE SampleMetrics
  BY <1>3 DEF SampleMetrics, AlertsInv, OpenShape, EvaluatorShape, EvaluatorKnows, OpenWasTold, Current
<1> QED BY <1>1, <1>2, <1>3

\* The inductive invariant of the alerts: every step of the evaluator, of the
\* requests and of a restart keeps it.
THEOREM AlertsInvariant == AlertsSpec => []AlertsInv
<1>1. AlertsInv /\ [AlertsNext]_alertVars => AlertsInv'
  <2> SUFFICES ASSUME AlertsInv, [AlertsNext]_alertVars PROVE AlertsInv'
    OBVIOUS
  <2>1. CASE UNCHANGED alertVars
    BY <2>1 DEF alertVars, AlertsInv, OpenShape, EvaluatorShape, EvaluatorKnows, OpenWasTold, Current
  <2> QED
    BY <2>1, LookStep, NoticeStep, HistoryStep, OutsideStep DEF AlertsNext, Evaluate
<1> QED BY <1>1, AlertsInitInv, PTL DEF AlertsSpec

\* A rule has at most one open alert, whatever requests do between the
\* evaluator's look at it and its CreateAlertHistory.
THEOREM OneAlertPerRule == AlertsSpec => []OneOpenAlert
<1>1. AlertsInv => OneOpenAlert
  <2> SUFFICES ASSUME AlertsInv, NEW r \in RuleIds PROVE Len(open[r]) <= 1
    BY DEF OneOpenAlert
  <2>1. CASE open[r] = <<>>
    BY <2>1, EmptySeq
  <2>2. CASE open[r] = <<open[r][1]>>
    <3>1. PICK x : open[r] = <<x>>
      BY <2>2
    <3> QED BY <3>1, OneRow
  <2> QED BY <2>1, <2>2 DEF AlertsInv, OpenShape
<1> QED BY <1>1, AlertsInvariant, PTL

\* EvaluateOnce says "resolved" of a rule only when the last thing it said of it
\* is "firing", so never twice in a row.
THEOREM ResolvedWasFiring == AlertsSpec => ResolvedAfterFiring
<1> DEFINE Told == \A r \in RuleIds : SendResolved /\ Current = r => told[r] = "firing"
<1>1. AlertsInv => Told
  BY DEF SendResolved, AtStep, AlertsInv, EvaluatorKnows
<1>2. AlertsInv => [Told]_alertVars
  BY <1>1
<1> QED BY <1>2, AlertsInvariant, PTL DEF ResolvedAfterFiring

----------------------------------------------------------------------------
(* Sessions                                                                *)

\* Rows of users as functions and records; ids below the next one to give out.
AccountShape ==
    /\ fresh \in Nat \ {0}
    /\ accounts = [u \in DOMAIN accounts |-> accounts[u]]
    /\ DOMAIN accounts \subseteq 1 .. fresh - 1
    /\ \A u \in DOMAIN accounts : IsAccount(accounts[u])

\* What was read of an account is not newer than the account, and as long as
\* the token version is the same, so is the password, or a sidecar brought it.
Known(u, tv, pw) ==
    /\ u \in 0 .. fresh - 1
    /\ u \in DOMAIN accounts =>
          /\ tv \in Nat /\ tv <= accounts[u].tv
          /\ tv = accounts[u].tv => accounts[u].pw = pw \/ u \in imported

\* So it is with every session handed out, and with every login under way.
SessionsKnown == \A t \in sessions : Known(t.user, t.tv, t.pw)

LoginsKnown ==
    /\ ask = [c \in Callers |-> ask[c]]
    /\ \A c \in Callers : ask[c].kind = "login" => Known(ask[c].user, ask[c].row.tv, ask[c].row.pw)

SessionInv == AccountShape /\ SessionsKnown /\ LoginsKnown

\* The accounts may only move forward: no id comes back, no token version
\* falls, and a password changes with its token version or by a sidecar.
Forward ==
    /\ fresh' \in Nat /\ fresh <= fresh' /\ imported \subseteq imported'
    /\ \A u \in DOMAIN accounts' :
          \/ u >= fresh
          \/ /\ u \in DOMAIN accounts /\ accounts'[u].tv \in Nat
             /\ accounts[u].tv <= accounts'[u].tv
             /\ accounts[u].tv = accounts'[u].tv =>
                    accounts'[u].pw = accounts[u].pw \/ u \in imported'

\* What is known of an account stays known when the accounts move forward.
LEMMA KnownStays ==
  ASSUME AccountShape, Forward, NEW u, NEW tv, NEW pw, Known(u, tv, pw)
  PROVE  Known(u, tv, pw)'
  BY DEF AccountShape, IsAccount, Forward, Known

\* The rows of users that a request changes (store/users.go): UpdatePassword,
\* UpdateUserRole and BumpTokenVersion all raise the token version.
LEMMA RowsMoveForward ==
  ASSUME AccountShape, UNCHANGED <<fresh, imported>>, NEW u,
         NEW role, NEW pw,
         \/ UNCHANGED accounts
         \/ u \in DOMAIN accounts /\ accounts' = UpdatePassword(u, pw)
         \/ u \in DOMAIN accounts /\ accounts' = UpdateUserRole(u, role)
         \/ u \in DOMAIN accounts /\ accounts' = BumpTokenVersion(u)
  PROVE  AccountShape' /\ Forward
<1>1. /\ accounts' = [v \in DOMAIN accounts |-> accounts'[v]]
      /\ DOMAIN accounts' = DOMAIN accounts
      /\ \A v \in DOMAIN accounts :
            \/ accounts'[v] = accounts[v]
            \/ /\ IsAccount(accounts'[v]) /\ accounts'[v].tv = accounts[v].tv + 1
  BY DEF AccountShape, IsAccount, UpdatePassword, UpdateUserRole, BumpTokenVersion
<1> QED BY <1>1 DEF AccountShape, IsAccount, Forward

\* CreateUser gives out the next id.
LEMMA CreateMovesForward ==
  ASSUME AccountShape, UNCHANGED imported, NEW n, NEW role, NEW pw, CreateUser(n, role, pw)
  PROVE  AccountShape' /\ Forward
  BY DEF AccountShape, IsAccount, Forward, CreateUser

\* DeleteUser.
LEMMA DropMovesForward ==
  ASSUME AccountShape, UNCHANGED <<fresh, imported>>, NEW S, DropUsers(S)
  PROVE  AccountShape' /\ Forward
  BY DEF AccountShape, IsAccount, Forward, DropUsers

\* ApplyGlobalSidecar: whose password it changes is imported; at most one user
\* is new.
LEMMA ImportMovesForward ==
  ASSUME AccountShape, NEW w \in Wanted, ApplyUsers(w)
  PROVE  AccountShape' /\ Forward
<1> DEFINE stay == {u \in DOMAIN accounts : accounts[u].name \in DOMAIN w.users}
           add == {n \in DOMAIN w.users : ~HasName(n)}
           row(u) == [accounts[u] EXCEPT !.role = w.users[accounts[u].name].role,
                                         !.pw = IF w.secrets THEN w.users[accounts[u].name].pw ELSE @]
           new(n) == [name |-> n, role |-> w.users[n].role,
                      pw |-> IF w.secrets THEN w.users[n].pw ELSE "unset", tv |-> 1]
<1>1. /\ accounts' = [u \in stay \cup (IF add = {} THEN {} ELSE {fresh}) |->
                        IF u \in stay THEN row(u) ELSE new(CHOOSE x \in add : TRUE)]
      /\ fresh' = fresh + Cardinality(add)
      /\ imported' = imported \cup {u \in stay : row(u).pw # accounts[u].pw}
  BY DEF ApplyUsers
<1>2. /\ Cardinality(add) \in Nat
      /\ add # {} => Cardinality(add) >= 1
  <2>1. IsFiniteSet(add)
    BY AccessBounds, FS_Subset
  <2> QED BY <2>1, FS_CardinalityType, FS_EmptySet
<1>3. ASSUME NEW u \in stay PROVE IsAccount(row(u)) /\ row(u).tv = accounts[u].tv
  <2>1. IsAccount(accounts[u])
    BY DEF AccountShape
  <2>2. PICK role, p : row(u) = [accounts[u] EXCEPT !.role = role, !.pw = p]
    OBVIOUS
  <2> HIDE DEF row
  <2> QED BY <2>1, <2>2 DEF IsAccount
<1>4. \A n : IsAccount(new(n))
  BY DEF IsAccount
<1>5. stay \subseteq DOMAIN accounts
  OBVIOUS
<1> HIDE DEF stay, add, row, new
<1>6. AccountShape'
  BY <1>1, <1>2, <1>3, <1>4, <1>5 DEF AccountShape
<1>7. Forward
  <2>1. \A u \in DOMAIN accounts' : u = fresh \/ (u \in stay /\ accounts'[u] = row(u))
    BY <1>1
  <2>2. \A u \in stay : row(u).pw = accounts[u].pw \/ u \in imported'
    BY <1>1
  <2>3. fresh' \in Nat /\ fresh <= fresh' /\ imported \subseteq imported'
    BY <1>1, <1>2 DEF AccountShape
  <2> QED BY <1>3, <1>5, <2>1, <2>2, <2>3 DEF AccountShape, IsAccount, Forward
<1> QED BY <1>6, <1>7

\* Every step of a request, a socket, a sidecar or the clock.
LEMMA AccountsMoveForward == AccountShape /\ AccessNext => AccountShape' /\ Forward
<1> SUFFICES ASSUME AccountShape, AccessNext PROVE AccountShape' /\ Forward
  OBVIOUS
<1>1. CASE UNCHANGED <<accounts, fresh, imported>>
  BY <1>1, RowsMoveForward
<1>2. ASSUME NEW c \in Callers, Asked(c) PROVE AccountShape' /\ Forward
  <2>1. CASE \/ \E n \in Names, pw \in Passwords : BeginLogin(c, n, pw) \/ BeginSetup(c, n, pw)
             \/ EndLogin(c)
    BY <2>1, <1>1 DEF BeginLogin, BeginSetup, EndLogin
  <2>2. CASE EndSetup(c)
    BY <2>2, <1>1, CreateMovesForward DEF EndSetup
  <2>3. CASE EndChangePassword(c)
    BY <2>3, RowsMoveForward DEF EndChangePassword
  <2>4. CASE WriteRole(c)
    BY <2>4, RowsMoveForward DEF WriteRole
  <2>5. CASE DeleteUser(c)
    BY <2>5, DropMovesForward DEF DeleteUser
  <2>6. ASSUME NEW t \in sessions, Logout(c, t) PROVE AccountShape' /\ Forward
    BY <2>6, RowsMoveForward DEF Logout
  <2>7. ASSUME NEW t \in sessions, NEW n \in Names, NEW r \in Roles, NEW pw \in Passwords,
               AddUser(c, t, n, r, pw)
        PROVE  AccountShape' /\ Forward
    BY <2>7, CreateMovesForward DEF AddUser
  <2>8. ASSUME NEW t \in sessions,
               \/ \E pw \in Passwords : BeginChangePassword(c, t, pw)
               \/ \E u \in DOMAIN accounts :
                     \/ BeginDeleteUser(c, t, u) \/ \E b \in BOOLEAN : SetAccess(c, t, u, b)
                     \/ \E r \in Roles, pw \in Passwords \cup {"keep"} : BeginUpdateUser(c, t, u, r, pw)
               \/ \E n \in KeyNames, h \in Hashes : CreateAPIKey(c, t, n, h)
               \/ \E k \in keys : DeleteAPIKey(c, t, k)
        PROVE  AccountShape' /\ Forward
    BY <2>8, <1>1 DEF BeginChangePassword, BeginDeleteUser, SetAccess, BeginUpdateUser, CreateAPIKey, DeleteAPIKey
  <2> QED BY <1>2, <2>1, <2>2, <2>3, <2>4, <2>5, <2>6, <2>7, <2>8 DEF Asked
<1>3. CASE \/ \E s \in Sockets : OpenSocket(s) \/ CloseRevoked(s)
           \/ ApplyKeys \/ LockEnds
  BY <1>3, <1>1 DEF OpenSocket, CloseRevoked, ApplyKeys, LockEnds
<1> QED BY <1>2, <1>3, ImportMovesForward DEF AccessNext

\* Every login under way was under way before: only handleLogin starts one.
NoNewLogin ==
    /\ ask' = [c \in Callers |-> ask'[c]]
    /\ \A c \in Callers : ask'[c].kind = "login" => ask'[c] = ask[c]

\* A request that begins as something else, or ends.
LEMMA AskStep ==
  ASSUME ask = [c \in Callers |-> ask[c]], NEW c \in Callers, NEW r,
         ask' = [ask EXCEPT ![c] = r], r.kind # "login"
  PROVE  NoNewLogin
  BY DEF NoNewLogin

\* Only BeginLogin starts a login, and only EndLogin hands out a session.
LEMMA OnlyLoginsMatter ==
  ASSUME ask = [c \in Callers |-> ask[c]], AccessNext,
         ~ \E c \in Callers, n \in Names, pw \in Passwords : BeginLogin(c, n, pw)
  PROVE  /\ NoNewLogin
         /\ (\A c \in Callers : ~EndLogin(c)) => UNCHANGED <<sessions, fails, locked, burst>> \/ LockEnds
<1>1. CASE UNCHANGED <<ask, sessions, lockVars>>
  BY <1>1 DEF NoNewLogin, lockVars
<1>2. ASSUME NEW c \in Callers, Asked(c)
      PROVE  NoNewLogin /\ (UNCHANGED <<sessions, lockVars>> \/ EndLogin(c))
  <2> USE DEF NoAsk, Begin, End
  <2>1. ASSUME NEW n \in Names, NEW pw \in Passwords, BeginSetup(c, n, pw)
        PROVE  NoNewLogin /\ UNCHANGED <<sessions, lockVars>>
    BY <2>1, AskStep DEF BeginSetup
  <2>2. CASE EndLogin(c)
    BY <2>2, AskStep DEF EndLogin
  <2>3. CASE EndSetup(c) \/ EndChangePassword(c) \/ DeleteUser(c)
    BY <2>3, AskStep DEF EndSetup, EndChangePassword, DeleteUser
  <2>4. CASE WriteRole(c)
    BY <2>4, AskStep DEF WriteRole
  <2>5. ASSUME NEW t \in sessions,
               \/ Logout(c, t)
               \/ \E pw \in Passwords : BeginChangePassword(c, t, pw)
        PROVE  NoNewLogin /\ UNCHANGED <<sessions, lockVars>>
    BY <2>5, AskStep DEF Logout, BeginChangePassword
  <2>6. ASSUME NEW t \in sessions, NEW u \in DOMAIN accounts,
               \/ BeginDeleteUser(c, t, u)
               \/ \E b \in BOOLEAN : SetAccess(c, t, u, b)
               \/ \E r \in Roles, pw \in Passwords \cup {"keep"} : BeginUpdateUser(c, t, u, r, pw)
        PROVE  NoNewLogin /\ UNCHANGED <<sessions, lockVars>>
    BY <2>6, AskStep DEF BeginDeleteUser, SetAccess, BeginUpdateUser
  <2>7. ASSUME NEW t \in sessions,
               \/ \E n \in Names, r \in Roles, pw \in Passwords : AddUser(c, t, n, r, pw)
               \/ \E n \in KeyNames, h \in Hashes : CreateAPIKey(c, t, n, h)
               \/ \E k \in keys : DeleteAPIKey(c, t, k)
        PROVE  NoNewLogin /\ UNCHANGED <<sessions, lockVars>>
    BY <2>7, AskStep DEF AddUser, CreateAPIKey, DeleteAPIKey
  <2> QED BY <1>2, <2>1, <2>2, <2>3, <2>4, <2>5, <2>6, <2>7 DEF Asked
<1>3. CASE \/ \E s \in Sockets : OpenSocket(s) \/ CloseRevoked(s)
           \/ \E w \in Wanted : ApplyUsers(w)
           \/ ApplyKeys
  BY <1>3, <1>1 DEF OpenSocket, CloseRevoked, ApplyUsers, ApplyKeys
<1>4. CASE LockEnds
  BY <1>4 DEF LockEnds, NoNewLogin
<1> QED BY <1>2, <1>3, <1>4 DEF AccessNext, lockVars

\* A server that starts has no session and no login.
LEMMA SessionInit == AccessInit => SessionInv
<1> SUFFICES ASSUME AccessInit PROVE SessionInv
  OBVIOUS
<1>1. AccountShape
  <2>1. /\ IsFiniteSet(DOMAIN accounts)
        /\ accounts = [u \in 1 .. Cardinality(DOMAIN accounts) |-> accounts[u]]
        /\ \A u \in DOMAIN accounts : IsAccount(accounts[u])
    BY AccessStarts DEF AccessInit
  <2>2. Cardinality(DOMAIN accounts) \in Nat
    BY <2>1, FS_CardinalityType
  <2> QED BY <2>1, <2>2 DEF AccessInit, AccountShape
<1>2. SessionsKnown /\ LoginsKnown
  BY DEF AccessInit, SessionsKnown, LoginsKnown, NoAsk
<1> QED BY <1>1, <1>2 DEF SessionInv

\* handleLogin reads the account: what it read is what the account has.
LEMMA BeginLoginReads ==
  ASSUME SessionInv, NEW c \in Callers, NEW n \in Names, NEW pw \in Passwords, BeginLogin(c, n, pw)
  PROVE  SessionsKnown' /\ LoginsKnown'
<1>1. UNCHANGED <<accounts, fresh, imported, sessions>>
  BY DEF BeginLogin
<1>2. \A u, tv, p : Known(u, tv, p) => Known(u, tv, p)'
  BY <1>1 DEF Known
<1>3. PICK u, row : /\ ask' = [ask EXCEPT ![c] = [kind |-> "login", pw |-> pw, user |-> u, row |-> row]]
                    /\ \/ u = 0
                       \/ u \in DOMAIN accounts /\ row = accounts[u]
  BY DEF BeginLogin, Begin, HasName, IdOf
<1>4. Known(u, row.tv, row.pw)
  BY <1>3 DEF SessionInv, AccountShape, IsAccount, Known
<1> QED BY <1>1, <1>2, <1>3, <1>4 DEF SessionInv, SessionsKnown, LoginsKnown

\* Every step keeps what sessions and logins know.
LEMMA SessionStep == SessionInv /\ [AccessNext]_accessVars => SessionInv'
<1> SUFFICES ASSUME SessionInv, [AccessNext]_accessVars PROVE SessionInv'
  OBVIOUS
<1>1. CASE UNCHANGED accessVars
  BY <1>1 DEF accessVars, SessionInv, AccountShape, SessionsKnown, LoginsKnown, Known
<1>2. CASE AccessNext
  <2>1. AccountShape' /\ Forward
    BY <1>2, AccountsMoveForward DEF SessionInv
  <2>2. \A u, tv, pw : Known(u, tv, pw) => Known(u, tv, pw)'
    BY <2>1, KnownStays DEF SessionInv
  <2>3. CASE \E c \in Callers, n \in Names, pw \in Passwords : BeginLogin(c, n, pw)
    BY <2>1, <2>3, BeginLoginReads DEF SessionInv
  <2>4. CASE ~ \E c \in Callers, n \in Names, pw \in Passwords : BeginLogin(c, n, pw)
    <3>1. NoNewLogin
      BY <1>2, <2>4, OnlyLoginsMatter DEF SessionInv, LoginsKnown
    <3>2. LoginsKnown'
      BY <2>2, <3>1 DEF SessionInv, LoginsKnown, NoNewLogin
    <3>3. ASSUME NEW c \in Callers, EndLogin(c) PROVE SessionsKnown'
      <4>1. \/ UNCHANGED sessions
            \/ /\ ask[c].row.pw = ask[c].pw
               /\ sessions' = sessions \cup {[user |-> ask[c].user, tv |-> ask[c].row.tv, pw |-> ask[c].pw]}
        BY <3>3 DEF EndLogin
      <4>2. Known(ask[c].user, ask[c].row.tv, ask[c].row.pw)
        BY <3>3 DEF SessionInv, LoginsKnown, EndLogin
      <4> QED BY <2>2, <4>1, <4>2 DEF SessionInv, SessionsKnown
    <3>4. ASSUME UNCHANGED sessions PROVE SessionsKnown'
      BY <2>2, <3>4 DEF SessionInv, SessionsKnown
    <3>5. (\A c \in Callers : ~EndLogin(c)) => UNCHANGED sessions
      BY <1>2, <2>4, OnlyLoginsMatter DEF SessionInv, LoginsKnown, LockEnds
    <3> QED BY <2>1, <3>2, <3>3, <3>4, <3>5 DEF SessionInv
  <2> QED BY <2>3, <2>4
<1> QED BY <1>1, <1>2

\* The inductive invariant of the sessions.
THEOREM SessionInvariant == AccessSpec => []SessionInv
  BY SessionInit, SessionStep, PTL DEF AccessSpec

\* A session that authMiddleware accepts was given for the password its user
\* has now, or a sidecar brought the password.
THEOREM SessionsAreCurrent == AccessSpec => []SessionsKnowPassword
<1>1. SessionInv => SessionsKnowPassword
  BY DEF SessionInv, SessionsKnown, Known, AccountShape, SessionsKnowPassword, Accepted
<1> QED BY <1>1, SessionInvariant, PTL

----------------------------------------------------------------------------
(* The login lockout                                                       *)

\* Logins whose password is being compared.
LoginsUnderWay == {c \in Callers : ask[c].kind = "login"}

\* Without the lock fewer failures than the threshold were recorded; with it,
\* those recorded and those that may still be are no more than the threshold
\* less one and everybody.
LockInv ==
    /\ ask = [c \in Callers |-> ask[c]]
    /\ fails \in Nat /\ burst \in Nat /\ burst <= fails /\ locked \in BOOLEAN
    /\ ~locked => burst < Threshold
    /\ locked => burst + Cardinality(LoginsUnderWay) <= Threshold - 1 + Cardinality(Callers)

\* The logins under way are a finite number.
LEMMA LoginsAreFinite == IsFiniteSet(LoginsUnderWay) /\ Cardinality(LoginsUnderWay) \in Nat
  BY AccessBounds, FS_Subset, FS_CardinalityType DEF LoginsUnderWay

\* The bounds of the lockout are numbers.
LEMMA LockNumbers == Threshold \in Nat /\ Threshold >= 1 /\ Cardinality(Callers) \in Nat
  BY AccessBounds, FS_CardinalityType

\* Where nobody is locked out and nothing was recorded, the count is right.
LEMMA LockOff ==
  ASSUME LockInv, NoNewLogin, locked' = FALSE, burst' = 0, fails' \in Nat
  PROVE  LockInv'
<1>1. ~locked' /\ locked' \in BOOLEAN
  OBVIOUS
<1> QED BY <1>1, LockNumbers DEF LockInv, NoNewLogin

\* The end of a login: one fewer is under way, and one failure may be recorded.
LEMMA EndLoginStep ==
  ASSUME LockInv, NEW c \in Callers, EndLogin(c), NoNewLogin
  PROVE  LockInv'
<1>1. /\ LoginsUnderWay' \subseteq LoginsUnderWay \ {c}
      /\ c \in LoginsUnderWay
  BY DEF EndLogin, End, NoAsk, LoginsUnderWay, NoNewLogin, LockInv
<1>2. /\ Cardinality(LoginsUnderWay') \in Nat
      /\ Cardinality(LoginsUnderWay') <= Cardinality(LoginsUnderWay) - 1
  <2>1. /\ IsFiniteSet(LoginsUnderWay \ {c})
        /\ Cardinality(LoginsUnderWay \ {c}) = Cardinality(LoginsUnderWay) - 1
    BY <1>1, LoginsAreFinite, FS_RemoveElement
  <2> QED BY <1>1, <2>1, FS_Subset, FS_CardinalityType
<1>3. /\ Cardinality(LoginsUnderWay) \in Nat /\ Cardinality(Callers) \in Nat
      /\ Cardinality(LoginsUnderWay) <= Cardinality(Callers)
  BY AccessBounds, LoginsAreFinite, FS_Subset, FS_CardinalityType DEF LoginsUnderWay
<1>4. CASE fails' = 0 /\ locked' = FALSE /\ burst' = 0
  BY <1>4, LockOff
<1>5. CASE RecordFailure
  <2>1. /\ fails' = fails + 1 /\ burst' = burst + 1
        /\ locked' \in BOOLEAN
        /\ locked' <=> locked \/ fails + 1 >= Threshold
    BY <1>5 DEF RecordFailure
  <2>2. ~locked' => burst' < Threshold
    BY <2>1, LockNumbers DEF LockInv
  <2>3. burst' + Cardinality(LoginsUnderWay') <= Threshold - 1 + Cardinality(Callers)
    <3>1. CASE locked
      BY <1>2, <1>3, <2>1, <3>1, LockNumbers DEF LockInv
    <3>2. CASE ~locked
      BY <1>2, <1>3, <2>1, <3>2, LockNumbers DEF LockInv
    <3> QED BY <3>1, <3>2
  <2> QED BY <2>1, <2>2, <2>3 DEF LockInv, NoNewLogin
<1> QED BY <1>4, <1>5 DEF EndLogin

\* Every step keeps the count of the lockout.
LEMMA LockStep == LockInv /\ [AccessNext]_accessVars => LockInv'
<1> SUFFICES ASSUME LockInv, [AccessNext]_accessVars PROVE LockInv'
  OBVIOUS
<1>1. CASE UNCHANGED accessVars
  BY <1>1 DEF accessVars, lockVars, LockInv, LoginsUnderWay
<1>2. ASSUME AccessNext, NEW c \in Callers, NEW n \in Names, NEW pw \in Passwords, BeginLogin(c, n, pw)
      PROVE  LockInv'
  BY <1>2 DEF BeginLogin, Begin, lockVars, LockInv
<1>3. ASSUME AccessNext, ~ \E c \in Callers, n \in Names, pw \in Passwords : BeginLogin(c, n, pw)
      PROVE  LockInv'
  <2>1. NoNewLogin
    BY <1>3, OnlyLoginsMatter DEF LockInv
  <2>2. ASSUME NEW c \in Callers, EndLogin(c) PROVE LockInv'
    BY <2>1, <2>2, EndLoginStep
  <2>3. CASE LockEnds
    BY <2>1, <2>3, LockOff DEF LockEnds, LockInv
  <2>4. CASE UNCHANGED <<fails, locked, burst>>
    <3>1. Cardinality(LoginsUnderWay') <= Cardinality(LoginsUnderWay) /\ Cardinality(LoginsUnderWay') \in Nat
      <4>1. LoginsUnderWay' \subseteq LoginsUnderWay
        BY <2>1 DEF LoginsUnderWay, NoNewLogin
      <4> QED BY <4>1, LoginsAreFinite, FS_Subset, FS_CardinalityType
    <3>2. Cardinality(LoginsUnderWay) \in Nat /\ Cardinality(Callers) \in Nat
      BY AccessBounds, LoginsAreFinite, FS_CardinalityType
    <3> QED BY <2>1, <2>4, <3>1, <3>2, AccessBounds DEF LockInv, NoNewLogin
  <2> QED BY <1>3, <2>2, <2>3, <2>4, OnlyLoginsMatter DEF LockInv
<1> QED BY <1>1, <1>2, <1>3

\* RecordFailure after the lock: a burst of failures is bounded by the threshold
\* and the requests that may be under way.
THEOREM BurstsAreBounded == AccessSpec => []BurstBounded
<1>1. AccessInit => LockInv
  <2>1. AccessInit => ~locked /\ locked \in BOOLEAN
    BY DEF AccessInit
  <2> QED BY <2>1, LockNumbers DEF AccessInit, LockInv
<1>2. LockInv => BurstBounded
  <2>1. Cardinality(LoginsUnderWay) \in Nat /\ Cardinality(Callers) \in Nat
    BY AccessBounds, LoginsAreFinite, FS_CardinalityType
  <2> QED BY <2>1, AccessBounds DEF LockInv, BurstBounded
<1> QED BY <1>1, <1>2, LockStep, PTL DEF AccessSpec
----------------------------------------------------------------------------
(* Induction over numbers and finite sets                                  *)

Below == {ss \in Nat \X Nat : ss[1] < ss[2]}

\* A set of numbers with 0 and the successor of each of its members has them all.
LEMMA NumbersFromZero ==
  ASSUME NEW S, 0 \in S, \A n \in Nat : n \in S => n + 1 \in S
  PROVE  Nat \subseteq S
<1> SUFFICES ASSUME Nat \ S # {} PROVE FALSE
  OBVIOUS
<1>1. IsWellFoundedOn(Below, Nat)
  BY NatLessThanWellFounded DEF OpToRel, Below
<1>2. PICK m \in Nat \ S : \A k \in Nat \ S : <<k, m>> \notin Below
  BY <1>1, WFMin
<1>3. m - 1 \in Nat /\ m - 1 \in S
  <2>1. m - 1 \in Nat
    OBVIOUS
  <2>2. <<m - 1, m>> \in Below
    BY <2>1 DEF Below
  <2> QED BY <2>1, <2>2, <1>2
<1>4. m - 1 + 1 \in S
  BY <1>3
<1> QED BY <1>4
\* A set with one more than n elements has one.
LEMMA NotEmpty ==
  ASSUME NEW s, NEW n \in Nat, Cardinality(s) = n + 1
  PROVE  s # {}
<1> SUFFICES ASSUME s = {} PROVE FALSE
  OBVIOUS
<1>1. Cardinality({}) = 0
  BY FS_EmptySet
<1>2. n + 1 = 0
  BY <1>1
<1> QED BY <1>2

\* Without that element it has n.
LEMMA OneLess ==
  ASSUME NEW s, IsFiniteSet(s), NEW x \in s, NEW n \in Nat, Cardinality(s) = n + 1
  PROVE  Cardinality(s \ {x}) = n
<1>1. Cardinality(s \ {x}) = Cardinality(s) - 1
  BY FS_RemoveElement
<1>2. Cardinality(s \ {x}) = (n + 1) - 1
  BY <1>1
<1>3. (n + 1) - 1 = n
  OBVIOUS
<1> QED BY <1>2, <1>3


\* A collection of sets with the empty one, and with one more element for each of its
\* members, has all subsets of a finite set.
LEMMA SetsFromEmpty ==
  ASSUME NEW U, IsFiniteSet(U), NEW P, {} \in P,
         \A s \in SUBSET U : \A x \in U \ s : s \in P => s \cup {x} \in P
  PROVE  SUBSET U \subseteq P
<1> DEFINE N == {n \in Nat : \A s \in SUBSET U : Cardinality(s) = n => s \in P}
<1>1. \A s \in SUBSET U : IsFiniteSet(s) /\ Cardinality(s) \in Nat
  BY FS_Subset, FS_CardinalityType
<1>2. 0 \in N
  BY <1>1, FS_EmptySet
<1>3. ASSUME NEW n \in Nat, n \in N PROVE n + 1 \in N
  <2> SUFFICES ASSUME NEW s \in SUBSET U, Cardinality(s) = n + 1 PROVE s \in P
    OBVIOUS
  <2>1. PICK x : x \in s
    BY NotEmpty
  <2>2. Cardinality(s \ {x}) = n
    BY <1>1, <2>1, OneLess
  <2>3. s \ {x} \in P
    BY <1>3, <2>2
  <2>4. s = (s \ {x}) \cup {x} /\ x \in U \ (s \ {x})
    BY <2>1
  <2> QED BY <2>3, <2>4
<1>4. Nat \subseteq N
  <2> HIDE DEF N
  <2> QED BY <1>2, <1>3, NumbersFromZero
<1> QED BY <1>1, <1>4

----------------------------------------------------------------------------
(* Sums                                                                    *)

SumOver(g, S) == MapThenSumSet(LAMBDA x : g[x], S)
Some(s) == CHOOSE x \in s : TRUE
UpTo(U, n) == {s \in SUBSET U : Cardinality(s) <= n}
Solves(R, g, D) == R = [s \in D |-> IF s = {} THEN 0 ELSE g[Some(s)] + R[s \ {Some(s)}]]

\* One element less.
LEMMA LessOne ==
  ASSUME NEW U, IsFiniteSet(U), NEW s \in SUBSET U, s # {}
  PROVE  /\ Some(s) \in s /\ s \ {Some(s)} \in SUBSET U
         /\ Cardinality(s) \in Nat /\ Cardinality(s \ {Some(s)}) = Cardinality(s) - 1
         /\ Cardinality(s) - 1 \in Nat
<1>1. Some(s) \in s
  BY DEF Some
<1>2. IsFiniteSet(s)
  BY FS_Subset
<1>3. Cardinality(s) \in Nat /\ Cardinality(s) # 0
  BY <1>2, FS_CardinalityType, FS_EmptySet
<1>4. Cardinality(s \ {Some(s)}) = Cardinality(s) - 1
  BY <1>1, <1>2, FS_RemoveElement
<1> QED BY <1>1, <1>3, <1>4

\* MapThenSumSet is the value of a recursion over subsets, which has a solution.
LEMMA SumsExist ==
  ASSUME NEW g, NEW U, IsFiniteSet(U)
  PROVE  \E R : Solves(R, g, SUBSET U)
<1> DEFINE N == {n \in Nat : \E R : Solves(R, g, UpTo(U, n))}
<1>1. 0 \in N
  <2> DEFINE R == [s \in UpTo(U, 0) |-> 0]
  <2>1. \A s \in UpTo(U, 0) : s = {}
    <3> TAKE s \in UpTo(U, 0)
    <3>1. IsFiniteSet(s) /\ Cardinality(s) \in Nat /\ Cardinality(s) <= 0
      BY FS_Subset, FS_CardinalityType DEF UpTo
    <3> QED BY <3>1, FS_EmptySet
  <2>2. Solves(R, g, UpTo(U, 0))
    BY <2>1 DEF Solves
  <2> QED BY <2>2
<1>2. ASSUME NEW n \in Nat, n \in N PROVE n + 1 \in N
  <2>1. PICK R : Solves(R, g, UpTo(U, n))
    BY <1>2
  <2> DEFINE Step(F, s) == IF s = {} THEN 0 ELSE g[Some(s)] + F[s \ {Some(s)}]
             Q == [s \in UpTo(U, n + 1) |-> Step(R, s)]
  <2>2. \A s \in UpTo(U, n) : R[s] = Step(R, s)
    BY <2>1 DEF Solves
  <2>3. \A s \in UpTo(U, n) : s \in UpTo(U, n + 1) /\ Q[s] = R[s]
    <3> TAKE s \in UpTo(U, n)
    <3>1. s \in SUBSET U /\ Cardinality(s) \in Nat /\ Cardinality(s) <= n
      BY FS_Subset, FS_CardinalityType DEF UpTo
    <3>2. s \in UpTo(U, n + 1)
      BY <3>1 DEF UpTo
    <3> QED BY <2>2, <3>2
  <2>4. ASSUME NEW s \in UpTo(U, n + 1) PROVE Q[s] = Step(Q, s)
    <3>1. CASE s = {}
      BY <3>1
    <3>2. CASE s # {}
      <4>1. s \in SUBSET U /\ Cardinality(s) <= n + 1
        BY DEF UpTo
      <4>2. s \ {Some(s)} \in UpTo(U, n)
        BY <3>2, <4>1, LessOne DEF UpTo
      <4>3. Q[s \ {Some(s)}] = R[s \ {Some(s)}]
        BY <2>3, <4>2
      <4> QED BY <3>2, <4>3
    <3> QED BY <3>1, <3>2
  <2>5. Solves(Q, g, UpTo(U, n + 1))
    BY <2>4 DEF Solves
  <2> QED BY <2>5
<1>3. Nat \subseteq N
  <2> HIDE DEF N
  <2> QED BY <1>1, <1>2, NumbersFromZero
<1>4. Cardinality(U) \in Nat /\ UpTo(U, Cardinality(U)) = SUBSET U
  BY FS_CardinalityType, FS_Subset DEF UpTo
<1> QED BY <1>3, <1>4

\* Solutions for a set and for a part of it agree.
LEMMA SumsAgree ==
  ASSUME NEW g, NEW U, IsFiniteSet(U), NEW T \in SUBSET U, NEW R, NEW Q,
         Solves(R, g, SUBSET U), Solves(Q, g, SUBSET T)
  PROVE  R[T] = Q[T]
<1> DEFINE N == {n \in Nat : \A s \in SUBSET T : Cardinality(s) = n => R[s] = Q[s]}
<1>1. IsFiniteSet(T) /\ \A s \in SUBSET T : s \in SUBSET U /\ IsFiniteSet(s) /\ Cardinality(s) \in Nat
  BY FS_Subset, FS_CardinalityType
<1>2. \A s \in SUBSET T : /\ R[s] = IF s = {} THEN 0 ELSE g[Some(s)] + R[s \ {Some(s)}]
                          /\ Q[s] = IF s = {} THEN 0 ELSE g[Some(s)] + Q[s \ {Some(s)}]
  BY <1>1 DEF Solves
<1>3. 0 \in N
  BY <1>1, <1>2, FS_EmptySet
<1>4. ASSUME NEW n \in Nat, n \in N PROVE n + 1 \in N
  <2> SUFFICES ASSUME NEW s \in SUBSET T, Cardinality(s) = n + 1 PROVE R[s] = Q[s]
    OBVIOUS
  <2>1. s # {}
    BY NotEmpty
  <2>2. s \ {Some(s)} \in SUBSET T /\ Cardinality(s \ {Some(s)}) = n
    <3>1. Some(s) \in s
      BY <2>1 DEF Some
    <3> QED BY <1>1, <3>1, OneLess
  <2>3. R[s \ {Some(s)}] = Q[s \ {Some(s)}]
    BY <1>4, <2>2
  <2> QED BY <1>2, <2>1, <2>3
<1>5. Nat \subseteq N
  <2> HIDE DEF N
  <2> QED BY <1>3, <1>4, NumbersFromZero
<1> QED BY <1>1, <1>5

\* The sum is the solution's value.
LEMMA SumIsLast ==
  ASSUME NEW g, NEW U, IsFiniteSet(U)
  PROVE  \E R : Solves(R, g, SUBSET U) /\ SumOver(g, U) = R[U]
<1> DEFINE R == CHOOSE Q : Solves(Q, g, SUBSET U)
<1>1. Solves(R, g, SUBSET U)
  BY SumsExist
<1>2. SumOver(g, U) = R[U]
  BY DEF SumOver, MapThenSumSet, MapThenFoldSet, Solves, Some
<1> QED BY <1>1, <1>2

\* A sum takes one of its elements after another.
LEMMA SumStep ==
  ASSUME NEW g, NEW U, IsFiniteSet(U)
  PROVE  SumOver(g, U) = IF U = {} THEN 0 ELSE g[Some(U)] + SumOver(g, U \ {Some(U)})
<1>1. PICK R : Solves(R, g, SUBSET U) /\ SumOver(g, U) = R[U]
  BY SumIsLast
<1>2. R[U] = IF U = {} THEN 0 ELSE g[Some(U)] + R[U \ {Some(U)}]
  BY <1>1 DEF Solves
<1>3. CASE U # {}
  <2>0. PICK T \in SUBSET U : T = U \ {Some(U)}
    OBVIOUS
  <2>1. IsFiniteSet(T)
    BY FS_Subset
  <2>2. PICK Q : Solves(Q, g, SUBSET T) /\ SumOver(g, T) = Q[T]
    BY <2>1, SumIsLast
  <2>3. R[T] = Q[T]
    <3>1. Solves(R, g, SUBSET U)
      BY <1>1
    <3>2. Solves(Q, g, SUBSET T)
      BY <2>2
    <3> HIDE DEF Solves
    <3> QED BY <3>1, <3>2, SumsAgree
  <2> QED BY <1>1, <1>2, <1>3, <2>0, <2>2, <2>3
<1> QED BY <1>1, <1>2, <1>3

\* A sum of numbers is a number.
LEMMA SumIsNat ==
  ASSUME NEW g, NEW U, IsFiniteSet(U), \A x \in U : g[x] \in Nat
  PROVE  \A s \in SUBSET U : SumOver(g, s) \in Nat
<1> DEFINE N == {n \in Nat : \A s \in SUBSET U : Cardinality(s) = n => SumOver(g, s) \in Nat}
<1>1. \A s \in SUBSET U : IsFiniteSet(s) /\ Cardinality(s) \in Nat
  BY FS_Subset, FS_CardinalityType
<1>2. 0 \in N
  <2>1. SumOver(g, {}) = 0
    BY SumStep, FS_EmptySet
  <2> QED BY <1>1, <2>1, FS_EmptySet
<1>3. ASSUME NEW n \in Nat, n \in N PROVE n + 1 \in N
  <2> SUFFICES ASSUME NEW s \in SUBSET U, Cardinality(s) = n + 1 PROVE SumOver(g, s) \in Nat
    OBVIOUS
  <2>1. s # {} /\ Some(s) \in s
    BY NotEmpty DEF Some
  <2>2. s \ {Some(s)} \in SUBSET U /\ Cardinality(s \ {Some(s)}) = n
    BY <1>1, <2>1, OneLess
  <2>3. SumOver(g, s) = g[Some(s)] + SumOver(g, s \ {Some(s)})
    BY <1>1, <2>1, SumStep
  <2> QED BY <1>3, <2>1, <2>2, <2>3
<1>4. Nat \subseteq N
  <2> HIDE DEF N
  <2> QED BY <1>2, <1>3, NumbersFromZero
<1> QED BY <1>1, <1>4

\* Whichever element is taken first, the sum is the same.
LEMMA SumTake ==
  ASSUME NEW g, NEW U, IsFiniteSet(U), \A x \in U : g[x] \in Nat
  PROVE  \A s \in SUBSET U : \A x \in s : SumOver(g, s) = g[x] + SumOver(g, s \ {x})
<1> DEFINE Good(s) == \A x \in s : SumOver(g, s) = g[x] + SumOver(g, s \ {x})
           N == {n \in Nat : \A s \in SUBSET U : Cardinality(s) = n => Good(s)}
<1>1. \A s \in SUBSET U : IsFiniteSet(s) /\ Cardinality(s) \in Nat /\ SumOver(g, s) \in Nat
  BY FS_Subset, FS_CardinalityType, SumIsNat
<1>2. 0 \in N
  <2>1. \A s \in SUBSET U : Cardinality(s) = 0 => s = {}
    BY <1>1, FS_EmptySet
  <2> QED BY <2>1
<1>3. ASSUME NEW n \in Nat, n \in N PROVE n + 1 \in N
  <2> SUFFICES ASSUME NEW s \in SUBSET U, Cardinality(s) = n + 1, NEW x \in s
               PROVE  SumOver(g, s) = g[x] + SumOver(g, s \ {x})
    OBVIOUS
  <2>1. PICK y \in s : SumOver(g, s) = g[y] + SumOver(g, s \ {y})
    <3>1. Some(s) \in s
      BY DEF Some
    <3> QED BY <1>1, <3>1, SumStep
  <2>2. CASE x = y
    BY <2>1, <2>2
  <2>3. CASE x # y
    <3>1. s \ {x} \in SUBSET U /\ Cardinality(s \ {x}) = n /\ y \in s \ {x}
      BY <1>1, <2>3, OneLess
    <3>2. s \ {y} \in SUBSET U /\ Cardinality(s \ {y}) = n /\ x \in s \ {y}
      BY <1>1, <2>3, OneLess
    <3>3. SumOver(g, s \ {x}) = g[y] + SumOver(g, (s \ {x}) \ {y})
      BY <1>3, <3>1
    <3>4. SumOver(g, s \ {y}) = g[x] + SumOver(g, (s \ {y}) \ {x})
      BY <1>3, <3>2
    <3>5. (s \ {x}) \ {y} = (s \ {y}) \ {x}
      OBVIOUS
    <3> DEFINE t == (s \ {y}) \ {x}
    <3>6. g[x] \in Nat /\ g[y] \in Nat /\ SumOver(g, t) \in Nat
      BY <1>1
    <3> HIDE DEF t
    <3>7. SumOver(g, s \ {x}) = g[y] + SumOver(g, t) /\ SumOver(g, s \ {y}) = g[x] + SumOver(g, t)
      BY <3>3, <3>4, <3>5 DEF t
    <3> QED BY <2>1, <3>6, <3>7
  <2> QED BY <2>2, <2>3
<1>4. Nat \subseteq N
  <2> HIDE DEF N
  <2> QED BY <1>2, <1>3, NumbersFromZero
<1> QED BY <1>1, <1>4

\* Of elements that count nothing, the sum is 0.
LEMMA SumZero ==
  ASSUME NEW g, NEW U, IsFiniteSet(U), \A x \in U : g[x] = 0
  PROVE  \A s \in SUBSET U : SumOver(g, s) = 0
<1> DEFINE P == {s \in SUBSET U : SumOver(g, s) = 0}
<1>1. {} \in P
  BY SumStep, FS_EmptySet
<1>2. ASSUME NEW s \in SUBSET U, NEW x \in U \ s, s \in P PROVE s \cup {x} \in P
  <2>1. s \cup {x} \in SUBSET U /\ x \in s \cup {x} /\ (s \cup {x}) \ {x} = s
    OBVIOUS
  <2>2. SumOver(g, s \cup {x}) = g[x] + SumOver(g, (s \cup {x}) \ {x})
    BY <2>1, SumTake
  <2> QED BY <1>2, <2>1, <2>2
<1>3. SUBSET U \subseteq P
  <2> HIDE DEF P
  <2> QED BY <1>1, <1>2, SetsFromEmpty
<1> QED BY <1>3

\* One element more.
LEMMA SumMore ==
  ASSUME NEW g, NEW U, IsFiniteSet(U), \A x \in U : g[x] \in Nat, NEW s \in SUBSET U, NEW x \in U \ s
  PROVE  SumOver(g, s \cup {x}) = g[x] + SumOver(g, s) /\ SumOver(g, s) \in Nat
<1>1. s \cup {x} \in SUBSET U /\ x \in s \cup {x} /\ (s \cup {x}) \ {x} = s
  OBVIOUS
<1>2. SumOver(g, s \cup {x}) = g[x] + SumOver(g, (s \cup {x}) \ {x})
  BY <1>1, SumTake
<1> QED BY <1>1, <1>2, SumIsNat

\* The sum of a sum of functions.
LEMMA SumPlus ==
  ASSUME NEW U, IsFiniteSet(U), NEW f, NEW g, NEW h,
         \A x \in U : f[x] \in Nat /\ g[x] \in Nat /\ h[x] = f[x] + g[x]
  PROVE  SumOver(h, U) = SumOver(f, U) + SumOver(g, U)
<1> DEFINE P == {s \in SUBSET U : SumOver(h, s) = SumOver(f, s) + SumOver(g, s)}
<1>1. {} \in P
  <2>1. SumOver(f, {}) = 0 /\ SumOver(g, {}) = 0 /\ SumOver(h, {}) = 0
    BY SumStep, FS_EmptySet
  <2> QED BY <2>1
<1>2. ASSUME NEW s \in SUBSET U, NEW x \in U \ s, s \in P PROVE s \cup {x} \in P
  <2>1. \A y \in U : h[y] \in Nat
    OBVIOUS
  <2>2. SumOver(f, s \cup {x}) = f[x] + SumOver(f, s) /\ SumOver(f, s) \in Nat
    BY SumMore
  <2>3. SumOver(g, s \cup {x}) = g[x] + SumOver(g, s) /\ SumOver(g, s) \in Nat
    BY SumMore
  <2>4. SumOver(h, s \cup {x}) = h[x] + SumOver(h, s) /\ SumOver(h, s) \in Nat
    BY <2>1, SumMore
  <2>5. SumOver(h, s) = SumOver(f, s) + SumOver(g, s)
    BY <1>2
  <2>6. f[x] \in Nat /\ g[x] \in Nat /\ h[x] = f[x] + g[x]
    OBVIOUS
  <2>7. SumOver(h, s \cup {x}) = SumOver(f, s \cup {x}) + SumOver(g, s \cup {x})
    BY <2>2, <2>3, <2>4, <2>5, <2>6
  <2> QED BY <2>7
<1>3. SUBSET U \subseteq P
  <2> HIDE DEF P
  <2> QED BY <1>1, <1>2, SetsFromEmpty
<1> QED BY <1>3

\* Functions that agree on a set have the same sum over it.
LEMMA SumSame ==
  ASSUME NEW U, IsFiniteSet(U), NEW f, NEW g, \A x \in U : f[x] \in Nat /\ g[x] = f[x]
  PROVE  SumOver(g, U) = SumOver(f, U)
<1>1. PICK z : z = [x \in U |-> 0]
  OBVIOUS
<1>2. SumOver(z, U) = 0
  BY <1>1, SumZero
<1>3. \A x \in U : z[x] \in Nat /\ g[x] = f[x] + z[x]
  BY <1>1
<1>4. SumOver(g, U) = SumOver(f, U) + SumOver(z, U)
  BY <1>3, SumPlus
<1>5. SumOver(f, U) \in Nat
  BY SumIsNat
<1> QED BY <1>2, <1>4, <1>5

\* What counts nothing can be left out of a sum.
LEMMA SumPart ==
  ASSUME NEW U, IsFiniteSet(U), NEW T \in SUBSET U, NEW g,
         \A x \in U : g[x] \in Nat, \A x \in U \ T : g[x] = 0
  PROVE  SumOver(g, T) = SumOver(g, U)
<1> DEFINE P == {s \in SUBSET U : SumOver(g, T \cap s) = SumOver(g, s)}
<1>1. {} \in P
  <2>1. T \cap {} = {}
    OBVIOUS
  <2> QED BY <2>1
<1>2. ASSUME NEW s \in SUBSET U, NEW x \in U \ s, s \in P PROVE s \cup {x} \in P
  <2>1. SumOver(g, s \cup {x}) = g[x] + SumOver(g, s) /\ SumOver(g, s) \in Nat
    BY SumMore
  <2>2. CASE x \in T
    <3>1. T \cap (s \cup {x}) = (T \cap s) \cup {x}
      BY <2>2
    <3>2. T \cap s \in SUBSET U /\ x \in U \ (T \cap s)
      OBVIOUS
    <3>3. SumOver(g, (T \cap s) \cup {x}) = g[x] + SumOver(g, T \cap s)
      BY <3>2, SumMore
    <3> QED BY <1>2, <2>1, <3>1, <3>3
  <2>3. CASE x \notin T
    <3>1. T \cap (s \cup {x}) = T \cap s /\ g[x] = 0
      BY <2>3
    <3>2. SumOver(g, T \cap s) = SumOver(g, s)
      BY <1>2
    <3>3. SumOver(g, s \cup {x}) = SumOver(g, s)
      BY <2>1, <3>1
    <3> QED BY <3>1, <3>2, <3>3
  <2> QED BY <2>2, <2>3
<1>3. SUBSET U \subseteq P
  <2> HIDE DEF P
  <2> QED BY <1>1, <1>2, SetsFromEmpty
<1>4. T \cap U = T
  OBVIOUS
<1> QED BY <1>3, <1>4

\* A sum of which one element counts.
LEMMA SumPoint ==
  ASSUME NEW U, IsFiniteSet(U), NEW y \in U, NEW g, g[y] \in Nat, \A x \in U : x # y => g[x] = 0
  PROVE  SumOver(g, U) = g[y]
<1>1. \A x \in U : g[x] \in Nat
  OBVIOUS
<1>2. SumOver(g, U) = g[y] + SumOver(g, U \ {y})
  BY <1>1, SumTake
<1>3. IsFiniteSet(U \ {y}) /\ \A x \in U \ {y} : g[x] = 0
  BY FS_Subset
<1>4. SumOver(g, U \ {y}) = 0
  BY <1>3, SumZero
<1> QED BY <1>2, <1>4

\* What is counted by groups is what is counted: b is the group of each element.
LEMMA SumOfGroups ==
  ASSUME NEW U, IsFiniteSet(U), NEW V, IsFiniteSet(V), NEW b, \A x \in U : b[x] \in V,
         NEW f, \A x \in U : f[x] \in Nat
  PROVE  SumOver([v \in V |-> SumOver(f, {x \in U : b[x] = v})], V) = SumOver(f, U)
<1> DEFINE F(s) == [v \in V |-> SumOver(f, {x \in s : b[x] = v})]
           P == {s \in SUBSET U : SumOver(F(s), V) = SumOver(f, s)}
<1>1. {} \in P
  <2>1. SumOver(f, {}) = 0
    BY SumStep, FS_EmptySet
  <2>2. \A v \in V : {x \in {} : b[x] = v} = {}
    OBVIOUS
  <2>3. \A v \in V : F({})[v] = 0
    BY <2>1, <2>2
  <2> HIDE DEF F
  <2>4. SumOver(F({}), V) = 0
    BY <2>3, SumZero
  <2> QED BY <2>1, <2>4
<1>2. ASSUME NEW s \in SUBSET U, NEW y \in U \ s, s \in P PROVE s \cup {y} \in P
  <2>1. PICK p : p = [v \in V |-> IF v = b[y] THEN f[y] ELSE 0]
    OBVIOUS
  <2>2. SumOver(p, V) = f[y]
    <3>1. p[b[y]] = f[y] /\ b[y] \in V /\ f[y] \in Nat /\ \A v \in V : v # b[y] => p[v] = 0
      BY <2>1
    <3> QED BY <3>1, SumPoint
  <2>3. ASSUME NEW v \in V
        PROVE  F(s)[v] \in Nat /\ p[v] \in Nat /\ F(s \cup {y})[v] = F(s)[v] + p[v]
    <3> DEFINE G == {x \in s : b[x] = v}
               H == {x \in s \cup {y} : b[x] = v}
    <3>1. G \in SUBSET U /\ y \in U \ G /\ F(s)[v] = SumOver(f, G) /\ F(s \cup {y})[v] = SumOver(f, H)
      OBVIOUS
    <3>2. SumOver(f, G) \in Nat /\ SumOver(f, G \cup {y}) = f[y] + SumOver(f, G) /\ f[y] \in Nat
      <4> HIDE DEF G
      <4> QED BY <3>1, SumMore
    <3>3. CASE b[y] = v
      <4>1. H = G \cup {y} /\ p[v] = f[y]
        BY <2>1, <3>3
      <4> HIDE DEF G, H, F
      <4> QED BY <3>1, <3>2, <4>1
    <3>4. CASE b[y] # v
      <4>1. H = G /\ p[v] = 0
        BY <2>1, <3>4
      <4> HIDE DEF G, H, F
      <4> QED BY <3>1, <3>2, <4>1
    <3> QED BY <3>3, <3>4
  <2>4. SumOver(F(s \cup {y}), V) = SumOver(F(s), V) + SumOver(p, V)
    <3> HIDE DEF F
    <3> QED BY <2>3, SumPlus
  <2>5. SumOver(f, s \cup {y}) = f[y] + SumOver(f, s) /\ SumOver(f, s) \in Nat
    BY SumMore
  <2>6. SumOver(F(s), V) = SumOver(f, s)
    BY <1>2
  <2>7. f[y] \in Nat
    OBVIOUS
  <2>8. SumOver(F(s \cup {y}), V) = SumOver(f, s \cup {y})
    <3> HIDE DEF F
    <3> QED BY <2>2, <2>4, <2>5, <2>6, <2>7
  <2> QED BY <2>8
<1>3. SUBSET U \subseteq P
  <2> HIDE DEF P
  <2> QED BY <1>1, <1>2, SetsFromEmpty
<1>4. U \in P
  <2> HIDE DEF P
  <2> QED BY <1>3
<1> QED BY <1>4

----------------------------------------------------------------------------
(* Counts of requests                                                      *)

Count(r, t, W) == MapThenSumSet(LAMBDA x : r[t][x], {x \in W : r[t][x] > 0})
Total(r, W, S) == MapThenSumSet(LAMBDA t : Count(r, t, W), S)
Sums(r, W) == [t \in Tiers |-> SumOver(r[t], W)]
Tables == [Tiers -> [Times -> Nat]]

\* There are finitely many tiers, and times before the bound.
LEMMA FiniteTables == IsFiniteSet(Tiers) /\ IsFiniteSet(Times)
BY StatsAssumption, FS_Interval DEF Times

\* A count is the sum of the rows.
LEMMA CountIs ==
  ASSUME NEW r \in Tables, NEW t \in Tiers, NEW W \in SUBSET Times
  PROVE  Count(r, t, W) = SumOver(r[t], W) /\ SumOver(r[t], W) \in Nat
<1>1. PICK g : g = r[t]
  OBVIOUS
<1>2. IsFiniteSet(W) /\ \A x \in W : g[x] \in Nat
  BY <1>1, FiniteTables, FS_Subset DEF Tables
<1>3. PICK V \in SUBSET W : V = {x \in W : g[x] > 0}
  OBVIOUS
<1>4. \A x \in W \ V : g[x] = 0
  BY <1>2, <1>3
<1>5. SumOver(g, V) = SumOver(g, W)
  BY <1>2, <1>4, SumPart
<1>6. Count(r, t, W) = SumOver(g, V)
  BY <1>1, <1>3 DEF Count, SumOver
<1> QED BY <1>1, <1>2, <1>5, <1>6, SumIsNat

\* A total is the sum of the sums.
LEMMA TotalIs ==
  ASSUME NEW r \in Tables, NEW W \in SUBSET Times, NEW S \in SUBSET Tiers
  PROVE  Total(r, W, S) = SumOver(Sums(r, W), S)
<1> DEFINE Sol(Q) == Q = [s \in SUBSET S |-> IF s = {} THEN 0
                                 ELSE Count(r, Some(s), W) + Q[s \ {Some(s)}]]
           R == CHOOSE Q : Sol(Q)
<1>1. IsFiniteSet(S)
  BY FiniteTables, FS_Subset
<1>2. PICK g : g = Sums(r, W)
  OBVIOUS
<1>3. \A s \in SUBSET S : s # {} => g[Some(s)] = Count(r, Some(s), W)
  BY <1>2, CountIs DEF Sums, Some
<1>4. \A Q : Solves(Q, g, SUBSET S) <=> Sol(Q)
  <2> TAKE Q
  <2>1. \A s \in SUBSET S : (IF s = {} THEN 0 ELSE g[Some(s)] + Q[s \ {Some(s)}])
                          = (IF s = {} THEN 0 ELSE Count(r, Some(s), W) + Q[s \ {Some(s)}])
    BY <1>3
  <2> QED BY <2>1 DEF Solves
<1>5. \E Q : Sol(Q)
  BY <1>1, <1>4, SumsExist
<1>6. Sol(R)
  <2> HIDE DEF Sol
  <2> QED BY <1>5
<1>7. Solves(R, g, SUBSET S)
  <2> HIDE DEF Sol, R
  <2> QED BY <1>4, <1>6
<1>8. Total(r, W, S) = R[S]
  BY DEF Total, MapThenSumSet, MapThenFoldSet, Some
<1>9. PICK Q : Solves(Q, g, SUBSET S) /\ SumOver(g, S) = Q[S]
  BY <1>1, SumIsLast
<1>10. Q[S] = R[S]
  <2> HIDE DEF R, Sol
  <2>1. Solves(Q, g, SUBSET S)
    BY <1>9
  <2> QED BY <1>1, <1>7, <2>1, SumsAgree
<1> QED BY <1>2, <1>8, <1>9, <1>10

\* Totals are numbers.
LEMMA TotalIsNat ==
  ASSUME NEW r \in Tables, NEW W \in SUBSET Times
  PROVE  \A t \in Tiers : Sums(r, W)[t] = SumOver(r[t], W) /\ Sums(r, W)[t] \in Nat
BY CountIs DEF Sums

\* A change of one tier changes the total by that tier's sum.
LEMMA OneTierChanges ==
  ASSUME NEW r \in Tables, NEW q \in Tables, NEW t \in Tiers, \A u \in Tiers \ {t} : q[u] = r[u]
  PROVE  \E rest \in Nat : /\ Total(r, Times, Tiers) = SumOver(r[t], Times) + rest
                           /\ Total(q, Times, Tiers) = SumOver(q[t], Times) + rest
<1>1. PICK f : f = Sums(r, Times)
  OBVIOUS
<1>2. PICK g : g = Sums(q, Times)
  OBVIOUS
<1>3. \A u \in Tiers : f[u] = SumOver(r[u], Times) /\ f[u] \in Nat
  BY <1>1, TotalIsNat
<1>4. \A u \in Tiers : g[u] = SumOver(q[u], Times) /\ g[u] \in Nat
  BY <1>2, TotalIsNat
<1>5. SumOver(f, Tiers) = f[t] + SumOver(f, Tiers \ {t}) /\ SumOver(f, Tiers \ {t}) \in Nat
  BY <1>3, FiniteTables, SumTake, SumIsNat
<1>6. SumOver(g, Tiers) = g[t] + SumOver(g, Tiers \ {t})
  BY <1>4, FiniteTables, SumTake
<1>7. SumOver(g, Tiers \ {t}) = SumOver(f, Tiers \ {t})
  <2>1. IsFiniteSet(Tiers \ {t}) /\ \A u \in Tiers \ {t} : f[u] \in Nat /\ g[u] = f[u]
    BY <1>3, <1>4, FiniteTables, FS_Subset
  <2> QED BY <2>1, SumSame
<1>8. Total(r, Times, Tiers) = SumOver(f, Tiers) /\ Total(q, Times, Tiers) = SumOver(g, Tiers)
  BY <1>1, <1>2, TotalIs
<1> QED BY <1>3, <1>4, <1>5, <1>6, <1>7, <1>8

\* What a flush adds.
LEMMA InsertSum ==
  ASSUME NEW f, NEW g, NEW x \in Times, NEW n \in Nat, \A y \in Times : f[y] \in Nat,
         \A y \in Times : g[y] = IF y = x THEN f[y] + n ELSE f[y]
  PROVE  SumOver(g, Times) = SumOver(f, Times) + n
<1>1. PICK p : p = [y \in Times |-> IF y = x THEN n ELSE 0]
  OBVIOUS
<1>2. p[x] = n /\ (\A y \in Times : y # x => p[y] = 0) /\ \A y \in Times : p[y] \in Nat
  BY <1>1
<1>3. SumOver(p, Times) = n
  BY <1>2, FiniteTables, SumPoint
<1>4. \A y \in Times : f[y] \in Nat /\ p[y] \in Nat /\ g[y] = f[y] + p[y]
  BY <1>1
<1>5. SumOver(g, Times) = SumOver(f, Times) + SumOver(p, Times)
  BY <1>4, FiniteTables, SumPlus
<1> QED BY <1>3, <1>5

\* What goes with the rows before a cutoff.
LEMMA CutSum ==
  ASSUME NEW f, NEW g, NEW c, \A y \in Times : f[y] \in Nat,
         \A y \in Times : g[y] = IF y < c THEN 0 ELSE f[y]
  PROVE  /\ SumOver(f, Times) = SumOver(g, Times) + SumOver(f, Older(c))
         /\ SumOver(g, Times) \in Nat /\ SumOver(f, Older(c)) \in Nat
<1>1. PICK o : o = [y \in Times |-> IF y < c THEN f[y] ELSE 0]
  OBVIOUS
<1>2. IsFiniteSet(Times) /\ Older(c) \in SUBSET Times /\ IsFiniteSet(Older(c))
  BY FiniteTables, FS_Subset DEF Older
<1>3. \A y \in Times : g[y] \in Nat /\ o[y] \in Nat /\ f[y] = g[y] + o[y]
  BY <1>1
<1>4. SumOver(f, Times) = SumOver(g, Times) + SumOver(o, Times)
  BY <1>2, <1>3, SumPlus
<1>5. \A y \in Times \ Older(c) : o[y] = 0
  BY <1>1 DEF Older
<1>6. SumOver(o, Older(c)) = SumOver(o, Times)
  BY <1>2, <1>3, <1>5, SumPart
<1>7. \A y \in Older(c) : f[y] \in Nat /\ o[y] = f[y]
  BY <1>1 DEF Older
<1>8. SumOver(o, Older(c)) = SumOver(f, Older(c))
  BY <1>2, <1>7, SumSame
<1>9. SumOver(g, Times) \in Nat /\ SumOver(f, Older(c)) \in Nat
  BY <1>2, <1>3, <1>7, SumIsNat
<1> QED BY <1>4, <1>6, <1>8, <1>9

\* A bucket starts no later than what is in it.
LEMMA BucketStart ==
  ASSUME NEW t \in Tiers, NEW x \in Times
  PROVE  Bucket(t, x) \in Times /\ Bucket(t, x) <= x
<1>1. PICK k \in Nat \ {0} : k = TierBucket[t]
  BY StatsAssumption
<1>2. x \in Nat /\ x <= MaxNow /\ MaxNow \in Nat
  BY StatsAssumption DEF Times
<1>3. PICK m \in Int : m = x \div k
  BY <1>1, <1>2
<1>4. m \in Nat /\ m * k <= x
  BY <1>1, <1>2, <1>3
<1>5. m * k \in Nat
  BY <1>1, <1>4
<1> QED BY <1>1, <1>2, <1>3, <1>4, <1>5 DEF Bucket, Times

\* Grouping rows into buckets keeps their number.
LEMMA GroupSum ==
  ASSUME NEW r \in Tables, NEW t \in Tiers, NEW u \in Tiers, NEW c, NEW g,
         \A y \in Times : g[y] = r[u][y] + Count(r, t, {x \in Older(c) : Bucket(u, x) = y})
  PROVE  /\ SumOver(g, Times) = SumOver(r[u], Times) + SumOver(r[t], Older(c))
         /\ \A y \in Times : g[y] \in Nat
<1>1. PICK b : b = [x \in Times |-> Bucket(u, x)]
  OBVIOUS
<1>2. PICK f : f = r[t]
  OBVIOUS
<1>3. PICK h : h = r[u]
  OBVIOUS
<1>4. IsFiniteSet(Times) /\ Older(c) \in SUBSET Times /\ IsFiniteSet(Older(c))
  BY FiniteTables, FS_Subset DEF Older
<1>5. (\A x \in Older(c) : b[x] \in Times /\ f[x] \in Nat) /\ \A x \in Times : h[x] \in Nat
  BY <1>1, <1>2, <1>3, <1>4, BucketStart DEF Tables
<1>6. PICK p : p = [v \in Times |-> SumOver(f, {x \in Older(c) : b[x] = v})]
  OBVIOUS
<1>7. SumOver(p, Times) = SumOver(f, Older(c))
  <2>1. SumOver([v \in Times |-> SumOver(f, {x \in Older(c) : b[x] = v})], Times) = SumOver(f, Older(c))
    BY <1>4, <1>5, SumOfGroups
  <2> QED BY <1>6, <2>1
<1>8. ASSUME NEW y \in Times PROVE h[y] \in Nat /\ p[y] \in Nat /\ g[y] = h[y] + p[y]
  <2>1. PICK W \in SUBSET Times : W = {x \in Older(c) : b[x] = y}
    BY <1>4
  <2>2. W = {x \in Older(c) : Bucket(u, x) = y}
    BY <1>1, <1>4, <2>1
  <2>3. Count(r, t, W) = SumOver(f, W) /\ SumOver(f, W) \in Nat
    BY <1>2, CountIs
  <2>4. p[y] = SumOver(f, W)
    BY <1>6, <2>1
  <2>5. g[y] = h[y] + Count(r, t, W)
    BY <1>3, <2>2
  <2> QED BY <1>5, <2>3, <2>4, <2>5
<1>9. SumOver(g, Times) = SumOver(h, Times) + SumOver(p, Times)
  BY <1>4, <1>8, SumPlus
<1> QED BY <1>2, <1>3, <1>7, <1>8, <1>9

----------------------------------------------------------------------------
(* The invariant                                                           *)

StatsTyped ==
  /\ time \in Times
  /\ rows \in Tables
  /\ pend \in [ts : 0 .. time, n : Nat]
  /\ roll \in [pc : {"idle", "roll", "prune"}, tier : Tiers, time : 0 .. time]
  /\ roll.pc = "roll" => roll.tier # LastTier
  /\ stored \in Nat /\ pruned \in Nat

\* A row is in a coarser tier only if it is older than the window of the finer one.
MovedIsOld == \A t \in Tiers \ {LastTier}, x \in Times : rows[t + 1][x] > 0 => x < time - TierCut[t]

Balanced == Total(rows, Times, Tiers) + pruned = stored

StatsInv == StatsTyped /\ MovedIsOld /\ Balanced

\* Tiers and their neighbours.
LEMMA TierFacts ==
  /\ 1 \in Tiers /\ LastTier \in Tiers /\ 1 # LastTier
  /\ \A t \in Tiers : t \in Nat /\ t >= 1 /\ t <= LastTier
  /\ \A t \in Tiers \ {LastTier} : t + 1 \in Tiers /\ t + 1 # t /\ t + 1 # 1
  /\ \A t \in Tiers \ {LastTier} : TierCut[t] \in Nat
BY StatsAssumption

\* An empty table has the total 0.
LEMMA EmptyTotal == NoRows \in Tables /\ Total(NoRows, Times, Tiers) = 0
<1>1. NoRows \in Tables
  BY DEF NoRows, Tables
<1>2. PICK f : f = Sums(NoRows, Times)
  OBVIOUS
<1>3. ASSUME NEW t \in Tiers PROVE f[t] = 0
  <2>1. PICK g : g = NoRows[t]
    OBVIOUS
  <2>2. \A x \in Times : g[x] = 0
    BY <2>1 DEF NoRows
  <2>3. SumOver(g, Times) = 0
    BY <2>2, FiniteTables, SumZero
  <2> QED BY <1>2, <2>1, <2>3 DEF Sums
<1>4. SumOver(f, Tiers) = 0
  BY <1>3, FiniteTables, SumZero
<1> QED BY <1>1, <1>2, <1>4, TotalIs

\* Before the first request nothing is stored.
LEMMA StatsInitInv == StatsInit => StatsInv
<1> SUFFICES ASSUME StatsInit PROVE StatsInv
  OBVIOUS
<1>1. 0 \in Times /\ 0 .. 0 = {0}
  BY StatsAssumption DEF Times
<1>2. StatsTyped
  BY <1>1, TierFacts, EmptyTotal DEF StatsInit, StatsTyped, NoPend, RollIdle
<1>3. MovedIsOld
  BY TierFacts DEF StatsInit, MovedIsOld, NoRows
<1>4. Balanced
  BY EmptyTotal DEF StatsInit, Balanced
<1> QED BY <1>2, <1>3, <1>4 DEF StatsInv

\* Steps that leave the rows alone: requests, the clock, and what the rollup does
\* between its statements.
LEMMA QuietKeeps ==
  ASSUME StatsInv, UNCHANGED <<rows, stored, pruned>>, time' \in Times, time' >= time,
         pend' \in [ts : 0 .. time', n : Nat],
         roll' \in [pc : {"idle", "roll", "prune"}, tier : Tiers, time : 0 .. time'],
         roll'.pc = "roll" => roll'.tier # LastTier
  PROVE  StatsInv'
<1>1. StatsTyped'
  BY DEF StatsInv, StatsTyped
<1>2. MovedIsOld'
  <2> SUFFICES ASSUME NEW t \in Tiers \ {LastTier}, NEW x \in Times, rows[t + 1][x] > 0
               PROVE  x < time' - TierCut[t]
    BY DEF MovedIsOld
  <2>1. x < time - TierCut[t]
    BY DEF StatsInv, MovedIsOld
  <2>2. time \in Int /\ time' \in Int /\ x \in Int /\ TierCut[t] \in Int
    BY TierFacts, StatsAssumption DEF StatsInv, StatsTyped, Times
  <2> QED BY <2>1, <2>2
<1>3. Balanced'
  BY DEF StatsInv, Balanced
<1> QED BY <1>1, <1>2, <1>3 DEF StatsInv

\* A flush adds what it stores, in the raw tier.
LEMMA InsertKeeps == StatsInv /\ InsertRequestMetrics => StatsInv'
<1> SUFFICES ASSUME StatsInv, InsertRequestMetrics PROVE StatsInv'
  OBVIOUS
<1>1. time \in Times /\ time \in Nat /\ 0 \in 0 .. time /\ NoPend \in [ts : 0 .. time, n : Nat]
  BY StatsAssumption DEF StatsInv, StatsTyped, Times, NoPend
<1>2. CASE UNCHANGED <<rows, stored>>
  BY <1>1, <1>2, QuietKeeps DEF InsertRequestMetrics, StatsInv, StatsTyped
<1>3. CASE rows' = [rows EXCEPT ![1][pend.ts] = @ + pend.n] /\ stored' = stored + pend.n
  <2>1. PICK x \in Times, n \in Nat : x = pend.ts /\ n = pend.n
    <3>1. pend.ts \in Times /\ pend.n \in Nat
      BY <1>1, StatsAssumption DEF StatsInv, StatsTyped, Times
    <3> QED BY <3>1
  <2>2. PICK r \in Tables : r = rows
    BY DEF StatsInv, StatsTyped
  <2>3. PICK q : q = [r EXCEPT ![1] = [r[1] EXCEPT ![x] = r[1][x] + n]]
    OBVIOUS
  <2>4. rows' = q
    BY <1>3, <2>1, <2>2, <2>3
  <2>5. /\ \A y \in Times : r[1][y] \in Nat /\ q[1][y] = IF y = x THEN r[1][y] + n ELSE r[1][y]
        /\ \A u \in Tiers \ {1} : q[u] = r[u]
        /\ q \in Tables
    BY <2>2, <2>3, TierFacts DEF Tables
  <2>6. SumOver(q[1], Times) = SumOver(r[1], Times) + n
    <3>1. PICK f, g : f = r[1] /\ g = q[1]
      OBVIOUS
    <3>2. \A y \in Times : f[y] \in Nat /\ g[y] = IF y = x THEN f[y] + n ELSE f[y]
      BY <2>5, <3>1
    <3>3. SumOver(g, Times) = SumOver(f, Times) + n
      BY <3>2, InsertSum
    <3> QED BY <3>1, <3>3
  <2>7. PICK rest \in Nat : /\ Total(r, Times, Tiers) = SumOver(r[1], Times) + rest
                            /\ Total(q, Times, Tiers) = SumOver(q[1], Times) + rest
    BY <2>5, TierFacts, OneTierChanges
  <2>8. SumOver(r[1], Times) \in Nat
    BY CountIs, TierFacts
  <2>9. Balanced'
    <3>1. Total(r, Times, Tiers) + pruned = stored /\ pruned \in Nat /\ stored \in Nat
      BY <2>2 DEF StatsInv, StatsTyped, Balanced
    <3>2. Total(q, Times, Tiers) + pruned = stored + n
      BY <2>6, <2>7, <2>8, <3>1
    <3>3. stored' = stored + n /\ pruned' = pruned
      BY <1>3, <2>1 DEF InsertRequestMetrics
    <3> QED BY <2>4, <3>2, <3>3 DEF Balanced
  <2>10. StatsTyped'
    <3>1. time' = time /\ roll' = roll /\ pruned' = pruned /\ pend' = NoPend
      BY DEF InsertRequestMetrics
    <3>2. stored' \in Nat
      BY <1>3, <2>1 DEF StatsInv, StatsTyped
    <3> QED BY <1>1, <2>4, <2>5, <3>1, <3>2 DEF StatsInv, StatsTyped
  <2>11. MovedIsOld'
    BY <2>2, <2>4, <2>5, TierFacts DEF InsertRequestMetrics, StatsInv, MovedIsOld
  <2> QED BY <2>9, <2>10, <2>11 DEF StatsInv
<1> QED BY <1>2, <1>3 DEF InsertRequestMetrics

\* A prune counts what it deletes.
LEMMA PruneKeeps ==
  ASSUME StatsInv, NEW t \in Tiers, NEW c \in Int, Prune(t, c), UNCHANGED <<time, pend, stored>>,
         roll' \in [pc : {"idle", "roll", "prune"}, tier : Tiers, time : 0 .. time],
         roll'.pc = "roll" => roll'.tier # LastTier
  PROVE  StatsInv'
<1>1. PICK r \in Tables : r = rows
  BY DEF StatsInv, StatsTyped
<1>2. PICK q : q = [r EXCEPT ![t] = [x \in Times |-> IF x < c THEN 0 ELSE r[t][x]]]
  OBVIOUS
<1>3. rows' = q
  BY <1>1, <1>2 DEF Prune
<1>4. /\ \A y \in Times : r[t][y] \in Nat /\ q[t][y] = IF y < c THEN 0 ELSE r[t][y]
      /\ \A u \in Tiers \ {t} : q[u] = r[u]
      /\ q \in Tables
  BY <1>2 DEF Tables
<1>5. /\ SumOver(r[t], Times) = SumOver(q[t], Times) + SumOver(r[t], Older(c))
      /\ SumOver(q[t], Times) \in Nat /\ SumOver(r[t], Older(c)) \in Nat
  BY <1>4, CutSum
<1>6. PICK rest \in Nat : /\ Total(r, Times, Tiers) = SumOver(r[t], Times) + rest
                          /\ Total(q, Times, Tiers) = SumOver(q[t], Times) + rest
  BY <1>4, OneTierChanges
<1>7. pruned' = pruned + SumOver(r[t], Older(c))
  <2>1. Older(c) \in SUBSET Times
    BY DEF Older
  <2>2. Count(r, t, Older(c)) = SumOver(r[t], Older(c))
    BY <2>1, CountIs
  <2>3. pruned' = pruned + Count(rows, t, Older(c))
    BY DEF Prune, CountOf, Count
  <2> QED BY <1>1, <2>2, <2>3
<1>8. Balanced'
  <2>1. Total(r, Times, Tiers) + pruned = stored /\ pruned \in Nat /\ stored \in Nat
    BY <1>1 DEF StatsInv, StatsTyped, Balanced
  <2>2. Total(q, Times, Tiers) + (pruned + SumOver(r[t], Older(c))) = stored
    BY <1>5, <1>6, <2>1
  <2> QED BY <1>3, <1>7, <2>2 DEF Balanced
<1>9. StatsTyped'
  BY <1>3, <1>4, <1>5, <1>7 DEF StatsInv, StatsTyped
<1>10. MovedIsOld'
  <2> SUFFICES ASSUME NEW u \in Tiers \ {LastTier}, NEW x \in Times, q[u + 1][x] > 0
               PROVE  x < time - TierCut[u]
    BY <1>3 DEF MovedIsOld
  <2>1. r[u + 1][x] > 0
    BY <1>4, TierFacts
  <2> QED BY <1>1, <2>1 DEF StatsInv, MovedIsOld
<1> QED BY <1>8, <1>9, <1>10 DEF StatsInv

\* A rollup moves rows and keeps their number, whatever time has passed since the
\* round started.
LEMMA AggregateKeeps == StatsInv /\ AggregateRequestMetrics => StatsInv'
<1> SUFFICES ASSUME StatsInv, AggregateRequestMetrics PROVE StatsInv'
  OBVIOUS
<1>1. PICK t \in Tiers \ {LastTier} : t = roll.tier
  BY DEF AggregateRequestMetrics, StatsInv, StatsTyped
<1>2. PICK c \in Int : c = roll.time - TierCut[t] /\ c <= time - TierCut[t]
  <2>1. roll.time \in Int /\ roll.time <= time /\ time \in Int /\ TierCut[t] \in Int
    BY TierFacts, StatsAssumption DEF StatsInv, StatsTyped, Times
  <2> QED BY <2>1
<1>3. PICK r \in Tables : r = rows
  BY DEF StatsInv, StatsTyped
<1>4. PICK q : q = rows'
  OBVIOUS
<1>5. t + 1 \in Tiers /\ t + 1 # t /\ t + 1 # 1 /\ t \in Tiers
  BY TierFacts
<1>6. /\ \A y \in Times : q[t][y] = IF y < c THEN 0 ELSE r[t][y]
      /\ \A y \in Times : q[t + 1][y] = r[t + 1][y] + Count(r, t, {x \in Older(c) : Bucket(t + 1, x) = y})
      /\ \A u \in Tiers \ {t, t + 1} : q[u] = r[u]
      /\ q = [u \in Tiers |-> q[u]]
      /\ q[t] = [y \in Times |-> q[t][y]] /\ q[t + 1] = [y \in Times |-> q[t + 1][y]]
  <2>1. q = Aggregated(t, c)
    BY <1>1, <1>2, <1>4 DEF AggregateRequestMetrics
  <2>2. \A y \in Times : CountOf(t, {x \in Older(c) : Bucket(t + 1, x) = y})
                        = Count(r, t, {x \in Older(c) : Bucket(t + 1, x) = y})
    BY <1>3 DEF CountOf, Count
  <2> HIDE DEF CountOf
  <2> QED BY <1>3, <1>5, <2>1, <2>2 DEF Aggregated, Tables
<1>7. \A y \in Times : q[t][y] \in Nat /\ r[t][y] \in Nat
  BY <1>5, <1>6 DEF Tables
<1>8. /\ SumOver(r[t], Times) = SumOver(q[t], Times) + SumOver(r[t], Older(c))
      /\ SumOver(q[t], Times) \in Nat /\ SumOver(r[t], Older(c)) \in Nat
  <2>1. PICK f, g : f = r[t] /\ g = q[t]
    OBVIOUS
  <2>2. (\A y \in Times : f[y] \in Nat) /\ \A y \in Times : g[y] = IF y < c THEN 0 ELSE f[y]
    BY <1>6, <1>7, <2>1
  <2>3. /\ SumOver(f, Times) = SumOver(g, Times) + SumOver(f, Older(c))
        /\ SumOver(g, Times) \in Nat /\ SumOver(f, Older(c)) \in Nat
    BY <2>2, CutSum
  <2> QED BY <2>1, <2>3
<1>9. /\ SumOver(q[t + 1], Times) = SumOver(r[t + 1], Times) + SumOver(r[t], Older(c))
      /\ \A y \in Times : q[t + 1][y] \in Nat
  <2>0. PICK g : g = q[t + 1]
    OBVIOUS
  <2>1. PICK u \in Tiers : u = t + 1
    BY <1>5
  <2>2. \A y \in Times : g[y] = r[u][y] + Count(r, t, {x \in Older(c) : Bucket(u, x) = y})
    BY <1>6, <2>0, <2>1
  <2>3. /\ SumOver(g, Times) = SumOver(r[u], Times) + SumOver(r[t], Older(c))
        /\ \A y \in Times : g[y] \in Nat
    BY <1>5, <2>2, GroupSum
  <2> QED BY <2>0, <2>1, <2>3
<1>10. q \in Tables
  <2>1. q[t] \in [Times -> Nat]
    BY <1>6, <1>7
  <2>2. q[t + 1] \in [Times -> Nat]
    BY <1>6, <1>9
  <2>3. \A u \in Tiers : q[u] \in [Times -> Nat]
    BY <1>6, <2>1, <2>2 DEF Tables
  <2> QED BY <1>6, <2>3 DEF Tables
<1>11. Total(q, Times, Tiers) = Total(r, Times, Tiers)
  <2>1. PICK m : m = [r EXCEPT ![t] = q[t]]
    OBVIOUS
  <2>2. m \in Tables /\ m[t] = q[t] /\ m[t + 1] = r[t + 1]
    BY <1>5, <1>10, <2>1 DEF Tables
  <2>3. (\A u \in Tiers \ {t} : m[u] = r[u]) /\ \A u \in Tiers \ {t + 1} : q[u] = m[u]
    BY <1>5, <1>6, <2>1 DEF Tables
  <2>4. PICK k \in Nat : /\ Total(r, Times, Tiers) = SumOver(r[t], Times) + k
                         /\ Total(m, Times, Tiers) = SumOver(m[t], Times) + k
    BY <1>5, <2>2, <2>3, OneTierChanges
  <2>5. PICK l \in Nat : /\ Total(m, Times, Tiers) = SumOver(m[t + 1], Times) + l
                         /\ Total(q, Times, Tiers) = SumOver(q[t + 1], Times) + l
    BY <1>5, <1>10, <2>2, <2>3, OneTierChanges
  <2>6. SumOver(r[t + 1], Times) \in Nat
    BY <1>5, CountIs
  <2> QED BY <1>8, <1>9, <2>2, <2>4, <2>5, <2>6
<1>12. Balanced'
  BY <1>3, <1>4, <1>11 DEF AggregateRequestMetrics, StatsInv, Balanced
<1>13. StatsTyped'
  <2>1. roll' \in [pc : {"idle", "roll", "prune"}, tier : Tiers, time : 0 .. time]
    <3>1. roll.pc = "roll" /\ roll.time \in 0 .. time
      BY DEF AggregateRequestMetrics, StatsInv, StatsTyped
    <3>2. roll = [pc |-> roll.pc, tier |-> roll.tier, time |-> roll.time]
      BY DEF StatsInv, StatsTyped
    <3>3. \/ roll' = [pc |-> "prune", tier |-> 1, time |-> roll.time]
          \/ roll' = [pc |-> "roll", tier |-> t + 1, time |-> roll.time]
      BY <1>1, <3>1, <3>2 DEF AggregateRequestMetrics
    <3> QED BY <1>5, <3>1, <3>3, TierFacts
  <2>2. roll'.pc = "roll" => roll'.tier # LastTier
    <3>1. CASE roll.tier + 1 = LastTier
      BY <3>1 DEF AggregateRequestMetrics
    <3>2. CASE roll.tier + 1 # LastTier
      BY <3>2 DEF AggregateRequestMetrics, StatsInv, StatsTyped
    <3> QED BY <3>1, <3>2
  <2>3. UNCHANGED <<time, pend, stored, pruned>>
    BY DEF AggregateRequestMetrics
  <2> QED BY <1>4, <1>10, <2>1, <2>2, <2>3 DEF StatsInv, StatsTyped
<1>14. MovedIsOld'
  <2> SUFFICES ASSUME NEW u \in Tiers \ {LastTier}, NEW x \in Times, q[u + 1][x] > 0
               PROVE  x < time - TierCut[u]
    BY <1>4 DEF MovedIsOld, AggregateRequestMetrics
  <2>1. r[u + 1][x] > 0 => x < time - TierCut[u]
    BY <1>3 DEF StatsInv, MovedIsOld
  <2>2. CASE u = t
    <3> SUFFICES ASSUME r[t + 1][x] = 0 PROVE x < time - TierCut[t]
      BY <1>5, <2>1, <2>2 DEF Tables
    <3>1. PICK W \in SUBSET Times : W = {z \in Older(c) : Bucket(t + 1, z) = x}
      BY DEF Older
    <3>2. Count(r, t, W) > 0
      <4>1. q[t + 1][x] = r[t + 1][x] + Count(r, t, W)
        BY <1>6, <3>1
      <4>2. Count(r, t, W) \in Nat
        BY <1>5, CountIs
      <4> QED BY <2>2, <4>1, <4>2
    <3>3. W # {}
      <4>1. SumOver(r[t], {}) = 0
        BY SumStep, FS_EmptySet
      <4>2. Count(r, t, W) = SumOver(r[t], W)
        BY <1>5, CountIs
      <4> QED BY <3>2, <4>1, <4>2
    <3>4. PICK z \in Times : z < c /\ Bucket(t + 1, z) = x
      BY <3>1, <3>3 DEF Older
    <3>5. x <= z
      BY <1>5, <3>4, BucketStart
    <3>6. x \in Int /\ z \in Int /\ time - TierCut[t] \in Int
      BY TierFacts, StatsAssumption DEF StatsInv, StatsTyped, Times
    <3> QED BY <1>2, <3>4, <3>5, <3>6
  <2>3. CASE u + 1 = t
    <3>1. r[t][x] > 0
      BY <1>6, <1>7, <2>3
    <3> QED BY <2>1, <2>3, <3>1
  <2>4. CASE u # t /\ u + 1 # t
    <3>1. u + 1 \in Tiers \ {t, t + 1}
      BY <2>4, TierFacts
    <3> QED BY <1>6, <2>1, <3>1
  <2> QED BY <2>2, <2>3, <2>4
<1> QED BY <1>12, <1>13, <1>14 DEF StatsInv

\* Every action of the statistics keeps the invariant.
LEMMA StatsNextInv == StatsInv /\ [StatsNext]_statsVars => StatsInv'
<1> SUFFICES ASSUME StatsInv, [StatsNext]_statsVars PROVE StatsInv'
  OBVIOUS
<1> DEFINE Pends == [ts : 0 .. time, n : Nat]
           Rolls == [pc : {"idle", "roll", "prune"}, tier : Tiers, time : 0 .. time]
<1>1. /\ time \in Times /\ time \in Nat /\ 0 \in 0 .. time /\ time \in 0 .. time
      /\ pend \in Pends /\ roll \in Rolls /\ RollIdle \in Rolls
  BY TierFacts, StatsAssumption DEF StatsInv, StatsTyped, Times, RollIdle
<1>2. roll.pc = "roll" => roll.tier # LastTier
  BY DEF StatsInv, StatsTyped
<1>3. CASE CountRequest
  <2>1. pend' \in Pends
    <3>1. pend = [ts |-> pend.ts, n |-> pend.n] /\ pend.ts \in 0 .. time /\ pend.n \in Nat
      BY <1>1
    <3>2. pend' = [ts |-> time, n |-> 1] \/ pend' = [ts |-> pend.ts, n |-> pend.n + 1]
      BY <1>3, <3>1 DEF CountRequest
    <3> QED BY <1>1, <3>1, <3>2
  <2> QED BY <1>1, <1>2, <1>3, <2>1, QuietKeeps DEF CountRequest
<1>4. CASE StartRollup
  <2>1. roll' \in Rolls /\ roll'.tier # LastTier
    BY <1>1, <1>4, TierFacts DEF StartRollup
  <2> QED BY <1>1, <1>4, <2>1, QuietKeeps DEF StartRollup
<1>5. CASE RollupFails \/ RestartStats
  <2>1. roll' \in Rolls /\ roll'.pc # "roll"
    BY <1>1, <1>5 DEF RollupFails, RestartStats, RollIdle
  <2> QED BY <1>1, <1>5, <2>1, QuietKeeps DEF RollupFails, RestartStats
<1>6. CASE PassTime
  <2>1. time' \in Times /\ time' >= time /\ time' \in Nat
    BY <1>1, <1>6, StatsAssumption DEF PassTime, Times
  <2>2. pend' \in [ts : 0 .. time', n : Nat]
    <3>1. pend.ts \in 0 .. time' /\ pend.n \in Nat /\ pend = [ts |-> pend.ts, n |-> pend.n]
      BY <1>1, <2>1
    <3> QED BY <1>6, <3>1 DEF PassTime
  <2>3. roll' \in [pc : {"idle", "roll", "prune"}, tier : Tiers, time : 0 .. time']
    <3>1. /\ roll.time \in 0 .. time' /\ roll = [pc |-> roll.pc, tier |-> roll.tier, time |-> roll.time]
          /\ roll.pc \in {"idle", "roll", "prune"} /\ roll.tier \in Tiers
      BY <1>1, <2>1
    <3> QED BY <1>6, <3>1 DEF PassTime
  <2> QED BY <1>2, <1>6, <2>1, <2>2, <2>3, QuietKeeps DEF PassTime
<1>7. CASE ServeRequest \/ UNCHANGED statsVars
  BY <1>1, <1>2, <1>7, QuietKeeps DEF ServeRequest, statsVars
<1>8. CASE PruneRequestMetrics
  <2>1. PICK t \in Tiers, c \in Int : t = roll.tier /\ c = roll.time - TierKeep[roll.tier]
    <3>1. roll.tier \in Tiers /\ roll.time \in Int
      BY <1>1
    <3>2. TierKeep[roll.tier] \in Int
      BY <3>1, StatsAssumption
    <3> QED BY <3>1, <3>2
  <2>2. roll' \in Rolls /\ roll'.pc # "roll"
    <3>1. CASE roll.tier = LastTier
      BY <1>1, <1>8, <3>1 DEF PruneRequestMetrics, RollIdle
    <3>2. CASE roll.tier # LastTier
      <4>1. /\ roll = [pc |-> "prune", tier |-> t, time |-> roll.time] /\ roll.time \in 0 .. time
            /\ t + 1 \in Tiers
        BY <1>1, <1>8, <2>1, <3>2, TierFacts DEF PruneRequestMetrics
      <4>2. roll' = [pc |-> "prune", tier |-> t + 1, time |-> roll.time]
        BY <1>8, <3>2, <4>1 DEF PruneRequestMetrics
      <4> QED BY <4>1, <4>2
    <3> QED BY <3>1, <3>2
  <2>3. Prune(t, c) /\ UNCHANGED <<time, pend, stored>>
    BY <1>8, <2>1 DEF PruneRequestMetrics
  <2> QED BY <2>2, <2>3, PruneKeeps
<1>9. CASE OperatorPrune
  <2>1. PICK t \in Tiers, c \in 1 .. time : Prune(t, c) /\ UNCHANGED <<time, pend, roll, stored>>
    BY <1>9 DEF OperatorPrune
  <2>2. c \in Int
    BY <1>1
  <2> QED BY <1>1, <1>2, <2>1, <2>2, PruneKeeps
<1>10. CASE PurgeStats
  <2>1. Total(rows', Times, Tiers) + 0 = 0 /\ rows' \in Tables
    BY <1>10, EmptyTotal DEF PurgeStats
  <2>2. Balanced'
    BY <1>10, <2>1 DEF PurgeStats, Balanced
  <2>3. MovedIsOld'
    BY <1>10, TierFacts DEF PurgeStats, MovedIsOld, NoRows
  <2>4. StatsTyped'
    BY <1>1, <1>2, <1>10, <2>1 DEF PurgeStats, StatsTyped
  <2> QED BY <2>2, <2>3, <2>4 DEF StatsInv
<1> QED BY <1>3, <1>4, <1>5, <1>6, <1>7, <1>8, <1>9, <1>10, InsertKeeps, AggregateKeeps DEF StatsNext

\* The invariant holds from the start on.
LEMMA StatsInvariant == StatsSpec => []StatsInv
BY StatsInitInv, StatsNextInv, PTL DEF StatsSpec

\* A request that was stored is in one row of one tier until it is pruned, for any
\* number of tiers, bucket lengths and failed, interrupted or repeated rollups.
THEOREM RequestsCountOnce == StatsSpec => []CountedOnce
<1>1. StatsInv => CountedOnce
  BY DEF StatsInv, Balanced, CountedOnce, Total, Count, CountOf
<1> QED BY <1>1, StatsInvariant, PTL

\* SelectTiers leaves out no row of the window of a view: rows move to a tier that
\* the view does not read only when they have left its window.
THEOREM ViewsAreComplete == StatsSpec => []ViewIsComplete
<1>1. StatsInv => ViewIsComplete
  <2> SUFFICES ASSUME StatsInv, NEW v \in Tiers \ {LastTier}
               PROVE  QueryRequestMetrics(v)
                        = MapThenSumSet(LAMBDA t : CountOf(t, InWindow(v)), Tiers)
    BY DEF ViewIsComplete
  <2>1. PICK r \in Tables : r = rows
    BY DEF StatsInv, StatsTyped
  <2>2. PICK W \in SUBSET Times : W = InWindow(v)
    BY DEF InWindow
  <2>3. PICK f : f = Sums(r, W)
    OBVIOUS
  <2>4. 1 .. v \in SUBSET Tiers
    BY StatsAssumption
  <2>5. \A t \in Tiers : f[t] = SumOver(r[t], W) /\ f[t] \in Nat
    BY <2>3, TotalIsNat
  <2>6. ASSUME NEW t \in Tiers \ (1 .. v) PROVE f[t] = 0
    <3>1. PICK u \in Tiers \ {LastTier} : u + 1 = t /\ v <= u
      <4>1. t - 1 \in Tiers \ {LastTier} /\ (t - 1) + 1 = t /\ v <= t - 1
        BY StatsAssumption
      <4> QED BY <4>1
    <3>2. TierCut[v] <= TierCut[u] /\ TierCut[v] \in Nat /\ TierCut[u] \in Nat
      BY <3>1, StatsAssumption
    <3>3. ASSUME NEW x \in W PROVE r[t][x] = 0
      <4>1. x \in Int /\ time \in Int /\ r[t][x] \in Nat
        BY StatsAssumption DEF StatsInv, StatsTyped, Times, Tables
      <4>2. x >= time - TierCut[v]
        BY <2>2 DEF InWindow
      <4>3. r[t][x] > 0 => x < time - TierCut[u]
        BY <2>1, <3>1 DEF StatsInv, MovedIsOld
      <4> QED BY <3>2, <4>1, <4>2, <4>3
    <3>4. IsFiniteSet(W)
      BY FiniteTables, FS_Subset
    <3>5. SumOver(r[t], W) = 0
      <4>1. PICK g : g = r[t]
        OBVIOUS
      <4>2. \A x \in W : g[x] = 0
        BY <3>3, <4>1
      <4>3. SumOver(g, W) = 0
        BY <3>4, <4>2, SumZero
      <4> QED BY <4>1, <4>3
    <3> QED BY <2>5, <3>5
  <2>7. SumOver(f, 1 .. v) = SumOver(f, Tiers)
    BY <2>4, <2>5, <2>6, FiniteTables, SumPart
  <2>8. Total(r, W, 1 .. v) = SumOver(f, 1 .. v) /\ Total(r, W, Tiers) = SumOver(f, Tiers)
    BY <2>3, <2>4, TotalIs
  <2>9. QueryRequestMetrics(v) = Total(rows, InWindow(v), 1 .. v)
    BY DEF QueryRequestMetrics, SelectTiers, Total, Count, CountOf
  <2>10. MapThenSumSet(LAMBDA t : CountOf(t, InWindow(v)), Tiers) = Total(rows, InWindow(v), Tiers)
    BY DEF Total, Count, CountOf
  <2> QED BY <2>1, <2>2, <2>7, <2>8, <2>9, <2>10
<1> QED BY <1>1, StatsInvariant, PTL
=============================================================================
