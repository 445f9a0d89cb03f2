------------------------------- MODULE Alerts -------------------------------
(***************************************************************************)
(* Alert rules: the evaluator's tick (internal/alerts/evaluator.go), the   *)
(* notices it sends, the rows of internal/store/alerts.go and the handlers *)
(* of internal/api/alerts.go that change them. One evaluator goroutine     *)
(* works on a snapshot of the rules while requests change the rows, each   *)
(* in several statements. Metric samples are small numbers, and an         *)
(* operator is "above" (at least the threshold) or "below".                *)
(***************************************************************************)
EXTENDS Integers, Sequences, FiniteSets, FiniteSetsExt

CONSTANTS
    RuleIds,      \* ids of alert_rules rows, an interval of naturals; never reused
    Hooks,        \* ids of webhooks rows
    Samples,      \* metric values a point may have
    InitRules,    \* the alert_rules rows at the start
    NewRules,     \* the rows an operator may save
    MaxEdits      \* bound on changes to rules, webhooks and history, and on restarts

ASSUME AlertIds == IsFiniteSet(RuleIds) /\ RuleIds \subseteq Nat /\ Samples \subseteq Nat

RuleRows == [metric : {"cpu", "backup"}, op : {"above", "below"}, threshold : Nat,
             hook : Hooks, on : BOOLEAN]

VARIABLES
    rules,     \* alert_rules: id -> row
    hooks,     \* webhooks rows that exist
    open,      \* alert_history rows not resolved: rule id -> sequence of snapshots
    orphans,   \* are there open history rows whose rule is gone?
    window,    \* values of the points in the rules' duration window
    ev,        \* the evaluator
    edit,      \* the request that is changing rules
    told,      \* the last notice sent about each rule
    usedIds,   \* rule ids ever given out
    edits      \* how many more changes and restarts there will be

alertVars == <<rules, hooks, open, orphans, window, ev, edit, told, usedIds, edits>>
alertRows == <<rules, hooks, usedIds>>

\* The fields of a rule that alert_history keeps.
Snap(row) == [metric |-> row.metric, op |-> row.op, threshold |-> row.threshold]

IdleEv == [pc |-> "idle", todo |-> <<>>]
IdleEdit == [pc |-> "idle"]

AlertsInit ==
    /\ rules = InitRules /\ hooks = Hooks /\ usedIds = DOMAIN InitRules
    /\ open = [r \in RuleIds |-> <<>>] /\ orphans = FALSE /\ window = {}
    /\ ev = IdleEv /\ edit = IdleEdit
    /\ told = [r \in RuleIds |-> "none"] /\ edits = MaxEdits
-----------------------------------------------------------------------------
(* EvaluateOnce                                                            *)

\* A rule of a backup event reads every point as 0.
extractMetricValue(v, row) == IF row.metric = "cpu" THEN v ELSE 0
checkCondition(v, row) == IF row.op = "above" THEN v >= row.threshold ELSE v < row.threshold
AllSatisfy(row) == \A v \in window : checkCondition(extractMetricValue(v, row), row)

Current == Min(DOMAIN ev.todo)
CurrentRow == ev.todo[Current]
AtStep(pc) == ev.pc = pc
Goto(pc) == ev' = [ev EXCEPT !.pc = pc]
\* The evaluator is done with the current rule.
Advance ==
    LET rest == DOMAIN ev.todo \ {Current}
    IN  ev' = [pc   |-> IF rest = {} THEN "idle" ELSE "look",
               todo |-> [r \in rest |-> ev.todo[r]]]

ListActiveAlertRules == {r \in DOMAIN rules : rules[r].on}

\* A tick reads the enabled rules once, for the whole pass.
StartTick ==
    /\ AtStep("idle") /\ ListActiveAlertRules # {}
    /\ ev' = [pc |-> "look", todo |-> [r \in ListActiveAlertRules |-> rules[r]]]
    /\ UNCHANGED <<alertRows, open, orphans, window, edit, told, edits>>

\* Mutant: the active alert is not looked up before firing.
MutRefire ==
    /\ AtStep("look")
    /\ IF window = {} THEN Advance
       ELSE IF AllSatisfy(CurrentRow) THEN Goto("fire")
       ELSE IF open[Current] # <<>> THEN Goto("resolve") ELSE Advance
    /\ UNCHANGED <<alertRows, open, orphans, window, edit, told, edits>>

\* The points of the window and the rule's open alert decide what to do. No
\* point at all decides nothing.
Look ==
    /\ AtStep("look")
    /\ IF window = {} \/ (AllSatisfy(CurrentRow) <=> open[Current] # <<>>) THEN Advance
       ELSE Goto(IF AllSatisfy(CurrentRow) THEN "fire" ELSE "resolve")
    /\ UNCHANGED <<alertRows, open, orphans, window, edit, told, edits>>

\* GetWebhook and Send: without the webhook the rule is skipped; a failed send
\* is only logged.
Fire ==
    /\ AtStep("fire")
    /\ IF CurrentRow.hook \in hooks
       THEN told' = [told EXCEPT ![Current] = "firing"] /\ Goto("record")
       ELSE UNCHANGED told /\ Advance
    /\ UNCHANGED <<alertRows, open, orphans, window, edit, edits>>

\* CreateAlertHistory with the rule as it was read; refused by the foreign key
\* when the rule is gone.
CreateAlertHistory ==
    /\ AtStep("record") /\ Advance
    /\ open' = IF Current \in DOMAIN rules
               THEN [open EXCEPT ![Current] = Append(@, [shown |-> Snap(CurrentRow), fired |-> Snap(CurrentRow)])]
               ELSE open
    /\ UNCHANGED <<alertRows, orphans, window, edit, told, edits>>

\* Mutant: the notice is sent and the row stays open.
MutNeverResolve ==
    /\ AtStep("resolve") /\ Goto("notify")
    /\ UNCHANGED <<alertRows, open, orphans, window, edit, told, edits>>

\* ResolveAlert, by the id of the row that GetActiveAlert found; an alert that
\* was resolved meanwhile is resolved again, one that was cleared is skipped.
ResolveAlert ==
    /\ AtStep("resolve")
    /\ \/ /\ Goto("notify")
          /\ open' = [open EXCEPT ![Current] = IF @ = <<>> THEN @ ELSE Tail(@)]
       \/ /\ open[Current] = <<>> /\ Advance /\ UNCHANGED open
    /\ UNCHANGED <<alertRows, orphans, window, edit, told, edits>>

SendResolved ==
    /\ AtStep("notify") /\ Advance
    /\ told' = IF CurrentRow.hook \in hooks THEN [told EXCEPT ![Current] = "resolved"] ELSE told
    /\ UNCHANGED <<alertRows, open, orphans, window, edit, edits>>

Evaluate == StartTick \/ Look \/ Fire \/ CreateAlertHistory \/ ResolveAlert \/ SendResolved
-----------------------------------------------------------------------------
(* Requests                                                                *)

Change == edits > 0 /\ edits' = edits - 1
Quiet == UNCHANGED <<window, ev, told>>

\* Rows of deleted rules: the history stays, without its rule.
DropRules(S) ==
    /\ rules' = [r \in DOMAIN rules \ S |-> rules[r]]
    /\ orphans' = (orphans \/ \E r \in S : open[r] # <<>>)
    /\ open' = [r \in RuleIds |-> IF r \in S THEN <<>> ELSE open[r]]

ResolveAlertsByRule(S) == open' = [r \in RuleIds |-> IF r \in S THEN <<>> ELSE open[r]]

\* handleCreateAlertRule: refused without the webhook.
CreateAlertRule(r, row) ==
    /\ Change /\ r \notin usedIds /\ row.hook \in hooks
    /\ rules' = [x \in DOMAIN rules \cup {r} |-> IF x = r THEN row ELSE rules[x]]
    /\ usedIds' = usedIds \cup {r}
    /\ UNCHANGED <<hooks, open, orphans, edit>> /\ Quiet

\* UpdateAlertRule: a disabled rule has its alerts resolved before the update.
BeginUpdate(r, row) ==
    /\ Change /\ edit = IdleEdit /\ r \in DOMAIN rules
    /\ edit' = [pc |-> "update", rule |-> r, row |-> row]
    /\ IF row.on THEN UNCHANGED open ELSE ResolveAlertsByRule({r})
    /\ UNCHANGED <<alertRows, orphans>> /\ Quiet

\* The update fails when the rule or the webhook it names is gone.
UpdateAlertRule ==
    /\ edit.pc = "update"
    /\ IF edit.rule \in DOMAIN rules /\ edit.row.hook \in hooks
       THEN /\ rules' = [rules EXCEPT ![edit.rule] = edit.row]
            /\ edit' = [edit EXCEPT !.pc = "snapshot"]
       ELSE UNCHANGED rules /\ edit' = IdleEdit
    /\ UNCHANGED <<hooks, usedIds, open, orphans, edits>> /\ Quiet

\* ... and the open alerts are given the rule's new fields.
UpdateSnapshot ==
    /\ edit.pc = "snapshot" /\ edit' = IdleEdit
    /\ open' = [open EXCEPT ![edit.rule] =
                   [i \in DOMAIN @ |-> [@[i] EXCEPT !.shown = Snap(edit.row)]]]
    /\ UNCHANGED <<alertRows, orphans, edits>> /\ Quiet

\* DeleteAlertRule, or DeleteAlertRulesForApp when a sidecar is imported: the
\* alerts are resolved, then the rows deleted.
BeginDelete(S) ==
    /\ Change /\ edit = IdleEdit /\ S # {}
    /\ edit' = [pc |-> "delete", these |-> S]
    /\ ResolveAlertsByRule(S)
    /\ UNCHANGED <<alertRows, orphans>> /\ Quiet

DeleteAlertRules ==
    /\ edit.pc = "delete" /\ edit' = IdleEdit /\ DropRules(edit.these)
    /\ UNCHANGED <<hooks, usedIds, edits>> /\ Quiet

\* DeleteWebhook: the rules that name it go with it, their alerts stay open.
DeleteWebhook(w) ==
    /\ Change /\ w \in hooks /\ hooks' = hooks \ {w}
    /\ DropRules({r \in DOMAIN rules : rules[r].hook = w})
    /\ UNCHANGED <<usedIds, edit>> /\ Quiet

ClearAlertHistory ==
    /\ Change
    /\ open' = [r \in RuleIds |-> <<>>] /\ orphans' = FALSE
    /\ UNCHANGED <<alertRows, edit>> /\ Quiet

\* PurgeApp: the rules of the app and their history, in one transaction.
PurgeAppAlerts ==
    /\ Change /\ DOMAIN rules # {} /\ rules' = <<>>
    /\ open' = [r \in RuleIds |-> <<>>] /\ orphans' = FALSE
    /\ UNCHANGED <<hooks, usedIds, edit>> /\ Quiet

\* The server stops, wherever the evaluator and the request are.
RestartAlerts ==
    /\ Change /\ ev' = IdleEv /\ edit' = IdleEdit
    /\ UNCHANGED <<alertRows, open, orphans, window, told>>

\* The collector writes points, and old ones leave the window.
SampleMetrics ==
    /\ window' \in SUBSET Samples
    /\ UNCHANGED <<alertRows, open, orphans, ev, edit, told, edits>>

Requested ==
    \/ \E r \in RuleIds, row \in NewRules : CreateAlertRule(r, row) \/ BeginUpdate(r, row)
    \/ UpdateAlertRule \/ UpdateSnapshot \/ DeleteAlertRules
    \/ \E S \in {{r} : r \in DOMAIN rules} \cup {DOMAIN rules} : BeginDelete(S)
    \/ \E w \in Hooks : DeleteWebhook(w)
    \/ ClearAlertHistory \/ PurgeAppAlerts

AlertsNext == Evaluate \/ Requested \/ RestartAlerts \/ SampleMetrics

\* The ticker of Evaluator.Run keeps ticking, and a started request goes on.
FinishEdit == UpdateAlertRule \/ UpdateSnapshot \/ DeleteAlertRules
AlertsFairness == WF_alertVars(Evaluate) /\ WF_alertVars(FinishEdit)

AlertsSpec == AlertsInit /\ [][AlertsNext]_alertVars /\ AlertsFairness
-----------------------------------------------------------------------------
(* Properties                                                              *)

\* Types. The rule the evaluator is at is one of its snapshot.
AlertsTypeOK ==
    /\ DOMAIN rules \subseteq RuleIds /\ \A r \in DOMAIN rules : rules[r] \in RuleRows
    /\ hooks \subseteq Hooks /\ orphans \in BOOLEAN /\ window \subseteq Samples
    /\ DOMAIN ev.todo \subseteq RuleIds /\ (ev.pc = "idle" <=> ev.todo = <<>>)
    /\ edits \in 0 .. MaxEdits

\* A rule has at most one open alert, whatever happens to the rule between the
\* evaluator's look at it and its record of the alert.
OneOpenAlert == \A r \in RuleIds : Len(open[r]) <= 1

\* Whenever EvaluateOnce is about to say "resolved", the last thing it said of that
\* rule is "firing", whatever became of the rule, its webhook and its history since:
\* no alert is resolved that nobody was told of, and none is resolved twice.
ResolvedAfterFiring ==
    [][\A r \in RuleIds : SendResolved /\ Current = r => told[r] = "firing"]_alertVars

\* An alert follows its metric: when the points of an enabled rule's window
\* stay on one side of the condition, the alert ends up open or resolved with them.
AlertFollowsMetric ==
    \A r \in RuleIds :
        /\ <>[](/\ r \in ListActiveAlertRules /\ window # {}
                /\ AllSatisfy(rules[r])) => <>[](open[r] # <<>>)
        /\ <>[](/\ r \in ListActiveAlertRules /\ window # {}
                /\ ~AllSatisfy(rules[r])) => <>[](open[r] = <<>>)

\* docs/architecture/alerts.md: "changes to the rule afterward do not rewrite
\* history".
HistoryKeepsSnapshot ==
    \A r \in RuleIds : \A i \in DOMAIN open[r] : open[r][i].shown = open[r][i].fired

\* docs/architecture/alerts.md: backup events have "no `alert_history` row".
BackupRulesHaveNoHistory ==
    \A r \in RuleIds : \A i \in DOMAIN open[r] : open[r][i].shown.metric # "backup"

\* UpdateAlertRule resolves the alerts of a rule it disables: an alert of a
\* disabled rule does not stay open.
DisabledIsResolved ==
    \A r \in RuleIds : open[r] # <<>> /\ r \notin ListActiveAlertRules
                        ~> open[r] = <<>> \/ r \in ListActiveAlertRules
=============================================================================
