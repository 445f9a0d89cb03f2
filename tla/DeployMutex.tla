----------------------------- MODULE DeployMutex -----------------------------
(***************************************************************************)
(* What the Tracker promises, without flights, logs or cancellation: the   *)
(* compose commands of Deploy, RollbackDeploy, Restart and Pull exclude    *)
(* each other per app, and each of them gives the app up again.            *)
(***************************************************************************)
CONSTANTS Apps, Threads

VARIABLE users   \* [Apps -> SUBSET Threads]: who runs compose for the app

Init == users = [a \in Apps |-> {}]

Begin(a, t) ==
  /\ users[a] = {}
  /\ users' = [users EXCEPT ![a] = {t}]

End(a, t) ==
  /\ users[a] = {t}
  /\ users' = [users EXCEPT ![a] = {}]

\* The process dies: every command ends with it.
Die == users' = [a \in Apps |-> {}]

Next == (\E a \in Apps, t \in Threads : Begin(a, t) \/ End(a, t)) \/ Die

Spec == Init /\ [][Next]_users
=============================================================================
