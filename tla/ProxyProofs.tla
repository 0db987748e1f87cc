---------------------------- MODULE ProxyProofs -----------------------------
(***************************************************************************)
(* The safety of proxy mode for any number of users, connections,          *)
(* requests, policies, calls and crashes.                                  *)
(*                                                                         *)
(* GrantJustified is not inductive: whether a map may be created is decided*)
(* from the role, which was resolved steps earlier, from groups that were  *)
(* looked up steps earlier still, under a policy loaded when the daemon    *)
(* started.  The invariant below carries these facts from step to step.    *)
(* The last part shows that proxy mode implements the reference monitor.   *)
(***************************************************************************)
EXTENDS ProxyRefinement, PolicyProofs, FiniteSetTheorems

Unexecuted == {"backlog", "spawned", "identifying", "reading", "executing"}

\* Tasks exist only while the daemon that accepted them runs, so the policy
\* does not change under them.
TasksNeedDaemon == \A k \in Conns : task[k] # "none" => daemon = "running"

\* A connection without a task carries no groups, role or request into the
\* next, and a client that has not sent anything yet has no request.
NoLeftovers ==
  \A k \in Conns :
    /\ task[k] = "none" => groups[k] = {} /\ role[k] = {} /\ req[k] = {}
    /\ cli[k] = "open" => req[k] = {}

\* The history of groups covers the ones the task has found and the ones
\* another lookup would return now.
HeldCoversAccount ==
  \A k \in Conns :
    task[k] # "none" => /\ groups[k] \subseteq held[k]
                        /\ \A g \in accounts[owner[k]] : g \subseteq held[k]

\* Before Execute nothing has been created and nothing answered.
NothingBeforeExecute ==
  \A k \in Conns : task[k] \in Unexecuted => ~ made[k] /\ reply[k] = {}

\* A response says Success exactly when a map was created.
ReplyTruthful ==
  \A k \in Conns : \A m \in reply[k] : made[k] <=> m.kind = "Success"

\* What create_map returned is forgotten before the connection is used again.
NoStaleOutcome ==
  \A k \in Conns :
    /\ (task[k] # "none" \/ cli[k] = "closed") => outcome[k] = "none"
    /\ (task[k] = "none" /\ cli[k] = "closed") => reply[k] = {}

Inv ==
  /\ TypeOK
  /\ TasksNeedDaemon
  /\ NoLeftovers
  /\ HeldCoversAccount
  /\ RoleJustified
  /\ NothingBeforeExecute
  /\ GrantJustified
  /\ ReplyTruthful
  /\ NoStaleOutcome
  /\ OutcomeTruthful

USE DEF daemonVars, historyVars, connVars

-----------------------------------------------------------------------------
(* Facts about the pieces of handle_client.                                 *)

\* Every response has a kind and a length.
LEMMA RespondType ==
  ASSUME NEW rl, NEW q \in Requests, NEW m \in Respond(rl, q)
  PROVE  m.kind \in {"Success", "Denied", "Error"} /\ m.len \in Nat
BY ProxyAssumption
   DEF Respond, execute_bpf, Success, Error, Denied, UnsupportedOverhead

\* Success is answered only for a role that is_allowed accepts.
LEMMA SuccessNeedsPermission ==
  ASSUME NEW rl, NEW q, NEW m \in Respond(rl, q), m.kind = "Success"
  PROVE  \E r \in rl : is_allowed(policy, r, q)
BY DEF Respond, Denied

\* create_map returns a descriptor only for a Success, and reports a denial
\* or an error only for a Denied or an Error.
LEMMA ReturnedMeaning ==
  ASSUME NEW m, m.kind \in {"Success", "Denied", "Error"}, NEW o \in Returned(m)
  PROVE  /\ o \in {"fd", "nofd", "denied", "error", "broken"}
         /\ o \in {"fd", "nofd"} => m.kind = "Success"
         /\ o \in {"denied", "error"} => m.kind # "Success"
<1>1. CASE m.kind = "Success"
  BY <1>1, Zenon DEF Returned
<1>2. CASE m.kind = "Denied"
  BY <1>2, Zenon DEF Returned
<1>3. CASE m.kind = "Error"
  BY <1>3, Zenon DEF Returned
<1> QED BY <1>1, <1>2, <1>3

-----------------------------------------------------------------------------
(* The initial states.                                                      *)

\* Before the daemon first starts the invariant holds.
LEMMA InitInv == Init => Inv
<1> SUFFICES ASSUME Init PROVE Inv
  OBVIOUS
<1>1. TypeOK
  BY DEF Init, TypeOK, Option
<1>2. TasksNeedDaemon /\ NoLeftovers /\ HeldCoversAccount /\ RoleJustified
  BY DEF Init, TasksNeedDaemon, NoLeftovers, HeldCoversAccount, RoleJustified
<1>3. NothingBeforeExecute /\ GrantJustified /\ ReplyTruthful
  BY DEF Init, NothingBeforeExecute, GrantJustified, ReplyTruthful, Unexecuted
<1>4. NoStaleOutcome /\ OutcomeTruthful
  BY DEF Init, NoStaleOutcome, OutcomeTruthful
<1> QED BY <1>1, <1>2, <1>3, <1>4 DEF Inv

-----------------------------------------------------------------------------
(* Type correctness, action by action.                                      *)

\* Every step of every actor keeps the types.
LEMMA NextTypeOK == Inv /\ [Next]_vars => TypeOK'
<1> SUFFICES ASSUME Inv, [Next]_vars PROVE TypeOK'
  OBVIOUS
<1> USE DEF Inv
<1>1. CASE EditPolicyFile
  BY <1>1 DEF EditPolicyFile, TypeOK
<1>2. ASSUME NEW u \in Users, EditAccount(u) PROVE TypeOK'
  BY <1>2 DEF EditAccount, TypeOK, Groups, Option
<1>3. CASE LoadPolicy
  BY <1>3 DEF LoadPolicy, TypeOK, TasksNeedDaemon, NoLeftovers, Option
<1>4. CASE RemoveOldSocket
  BY <1>4 DEF RemoveOldSocket, TypeOK
<1>5. CASE BindSocket
  BY <1>5 DEF BindSocket, TypeOK
<1>6. CASE SetPermissions
  BY <1>6 DEF SetPermissions, TypeOK
<1>7. CASE Crash
  BY <1>7 DEF Crash, TypeOK, Option
<1>8. ASSUME NEW k \in Conns, Accept(k) PROVE TypeOK'
  BY <1>8 DEF Accept, TypeOK
<1>9. ASSUME NEW k \in Conns, LookupUser(k) \/ Identify(k) PROVE TypeOK'
  <2>1. CASE LookupUser(k)
    BY <2>1 DEF LookupUser, TypeOK, Groups, Option
  <2>2. CASE Identify(k)
    BY <2>2, ResolvedRoleMatches DEF Identify, TypeOK, Matching
  <2> QED BY <1>9, <2>1, <2>2
<1>10. ASSUME NEW k \in Conns, IdentifyFails(k) PROVE TypeOK'
  BY <1>10 DEF IdentifyFails, Drop, TypeOK, Option
<1>11. ASSUME NEW k \in Conns, ReadRequest(k) PROVE TypeOK'
  BY <1>11 DEF ReadRequest, TypeOK
<1>12. ASSUME NEW k \in Conns, ReadFails(k) PROVE TypeOK'
  BY <1>12 DEF ReadFails, Drop, TypeOK, Option
<1>13. ASSUME NEW k \in Conns, Execute(k) PROVE TypeOK'
  <2>1. PICK q \in req[k] : \E m \in Respond(role[k], q) :
          /\ reply' = [reply EXCEPT ![k] = {m}]
          /\ mapFds' = IF m.kind = "Success" THEN mapFds + 1 ELSE mapFds
          /\ made' = [made EXCEPT ![k] = m.kind = "Success"]
          /\ auth' = [auth EXCEPT ![k] = Authorized(policy, held[k], q)]
    BY <1>13 DEF Execute
  <2>2. q \in Requests
    BY DEF TypeOK, Option
  <2>3. PICK m \in Respond(role[k], q) :
          /\ reply' = [reply EXCEPT ![k] = {m}]
          /\ mapFds' = IF m.kind = "Success" THEN mapFds + 1 ELSE mapFds
          /\ made' = [made EXCEPT ![k] = m.kind = "Success"]
          /\ auth' = [auth EXCEPT ![k] = Authorized(policy, held[k], q)]
    BY <2>1
  <2>4. m.kind \in {"Success", "Denied", "Error"} /\ m.len \in Nat
    BY <2>2, RespondType
  <2>5. Authorized(policy, held[k], q) \in BOOLEAN
    BY DEF Authorized
  <2>6. made' \in [Conns -> BOOLEAN]
    BY <2>3 DEF TypeOK
  <2>7. auth' \in [Conns -> BOOLEAN]
    BY <2>3, <2>5 DEF TypeOK
  <2>8. DOMAIN reply' = Conns /\ mapFds' \in Nat
    BY <2>3 DEF TypeOK
  <2>9. \A j \in Conns : \A x \in reply'[j] :
          x.kind \in {"Success", "Denied", "Error"} /\ x.len \in Nat
    BY <2>3, <2>4 DEF TypeOK
  <2> QED BY <1>13, <2>6, <2>7, <2>8, <2>9 DEF Execute, TypeOK
<1>14. ASSUME NEW k \in Conns, Reply(k) PROVE TypeOK'
  BY <1>14 DEF Reply, Drop, TypeOK, Option
<1>15. ASSUME NEW k \in Conns, NEW u \in Users, Connect(k, u) PROVE TypeOK'
  BY <1>15 DEF Connect, TypeOK, Groups, Option
<1>16. ASSUME NEW k \in Conns, NEW q \in Requests, Send(k, q) PROVE TypeOK'
  BY <1>16 DEF Send, TypeOK, Option
<1>17. ASSUME NEW k \in Conns, Receive(k) PROVE TypeOK'
  BY <1>17, ReturnedMeaning DEF Receive, TypeOK
<1>18. ASSUME NEW k \in Conns, ReceiveNothing(k) PROVE TypeOK'
  BY <1>18 DEF ReceiveNothing, TypeOK
<1>19. ASSUME NEW k \in Conns, Close(k) PROVE TypeOK'
  BY <1>19 DEF Close, TypeOK
<1>20. CASE UNCHANGED vars
  BY <1>20 DEF vars, TypeOK
<1> QED
  BY <1>1, <1>2, <1>3, <1>4, <1>5, <1>6, <1>7, <1>8, <1>9, <1>10, <1>11,
     <1>12, <1>13, <1>14, <1>15, <1>16, <1>17, <1>18, <1>19, <1>20
     DEF Next, StartUp, HandleClient

-----------------------------------------------------------------------------
(* The facts a decision rests on: the task, its role and its peer's groups. *)

SessionFacts ==
  TasksNeedDaemon /\ NoLeftovers /\ HeldCoversAccount /\ RoleJustified

\* They survive every step of every actor.
LEMMA NextSessionFacts == Inv /\ [Next]_vars => SessionFacts'
<1> SUFFICES ASSUME Inv, [Next]_vars PROVE SessionFacts'
  OBVIOUS
<1> USE DEF Inv, TypeOK, SessionFacts, TasksNeedDaemon,
           NoLeftovers, HeldCoversAccount, RoleJustified
<1>1. CASE EditPolicyFile
  BY <1>1 DEF EditPolicyFile
<1>2. ASSUME NEW u \in Users, EditAccount(u) PROVE SessionFacts'
  <2>1. \A j \in Conns : held[j] \subseteq held'[j]
    BY <1>2 DEF EditAccount
  <2>2. RoleJustified'
    BY <1>2, <2>1, MatchingMonotone DEF EditAccount
  <2>3. HeldCoversAccount'
    BY <1>2, <2>1 DEF EditAccount, Option
  <2> QED BY <1>2, <2>2, <2>3 DEF EditAccount
<1>3. CASE LoadPolicy
  <2>1. \A j \in Conns : role'[j] = {}
    BY <1>3 DEF LoadPolicy
  <2> QED BY <1>3, <2>1 DEF LoadPolicy
<1>4. CASE RemoveOldSocket
  BY <1>4 DEF RemoveOldSocket
<1>5. CASE BindSocket
  BY <1>5 DEF BindSocket
<1>6. CASE SetPermissions
  BY <1>6 DEF SetPermissions
<1>7. CASE Crash
  BY <1>7 DEF Crash
<1>8. ASSUME NEW k \in Conns, Accept(k) PROVE SessionFacts'
  BY <1>8 DEF Accept
<1>9. ASSUME NEW k \in Conns, LookupUser(k) \/ Identify(k) PROVE SessionFacts'
  <2>1. CASE LookupUser(k)
    <3>1. groups'[k] \subseteq held[k]
      BY <2>1 DEF LookupUser, Option
    <3> QED BY <2>1, <3>1 DEF LookupUser
  <2>2. CASE Identify(k)
    <3>1. PICK G \in SUBSET UNION accounts[owner[k]] :
            role' = [role EXCEPT ![k] =
                       get_role_for_groups(policy, groups[k] \cup G, order)]
      BY <2>2 DEF Identify
    <3>2. groups[k] \cup G \subseteq held[k]
      BY <2>2, <3>1 DEF Identify
    <3>3. role'[k] \subseteq Matching(policy, held[k])
      BY <3>1, <3>2, ResolvedRoleMatches, MatchingMonotone
    <3> QED BY <2>2, <3>1, <3>3 DEF Identify
  <2> QED BY <1>9, <2>1, <2>2
<1>10. ASSUME NEW k \in Conns, IdentifyFails(k) PROVE SessionFacts'
  BY <1>10 DEF IdentifyFails, Drop
<1>11. ASSUME NEW k \in Conns, ReadRequest(k) PROVE SessionFacts'
  BY <1>11 DEF ReadRequest
<1>12. ASSUME NEW k \in Conns, ReadFails(k) PROVE SessionFacts'
  BY <1>12 DEF ReadFails, Drop
<1>13. ASSUME NEW k \in Conns, Execute(k) PROVE SessionFacts'
  BY <1>13 DEF Execute
<1>14. ASSUME NEW k \in Conns, Reply(k) PROVE SessionFacts'
  BY <1>14 DEF Reply, Drop
<1>15. ASSUME NEW k \in Conns, NEW u \in Users, Connect(k, u) PROVE SessionFacts'
  BY <1>15 DEF Connect
<1>16. ASSUME NEW k \in Conns, NEW q \in Requests, Send(k, q) PROVE SessionFacts'
  BY <1>16 DEF Send
<1>17. ASSUME NEW k \in Conns, Receive(k) PROVE SessionFacts'
  BY <1>17 DEF Receive
<1>18. ASSUME NEW k \in Conns, ReceiveNothing(k) PROVE SessionFacts'
  BY <1>18 DEF ReceiveNothing
<1>19. ASSUME NEW k \in Conns, Close(k) PROVE SessionFacts'
  BY <1>19 DEF Close
<1>20. CASE UNCHANGED vars
  BY <1>20 DEF vars
<1> QED
  BY <1>1, <1>2, <1>3, <1>4, <1>5, <1>6, <1>7, <1>8, <1>9, <1>10, <1>11,
     <1>12, <1>13, <1>14, <1>15, <1>16, <1>17, <1>18, <1>19, <1>20
     DEF Next, StartUp, HandleClient

-----------------------------------------------------------------------------
(* The facts about results: maps, responses and what the caller is told.    *)

ResultFacts ==
  /\ NothingBeforeExecute /\ GrantJustified
  /\ ReplyTruthful /\ NoStaleOutcome /\ OutcomeTruthful

\* They survive every step as well; Execute is where SessionFacts is used.
LEMMA NextResultFacts == Inv /\ [Next]_vars => ResultFacts'
<1> SUFFICES ASSUME Inv, [Next]_vars PROVE ResultFacts'
  OBVIOUS
<1> USE DEF Inv, TypeOK, ResultFacts, NothingBeforeExecute,
           GrantJustified, ReplyTruthful, NoStaleOutcome, OutcomeTruthful, Unexecuted
<1>1. CASE EditPolicyFile
  BY <1>1 DEF EditPolicyFile
<1>2. ASSUME NEW u \in Users, EditAccount(u) PROVE ResultFacts'
  BY <1>2 DEF EditAccount
<1>3. CASE LoadPolicy
  BY <1>3 DEF LoadPolicy
<1>4. CASE RemoveOldSocket
  BY <1>4 DEF RemoveOldSocket
<1>5. CASE BindSocket
  BY <1>5 DEF BindSocket
<1>6. CASE SetPermissions
  BY <1>6 DEF SetPermissions
<1>7. CASE Crash
  BY <1>7 DEF Crash
<1>8. ASSUME NEW k \in Conns, Accept(k) PROVE ResultFacts'
  BY <1>8 DEF Accept
<1>9. ASSUME NEW k \in Conns, LookupUser(k) \/ Identify(k) PROVE ResultFacts'
  BY <1>9 DEF LookupUser, Identify
<1>10. ASSUME NEW k \in Conns, IdentifyFails(k) PROVE ResultFacts'
  BY <1>10 DEF IdentifyFails, Drop
<1>11. ASSUME NEW k \in Conns, ReadRequest(k) PROVE ResultFacts'
  BY <1>11 DEF ReadRequest
<1>12. ASSUME NEW k \in Conns, ReadFails(k) PROVE ResultFacts'
  BY <1>12 DEF ReadFails, Drop
<1>13. ASSUME NEW k \in Conns, Execute(k) PROVE ResultFacts'
  <2>1. PICK q \in req[k] : \E m \in Respond(role[k], q) :
          /\ reply' = [reply EXCEPT ![k] = {m}]
          /\ made' = [made EXCEPT ![k] = m.kind = "Success"]
          /\ auth' = [auth EXCEPT ![k] = Authorized(policy, held[k], q)]
    BY <1>13 DEF Execute
  <2>2. PICK m \in Respond(role[k], q) :
          /\ reply' = [reply EXCEPT ![k] = {m}]
          /\ made' = [made EXCEPT ![k] = m.kind = "Success"]
          /\ auth' = [auth EXCEPT ![k] = Authorized(policy, held[k], q)]
    BY <2>1
  <2>3. m.kind = "Success" => Authorized(policy, held[k], q)
    <3>1. role[k] \subseteq Matching(policy, held[k])
      BY DEF RoleJustified
    <3> QED BY <3>1, SuccessNeedsPermission, AllowedIsAuthorized
  <2>4. \A j \in Conns \ {k} : /\ reply'[j] = reply[j]
                               /\ made'[j] = made[j]
                               /\ auth'[j] = auth[j]
    BY <2>2
  <2>5. reply'[k] = {m} /\ (made'[k] <=> m.kind = "Success")
    BY <2>2
  <2>6. auth'[k] = Authorized(policy, held[k], q)
    BY <2>2
  <2>7. NothingBeforeExecute'
    BY <1>13, <2>4 DEF Execute
  <2>8. GrantJustified'
    BY <2>3, <2>4, <2>5, <2>6
  <2>9. ASSUME NEW j \in Conns, NEW x \in reply'[j]
        PROVE  made'[j] <=> x.kind = "Success"
    <3>1. CASE j = k
      BY <2>5, <3>1
    <3>2. CASE j # k
      BY <2>4, <3>2
    <3> QED BY <3>1, <3>2
  <2>10. NoStaleOutcome'
    BY <1>13, <2>4 DEF Execute
  <2>11. OutcomeTruthful'
    BY <1>13, <2>4 DEF Execute
  <2> QED BY <2>7, <2>8, <2>9, <2>10, <2>11
<1>14. ASSUME NEW k \in Conns, Reply(k) PROVE ResultFacts'
  BY <1>14 DEF Reply, Drop
<1>15. ASSUME NEW k \in Conns, NEW u \in Users, Connect(k, u) PROVE ResultFacts'
  BY <1>15 DEF Connect
<1>16. ASSUME NEW k \in Conns, NEW q \in Requests, Send(k, q) PROVE ResultFacts'
  BY <1>16 DEF Send
<1>17. ASSUME NEW k \in Conns, Receive(k) PROVE ResultFacts'
  <2>1. PICK m \in reply[k] : \E o \in Returned(m) :
          outcome' = [outcome EXCEPT ![k] = o]
    BY <1>17 DEF Receive
  <2>2. PICK o \in Returned(m) : outcome' = [outcome EXCEPT ![k] = o]
    BY <2>1
  <2>3. /\ o \in {"fd", "nofd"} => m.kind = "Success"
        /\ o \in {"denied", "error"} => m.kind # "Success"
    BY <2>2, ReturnedMeaning
  <2> QED BY <1>17, <2>2, <2>3 DEF Receive
<1>18. ASSUME NEW k \in Conns, ReceiveNothing(k) PROVE ResultFacts'
  BY <1>18 DEF ReceiveNothing
<1>19. ASSUME NEW k \in Conns, Close(k) PROVE ResultFacts'
  BY <1>19 DEF Close
<1>20. CASE UNCHANGED vars
  BY <1>20 DEF vars
<1> QED
  BY <1>1, <1>2, <1>3, <1>4, <1>5, <1>6, <1>7, <1>8, <1>9, <1>10, <1>11,
     <1>12, <1>13, <1>14, <1>15, <1>16, <1>17, <1>18, <1>19, <1>20
     DEF Next, StartUp, HandleClient

-----------------------------------------------------------------------------
(* The theorems.                                                            *)

\* Inv holds in every reachable state.
THEOREM Invariance == Spec => []Inv
<1>1. Inv /\ [Next]_vars => Inv'
  BY NextTypeOK, NextSessionFacts, NextResultFacts
     DEF Inv, SessionFacts, ResultFacts
<1> QED BY <1>1, InitInv, PTL DEF Spec

\* The variables of the daemon and of its clients keep their types.
THEOREM TypeCorrect == Spec => []TypeOK
<1>1. Inv => TypeOK
  BY DEF Inv
<1> QED BY <1>1, Invariance, PTL

\* No task ever acts under a role its own peer's groups do not match.
THEOREM RolesAreJustified == Spec => []RoleJustified
<1>1. Inv => RoleJustified
  BY DEF Inv
<1> QED BY <1>1, Invariance, PTL

\* The daemon never creates a map for an unauthorized request, however many
\* clients, edits of accounts and of the policy file, and crashes interleave.
THEOREM GrantsAreJustified == Spec => []GrantJustified
<1>1. Inv => GrantJustified
  BY DEF Inv
<1> QED BY <1>1, Invariance, PTL

\* What create_map returns to its caller is true.
THEOREM OutcomesAreTruthful == Spec => []OutcomeTruthful
<1>1. Inv => OutcomeTruthful
  BY DEF Inv
<1> QED BY <1>1, Invariance, PTL

-----------------------------------------------------------------------------
(* Counting: every map the daemon holds was asked for by a call of its own. *)

\* Requests written to a connection and not executed yet.
Pending == {k \in Conns : task[k] \in Unexecuted /\ req[k] # {}}

\* NoUnrequestedMaps alone says nothing about the requests that will still
\* turn into maps; with them it is inductive.
Accounted == mapFds + Cardinality(Pending) <= calls

\* Pending requests can be counted: there is at most one per connection.
LEMMA PendingFinite == IsFiniteSet(Pending) /\ Cardinality(Pending) \in Nat
<1>1. Pending \subseteq Conns
  BY DEF Pending
<1> QED BY <1>1, ProxyAssumption, FS_Subset, FS_CardinalityType

\* And so can those of the next state.
LEMMA PendingFiniteNext == IsFiniteSet(Pending') /\ Cardinality(Pending') \in Nat
<1>1. Pending' \subseteq Conns
  BY DEF Pending
<1> QED BY <1>1, ProxyAssumption, FS_Subset, FS_CardinalityType

\* A step that adds no pending request, no map and no call keeps the balance.
LEMMA AccountedShrinks ==
  ASSUME Inv, Accounted, Pending' \subseteq Pending,
         mapFds' = mapFds, calls' = calls
  PROVE  Accounted'
<1>1. Cardinality(Pending') <= Cardinality(Pending)
  BY PendingFinite, FS_Subset
<1> QED BY <1>1, PendingFinite, PendingFiniteNext DEF Accounted, Inv, TypeOK

\* Every step keeps maps and pending requests within the calls made.
LEMMA NextAccounted == Inv /\ Accounted /\ [Next]_vars => Accounted'
<1> SUFFICES ASSUME Inv, Accounted, [Next]_vars PROVE Accounted'
  OBVIOUS
<1> USE DEF Unexecuted
<1>1. CASE EditPolicyFile
  BY <1>1, AccountedShrinks DEF EditPolicyFile, Pending
<1>2. ASSUME NEW u \in Users, EditAccount(u) PROVE Accounted'
  BY <1>2, AccountedShrinks DEF EditAccount, Pending
<1>3. CASE StartUp
  BY <1>3, AccountedShrinks
     DEF StartUp, LoadPolicy, RemoveOldSocket, BindSocket, SetPermissions, Pending
<1>4. CASE Crash
  <2>1. Pending' = {}
    BY <1>4 DEF Crash, Pending
  <2>2. Cardinality(Pending') = 0
    BY <2>1, FS_EmptySet
  <2> QED BY <1>4, <2>2 DEF Crash, Accounted, Inv, TypeOK
<1>5. ASSUME NEW k \in Conns, Accept(k) PROVE Accounted'
  <2>1. Pending' \subseteq Pending
    BY <1>5 DEF Accept, Pending, Inv, TypeOK
  <2> QED BY <1>5, <2>1, AccountedShrinks DEF Accept
<1>6. ASSUME NEW k \in Conns, LookupUser(k) \/ Identify(k) \/ ReadRequest(k)
      PROVE  Accounted'
  <2>1. Pending' \subseteq Pending
    BY <1>6 DEF LookupUser, Identify, ReadRequest, Pending, Inv, TypeOK
  <2> QED BY <1>6, <2>1, AccountedShrinks DEF LookupUser, Identify, ReadRequest
<1>7. ASSUME NEW k \in Conns, IdentifyFails(k) \/ ReadFails(k) \/ Reply(k)
      PROVE  Accounted'
  <2>1. Drop(k) /\ mapFds' = mapFds /\ calls' = calls
    BY <1>7 DEF IdentifyFails, ReadFails, Reply
  <2>2. Pending' \subseteq Pending
    BY <2>1 DEF Drop, Pending, Inv, TypeOK
  <2> QED BY <2>1, <2>2, AccountedShrinks
<1>8. ASSUME NEW k \in Conns, Execute(k) PROVE Accounted'
  <2>1. k \in Pending
    BY <1>8 DEF Execute, Pending
  <2>2. Pending' = Pending \ {k}
    BY <1>8 DEF Execute, Pending, Inv, TypeOK
  <2>3. Cardinality(Pending') = Cardinality(Pending) - 1
    BY <2>1, <2>2, PendingFinite, FS_RemoveElement
  <2>4. mapFds' \in {mapFds, mapFds + 1} /\ calls' = calls
    BY <1>8 DEF Execute
  <2> QED BY <2>3, <2>4, PendingFinite DEF Accounted, Inv, TypeOK
<1>9. ASSUME NEW k \in Conns, NEW u \in Users, Connect(k, u) PROVE Accounted'
  <2>1. Pending' \subseteq Pending
    BY <1>9 DEF Connect, Pending, Inv, TypeOK, NoLeftovers
  <2> QED BY <1>9, <2>1, AccountedShrinks DEF Connect
<1>10. ASSUME NEW k \in Conns, NEW q \in Requests, Send(k, q) PROVE Accounted'
  <2>1. Pending' \subseteq Pending \cup {k}
    BY <1>10 DEF Send, Pending, Inv, TypeOK
  <2>2. /\ IsFiniteSet(Pending \cup {k})
        /\ Cardinality(Pending \cup {k}) <= Cardinality(Pending) + 1
        /\ Cardinality(Pending \cup {k}) \in Nat
    <3>1. /\ IsFiniteSet(Pending \cup {k})
          /\ Cardinality(Pending \cup {k}) =
               IF k \in Pending THEN Cardinality(Pending) ELSE Cardinality(Pending) + 1
      BY PendingFinite, FS_AddElement
    <3> QED BY <3>1, PendingFinite
  <2>3. Cardinality(Pending') <= Cardinality(Pending \cup {k})
    BY <2>1, <2>2, FS_Subset
  <2>4. calls' = calls + 1 /\ mapFds' = mapFds
    BY <1>10 DEF Send
  <2> QED BY <2>2, <2>3, <2>4, PendingFinite, PendingFiniteNext
          DEF Accounted, Inv, TypeOK
<1>11. ASSUME NEW k \in Conns, Receive(k) \/ ReceiveNothing(k) \/ Close(k)
       PROVE  Accounted'
  <2>1. Pending' \subseteq Pending /\ mapFds' = mapFds /\ calls' = calls
    BY <1>11 DEF Receive, ReceiveNothing, Close, Pending
  <2> QED BY <2>1, AccountedShrinks
<1>12. CASE UNCHANGED vars
  BY <1>12, AccountedShrinks DEF vars, Pending
<1> QED
  BY <1>1, <1>2, <1>3, <1>4, <1>5, <1>6, <1>7, <1>8, <1>9, <1>10, <1>11, <1>12
     DEF Next, HandleClient

\* The maps the daemon holds never outnumber the calls clients made: no reply
\* that failed, no restart and no reused connection creates a map by itself.
THEOREM MapsWereRequested == Spec => []NoUnrequestedMaps
<1>1. Init => Accounted
  <2> SUFFICES ASSUME Init PROVE Accounted
    OBVIOUS
  <2>1. Pending = {}
    BY DEF Init, Pending
  <2>2. Cardinality(Pending) = 0
    BY <2>1, FS_EmptySet
  <2> QED BY <2>2 DEF Init, Accounted
<1>2. Inv /\ Accounted => NoUnrequestedMaps
  BY PendingFinite DEF Accounted, NoUnrequestedMaps, Inv, TypeOK
<1> QED BY <1>1, <1>2, NextAccounted, Invariance, PTL DEF Spec

-----------------------------------------------------------------------------
(* Nobody waits on each other.                                              *)

\* The request of a client that waits stays with its task until the task ends.
RequestKept ==
  \A k \in Conns : cli[k] = "waiting" /\ task[k] # "none" => req[k] # {}

\* Every step of every actor keeps it.
LEMMA NextRequestKept == TypeOK /\ RequestKept /\ [Next]_vars => RequestKept'
<1> SUFFICES ASSUME TypeOK, RequestKept, [Next]_vars PROVE RequestKept'
  OBVIOUS
<1> USE DEF TypeOK, RequestKept
<1>1. CASE EditPolicyFile \/ StartUp
  BY <1>1 DEF EditPolicyFile, StartUp, LoadPolicy, RemoveOldSocket, BindSocket,
              SetPermissions
<1>2. ASSUME NEW u \in Users, EditAccount(u) PROVE RequestKept'
  BY <1>2 DEF EditAccount
<1>3. CASE Crash
  BY <1>3 DEF Crash
<1>4. ASSUME NEW k \in Conns, Accept(k) PROVE RequestKept'
  BY <1>4 DEF Accept
<1>5. ASSUME NEW k \in Conns,
             LookupUser(k) \/ Identify(k) \/ ReadRequest(k) \/ Execute(k)
      PROVE  RequestKept'
  BY <1>5 DEF LookupUser, Identify, ReadRequest, Execute
<1>6. ASSUME NEW k \in Conns, IdentifyFails(k) \/ ReadFails(k) \/ Reply(k)
      PROVE  RequestKept'
  <2>1. Drop(k) /\ cli' = cli
    BY <1>6 DEF IdentifyFails, ReadFails, Reply
  <2> QED BY <2>1 DEF Drop
<1>7. ASSUME NEW k \in Conns, NEW u \in Users, Connect(k, u) PROVE RequestKept'
  BY <1>7 DEF Connect
<1>8. ASSUME NEW k \in Conns, NEW q \in Requests, Send(k, q) PROVE RequestKept'
  <2>1. CASE task[k] = "none"
    BY <1>8, <2>1 DEF Send
  <2>2. CASE task[k] # "none"
    <3>1. /\ task' = task
          /\ req' = [req EXCEPT ![k] = {q}]
          /\ cli' = [cli EXCEPT ![k] = "waiting"]
      BY <1>8, <2>2 DEF Send
    <3>2. DOMAIN req = Conns /\ DOMAIN cli = Conns
      OBVIOUS
    <3>3. req'[k] = {q} /\ {q} # {}
      BY <3>1, <3>2
    <3>4. \A j \in Conns : j # k => cli'[j] = cli[j] /\ req'[j] = req[j]
      BY <3>1, <3>2
    <3> QED BY <3>1, <3>3, <3>4
  <2> QED BY <2>1, <2>2
<1>9. ASSUME NEW k \in Conns, Receive(k) \/ ReceiveNothing(k) \/ Close(k)
      PROVE  RequestKept'
  <2>1. task' = task /\ req' = req /\ cli'[k] # "waiting"
    BY <1>9 DEF Receive, ReceiveNothing, Close
  <2>2. \A j \in Conns : j # k => cli'[j] = cli[j]
    BY <1>9 DEF Receive, ReceiveNothing, Close
  <2> QED BY <2>1, <2>2
<1>10. CASE UNCHANGED vars
  BY <1>10 DEF vars
<1> QED BY <1>1, <1>2, <1>3, <1>4, <1>5, <1>6, <1>7, <1>8, <1>9, <1>10
        DEF Next, HandleClient

\* A task never waits in read for a client that waits in recvmsg.
THEOREM NobodyWaitsInVain == Spec => []NoMutualWait
<1>1. Init => RequestKept
  BY DEF Init, RequestKept
<1>2. RequestKept => NoMutualWait
  BY DEF RequestKept, NoMutualWait
<1> QED BY <1>1, <1>2, NextRequestKept, TypeCorrect, PTL DEF Spec

-----------------------------------------------------------------------------
(* The refinement.                                                          *)

\* The monitor's notion of authorization is the policy's.
LEMMA SameAuthorized ==
  ASSUME NEW cfg, NEW g, NEW q
  PROVE  Monitor!Authorized(cfg, g, q) <=> Authorized(cfg, g, q)
BY Zenon
   DEF Authorized, Permits, TypePermits, CommandOf, Wildcard,
       Monitor!Authorized, Monitor!Permits, Monitor!TypePermits,
       Monitor!CommandOf, Monitor!Wildcard

\* The monitor's variables as the mapping gives them.
told == [k \in Conns |-> Told(outcome[k])]

MonitorUnchanged ==
  UNCHANGED <<policy, Live, held, req, made, told>>

\* A step that changes none of them is a stuttering step.
LEMMA Stutter == MonitorUnchanged => [Monitor!Next]_(Monitor!vars)
BY DEF MonitorUnchanged, Monitor!vars, told

LEMMA InitRefines == Init => Monitor!Init
<1> SUFFICES ASSUME Init PROVE Monitor!Init
  OBVIOUS
<1>1. Live = {}
  BY DEF Init, Live
<1>2. [k \in Conns |-> Told(outcome[k])] = [k \in Conns |-> "nothing"]
  BY DEF Init, Told
<1>3. policy \in PolicyConfigs \cup {DefaultPolicy}
  BY DEF Init
<1> QED BY <1>1, <1>2, <1>3 DEF Init, Monitor!Init

\* A task that is dropped ends its session.
LEMMA DropEnds ==
  ASSUME TypeOK, NEW k \in Conns, task[k] # "none", Drop(k),
         UNCHANGED <<policy, made, outcome>>
  PROVE  Monitor!End(k)
<1>1. Live' = Live \ {k} /\ k \in Live
  BY DEF Drop, Live, TypeOK
<1>2. told' = told
  BY DEF told
<1> QED BY <1>1, <1>2 DEF Drop, Monitor!End, told

\* A step that only changes what one caller knows.
LEMMA Learns ==
  ASSUME TypeOK, NEW k \in Conns, NEW o, outcome' = [outcome EXCEPT ![k] = o]
  PROVE  told' = [told EXCEPT ![k] = Told(o)]
BY DEF TypeOK, told

\* Every step of the daemon or of a client is one of the monitor, or none.
LEMMA StepRefines ==
  ASSUME Inv, Inv', [Next]_vars
  PROVE  [Monitor!Next]_(Monitor!vars)
<1>0. TypeOK /\ TypeOK'
  BY DEF Inv
<1>1. CASE EditPolicyFile \/ RemoveOldSocket \/ BindSocket \/ SetPermissions
  <2>1. MonitorUnchanged
    BY <1>1 DEF EditPolicyFile, RemoveOldSocket, BindSocket, SetPermissions,
                MonitorUnchanged, Live, told
  <2> QED BY <2>1, Stutter
<1>2. ASSUME NEW u \in Users, EditAccount(u) PROVE Monitor!Join
  <2>1. held' \in [Conns -> SUBSET Groups]
    BY <1>0 DEF TypeOK
  <2>2. \A k \in Conns : /\ held[k] \subseteq held'[k]
                         /\ k \notin Live => held'[k] = held[k]
    BY <1>2 DEF EditAccount, Live
  <2>3. UNCHANGED <<policy, Live, req, made, told>>
    BY <1>2 DEF EditAccount, Live, told
  <2> QED BY <2>1, <2>2, <2>3 DEF Monitor!Join, told
<1>3. CASE LoadPolicy
  <2>1. Live = {} /\ Live' = {}
    BY <1>3 DEF LoadPolicy, Live, Inv, TasksNeedDaemon
  <2>2. policy' \in PolicyConfigs \cup {DefaultPolicy}
    BY <1>0 DEF TypeOK
  <2>3. Monitor!Restart
    BY <1>3, <2>1, <2>2 DEF LoadPolicy, Monitor!Restart
  <2> QED BY <2>3 DEF Monitor!Next
<1>4. CASE Crash
  <2>1. Live' = {}
    BY <1>4 DEF Crash, Live
  <2>2. Monitor!Crash
    BY <1>4, <2>1 DEF Crash, Monitor!Crash
  <2> QED BY <2>2 DEF Monitor!Next
<1>5. ASSUME NEW k \in Conns,
             Accept(k) \/ LookupUser(k) \/ Identify(k) \/ ReadRequest(k)
      PROVE  MonitorUnchanged
  <2>1. Live' = Live
    BY <1>0, <1>5 DEF Accept, LookupUser, Identify, ReadRequest, Live, TypeOK
  <2> QED BY <1>5, <2>1 DEF Accept, LookupUser, Identify, ReadRequest,
                            MonitorUnchanged, told
<1>6. ASSUME NEW k \in Conns, IdentifyFails(k) \/ ReadFails(k) \/ Reply(k)
      PROVE  Monitor!End(k)
  BY <1>0, <1>6, DropEnds DEF IdentifyFails, ReadFails, Reply
<1>7. ASSUME NEW k \in Conns, Execute(k)
      PROVE  MonitorUnchanged \/ Monitor!Create(k)
  <2>1. Live' = Live /\ k \in Live /\ told' = told
    BY <1>0, <1>7 DEF Execute, Live, TypeOK, told
  <2>2. ~ made[k]
    BY <1>7 DEF Inv, NothingBeforeExecute, Unexecuted, Execute
  <2>3. policy' = policy /\ held' = held /\ req' = req
    BY <1>7 DEF Execute
  <2>4. PICK q \in req[k] : \E resp \in Respond(role[k], q) :
          /\ made' = [made EXCEPT ![k] = resp.kind = "Success"]
          /\ auth' = [auth EXCEPT ![k] = Authorized(policy, held[k], q)]
    BY <1>7 DEF Execute
  <2>6. CASE made'[k]
    <3>1. made' = [made EXCEPT ![k] = TRUE]
      BY <1>0, <2>4, <2>6, Zenon DEF TypeOK
    <3>2. auth'[k]
      BY <2>6 DEF Inv, GrantJustified
    <3>3. Authorized(policy, held[k], q)
      <4> DEFINE A == Authorized(policy, held[k], q)
      <4>1. auth' = [auth EXCEPT ![k] = A] /\ DOMAIN auth = Conns
        BY <1>0, <2>4 DEF TypeOK
      <4> HIDE DEF A
      <4>2. auth'[k] = A
        BY <4>1, Zenon
      <4>3. A
        BY <3>2, <4>2, Zenon
      <4> QED BY <4>3 DEF A
    <3>4. Monitor!Authorized(policy, held[k], q)
      BY <3>3, SameAuthorized
    <3> QED BY <2>1, <2>2, <2>3, <2>4, <3>1, <3>4 DEF Monitor!Create, told
  <2>7. CASE ~ made'[k]
    <3>1. made' = [made EXCEPT ![k] = FALSE]
      BY <1>0, <2>4, <2>7, Zenon DEF TypeOK
    <3>2. made[k] = FALSE
      BY <1>0, <2>2 DEF TypeOK
    <3>3. made' = made
      BY <1>0, <3>1, <3>2 DEF TypeOK
    <3> QED BY <2>1, <2>3, <3>3 DEF MonitorUnchanged
  <2> QED BY <2>6, <2>7
<1>8. ASSUME NEW k \in Conns, NEW u \in Users, Connect(k, u)
      PROVE  Monitor!Open(k)
  <2>1. k \notin Live /\ Live' = Live \cup {k}
    BY <1>0, <1>8 DEF Connect, Live, TypeOK
  <2>2. held' = [held EXCEPT ![k] = held'[k]] /\ held'[k] \in SUBSET Groups
    BY <1>0, <1>8 DEF Connect, TypeOK
  <2>3. told' = told /\ told[k] = "nothing"
    BY <1>8 DEF Connect, Inv, NoStaleOutcome, told, Told
  <2>4. told' = [told EXCEPT ![k] = "nothing"]
    BY <2>3 DEF told
  <2>5. policy' = policy /\ req' = req /\ made' = [made EXCEPT ![k] = FALSE]
    BY <1>8 DEF Connect
  <2> QED BY <2>1, <2>2, <2>4, <2>5 DEF Monitor!Open, told
<1>9. ASSUME NEW k \in Conns, NEW q \in Requests, Send(k, q)
      PROVE  Monitor!Ask(k) \/ Monitor!Forget(k)
  <2>1. told' = [told EXCEPT ![k] = "nothing"]
    BY <1>0, <1>9, Learns DEF Send, Told
  <2>2. Live' = Live /\ UNCHANGED <<policy, held, made>>
    BY <1>9 DEF Send, Live
  <2>3. CASE task[k] = "none"
    BY <1>9, <2>1, <2>2, <2>3 DEF Send, Monitor!Forget, told
  <2>4. CASE task[k] # "none"
    <3>1. told[k] = "nothing"
      BY <2>4 DEF Inv, NoStaleOutcome, told, Told
    <3>2. told' = told
      BY <2>1, <3>1 DEF told
    <3>3. k \in Live /\ req[k] = {} /\ req' = [req EXCEPT ![k] = {q}]
      BY <1>9, <2>4 DEF Send, Live, Inv, NoLeftovers
    <3> QED BY <2>2, <3>2, <3>3 DEF Monitor!Ask, told
  <2> QED BY <2>3, <2>4
<1>10. ASSUME NEW k \in Conns, Receive(k) PROVE Monitor!Tell(k) \/ Monitor!Forget(k)
  <2>1. PICK m \in reply[k] : \E o \in Returned(m) :
          outcome' = [outcome EXCEPT ![k] = o]
    BY <1>10 DEF Receive
  <2>2. PICK o \in Returned(m) : outcome' = [outcome EXCEPT ![k] = o]
    BY <2>1
  <2>3. m.kind \in {"Success", "Denied", "Error"} /\ (made[k] <=> m.kind = "Success")
    BY <1>0 DEF TypeOK, Inv, ReplyTruthful
  <2>4. /\ o \in {"fd", "nofd", "denied", "error", "broken"}
        /\ o \in {"fd", "nofd"} => made[k]
        /\ o \in {"denied", "error"} => ~ made[k]
    BY <2>2, <2>3, ReturnedMeaning
  <2>5. \/ Told(o) = IF made[k] THEN "created" ELSE "refused"
        \/ Told(o) = "nothing"
    BY <2>4 DEF Told
  <2>6. told' = [told EXCEPT ![k] = Told(o)]
    BY <1>0, <2>2, Learns
  <2>7. Live' = Live /\ k \notin Live /\ UNCHANGED <<policy, held, req, made>>
    BY <1>10 DEF Receive, Live
  <2> QED BY <2>5, <2>6, <2>7 DEF Monitor!Tell, Monitor!Forget, told
<1>11. ASSUME NEW k \in Conns, ReceiveNothing(k) \/ Close(k)
       PROVE  Monitor!Forget(k)
  <2>1. told' = [told EXCEPT ![k] = "nothing"]
    BY <1>0, <1>11, Learns DEF ReceiveNothing, Close, Told
  <2>2. Live' = Live
    BY <1>11 DEF ReceiveNothing, Close, Live
  <2> QED BY <1>11, <2>1, <2>2 DEF ReceiveNothing, Close, Monitor!Forget, told
<1>12. CASE UNCHANGED vars
  BY <1>12, Stutter DEF vars, MonitorUnchanged, Live, told
<1> QED
  BY <1>1, <1>2, <1>3, <1>4, <1>5, <1>6, <1>7, <1>8, <1>9, <1>10, <1>11, <1>12,
     Stutter
  DEF Next, StartUp, HandleClient, Monitor!Next

\* Proxy mode implements the reference monitor.
THEOREM ProxyImplementsMonitor == Spec => ImplementsMonitor
<1>1. Spec => []Inv
  BY Invariance
<1> QED BY <1>1, InitRefines, StepRefines, PTL
        DEF Spec, ImplementsMonitor, Monitor!Spec
=============================================================================
