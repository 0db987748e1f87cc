-------------------------- MODULE NamespaceProofs ---------------------------
(* The safety properties of the nsenter dance, for every set of callers,     *)
(* PIDs, containers and processes and every rule by which setns succeeds.    *)
EXTENDS Namespace, TLAPS

\* Where a caller is at each step of a call.
Placed(t) ==
  LET c == call[t]
  IN /\ c.pc \in {"open_user", "open_mnt", "enter_user"} => ctx[t] = c.self
     /\ c.pc = "enter_mnt" => /\ ctx[t].user = c.fds.user
                              /\ <<c.self.user, c.fds.user>> \in MayJoin
     /\ c.pc = "act" => /\ ctx[t] = c.fds
                        /\ <<c.self.user, c.fds.user>> \in MayJoin
                        /\ MayAdmin(c.fds.user, c.fds.mnt)
     /\ c.pc = "restore_mnt" => ctx[t].user = c.self.user \/ c.refused # {}
     /\ c.pc = "idle" => ctx[t] = c.self \/ c.refused # {}

Inv == TypeOK /\ \A t \in Callers : Placed(t)

-----------------------------------------------------------------------------
\* /proc shows processes with their namespaces.
LEMMA LookupType ==
  ASSUME TypeOK, NEW t \in Callers, NEW p \in Pids
  PROVE  Lookup(t, p) \subseteq Context
<1>1. pids[p] \subseteq Context
  <2>1. pids[p] \in Option(Kinds)
    BY DEF TypeOK
  <2> QED BY <2>1, NamespaceAssumption DEF Option
<1>2. ctx[t] \in Context
  BY DEF TypeOK
<1> QED BY <1>1, <1>2 DEF Lookup

\* A target names one of the PIDs.
LEMMA TargetPid ==
  ASSUME TypeOK, NEW t \in Callers, NEW d \in call[t].target
  PROVE  d.pid \in Pids
<1>1. call[t] \in Call
  BY DEF TypeOK
<1>2. call[t].target \in Option(Target)
  BY <1>1 DEF Call
<1> QED BY <1>2 DEF Target, Option

\* A step of caller t that leaves the processes and the mounts alone keeps the
\* invariant if it puts t where Placed says.
LEMMA CallerStep ==
  ASSUME Inv, NEW t \in Callers, NEW c \in Call, NEW x \in Context,
         Becomes(t, c), ctx' = [ctx EXCEPT ![t] = x], UNCHANGED <<pids, mounts>>,
         c.pc \in {"open_user", "open_mnt", "enter_user"} => x = c.self,
         c.pc = "enter_mnt" => /\ x.user = c.fds.user
                               /\ <<c.self.user, c.fds.user>> \in MayJoin,
         c.pc = "act" => /\ x = c.fds
                         /\ <<c.self.user, c.fds.user>> \in MayJoin
                         /\ MayAdmin(c.fds.user, c.fds.mnt),
         c.pc = "restore_mnt" => x.user = c.self.user \/ c.refused # {},
         c.pc = "idle" => x = c.self \/ c.refused # {}
  PROVE  Inv'
<1>1. /\ call' \in [Callers -> Call] /\ ctx' \in [Callers -> Context]
      /\ call'[t] = c /\ ctx'[t] = x
      /\ \A s \in Callers \ {t} : call'[s] = call[s] /\ ctx'[s] = ctx[s]
  BY DEF Inv, TypeOK, Becomes
<1>2. TypeOK'
  BY <1>1 DEF Inv, TypeOK
<1>3. Placed(t)'
  BY <1>1 DEF Placed, MayAdmin
<1>4. ASSUME NEW s \in Callers \ {t} PROVE Placed(s)'
  <2>1. Placed(s) /\ call'[s] = call[s] /\ ctx'[s] = ctx[s]
    BY <1>1, <1>4 DEF Inv
  <2> QED BY <2>1 DEF Placed, MayAdmin
<1> QED BY <1>2, <1>3, <1>4 DEF Inv

\* The same for a step that leaves the context alone.
LEMMA LocalStep ==
  ASSUME Inv, NEW t \in Callers, NEW c \in Call,
         Becomes(t, c), UNCHANGED <<pids, mounts, ctx>>,
         c.pc \in {"open_user", "open_mnt", "enter_user"} => ctx[t] = c.self,
         c.pc \notin {"enter_mnt", "act"},
         c.pc = "restore_mnt" => ctx[t].user = c.self.user \/ c.refused # {},
         c.pc = "idle" => ctx[t] = c.self \/ c.refused # {}
  PROVE  Inv'
<1>1. ctx[t] \in Context /\ ctx' = [ctx EXCEPT ![t] = ctx[t]]
  BY DEF Inv, TypeOK
<1> QED BY <1>1, CallerStep

\* The locals after a call has returned.
LEMMA Returns ==
  ASSUME Inv, NEW t \in Callers, NEW result \in {"none", "ok", "err"},
         NEW refused \in SUBSET Steps, Return(t, result, refused)
  PROVE  \E c \in Call : /\ Becomes(t, c)
                         /\ c.pc = "idle" /\ c.self = call[t].self
                         /\ c.refused = call[t].refused \cup refused
<1> DEFINE c == [call[t] EXCEPT !.pc = "idle", !.op = "delegate", !.fds = Home,
                     !.result = result, !.refused = @ \cup refused]
<1>1. call[t] \in Call
  BY DEF Inv, TypeOK
<1>2. Home \in Context
  BY DEF Home, Context, Spaces
<1>3. call[t].refused \cup refused \in SUBSET Steps
  BY <1>1 DEF Call
<1>4. c \in Call /\ c.pc = "idle" /\ c.self = call[t].self
      /\ c.refused = call[t].refused \cup refused
  BY <1>1, <1>2, <1>3 DEF Call, Steps
<1> QED BY <1>4 DEF Return

-----------------------------------------------------------------------------
LEMMA InitInv == Init => Inv
<1> SUFFICES ASSUME Init PROVE Inv
  OBVIOUS
<1>1. Home \in Context
  BY DEF Home, Context, Spaces
<1>2. {} \in Option(Target)
  BY DEF Option
<1>3. mounts \in [Spaces -> Seq(Spaces)]
  BY DEF Init
<1>4. call \in [Callers -> Call] /\ ctx \in [Callers -> Context]
  BY <1>1, <1>2 DEF Init, Call, Steps
<1> QED BY <1>3, <1>4 DEF Init, Inv, TypeOK, Placed

LEMMA NextInv == ASSUME Inv, [Next]_vars PROVE Inv'
<1> USE DEF Steps
<1>0. \A t \in Callers : call[t] \in Call /\ ctx[t] \in Context /\ Placed(t)
  BY DEF Inv, TypeOK
<1>1. ASSUME NEW p \in Pids, PidReused(p) PROVE Inv'
  BY <1>1 DEF Inv, TypeOK, Placed, PidReused, MayAdmin
<1>2. ASSUME NEW t \in Callers, NEW p \in Pids, from_pid(t, p) PROVE Inv'
  <2>1. PICK q \in Context :
          Becomes(t, [call[t] EXCEPT
                        !.target = {[pid |-> p, userns_id |-> q.user]}])
    BY <1>2, LookupType DEF from_pid, Inv
  <2>2. {[pid |-> p, userns_id |-> q.user]} \in Option(Target)
    BY DEF Target, Context, Option
  <2> DEFINE c == [call[t] EXCEPT !.target = {[pid |-> p, userns_id |-> q.user]}]
  <2>3. c \in Call /\ c.pc = "idle" /\ c.self = call[t].self
        /\ c.refused = call[t].refused
    BY <1>0, <1>2, <2>2 DEF Call, from_pid
  <2>4. ctx[t] = c.self \/ c.refused # {}
    BY <1>0, <1>2, <2>3 DEF Placed, from_pid
  <2> QED BY <1>2, <2>1, <2>3, <2>4, LocalStep DEF from_pid
<1>3. ASSUME NEW t \in Callers, NEW op \in {"delegate", "revoke"}, Start(t, op)
      PROVE Inv'
  <2> DEFINE c == [call[t] EXCEPT !.pc = "open_user", !.op = op, !.self = ctx[t],
                                  !.result = "none", !.refused = {}]
  <2>1. c \in Call /\ c.pc = "open_user" /\ c.self = ctx[t]
    BY <1>0 DEF Call
  <2> QED BY <1>3, <2>1, LocalStep DEF Start
<1>4. ASSUME NEW t \in Callers, OpenFails(t) \/ EnterUserFails(t) PROVE Inv'
  <2>1. ctx[t] = call[t].self
    BY <1>0, <1>4 DEF Placed, OpenFails, EnterUserFails
  <2>2. PICK c \in Call : Becomes(t, c) /\ c.pc = "idle" /\ c.self = call[t].self
    BY <1>4, Returns DEF OpenFails, EnterUserFails
  <2> QED BY <1>4, <2>1, <2>2, LocalStep DEF OpenFails, EnterUserFails
<1>5. ASSUME NEW t \in Callers, OpenUser(t) PROVE Inv'
  <2>1. PICK q \in Context :
          Becomes(t, [call[t] EXCEPT !.pc = "open_mnt", !.fds.user = q.user])
    BY <1>5, LookupType, TargetPid DEF OpenUser, Inv
  <2> DEFINE c == [call[t] EXCEPT !.pc = "open_mnt", !.fds.user = q.user]
  <2>2. [call[t].fds EXCEPT !.user = q.user] \in Context
    BY <1>0 DEF Call, Context
  <2>3. c \in Call /\ c.pc = "open_mnt" /\ c.self = call[t].self
    BY <1>0, <2>2 DEF Call
  <2>4. ctx[t] = call[t].self
    BY <1>0, <1>5 DEF Placed, OpenUser
  <2> QED BY <1>5, <2>1, <2>3, <2>4, LocalStep DEF OpenUser
<1>6. ASSUME NEW t \in Callers, OpenMnt(t) PROVE Inv'
  <2>1. PICK q \in Context :
          Becomes(t, [call[t] EXCEPT !.pc = "enter_user", !.fds.mnt = q.mnt])
    BY <1>6, LookupType, TargetPid DEF OpenMnt, Inv
  <2> DEFINE c == [call[t] EXCEPT !.pc = "enter_user", !.fds.mnt = q.mnt]
  <2>2. [call[t].fds EXCEPT !.mnt = q.mnt] \in Context
    BY <1>0 DEF Call, Context
  <2>3. c \in Call /\ c.pc = "enter_user" /\ c.self = call[t].self
    BY <1>0, <2>2 DEF Call
  <2>4. ctx[t] = call[t].self
    BY <1>0, <1>6 DEF Placed, OpenMnt
  <2> QED BY <1>6, <2>1, <2>3, <2>4, LocalStep DEF OpenMnt
<1>7. ASSUME NEW t \in Callers, EnterUser(t) PROVE Inv'
  <2> DEFINE c == [call[t] EXCEPT !.pc = "enter_mnt"]
             x == [ctx[t] EXCEPT !.user = call[t].fds.user]
  <2>1. c \in Call /\ c.pc = "enter_mnt" /\ c.self = call[t].self
        /\ c.fds = call[t].fds
    BY <1>0 DEF Call
  <2>2. x \in Context /\ x.user = call[t].fds.user
    BY <1>0 DEF Context, Call
  <2>3. ctx' = [ctx EXCEPT ![t] = x]
    BY <1>7 DEF EnterUser
  <2>4. <<call[t].self.user, call[t].fds.user>> \in MayJoin
    BY <1>0, <1>7 DEF Placed, EnterUser
  <2> HIDE DEF c, x
  <2>5. Becomes(t, c) /\ UNCHANGED <<pids, mounts>>
    BY <1>7 DEF EnterUser, c
  <2> QED BY <2>1, <2>2, <2>3, <2>4, <2>5, CallerStep
<1>8. ASSUME NEW t \in Callers, EnterMnt(t) PROVE Inv'
  <2> DEFINE c == [call[t] EXCEPT !.pc = "act"]
             x == [ctx[t] EXCEPT !.mnt = call[t].fds.mnt]
  <2>1. c \in Call /\ c.pc = "act" /\ c.self = call[t].self
        /\ c.fds = call[t].fds
    BY <1>0 DEF Call
  <2>2. ctx[t].user = call[t].fds.user
        /\ <<call[t].self.user, call[t].fds.user>> \in MayJoin
    BY <1>0, <1>8 DEF Placed, EnterMnt
  <2>3. x \in Context /\ x = call[t].fds
    BY <1>0, <2>2 DEF Context, Call
  <2>4. ctx' = [ctx EXCEPT ![t] = x]
    BY <1>8 DEF EnterMnt
  <2>5. Becomes(t, c) /\ UNCHANGED <<pids, mounts>>
        /\ MayAdmin(call[t].fds.user, call[t].fds.mnt)
    BY <1>8, <2>2 DEF EnterMnt
  <2> HIDE DEF c, x
  <2> QED BY <2>1, <2>2, <2>3, <2>4, <2>5, CallerStep
<1>9. ASSUME NEW t \in Callers, EnterMntFails(t) PROVE Inv'
  <2>1. PICK c \in Call : /\ Becomes(t, c) /\ c.pc = "idle"
                          /\ c.refused = call[t].refused \cup {"enter_mnt"}
    BY <1>9, Returns DEF EnterMntFails
  <2> QED BY <1>9, <2>1, LocalStep DEF EnterMntFails
<1>10. ASSUME NEW t \in Callers, Act(t) PROVE Inv'
  <2> DEFINE c == [call[t] EXCEPT !.pc = "restore_user", !.result = "ok"]
             m == ctx[t].mnt
  <2>1. mounts' \in [Spaces -> Seq(Spaces)]
    <3>1. m \in Spaces /\ ctx[t].user \in Spaces /\ mounts[m] \in Seq(Spaces)
      BY <1>0 DEF Inv, TypeOK, Context
    <3>2. CASE call[t].op = "delegate"
      BY <1>10, <3>1, <3>2 DEF Act, Inv, TypeOK
    <3>3. CASE call[t].op # "delegate"
      <4>1. mounts[m] # <<>>
        BY <1>10, <3>3 DEF Act
      <4>2. SubSeq(mounts[m], 1, Len(mounts[m]) - 1) \in Seq(Spaces)
        BY <3>1, <4>1
      <4> QED BY <1>10, <3>1, <3>3, <4>2 DEF Act, Inv, TypeOK
    <3> QED BY <3>2, <3>3
  <2>2. c \in Call /\ c.pc = "restore_user"
    BY <1>0 DEF Call
  <2>3. Becomes(t, c) /\ UNCHANGED <<pids, ctx>>
    BY <1>10 DEF Act
  <2> HIDE DEF c
  <2>4. call' \in [Callers -> Call] /\ call'[t] = c
        /\ \A s \in Callers \ {t} : call'[s] = call[s]
    BY <2>2, <2>3 DEF Inv, TypeOK, Becomes
  <2>5. TypeOK'
    BY <2>1, <2>3, <2>4 DEF Inv, TypeOK
  <2>6. \A s \in Callers : Placed(s)'
    BY <1>0, <2>2, <2>3, <2>4 DEF Placed, MayAdmin
  <2> QED BY <2>5, <2>6 DEF Inv
<1>11. ASSUME NEW t \in Callers, ActFails(t) PROVE Inv'
  <2> DEFINE c == [call[t] EXCEPT !.pc = "restore_user", !.result = "err"]
  <2>1. c \in Call /\ c.pc = "restore_user"
    BY <1>0 DEF Call
  <2> QED BY <1>11, <2>1, LocalStep DEF ActFails
<1>12. ASSUME NEW t \in Callers, RestoreUser(t) PROVE Inv'
  <2> DEFINE c == [call[t] EXCEPT !.pc = "restore_mnt"]
             x == [ctx[t] EXCEPT !.user = call[t].self.user]
  <2>1. c \in Call /\ c.pc = "restore_mnt" /\ c.self = call[t].self
    BY <1>0 DEF Call
  <2>2. x \in Context /\ x.user = call[t].self.user
    BY <1>0 DEF Context, Call
  <2>3. ctx' = [ctx EXCEPT ![t] = x]
    BY <1>12 DEF RestoreUser
  <2>4. Becomes(t, c) /\ UNCHANGED <<pids, mounts>>
    BY <1>12 DEF RestoreUser
  <2> HIDE DEF c, x
  <2> QED BY <2>1, <2>2, <2>3, <2>4, CallerStep
<1>13. ASSUME NEW t \in Callers, RestoreMnt(t) PROVE Inv'
  <2> DEFINE x == [ctx[t] EXCEPT !.mnt = call[t].self.mnt]
  <2>1. call[t].result \in {"none", "ok", "err"}
    BY <1>0 DEF Call
  <2>2. PICK c \in Call : /\ Becomes(t, c) /\ c.pc = "idle"
                          /\ c.self = call[t].self
                          /\ c.refused = call[t].refused \cup {}
    BY <1>13, <2>1, Returns DEF RestoreMnt
  <2>3. ctx[t].user = call[t].self.user \/ call[t].refused # {}
    BY <1>0, <1>13 DEF Placed, RestoreMnt
  <2>4. x \in Context /\ (ctx[t].user = call[t].self.user => x = call[t].self)
    <3>1. call[t].self \in Context /\ ctx[t] \in Context
      BY <1>0 DEF Call
    <3> QED BY <3>1 DEF Context
  <2>5. ctx' = [ctx EXCEPT ![t] = x] /\ UNCHANGED <<pids, mounts>>
    BY <1>13 DEF RestoreMnt
  <2> HIDE DEF x
  <2> QED BY <2>2, <2>3, <2>4, <2>5, CallerStep
<1>14. ASSUME NEW t \in Callers, RestoreFails(t) PROVE Inv'
  <2>1. CASE call[t].pc = "restore_user"
    <3> DEFINE c == [call[t] EXCEPT !.pc = "restore_mnt",
                                    !.refused = @ \cup {"restore_user"}]
    <3>1. call[t].refused \cup {"restore_user"} \in SUBSET Steps
      BY <1>0 DEF Call
    <3>2. c \in Call /\ c.pc = "restore_mnt" /\ c.refused # {}
      BY <1>0, <3>1 DEF Call
    <3> QED BY <1>14, <2>1, <3>2, LocalStep DEF RestoreFails
  <2>2. CASE call[t].pc = "restore_mnt"
    <3>1. call[t].result \in {"none", "ok", "err"}
      BY <1>0 DEF Call
    <3>2. PICK c \in Call : /\ Becomes(t, c) /\ c.pc = "idle"
                            /\ c.refused = call[t].refused \cup {"restore_mnt"}
      BY <1>14, <2>2, <3>1, Returns DEF RestoreFails
    <3> QED BY <1>14, <3>2, LocalStep DEF RestoreFails
  <2> QED BY <1>14, <2>1, <2>2 DEF RestoreFails
<1>15. CASE UNCHANGED vars
  BY <1>15 DEF Inv, TypeOK, Placed, MayAdmin, vars
<1> QED BY <1>1, <1>2, <1>3, <1>4, <1>5, <1>6, <1>7, <1>8, <1>9, <1>10, <1>11,
           <1>12, <1>13, <1>14, <1>15 DEF Next

\* Every behaviour keeps the locals and contexts of the callers consistent.
THEOREM InvHolds == Spec => []Inv
<1> QED BY InitInv, NextInv, PTL DEF Spec

\* The values of every variable.
THEOREM TypeCorrect == Spec => []TypeOK
<1>1. Inv => TypeOK
  BY DEF Inv
<1> QED BY <1>1, InvHolds, PTL

\* No error path but a refused setns loses the way back to the namespaces the
\* call started in.
THEOREM RestoreHolds == Spec => []RestoredUnlessRefused
<1>1. Inv => RestoredUnlessRefused
  BY DEF Inv, Placed, RestoredUnlessRefused
<1> QED BY <1>1, InvHolds, PTL

-----------------------------------------------------------------------------
\* How one step may change a stack of mounts: at "act", the caller is in the
\* namespaces it opened.
LEMMA MountStep ==
  ASSUME Inv, [Next]_vars, NEW m \in Spaces, mounts'[m] # mounts[m]
  PROVE  \E t \in Callers :
           /\ call[t].pc = "act" /\ call[t].fds.mnt = m
           /\ <<call[t].self.user, call[t].fds.user>> \in MayJoin
           /\ MayAdmin(call[t].fds.user, m)
           /\ \/ mounts'[m] = Append(mounts[m], call[t].fds.user)
              \/ /\ mounts[m] # <<>>
                 /\ mounts'[m] = SubSeq(mounts[m], 1, Len(mounts[m]) - 1)
<1>1. PICK t \in Callers : Act(t)
  BY DEF Next, vars, PidReused, from_pid, Start, OpenFails, OpenUser, OpenMnt,
         EnterUser, EnterUserFails, EnterMnt, EnterMntFails, ActFails,
         RestoreUser, RestoreMnt, RestoreFails
<1>2. /\ ctx[t] = call[t].fds /\ call[t].pc = "act"
      /\ <<call[t].self.user, call[t].fds.user>> \in MayJoin
      /\ MayAdmin(call[t].fds.user, call[t].fds.mnt)
  BY <1>1 DEF Inv, Placed, Act
<1>3. mounts \in [Spaces -> Seq(Spaces)]
  BY DEF Inv, TypeOK
<1>4. ctx[t].mnt = m
  BY <1>1, <1>3 DEF Act
<1>5. \/ mounts'[m] = Append(mounts[m], call[t].fds.user)
      \/ /\ mounts[m] # <<>>
         /\ mounts'[m] = SubSeq(mounts[m], 1, Len(mounts[m]) - 1)
  BY <1>1, <1>2, <1>3, <1>4 DEF Act
<1> QED BY <1>2, <1>4, <1>5

\* Mounts appear and disappear only where their caller opened a namespace.
THEOREM MountsHold == Spec => MountsWhereOpened
<1>1. ASSUME Inv, [Next]_vars
      PROVE  [\A m \in Spaces :
                mounts'[m] # mounts[m] =>
                  \E t \in Callers :
                    /\ call[t].pc = "act" /\ call[t].fds.mnt = m
                    /\ \/ mounts'[m] = Append(mounts[m], call[t].fds.user)
                       \/ mounts'[m]
                            = SubSeq(mounts[m], 1, Len(mounts[m]) - 1)]_vars
  BY <1>1, MountStep
<1> QED BY <1>1, InvHolds, PTL DEF Spec, MountsWhereOpened

\* Under the rule of Linux, every bpffs belongs to a container, and to one
\* that owns or encloses the mount namespace it is in.
Owned ==
  LinuxRule =>
    \A m \in Spaces : \A i \in 1 .. Len(mounts[m]) :
      mounts[m][i] \in Containers /\ MayAdmin(mounts[m][i], m)

LEMMA OwnedStep == ASSUME Inv, Owned, [Next]_vars PROVE Owned'
<1> SUFFICES ASSUME LinuxRule, NEW m \in Spaces, NEW i \in 1 .. Len(mounts'[m])
             PROVE  mounts'[m][i] \in Containers /\ MayAdmin(mounts'[m][i], m)
  BY DEF Owned, MayAdmin
<1> DEFINE Good(u) == u \in Containers /\ MayAdmin(u, m)
<1>1. mounts[m] \in Seq(Spaces)
  BY DEF Inv, TypeOK
<1>2. \A j \in 1 .. Len(mounts[m]) : Good(mounts[m][j])
  BY DEF Owned
<1> HIDE DEF Good
<1>3. CASE mounts'[m] = mounts[m]
  BY <1>2, <1>3 DEF Good
<1>4. CASE mounts'[m] # mounts[m]
  <2>1. PICK t \in Callers :
          /\ <<call[t].self.user, call[t].fds.user>> \in MayJoin
          /\ MayAdmin(call[t].fds.user, m)
          /\ \/ mounts'[m] = Append(mounts[m], call[t].fds.user)
             \/ /\ mounts[m] # <<>>
                /\ mounts'[m] = SubSeq(mounts[m], 1, Len(mounts[m]) - 1)
    BY <1>4, MountStep
  <2> DEFINE u == call[t].fds.user
  \* Whoever has changed its user namespace has gone inwards.
  <2>2. u \in Containers
    <3>1. call[t].self.user \in Spaces /\ u \in Spaces
      BY DEF Inv, TypeOK, Call, Context
    <3> QED BY <2>1, <3>1 DEF LinuxRule, Spaces
  <2>3. Good(u) /\ u \in Spaces
    BY <2>1, <2>2 DEF Good, Spaces
  <2>4. CASE mounts'[m] = Append(mounts[m], u)
    <3> HIDE DEF u
    <3>1. Good(mounts'[m][i])
      BY <1>1, <1>2, <2>3, <2>4
    <3> QED BY <3>1 DEF Good
  <2>5. CASE /\ mounts[m] # <<>>
             /\ mounts'[m] = SubSeq(mounts[m], 1, Len(mounts[m]) - 1)
    <3>1. Good(mounts'[m][i])
      BY <1>1, <1>2, <2>5
    <3> QED BY <3>1 DEF Good
  <2> QED BY <2>1, <2>4, <2>5
<1> QED BY <1>3, <1>4

THEOREM OwnedHolds == Spec => []Owned
<1>1. Init => Owned
  BY DEF Init, Owned
<1> QED BY <1>1, OwnedStep, InvHolds, PTL DEF Spec

\* Nothing is ever mounted in the host's mount namespace: no container owns or
\* encloses it.
THEOREM HostUntouchedHolds == Spec => []HostUntouched
<1>1. Inv /\ Owned => HostUntouched
  <2> SUFFICES ASSUME Inv, Owned, LinuxRule PROVE mounts[Host] = <<>>
    BY DEF HostUntouched
  <2>1. Host \in Spaces /\ Host \notin Containers
    BY NamespaceAssumption DEF Spaces
  <2>2. mounts[Host] \in Seq(Spaces)
    BY <2>1 DEF Inv, TypeOK
  <2>3. \A u \in Containers : ~ MayAdmin(u, Host)
    BY <2>1 DEF MayAdmin, LinuxRule, Spaces
  <2>4. ~ 1 \in 1 .. Len(mounts[Host])
    BY <2>1, <2>3 DEF Owned
  <2> QED BY <2>2, <2>4
<1> QED BY <1>1, OwnedHolds, InvHolds, PTL

\* However PIDs are reused between the opens and however user namespaces are
\* nested, a bpffs belongs to a container that owns or encloses the mount
\* namespace it is in.
THEOREM NoCrossHolds == Spec => []NoCrossDelegation
<1>1. Inv /\ Owned => NoCrossDelegation
  <2> SUFFICES ASSUME Inv, Owned, LinuxRule, NEW m \in Spaces,
                      NEW i \in DOMAIN mounts[m]
               PROVE  /\ mounts[m][i] \in Containers
                      /\ mounts[m][i] = m \/ <<mounts[m][i], m>> \in MayJoin
    BY DEF NoCrossDelegation
  <2>1. DOMAIN mounts[m] = 1 .. Len(mounts[m])
    BY DEF Inv, TypeOK
  <2> QED BY <2>1 DEF Owned, MayAdmin
<1> QED BY <1>1, OwnedHolds, InvHolds, PTL
=============================================================================
