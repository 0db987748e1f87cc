----------------------------- MODULE Namespace ------------------------------
(***************************************************************************)
(* Namespace delegation (src/namespace.rs): the "nsenter dance" of         *)
(* delegate_bpf_to_namespace and revoke_bpf_delegation, one action per     *)
(* system call, while PIDs are reused and other callers do the same.       *)
(*                                                                         *)
(* A container c has a user namespace and a mount namespace that the user  *)
(* namespace owns; both are called c, those of the host are called Host.   *)
(* Every call uses the same mount_path, so a mount namespace is the stack  *)
(* of bpffs mounted there, each one represented by its s_user_ns.          *)
(***************************************************************************)
EXTENDS Naturals, Sequences

CONSTANTS
  Callers,     \* processes that use the library
  Pids,        \* PIDs they name as targets
  Containers,  \* namespaces other than the host's
  Kinds,       \* what a PID may be: [user, mnt], its two namespaces
  MayJoin,     \* <<u, w>>: from user namespace u setns to w may succeed
  MaxMounts    \* bound: mounts stacked at mount_path

Host == "host"
Spaces == Containers \cup {Host}
Context == [user : Spaces, mnt : Spaces]
Option(S) == {{}} \cup {{x} : x \in S}

\* setns refuses the user namespace the caller is in (EINVAL).
ASSUME NamespaceAssumption ==
  /\ Host \notin Containers
  /\ Kinds \subseteq Context
  /\ MayJoin \subseteq Spaces \X Spaces
  /\ \A s \in Spaces : <<s, s>> \notin MayJoin
  /\ MaxMounts \in Nat

VARIABLES
  pids,    \* the process a PID names, {} if none
  mounts,  \* mount namespace -> stack of s_user_ns
  ctx,     \* the namespaces a caller is in
  call     \* the locals of a caller's last or current call, with the result
           \* it returned and the setns calls that were refused in it

vars == <<pids, mounts, ctx, call>>

Target == [pid : Pids, userns_id : Spaces]

Home == [user |-> Host, mnt |-> Host]

Init ==
  /\ pids \in [Pids -> Option(Kinds)]
  /\ mounts = [s \in Spaces |-> <<>>]
  /\ ctx = [t \in Callers |-> Home]
  /\ call = [t \in Callers |->
               [pc |-> "idle", op |-> "delegate", target |-> {},
                self |-> Home, fds |-> Home, result |-> "none", refused |-> {}]]

\* What /proc/{pid} shows to a caller: inside a container it may be the
\* container's own procfs, where the PID is one of its processes.
Lookup(t, p) == pids[p] \cup (IF ctx[t].mnt = Host THEN {} ELSE {ctx[t]})

\* CAP_SYS_ADMIN in the user namespace that owns mount namespace m.
MayAdmin(u, m) == u = m \/ <<u, m>> \in MayJoin

\* The process ends and its PID names another one, or none.
PidReused(p) ==
  /\ \E q \in Option(Kinds) \ {pids[p]} :
       pids' = [pids EXCEPT ![p] = q]
  /\ UNCHANGED <<mounts, ctx, call>>

\* The locals of caller t become c.
Becomes(t, c) == call' = [call EXCEPT ![t] = c]

\* A wrong variant: a PID without a process yields an id of its own.
NoSuchProcessIsZero(t, p) ==
  /\ call[t].pc = "idle"
  /\ Becomes(t, [call[t] EXCEPT
                  !.target = {[pid |-> p, userns_id |-> "none"]}])
  /\ UNCHANGED <<pids, mounts, ctx>>

from_pid(t, p) ==
  /\ call[t].pc = "idle"
  /\ \E q \in Lookup(t, p) :
       Becomes(t, [call[t] EXCEPT
                     !.target = {[pid |-> p, userns_id |-> q.user]}])
  /\ UNCHANGED <<pids, mounts, ctx>>

-----------------------------------------------------------------------------
(* The steps of both functions.                                             *)

\* The function returns and its descriptors are closed.
Return(t, result, refused) ==
  Becomes(t, [call[t] EXCEPT !.pc = "idle", !.op = "delegate", !.fds = Home,
                             !.result = result, !.refused = @ \cup refused])

\* The function is called and opens /proc/self/ns/user and mnt.
Start(t, op) ==
  /\ call[t].pc = "idle"
  /\ call[t].target # {}
  /\ Becomes(t, [call[t] EXCEPT !.pc = "open_user", !.op = op, !.self = ctx[t],
                                !.result = "none", !.refused = {}])
  /\ UNCHANGED <<pids, mounts, ctx>>

\* open_ns_fd fails: an early return with nothing entered.
OpenFails(t) ==
  /\ call[t].pc \in {"open_user", "open_mnt"}
  /\ Return(t, "err", {})
  /\ UNCHANGED <<pids, mounts, ctx>>

OpenUser(t) ==
  /\ call[t].pc = "open_user"
  /\ \E d \in call[t].target : \E q \in Lookup(t, d.pid) :
       Becomes(t, [call[t] EXCEPT !.pc = "open_mnt", !.fds.user = q.user])
  /\ UNCHANGED <<pids, mounts, ctx>>

OpenMnt(t) ==
  /\ call[t].pc = "open_mnt"
  /\ \E d \in call[t].target : \E q \in Lookup(t, d.pid) :
       Becomes(t, [call[t] EXCEPT !.pc = "enter_user", !.fds.mnt = q.mnt])
  /\ UNCHANGED <<pids, mounts, ctx>>

EnterUser(t) ==
  /\ call[t].pc = "enter_user"
  /\ <<ctx[t].user, call[t].fds.user>> \in MayJoin
  /\ ctx' = [ctx EXCEPT ![t].user = call[t].fds.user]
  /\ Becomes(t, [call[t] EXCEPT !.pc = "enter_mnt"])
  /\ UNCHANGED <<pids, mounts>>

\* A wrong variant: the result of the first setns is ignored.
UserRefusalIgnored(t) ==
  /\ call[t].pc = "enter_user"
  /\ Becomes(t, [call[t] EXCEPT !.pc = "enter_mnt"])
  /\ UNCHANGED <<pids, mounts, ctx>>

EnterUserFails(t) ==
  /\ call[t].pc = "enter_user"
  /\ Return(t, "err", {})
  /\ UNCHANGED <<pids, mounts, ctx>>

EnterMnt(t) ==
  /\ call[t].pc = "enter_mnt"
  /\ MayAdmin(ctx[t].user, call[t].fds.mnt)
  /\ ctx' = [ctx EXCEPT ![t].mnt = call[t].fds.mnt]
  /\ Becomes(t, [call[t] EXCEPT !.pc = "act"])
  /\ UNCHANGED <<pids, mounts>>

\* A wrong variant: the result of the second setns is ignored.
MntRefusalIgnored(t) ==
  /\ call[t].pc = "enter_mnt"
  /\ Becomes(t, [call[t] EXCEPT !.pc = "act"])
  /\ UNCHANGED <<pids, mounts, ctx>>

\* An early return, and the caller stays in the target user namespace.
EnterMntFails(t) ==
  /\ call[t].pc = "enter_mnt"
  /\ Return(t, "err", {"enter_mnt"})
  /\ UNCHANGED <<pids, mounts, ctx>>

\* mount or umount works on the top of the stack.
Act(t) ==
  /\ call[t].pc = "act"
  /\ LET m == ctx[t].mnt
     IN mounts' = [mounts EXCEPT ![m] =
                     IF call[t].op = "delegate" THEN Append(@, ctx[t].user)
                     ELSE SubSeq(@, 1, Len(@) - 1)]
        /\ IF call[t].op = "delegate" THEN Len(mounts[m]) < MaxMounts
           ELSE mounts[m] # <<>>
  /\ Becomes(t, [call[t] EXCEPT !.pc = "restore_user", !.result = "ok"])
  /\ UNCHANGED <<pids, ctx>>

\* A wrong variant: the error of mount is returned with `?`.
ActFailureReturns(t) ==
  /\ call[t].pc = "act"
  /\ Return(t, "err", {})
  /\ UNCHANGED <<pids, mounts, ctx>>

ActFails(t) ==
  /\ call[t].pc = "act"
  /\ Becomes(t, [call[t] EXCEPT !.pc = "restore_user", !.result = "err"])
  /\ UNCHANGED <<pids, mounts, ctx>>

RestoreUser(t) ==
  /\ call[t].pc = "restore_user"
  /\ <<ctx[t].user, call[t].self.user>> \in MayJoin
  /\ ctx' = [ctx EXCEPT ![t].user = call[t].self.user]
  /\ Becomes(t, [call[t] EXCEPT !.pc = "restore_mnt"])
  /\ UNCHANGED <<pids, mounts>>

RestoreMnt(t) ==
  /\ call[t].pc = "restore_mnt"
  /\ MayAdmin(ctx[t].user, call[t].self.mnt)
  /\ ctx' = [ctx EXCEPT ![t].mnt = call[t].self.mnt]
  /\ Return(t, call[t].result, {})
  /\ UNCHANGED <<pids, mounts>>

\* `let _ = setns(...)`: a refusal goes unnoticed.
RestoreFails(t) ==
  /\ \/ /\ call[t].pc = "restore_user"
        /\ Becomes(t, [call[t] EXCEPT !.pc = "restore_mnt",
                                      !.refused = @ \cup {"restore_user"}])
     \/ /\ call[t].pc = "restore_mnt"
        /\ Return(t, call[t].result, {"restore_mnt"})
  /\ UNCHANGED <<pids, mounts, ctx>>

Next ==
  \/ \E p \in Pids : PidReused(p)
  \/ \E t \in Callers :
       \/ \E p \in Pids : from_pid(t, p)
       \/ \E op \in {"delegate", "revoke"} : Start(t, op)
       \/ OpenFails(t) \/ OpenUser(t) \/ OpenMnt(t)
       \/ EnterUser(t) \/ EnterUserFails(t)
       \/ EnterMnt(t) \/ EnterMntFails(t)
       \/ Act(t) \/ ActFails(t)
       \/ RestoreUser(t) \/ RestoreMnt(t) \/ RestoreFails(t)

Spec == Init /\ [][Next]_vars

-----------------------------------------------------------------------------
(* Properties.                                                              *)

Steps == {"idle", "open_user", "open_mnt", "enter_user", "enter_mnt", "act",
          "restore_user", "restore_mnt"}

Call ==
  [pc : Steps, op : {"delegate", "revoke"}, target : Option(Target),
   self : Context, fds : Context, result : {"none", "ok", "err"},
   refused : SUBSET Steps]

TypeOK ==
  /\ pids \in [Pids -> Option(Kinds)]
  /\ mounts \in [Spaces -> Seq(Spaces)]
  /\ ctx \in [Callers -> Context]
  /\ call \in [Callers -> Call]

\* A caller that is not back in its own namespaces when a call returns was
\* refused a setns inside it: no other error path, a failed mount or umount or
\* a failed open for one, loses the way back.
RestoredUnlessRefused ==
  \A t \in Callers :
    call[t].pc = "idle" /\ ctx[t] # call[t].self => call[t].refused # {}

\* A mount stack changes only by one mount or umount of a caller that has
\* opened that very mount namespace, and what is mounted belongs to the user
\* namespace it opened, whatever the other callers entered meanwhile and
\* wherever an earlier call left this one.
MountsWhereOpened ==
  [][\A m \in Spaces :
       mounts'[m] # mounts[m] =>
         \E t \in Callers :
           /\ call[t].pc = "act" /\ call[t].fds.mnt = m
           /\ \/ mounts'[m] = Append(mounts[m], call[t].fds.user)
              \/ mounts'[m] = SubSeq(mounts[m], 1, Len(mounts[m]) - 1)]_vars

\* How Linux decides: from an ancestor into every namespace nested in it, at
\* any depth, and never the other way.  So MayJoin says which user namespace
\* encloses which, and nothing encloses the host's.
LinuxRule ==
  /\ \A s \in Spaces : <<s, Host>> \notin MayJoin
  /\ \A s, t, u \in Spaces :
       <<s, t>> \in MayJoin /\ <<t, u>> \in MayJoin => <<s, u>> \in MayJoin

\* Nothing is ever mounted over mount_path in the host's own mount namespace,
\* not even when the PID names a process of the host.
HostUntouched == LinuxRule => mounts[Host] = <<>>

\* No delegation goes across: a bpffs belongs to the user namespace that owns
\* the mount namespace it is in, or to a container that encloses that one, and
\* never to the host.  A PID reused between the two opens may combine the user
\* namespace of one process with the mount namespace of another, but not with
\* that of a container beside it or around it.
NoCrossDelegation ==
  LinuxRule =>
    \A m \in Spaces : \A i \in DOMAIN mounts[m] :
      LET s == mounts[m][i]
      IN s \in Containers /\ (s = m \/ <<s, m>> \in MayJoin)

-----------------------------------------------------------------------------
(* What the comments say and the code does not do.                          *)

\* namespace.rs:159-160: "The function always attempts to restore the original
\* namespace context, even on error."  It returns without an attempt when the
\* second setns fails.
AttemptsRestore ==
  \A t \in Callers :
    call[t].pc = "idle" /\ ctx[t] # call[t].self
      => call[t].refused \cap {"restore_user", "restore_mnt"} # {}

\* namespace.rs:201: "Always return to our original namespace, regardless of
\* mount result".  The kernel refuses the way back out of the user namespace,
\* and the call still returns Ok.
BackHome ==
  \A t \in Callers :
    call[t].pc = "idle" /\ call[t].result = "ok" => ctx[t] = call[t].self

\* namespace.rs:152: "`target` - the namespace to delegate to".  The namespace
\* is looked up again by PID, and may be another than userns_id names.
DelegatesToTarget ==
  [][\A t \in Callers :
       call[t].pc = "act" /\ call[t].op = "delegate" /\ call'[t].result = "ok"
         => \A d \in call[t].target : ctx[t].user = d.userns_id]_vars

\* BPF_TOKEN_CREATE wants the bpffs at mount_path to be the process's own.
TokenPossible(stack, user) == stack # <<>> /\ stack[Len(stack)] = user

\* namespace.rs:211-212: "Existing BPF file descriptors held by processes in
\* the namespace remain valid, but no new tokens can be created."  A second
\* delegation is stacked on the first, and one revocation uncovers it.
RevokedMeansNoTokens ==
  [][\A t \in Callers :
       call[t].pc = "act" /\ call[t].op = "revoke" /\ call'[t].result = "ok"
         => ~ TokenPossible(mounts'[ctx[t].mnt], ctx[t].user)]_vars
=============================================================================
