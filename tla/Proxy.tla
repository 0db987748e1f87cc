------------------------------- MODULE Proxy --------------------------------
(***************************************************************************)
(* Proxy execution mode: the daemon of src/main.rs, the client library of  *)
(* src/protocol.rs and the Unix socket between them.                       *)
(*                                                                         *)
(* A connection k of Conns has two ends.  The client's is cli[k]; the      *)
(* daemon's is the tokio task task[k] that runs handle_client.  The steps  *)
(* of different connections interleave at the awaits of handle_client and  *)
(* between the threads of the runtime.  The daemon may crash at any point  *)
(* and is restarted by systemd (config/bpf-rbacd.service).                 *)
(***************************************************************************)
EXTENDS Policy, FiniteSets

CONSTANTS
  Users,          \* local users
  Conns,          \* connections that may exist at the same time
  Memberships,    \* the sets of Unix groups a user may be in
  PolicyConfigs,  \* the policies a readable, well-formed file may hold
  Orders,         \* iteration orders of the HashMap of roles
  Requests,       \* messages a client may write: [kind, type, len, type_len]
  BufSize,        \* bytes of the receive buffers of both ends
  DebugOverhead,  \* bytes a denial adds to the request it quotes
  ShortLen,       \* bytes of the replies that quote nothing
  MaxFds,         \* descriptors the daemon may have open besides its own
  Faults,         \* may lookups and system calls fail for outside reasons?
  MaxCalls,       \* bound: calls of the client library in a behaviour
  MaxCrashes      \* bound: crashes of the daemon in a behaviour

RequestKinds == {"LoadProgram", "CreateMap", "Attach", "Malformed"}

ASSUME ProxyAssumption ==
  /\ \A q \in Requests : /\ q.kind \in RequestKinds
                         /\ q.len \in Nat
                         /\ q.type_len \in Nat
  /\ BufSize \in Nat /\ DebugOverhead \in Nat /\ ShortLen \in Nat
  /\ MaxFds \in Nat /\ MaxCalls \in Nat /\ MaxCrashes \in Nat
  /\ Faults \in BOOLEAN
  /\ IsFiniteSet(Conns)

VARIABLES
  daemon,      \* how far main() has come
  sock,        \* does the socket file exist?
  policyFile,  \* the policy that /etc/bpf-rbac/policy.yaml holds, {} if none
  policy,      \* the policy loaded at start, shared by the tasks
  order,       \* the iteration order of its roles
  accounts,    \* the groups of every user, {} for an unknown uid
  mapFds,      \* map descriptors open in the daemon
  owner,       \* the peer credentials of a connection
  cli,         \* the client's end
  task,        \* the daemon's end
  groups,      \* the groups get_user_groups has found so far
  role,        \* the role handle_client resolved
  req,         \* the request, on the wire and then in the task
  reply,       \* the response, in the task and then on the wire
  outcome,     \* what create_map returned to the caller
  calls,       \* calls of the client library so far
  crashes,     \* crashes so far
  held,        \* history: groups the owner was in since connecting
  made,        \* history: a map was created for this connection
  auth         \* history: the request was authorized when it was executed

daemonVars  == <<daemon, sock, policyFile, policy, order>>
historyVars == <<held, made, auth>>
connVars    == <<owner, cli, task, groups, role, req, reply, outcome, historyVars>>
vars == <<daemonVars, accounts, mapFds, connVars, calls, crashes>>

Option(S) == {{}} \cup {{x} : x \in S}

\* Tasks that hold the descriptor of an accepted connection.
Served ==
  {k \in Conns : task[k] \in {"spawned", "identifying", "reading", "executing",
                             "replying"}}

FdsFull == mapFds + Cardinality(Served) >= MaxFds

Init ==
  /\ daemon = "down" /\ sock = FALSE
  /\ policyFile \in Option(PolicyConfigs)
  /\ policy = DefaultPolicy
  /\ order \in Orders
  /\ accounts \in [Users -> Option(Memberships)]
  /\ mapFds = 0 /\ calls = 0 /\ crashes = 0
  /\ owner \in {[k \in Conns |-> u] : u \in Users}
  /\ cli = [k \in Conns |-> "closed"]
  /\ task = [k \in Conns |-> "none"]
  /\ groups = [k \in Conns |-> {}]
  /\ role = [k \in Conns |-> {}]
  /\ req = [k \in Conns |-> {}]
  /\ reply = [k \in Conns |-> {}]
  /\ outcome = [k \in Conns |-> "none"]
  /\ held = [k \in Conns |-> {}]
  /\ made = [k \in Conns |-> FALSE]
  /\ auth = [k \in Conns |-> FALSE]

-----------------------------------------------------------------------------
(* The environment: the administrator and the system.                       *)

EditPolicyFile ==
  /\ policyFile' \in Option(PolicyConfigs) \ {policyFile}
  /\ UNCHANGED <<daemon, sock, policy, order, accounts, mapFds, connVars,
                 calls, crashes>>

\* usermod, gpasswd, userdel: effective at the next lookup of the user.
EditAccount(u) ==
  /\ \E a \in Option(Memberships) \ {accounts[u]} :
       /\ accounts' = [accounts EXCEPT ![u] = a]
       /\ held' = [k \in Conns |->
                     IF owner[k] = u /\ task[k] # "none"
                       THEN held[k] \cup UNION a ELSE held[k]]
  /\ UNCHANGED <<daemonVars, mapFds, owner, cli, task, groups, role, req, reply,
                 outcome, made, auth, calls, crashes>>

-----------------------------------------------------------------------------
(* main(): starting up, accepting, dying.                                   *)

\* A wrong variant: the policy is also reloaded under running tasks.
HotReload ==
  /\ daemon \in {"down", "running"}
  /\ daemon' = IF daemon = "down" THEN "loaded" ELSE daemon
  /\ policy' \in IF policyFile = {} THEN {DefaultPolicy} ELSE policyFile
  /\ order' \in Orders
  /\ UNCHANGED <<sock, policyFile, accounts, mapFds, connVars, calls, crashes>>

\* Policy::load, and the built-in policy whatever the error was.
LoadPolicy ==
  /\ daemon = "down"
  /\ daemon' = "loaded"
  /\ policy' \in IF policyFile = {} THEN {DefaultPolicy} ELSE policyFile
  /\ order' \in Orders
  /\ UNCHANGED <<sock, policyFile, accounts, mapFds, connVars, calls, crashes>>

\* A wrong variant: the socket file of an earlier instance stays.
KeepOldSocket ==
  /\ daemon = "loaded"
  /\ daemon' = "cleaned"
  /\ UNCHANGED <<sock, policyFile, policy, order, accounts, mapFds, connVars,
                 calls, crashes>>

RemoveOldSocket ==
  /\ daemon = "loaded"
  /\ daemon' = "cleaned"
  /\ sock' = FALSE
  /\ UNCHANGED <<policyFile, policy, order, accounts, mapFds, connVars, calls,
                 crashes>>

\* bind fails with EADDRINUSE when the file exists, and main returns.
BindSocket ==
  /\ daemon = "cleaned"
  /\ daemon' = IF sock THEN "down" ELSE "bound"
  /\ sock' = TRUE
  /\ UNCHANGED <<policyFile, policy, order, accounts, mapFds, connVars, calls,
                 crashes>>

\* chmod 0777: from here on every user may connect.
SetPermissions ==
  /\ daemon = "bound"
  /\ daemon' = "running"
  /\ UNCHANGED <<sock, policyFile, policy, order, accounts, mapFds, connVars,
                 calls, crashes>>

\* accept fails with EMFILE while no descriptor is free; the loop only logs.
Accept(k) ==
  /\ daemon = "running"
  /\ task[k] = "backlog"
  /\ ~ FdsFull
  /\ task' = [task EXCEPT ![k] = "spawned"]
  /\ UNCHANGED <<daemonVars, accounts, mapFds, owner, cli, groups, role, req, reply,
                 outcome, historyVars, calls, crashes>>

\* The process dies: its tasks and descriptors are gone, the socket file and
\* the replies already written to a client's socket are not.
Crash ==
  /\ daemon # "down"
  /\ crashes < MaxCrashes
  /\ crashes' = crashes + 1
  /\ daemon' = "down"
  /\ mapFds' = 0
  /\ task' = [k \in Conns |-> "none"]
  /\ groups' = [k \in Conns |-> {}]
  /\ role' = [k \in Conns |-> {}]
  /\ req' = [k \in Conns |-> {}]
  /\ held' = [k \in Conns |-> {}]
  /\ reply' = [k \in Conns |-> IF task[k] = "none" THEN reply[k] ELSE {}]
  /\ UNCHANGED <<sock, policyFile, policy, order, accounts, owner, cli,
                 outcome, made, auth, calls>>

-----------------------------------------------------------------------------
(* handle_client.                                                           *)

\* A wrong variant: the role is kept for the next connection with this number.
RoleOutlivesTask(k) ==
  /\ task' = [task EXCEPT ![k] = "none"]
  /\ groups' = [groups EXCEPT ![k] = {}]
  /\ req' = [req EXCEPT ![k] = {}]
  /\ held' = [held EXCEPT ![k] = {}]
  /\ UNCHANGED role

\* The task returns and drops its end of the connection.
Drop(k) ==
  /\ task' = [task EXCEPT ![k] = "none"]
  /\ groups' = [groups EXCEPT ![k] = {}]
  /\ role' = [role EXCEPT ![k] = {}]
  /\ req' = [req EXCEPT ![k] = {}]
  /\ held' = [held EXCEPT ![k] = {}]

\* Reading the user database takes a descriptor as well, unless it is cached.
LookupMayFail == Faults \/ FdsFull

\* A wrong variant: a failed lookup is taken for root's.
UnknownUserIsAdmin(k) ==
  /\ task[k] = "spawned"
  /\ accounts[owner[k]] = {} \/ LookupMayFail
  /\ task' = [task EXCEPT ![k] = "reading"]
  /\ role' = [role EXCEPT ![k] = {"ebpf-admin"}]
  /\ UNCHANGED <<daemonVars, accounts, mapFds, owner, cli, groups, req, reply,
                 outcome, historyVars, calls, crashes>>

\* User::from_uid fails: unknown uid, or the user database does.  The task
\* returns the error and the client gets no reply.
IdentifyFails(k) ==
  /\ task[k] = "spawned"
  /\ accounts[owner[k]] = {} \/ LookupMayFail
  /\ Drop(k)
  /\ UNCHANGED <<daemonVars, accounts, mapFds, owner, cli, reply, outcome,
                 made, auth, calls, crashes>>

\* SO_PEERCRED, then the account: the name of the primary group, if it is one
\* that counts and its lookup does not fail silently.
LookupUser(k) ==
  /\ task[k] = "spawned"
  /\ \E g \in accounts[owner[k]] : \E primary \in Option(g) :
       groups' = [groups EXCEPT ![k] = primary]
  /\ task' = [task EXCEPT ![k] = "identifying"]
  /\ UNCHANGED <<daemonVars, accounts, mapFds, owner, cli, role, req, reply,
                 outcome, historyVars, calls, crashes>>

\* getgrouplist and the names of its groups, all from a second reading of the
\* user database, which may have changed: a group whose lookup fails is left
\* out silently.  Then get_role_for_groups.
Identify(k) ==
  /\ task[k] = "identifying"
  /\ LET listed == UNION accounts[owner[k]]
     IN \E found \in IF LookupMayFail THEN SUBSET listed ELSE {listed} :
          role' = [role EXCEPT ![k] =
                     get_role_for_groups(policy, groups[k] \cup found, order)]
  /\ task' = [task EXCEPT ![k] = "reading"]
  /\ groups' = [groups EXCEPT ![k] = {}]
  /\ UNCHANGED <<daemonVars, accounts, mapFds, owner, cli, req, reply,
                 outcome, historyVars, calls, crashes>>

\* read returns bytes that bincode decodes: they must all fit in the buffer.
ReadRequest(k) ==
  /\ task[k] = "reading"
  /\ \E q \in req[k] : q.kind # "Malformed" /\ q.len <= BufSize
  /\ task' = [task EXCEPT ![k] = "executing"]
  /\ UNCHANGED <<daemonVars, accounts, mapFds, owner, cli, groups, role, req, reply,
                 outcome, historyVars, calls, crashes>>

\* A wrong variant: what does not decode is skipped and reading goes on.
SkipUndecodable(k) ==
  /\ task[k] = "reading"
  /\ \/ req[k] = {} /\ cli[k] = "closed" /\ Drop(k)
     \/ /\ \E q \in req[k] : q.kind = "Malformed" \/ q.len > BufSize
        /\ req' = [req EXCEPT ![k] = {}]
        /\ UNCHANGED <<task, groups, role, held>>
  /\ UNCHANGED <<daemonVars, accounts, mapFds, owner, cli, reply, outcome,
                 made, auth, calls, crashes>>

\* A wrong variant: the end of the stream is not noticed.
OnlyUndecodable(k) ==
  /\ task[k] = "reading"
  /\ \E q \in req[k] : q.kind = "Malformed" \/ q.len > BufSize
  /\ Drop(k)
  /\ UNCHANGED <<daemonVars, accounts, mapFds, owner, cli, reply, outcome,
                 made, auth, calls, crashes>>

\* read returns 0, or bytes that bincode does not decode.
ReadFails(k) ==
  /\ task[k] = "reading"
  /\ \/ req[k] = {} /\ cli[k] = "closed"
     \/ \E q \in req[k] : q.kind = "Malformed" \/ q.len > BufSize
  /\ Drop(k)
  /\ UNCHANGED <<daemonVars, accounts, mapFds, owner, cli, reply, outcome,
                 made, auth, calls, crashes>>

Success   == [kind |-> "Success", len |-> ShortLen]
Error(n)  == [kind |-> "Error",   len |-> n]
Denied(n) == [kind |-> "Denied",  len |-> n]

\* The map types create_bpf_map has a number for.
SupportedMapTypes == {"hash", "array", "perf_event_array", "lru_hash", "ringbuf"}

\* "Unsupported map type: " and the headers of the response.
UnsupportedOverhead == 34

\* What execute_bpf may return.  BPF_MAP_CREATE needs a free descriptor.
execute_bpf(q) ==
  IF q.kind # "CreateMap" THEN {Error(ShortLen)}
  ELSE IF q.type \notin SupportedMapTypes
         THEN {Error(q.type_len + UnsupportedOverhead)}
         ELSE (IF FdsFull THEN {} ELSE {Success})
                \cup (IF FdsFull \/ Faults THEN {Error(ShortLen)} ELSE {})

\* A wrong variant: the role is looked up but the request is not checked.
RoleIsEnough(rl, q) ==
  IF rl = {} THEN {Denied(ShortLen)} ELSE execute_bpf(q)

\* The response: denied without a role, denied by the policy, or the result.
Respond(rl, q) ==
  IF rl = {} THEN {Denied(ShortLen)}
  ELSE IF \E r \in rl : is_allowed(policy, r, q)
         THEN execute_bpf(q)
         ELSE {Denied(q.len + DebugOverhead)}

\* A wrong variant: the map is created first and the policy checked after.
ExecuteThenCheck(k) ==
  /\ task[k] = "executing"
  /\ \E q \in req[k] : \E resp \in Respond(role[k], q), done \in execute_bpf(q) :
       /\ reply' = [reply EXCEPT ![k] = {resp}]
       /\ mapFds' = IF done.kind = "Success" THEN mapFds + 1 ELSE mapFds
       /\ made' = [made EXCEPT ![k] = done.kind = "Success"]
       /\ auth' = [auth EXCEPT ![k] = Authorized(policy, held[k], q)]
  /\ task' = [task EXCEPT ![k] = "replying"]
  /\ UNCHANGED <<daemonVars, accounts, owner, cli, groups, role, req, outcome, held,
                 calls, crashes>>

Execute(k) ==
  /\ task[k] = "executing"
  /\ \E q \in req[k] : \E resp \in Respond(role[k], q) :
       /\ reply' = [reply EXCEPT ![k] = {resp}]
       /\ mapFds' = IF resp.kind = "Success" THEN mapFds + 1 ELSE mapFds
       /\ made' = [made EXCEPT ![k] = resp.kind = "Success"]
       /\ auth' = [auth EXCEPT ![k] = Authorized(policy, held[k], q)]
  /\ task' = [task EXCEPT ![k] = "replying"]
  /\ UNCHANGED <<daemonVars, accounts, owner, cli, groups, role, req, outcome, held,
                 calls, crashes>>

\* A wrong variant: a reply that cannot be delivered is computed again.
ReplyRetries(k) ==
  /\ task[k] = "replying"
  /\ IF cli[k] = "closed"
       THEN /\ task' = [task EXCEPT ![k] = "executing"]
            /\ UNCHANGED <<groups, role, req, reply, held>>
       ELSE Drop(k) /\ UNCHANGED reply
  /\ UNCHANGED <<daemonVars, accounts, mapFds, owner, cli, outcome, made,
                 auth, calls, crashes>>

\* sendmsg or write_all, then the stream is dropped.  To a client that is
\* gone it fails with EPIPE.  Neither path closes the descriptor of the map.
Reply(k) ==
  /\ task[k] = "replying"
  /\ reply' = IF cli[k] = "closed" THEN [reply EXCEPT ![k] = {}] ELSE reply
  /\ Drop(k)
  /\ UNCHANGED <<daemonVars, accounts, mapFds, owner, cli, outcome, made,
                 auth, calls, crashes>>

-----------------------------------------------------------------------------
(* The client library.                                                      *)

\* BpfRbacClient::connect.
Connect(k, u) ==
  /\ daemon = "running"
  /\ cli[k] = "closed" /\ task[k] = "none"
  /\ owner' = [owner EXCEPT ![k] = u]
  /\ cli' = [cli EXCEPT ![k] = "open"]
  /\ task' = [task EXCEPT ![k] = "backlog"]
  /\ held' = [held EXCEPT ![k] = UNION accounts[u]]
  /\ made' = [made EXCEPT ![k] = FALSE]
  /\ auth' = [auth EXCEPT ![k] = FALSE]
  /\ UNCHANGED <<daemonVars, accounts, mapFds, groups, role, req, reply, outcome,
                 calls, crashes>>

\* create_map, up to write_all.  A daemon that has dropped its end, after an
\* earlier call on this connection for one, gives EPIPE.
Send(k, q) ==
  /\ cli[k] = "open"
  /\ calls < MaxCalls
  /\ calls' = calls + 1
  /\ IF task[k] = "none"
       THEN /\ outcome' = [outcome EXCEPT ![k] = "broken"]
            /\ UNCHANGED <<cli, req>>
       ELSE /\ outcome' = [outcome EXCEPT ![k] = "none"]
            /\ cli' = [cli EXCEPT ![k] = "waiting"]
            /\ req' = [req EXCEPT ![k] = {q}]
  /\ UNCHANGED <<daemonVars, accounts, mapFds, owner, task, groups, role, reply,
                 historyVars, crashes>>

\* recv_response_with_fd and the match of create_map.  A reply longer than
\* the buffer does not decode; the kernel may be unable to install the
\* descriptor in the client ("Expected FD but none received").
Returned(m) ==
  IF m.len > BufSize THEN {"broken"}
  ELSE CASE m.kind = "Success" -> {"fd"} \cup (IF Faults THEN {"nofd"} ELSE {})
         [] m.kind = "Denied"  -> {"denied"}
         [] m.kind = "Error"   -> {"error"}

Receive(k) ==
  /\ cli[k] = "waiting"
  /\ task[k] = "none"
  /\ \E m \in reply[k] : \E o \in Returned(m) :
       outcome' = [outcome EXCEPT ![k] = o]
  /\ cli' = [cli EXCEPT ![k] = "open"]
  /\ reply' = [reply EXCEPT ![k] = {}]
  /\ UNCHANGED <<daemonVars, accounts, mapFds, owner, task, groups, role, req,
                 historyVars, calls, crashes>>

\* The stream ends without a reply: recvmsg returns 0 bytes or ECONNRESET.
ReceiveNothing(k) ==
  /\ cli[k] = "waiting"
  /\ task[k] = "none"
  /\ reply[k] = {}
  /\ outcome' = [outcome EXCEPT ![k] = "broken"]
  /\ cli' = [cli EXCEPT ![k] = "open"]
  /\ UNCHANGED <<daemonVars, accounts, mapFds, owner, task, groups, role, req, reply,
                 historyVars, calls, crashes>>

\* The client drops the connection, or its process ends in the middle of a
\* call.  A reply it has not read is lost.
Close(k) ==
  /\ cli[k] # "closed"
  /\ cli' = [cli EXCEPT ![k] = "closed"]
  /\ outcome' = [outcome EXCEPT ![k] = "none"]
  /\ reply' = IF task[k] = "none" THEN [reply EXCEPT ![k] = {}] ELSE reply
  /\ UNCHANGED <<daemonVars, accounts, mapFds, owner, task, groups, role, req,
                 historyVars, calls, crashes>>

-----------------------------------------------------------------------------
StartUp == LoadPolicy \/ RemoveOldSocket \/ BindSocket \/ SetPermissions

HandleClient(k) ==
  \/ LookupUser(k) \/ IdentifyFails(k) \/ Identify(k)
  \/ ReadRequest(k) \/ ReadFails(k)
  \/ Execute(k)
  \/ Reply(k)

Next ==
  \/ EditPolicyFile
  \/ \E u \in Users : EditAccount(u)
  \/ StartUp
  \/ Crash
  \/ \E k \in Conns :
       \/ Accept(k)
       \/ HandleClient(k)
       \/ \E u \in Users : Connect(k, u)
       \/ \E q \in Requests : Send(k, q)
       \/ Receive(k)
       \/ ReceiveNothing(k)
       \/ Close(k)

Spec == Init /\ [][Next]_vars

\* systemd restarts the daemon (Restart=on-failure), main() runs to its accept
\* loop, the runtime polls every task that is ready, and a client blocked in
\* recvmsg returns when there is something to return.  The accept loop goes on
\* after EMFILE and the backlog of the socket is a queue, so a connection does
\* not wait while others are accepted for ever.  Nothing makes a client send a
\* request or close a connection, or makes a crash happen.
Fairness ==
  /\ WF_vars(StartUp)
  /\ \A k \in Conns : /\ SF_vars(Accept(k))
                      /\ WF_vars(HandleClient(k))
                      /\ WF_vars(Receive(k) \/ ReceiveNothing(k))

FairSpec == Spec /\ Fairness

-----------------------------------------------------------------------------
(* Properties.                                                              *)

Groups == UNION Memberships

TypeOK ==
  /\ daemon \in {"down", "loaded", "cleaned", "bound", "running"}
  /\ sock \in BOOLEAN
  /\ policyFile \in Option(PolicyConfigs)
  /\ policy \in PolicyConfigs \cup {DefaultPolicy}
  /\ order \in Orders
  /\ accounts \in [Users -> Option(Memberships)]
  /\ mapFds \in Nat /\ calls \in Nat /\ crashes \in Nat
  /\ owner \in [Conns -> Users]
  /\ cli \in [Conns -> {"closed", "open", "waiting"}]
  /\ task \in [Conns -> {"none", "backlog", "spawned", "identifying",
                         "reading", "executing", "replying"}]
  /\ groups \in [Conns -> SUBSET Groups]
  /\ role \in [Conns -> SUBSET DOMAIN policy.roles]
  /\ req \in [Conns -> Option(Requests)]
  /\ DOMAIN reply = Conns
  /\ \A k \in Conns : \A m \in reply[k] :
       m.kind \in {"Success", "Denied", "Error"} /\ m.len \in Nat
  /\ outcome \in [Conns -> {"none", "fd", "nofd", "denied", "error", "broken"}]
  /\ held \in [Conns -> SUBSET Groups]
  /\ made \in [Conns -> BOOLEAN]
  /\ auth \in [Conns -> BOOLEAN]

\* A map is created for a connection only when the request was authorized:
\* some group the peer was in since it connected names a role that lists the
\* operation, and so does the system policy loaded at start.  Membership is
\* looked up before the request is read, so it may have ended by then, but it
\* is never older than the connection and never another user's.
GrantJustified == \A k \in Conns : made[k] => auth[k]

\* The caller of create_map can rely on what it returned: a descriptor means
\* that the map was created and authorized, a denial or an error that no map
\* was created, whatever crashed, was edited or was closed in between.
OutcomeTruthful ==
  \A k \in Conns :
    /\ outcome[k] \in {"fd", "nofd"} => made[k] /\ auth[k]
    /\ outcome[k] \in {"denied", "error"} => ~ made[k]

\* The daemon never creates a map nobody asked for: the maps it holds are at
\* most the calls clients made.  A failed reply is not retried.
NoUnrequestedMaps == mapFds <= calls

\* A task's role is one the groups of its own peer match in the policy the
\* daemon is running with: no role outlives its connection, is inherited by
\* the next one, or survives a restart with another policy.
RoleJustified ==
  \A k \in Conns : role[k] \subseteq Matching(policy, held[k])

\* A task never waits for a request from a client that waits for its reply:
\* neither side has a timeout, so such a pair would wait for ever.
NoMutualWait ==
  \A k \in Conns : cli[k] = "waiting" => ~ (task[k] = "reading" /\ req[k] = {})

\* Every descriptor is taken by a map or by a client that has sent nothing:
\* its task is in read, which has no timeout.
HeldBySilent ==
  /\ FdsFull
  /\ \A k \in Served : task[k] = "reading" /\ req[k] = {} /\ cli[k] = "open"

\* Every call of the client library returns, even when the daemon crashes in
\* the middle, with one exception: one that is never accepted, because from
\* some moment on silent clients hold every descriptor the maps have left.
Answered ==
  \A k \in Conns :
    <>[](cli[k] = "waiting") => <>[](task[k] = "backlog" /\ HeldBySilent)

\* The daemon comes back after every crash although the socket file of the
\* dead instance is still there.
Recovers == <>[](daemon = "running")

\* A client that goes away frees its task and its descriptor, whatever the task
\* was waiting for.
TaskReleased ==
  \A k \in Conns : (cli[k] = "closed" /\ k \in Served) ~> (k \notin Served)

\* A full descriptor table is no dead end for the accept loop, which goes on
\* after EMFILE: the maps, which are never closed, always leave it a
\* descriptor, so whoever waits in the backlog is accepted unless silent
\* clients hold the rest for ever.
BacklogDrains ==
  \A k \in Conns : <>[](task[k] = "backlog") => <>[]HeldBySilent

-----------------------------------------------------------------------------
(* What the documentation says and the daemon does not do.                  *)

\* README.md:194: "Fails closed - missing policy or parse errors result in
\* denial".  A map is created only under a policy that a file held; but a
\* daemon that found none, or none it could parse, grants maps by the built-in
\* policy.
FailsClosed ==
  \A k \in Conns : task[k] = "replying" /\ made[k] => policy \in PolicyConfigs

\* DEVELOPMENT.md:76-78: if the role is allowed, "the daemon itself calls
\* bpf() ... then passes the resulting file descriptor back to the client".
\* The daemon keeps its own copy of every descriptor it has passed on and
\* runs out of them: an authorized request for a supported map is answered
\* with an error.
AuthorizedMapCreated ==
  \A k \in Conns : outcome[k] = "error" => ~ auth[k]

\* DEVELOPMENT.md:75: "If no - responds with Denied".  A denial quotes the
\* request, so that of a long request does not fit the client's buffer and
\* the client sees a decoding error.
DenialReachesClient ==
  [][\A k \in Conns :
       (\E m \in reply[k] : m.kind = "Denied")
         /\ cli[k] = "waiting" /\ cli'[k] = "open"
         => outcome'[k] = "denied"]_vars
=============================================================================
