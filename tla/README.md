# A TLA+ development of bpf-rbacd

bpf-rbacd gives unprivileged users and containers controlled access to eBPF.
This directory models its decision logic, its daemon and clients, namespace
delegation and the LSM programs in TLA+, checks them with TLC on small instances,
and proves every safety property the runs check with TLAPS, for instances of any
size. Paths below are relative to the root of the repository.

## 1. The system

| Component | Source | State it keeps | Operations |
|---|---|---|---|
| Policy engine | `src/policy.rs` | the loaded `PolicyConfig`, immutable after load; the random iteration order of its `HashMap` of roles | `load`, `default`, `get_role_for_groups`, `is_allowed` and the three checks below it, three bitmaps |
| Proxy handler | `src/main.rs` | socket file, listener, one task per connection, open map descriptors | start-up, accept loop, `handle_client`, `execute_bpf` |
| Wire protocol, client library | `src/protocol.rs` | one stream per client | `connect`, `create_map`, `recv_response_with_fd` |
| Command-line client | `src/bin/bpf-rbac.rs` | none | `create-map`, `status` |
| Namespace delegation | `src/namespace.rs` | the namespaces of the calling thread, bpffs mounts of the target | `from_pid`, `delegate_bpf_to_namespace`, `revoke_bpf_delegation` |
| eBPF LSM | `bpf-rbacd-ebpf/src/main.rs` | `POLICY_MAP`, written from user space | hooks `bpf`, `bpf_prog_load`, `bpf_map_create` |
| Shared types | `bpf-rbacd-common/src/lib.rs` | none | layouts and flag constants |
| Build tool | `xtask/src/main.rs` | none | build, install |

**Interaction.** In proxy mode a client connects to `/run/bpf-rbac.sock`. The
daemon spawns a task, reads the peer's uid from the socket, looks up its groups
and resolves one role from them. Only then does it wait for a request, checks
it against the role and the system policy, executes it, and answers once; a map
descriptor travels with the answer. The policy is shared by all tasks and
loaded once, at start. In capability-granting mode the engine's bitmaps are
meant for the map the LSM hooks read, and namespace delegation mounts a bpffs in
the target's user namespace; no code in the repository connects the two yet.

**What is hard.**

- The role is resolved from groups that may be edited while the task waits for
  the request; the policy file may be edited at any time and takes effect at the
  next start.
- Tasks interleave at their awaits and run on several threads; clients close,
  or are killed, at any point of a call.
- The daemon may die between creating a map and answering. The answer may have
  been written already; the socket file stays behind; the next instance may
  load another policy.
- Lookups of groups fail silently; the user database, `bpf()` and the passing of
  a descriptor fail for outside reasons; the daemon's descriptors run out.
- Messages have to fit fixed buffers of 4096 bytes on both sides, and a denial is
  longer than the request it quotes.
- A policy has wildcards on four levels, an optional ceiling, names that share a
  bit, and two consumers (the proxy's checks and the LSM's bitmaps) that read it
  differently.
- Several instances of the daemon may be started: each removes, binds and changes
  the mode of the same path in three steps.
- Delegation moves the calling thread through other namespaces with four `setns`
  calls, each of which may be refused; the target is a PID, looked up three times.
- A `bpf()` call is decided by two hooks that each read the policy map, which may be
  rewritten in between.

**What makes each part correct.** The engine grants only what the role and the
ceiling both list; its bitmaps admit what its checks grant; resolution returns a
role the user's groups match. The proxy creates a map only for an authorized
request; what a client is told is true; every call returns; the daemon survives
its own death. Delegation returns to its own namespaces and revocation ends it;
the LSM hooks enforce what the policy says by name. The two forms of the command
line mean the same. `PROJECT.json` lists the hazards line by line.

## 2. Modules

| Module | Models | Used by |
|---|---|---|
| `Policy` | the engine as operators, and the reference definitions `Permits` and `Authorized` | all others |
| `PolicyEdits` | one role and its ceiling under an administrator's edits | run `policy_edits` |
| `RoleResolution`, `MCRoleResolution` | roles, restarts and one user's groups | run `role_resolution` |
| `Proxy`, `MCProxy` | daemon, clients, socket, administrator | runs `proxy_*` |
| `ReferenceMonitor` | abstract specification of proxy mode | `ProxyRefinement` |
| `ProxyRefinement` | the refinement mapping from `Proxy` to it | `MCProxy`, run `proxy_restart` |
| `SocketPath` | several instances of the daemon at one path | run `socket_path` |
| `Namespace`, `MCNamespace` | delegation and revocation | runs `namespace_*` |
| `Lsm`, `MCLsm` | the three hooks, the policy map and `Policy`'s bitmaps in it | run `lsm_hooks` |
| `Cli`, `MCCli` | the command-line client | run `cli_arguments` |
| `PolicyProofs` | theorems about the operators of `Policy` | the proofs about `PolicyEdits`, `RoleResolution`, `Proxy`, `Lsm` |
| `PolicyEditsProofs`, `RoleResolutionProofs`, `SocketPathProofs`, `NamespaceProofs`, `LsmProofs`, `CliProofs` | theorems about the specifications | |
| `ProxyProofs` | theorems about `Proxy` and, in its last part, the refinement | |

### Policy

`Option<T>` is a set with at most one element. Lists that are only searched are
sets. A map from type names to operations is a function. A `u32` bitmap is the
set of its bit numbers, so `|` and `&` are union and intersection, and a bit above
31 would be visible. The three name tables and the built-in policy are complete.
`order` is the rank of each role in the iteration of the `HashMap`: Rust fixes it
at random when the map is built.

`Permits` and `Authorized` say what a policy means without following the code:
some entry of the role lists the operation, and some entry of the ceiling does.
They are what the engine is compared with. The engine grants less than they do
where an `any` entry hides a named one, and never more.

Operators commented "A wrong variant" are plausible mistakes in the definition
that follows them. They are not part of the specifications; each one shows that
some property would notice it.

### PolicyEdits

The state is a policy; a step adds or removes one command, type, operation or the
ceiling. Every policy over the names of the instance is reached, and properties
about *changes* to a policy can be stated. A behaviour edits one of the three
dimensions and leaves the others unrestricted: the engine checks them by separate
conjuncts, so a request is refused exactly when one of them refuses it.

### RoleResolution

The well-known roles and two custom ones, any groups in each, one user joining
and leaving groups. Editing a role restarts the daemon, which draws a new order.

### Proxy

| Variable | In the code |
|---|---|
| `daemon`, `sock` | how far `main` has come; the file at `SOCKET_PATH` |
| `policyFile`, `policy`, `order` | what `Policy::load` would return, `{}` for any error; the shared `Arc<Policy>`; its iteration order |
| `accounts` | the user database |
| `mapFds` | descriptors returned by `create_bpf_map`; nothing closes them |
| `owner`, `task`, `groups`, `role`, `req`, `reply` | the locals of `handle_client`, and the two directions of the stream |
| `cli`, `outcome` | where the client is in `create_map`, and what it returned |
| `held`, `made`, `auth` | history: groups the peer was in since it connected, whether a map was created for it, whether that was authorized |
| `calls`, `crashes` | bounded counters |

| Action | Code |
|---|---|
| `LoadPolicy`, `RemoveOldSocket`, `BindSocket`, `SetPermissions` | `main`, one action per system call another process can observe |
| `Accept` | one iteration of the accept loop |
| `LookupUser`, `IdentifyFails`, `Identify` | `handle_client` up to the conversion back to a tokio stream: the account with its primary group, then the supplementary groups and the role |
| `ReadRequest`, `ReadFails` | the awaited read and the decoding |
| `Execute` | authorization and `execute_bpf`: no await in between |
| `Reply` | sending and returning |
| `Connect`, `Send`, `Receive`, `ReceiveNothing` | the client library |
| `Close`, `Crash`, `EditPolicyFile`, `EditAccount` | processes that end, and the administrator |

A message has its kind, the type it names and its encoded length. The lengths are
real: a `CreateMap` for `hash` with a four-letter name is 44 bytes, the `Debug`
text of a request with the quoted role adds at least 84 bytes to it, and
"Unsupported map type: " with its headers is 34. A client writes at most one
request before it reads, and up to 4096 bytes the kernel delivers it whole, so
one read sees all of it. A longer one is cut off; since a `CreateMap` ends in three
fixed-width integers, a cut-off request never decodes.

The user database is read twice, and may be edited in between: `LookupUser` finds the
account and the name of its primary group, or none, and `Identify` what
`getgrouplist` lists. The role is resolved from the union. The lookups within the
second reading are one step; a lookup that fails there leaves its group out, so every
part of the second membership occurs.

`Malformed` stands for bytes that do not decode, from a client that does not use
the library.

At the descriptor limit `accept` and `BPF_MAP_CREATE` fail, and so may lookups in
the user database, which open files unless a cache answers. `Faults` lets lookups,
`bpf()` and the installation of a descriptor in the client fail for any other
reason.

### ReferenceMonitor and ProxyRefinement

The monitor has sessions, the groups each peer was in during its session, a policy
that is replaced only between sessions, and one effect: it creates at most one map
in a session, at one instant, if `Authorized` accepts what the peer has asked for
(`asked`, one request in a session). When the
session is over the peer may be told how it went. `ProxyRefinement` maps a
connection the daemon has not dropped to a session, the client's `Send` to `Ask`,
the `Execute` step that answers
Success to `Create`, and what `create_map` returned to what the peer was told. All
other steps of daemon, socket and clients are invisible.

### SocketPath

`remove_file`, `bind` and `set_permissions` are the three calls of `main`; `path`
is the instance whose socket the file is, and `mode` whether every user may connect
to it. `chmod` works on whatever file is there. Instances in `Supervised` are
restarted by systemd; others are started by hand. `Proxy` has one instance and
looks inside it, `SocketPath` has several and only this part of each.

### Namespace

| Variable | In the code |
|---|---|
| `pids` | the process a PID names: its user and mount namespace |
| `mounts` | for each mount namespace the stack of bpffs at `mount_path`, each by its `s_user_ns` |
| `ctx` | the namespaces the calling thread is in |
| `call` | the locals of the call: saved and opened descriptors, `target`, the result, and which `setns` calls were refused |

Delegation and revocation are the same code but for one system call, so they share
their actions; `op` tells which it is. Every system call has an action for its
success and one for its failure. `MayJoin` says from which user namespace `setns`
to which may succeed. It is a parameter because the safety of the code should not
rest on it where it need not: `MCAny` allows everything, `MCLinux` is the kernel's
rule, under which a thread may enter every descendant of its user namespace, at any
depth, and never returns to an ancestor. `LinuxRule` states that rule for any
nesting: `MayJoin` is transitive and nothing leads to the host's. To mount, the
thread's user namespace must own the mount namespace or enclose its owner
(`MayAdmin`); so a thread in a container can mount in a container nested in it, and
`NoCrossDelegation` says that this is as far as a PID reused between the two opens
can lead. Inside a container `/proc` may be the container's own.

### Lsm

A process enters `bpf()`, runs `bpf_rbac_bpf` and, for `PROG_LOAD` and
`MAP_CREATE`, the hook of the type. `seen` collects the entries that the id its hooks
consult had meanwhile. Entries are made from a role and a system policy by the bitmap functions
of `Policy`, as `docs/DESIGN.md:140-147` describes; no code writes the map yet.
`commands`, `prog_types` and `map_types` are the tables of `bpf-rbacd-common`, kept
apart from those of `policy.rs`: that the two agree is part of what is checked.
`Resolver` is what `get_current_userns_id` returns. The runs give it the value of the
code, a stub that returns 0 for every process (`MCSkeleton`), so the properties speak
of the id consulted and not of the caller's namespace; `OwnNamespaceGoverns` shows the
difference. The run has entries of id 0 and of the caller's own namespace. The theorems
hold for every resolver, the lookup its comment plans and one that fails among them.

An entry is read as one value: a replaced element of the hash map that is still
being read is not torn in the model. The `attr` pointer is the kernel's and never
null.

### Cli

The user types options and words, in any order clap accepts: after the first word
everything is a word. Two parsers read numbers: `value_parser` is clap's, for options,
and `parse` is `str::parse`, for words. Each maps a word to its number or to none;
clap's goes through `i64` and accepts `-0`, which the other does not.
`resolve_create_map_args` yields a request or, as the empty set, an error.

## 3. Runs

Runs that pass:

| Run | Instance | Distinct states | What it shows |
|---|---|---|---|
| `policy_edits` | 4 commands, 2 program types that share a bit, 2 map types, 2 operations for each kind, the wildcard everywhere | 32 556 | `GrantWithinBothPolicies`, `LsmAdmitsWhatProxyGrants`, `CommandBitmapExact`, `EditsMonotone` |
| `role_resolution` | 3 well-known and 2 custom roles, 2 groups, 4 orders | 50 000 | `ResolvedRoleIsMatching`, `OrderMattersOnlyForCustomRoles`, `MembershipMonotone` |
| `proxy_interleaving` | 2 users of changing groups, 2 connections, the policy file or none, 1 request that some roles may make, 2 calls, 3 descriptors, faults | 918 290 | `RoleJustified`, `GrantJustified`, `NoUnrequestedMaps` |
| `proxy_restart` | 1 user of changing groups, 2 connections, the policy file or none, 2 requests of which some roles may make one, 2 calls, 1 crash, 3 descriptors, faults | 602 382 | `RoleJustified`, `OutcomeTruthful`, `ImplementsMonitor` |
| `proxy_liveness` | 1 user, 2 connections, the built-in policy, 4 requests of different kinds and lengths, 2 calls, 1 crash, 2 descriptors, faults | 69 828 | `OutcomeTruthful`, `NoMutualWait`, `Answered`, `Recovers`, `TaskReleased`, `BacklogDrains` |
| `socket_path` | a supervised instance that is killed twice, two others started three times | 2 334 | `OwnFileGone`, `OwnerReachable`, `RestIsServed`, `EventuallyServed` |
| `namespace_any` | 2 callers, 1 PID, the host and a container, any `setns` may succeed, 2 mounts | 924 759 | `RestoredUnlessRefused`, `MountsWhereOpened` |
| `namespace_linux` | 1 caller, 1 PID of six kinds, the host, two containers and one nested in the first, the kernel's rule, 2 mounts | 26 467 | `HostUntouched`, `NoCrossDelegation` |
| `lsm_hooks` | 1 process, 10 calls, 5 values, the ids 0 and 1, the lookup returns 0, a map with room for one | 12 117 | `RanWithinGrants`, `DeniedForCause` |
| `cli_arguments` | a name, two numerals and `-0`, up to 6 options and words | 246 596 | `FormsAgree`, `CompleteLineStands` |

The two `namespace_*` runs use symmetry on callers, `proxy_interleaving` and
`proxy_restart` on users and connections, which are interchangeable in all
definitions; the liveness runs use none.

Runs that end in a violation, each of one statement of the documentation:

| Run | The statement | What the code does |
|---|---|---|
| `proxy_fd_leak` | `docs/DEVELOPMENT.md:76-78`: an allowed request returns a descriptor | the daemon's copies stay open until it has none left |
| `namespace_back_home` | `src/namespace.rs:201`: always returns to the original namespace | the kernel refuses, and the call returns Ok; `tests/integration.rs:502-505` then expects a revocation from the same thread to succeed |

Further statements the code does not live up to. They are stated at the end of the
modules and have a configuration of the same name, to be run by hand: TLC refutes each
of them. They are not listed as runs, since most of them are the exceptions that a
checked property names.

| Property, configuration | Module for TLC | The statement | What the code does |
|---|---|---|---|
| `BitmapWithinCeiling` | `PolicyEdits` | `src/policy.rs:290`: a bitmap is intersected with the system policy | a role with `any` returns all bits first |
| `BitmapIsIntersection` | `PolicyEdits` | `src/policy.rs:20-23`: the effective policy is the set intersection | uprobe and kprobe share a bit, one of each is enough |
| `ListedOperationAllowed` | `PolicyEdits` | `src/policy.rs:111`: the operations listed for a type are allowed | an `any` entry hides them |
| `MembershipGrantsRole` | `MCRoleResolution` | `src/policy.rs:97-98`: a matching group grants the role's permissions | only the first matching role counts |
| `FailsClosed` | `MCProxy` | `README.md:194`: a missing or malformed policy results in denial | the built-in policy is used |
| `DenialReachesClient` | `MCProxy` | `docs/DEVELOPMENT.md:75`: a refused request is answered with Denied | a denial of a long request does not fit the client's buffer |
| `StatusTruthful` | `SocketPath` | `src/bin/bpf-rbac.rs:46`: status tells whether the daemon is running | a second instance takes the path over and dies: the first runs on, unreachable |
| `AttemptsRestore` | `MCNamespace` | `src/namespace.rs:159-160`: always attempts to restore the namespaces | not when the second `setns` fails |
| `DelegatesToTarget` | `MCNamespace` | `src/namespace.rs:152`: `target` is the namespace to delegate to | the PID is looked up again and may have been reused |
| `RevokedMeansNoTokens` | `MCNamespace` | `src/namespace.rs:211-212`: no new tokens after revocation | an earlier delegation is uncovered |
| `OwnNamespaceGoverns` | `MCLsm` | `bpf-rbacd-ebpf/src/main.rs:24-25`: checks the caller's namespace | a stub returns 0 |
| `AllowAllAllows` | `MCLsm` | `bpf-rbacd-common/src/lib.rs:94`: allows all operations | `TOKEN_CREATE` has no bit |
| `RemovalDenies` | `MCLsm` | `docs/DESIGN.md:380`: removing an entry denies | a namespace without an entry is not managed |
| `MaxEntriesHonoured` | `MCCli` | `src/bin/bpf-rbac.rs:37`: `--max-entries` sets the number of entries | ignored when the parameters are words |

**Bounds.** Two connections are enough for one task to disturb another, and a
connection is reused, so it may be disturbed by its predecessor. Two calls reach a
second call on a dropped connection and a map left over from the first. One crash
falls at every point of every call, and a restart follows it; two users and a crash
together are too many states, so `proxy_interleaving` has the users and
`proxy_restart` the crash, with two requests of which a role may make one. The
descriptor limit of three is reached by two connections and a map. In
`proxy_liveness` it is two: two silent clients, or a map and one silent client, fill
the table and keep the other out. The maps alone never fill it, since one is created
only while its own task holds a descriptor, so a free one remains when all tasks have
ended. Both sides of every comparison of lengths
occur there (44, 4090 and 5000 bytes). One order is enough in
`MCProxy`, where no user matches two roles; orders are the subject of
`role_resolution`, where custom roles come before and after the well-known ones.
In `socket_path` three instances can be at three different calls, and the one that
owns the path can lose it twice. In `Namespace` one PID is enough, since it may
change what it names at any time, and two callers, since a mount namespace is all
they share; the kernel's rule is about each thread by itself, so `namespace_linux` has
one caller and the nesting instead. Stacks of two mounts are reached in both. In `Lsm`
one process is enough: processes share only the map, which changes at any time. In
`Cli` six arguments reach past the last word that counts, and a word or an option more
than either form needs. The safety properties of all these
runs are also proved, for all values of the constants (section 4).

**Fairness.** `StartUp` is weakly fair: systemd restarts a daemon that failed
(`Restart=on-failure`, `RestartSec=5`, slow enough for the default start limit)
and `main` reaches its accept loop. `HandleClient` is weakly fair for each connection:
tokio polls every task that is ready. `Accept` is strongly fair for each connection: the
loop goes on after EMFILE, and the backlog of a listening socket is a queue, so nobody
is passed over for ever while others are accepted. Receiving
is weakly fair: `recvmsg` returns when the stream has data or has ended. Nothing is
assumed of clients sending or closing, of administrators, or of crashes, of which
there are finitely many.

Since nothing makes a client send or close, and `read` has no timeout, clients that
connect and stay silent can keep every descriptor for ever. `HeldBySilent` says that
they do: no descriptor is free, and every task is one in `read` whose client is
connected and sends nothing. `Answered` and `BacklogDrains` say that this is the only
way to be kept waiting: if a call never returns, or a connection stays in the backlog,
then from some time on `HeldBySilent`. The exception is reached: without it both are
violated in the same run. `TaskReleased` needs none.

`SocketPath` assumes that systemd restarts the
supervised instance and that an instance which has started runs to its accept loop;
nobody has to start one by hand or to kill one. `EventuallyServed` is about an
instance that is killed only if it is supervised; `StatusTruthful` shows what happens otherwise.

## 4. Proofs

**Policy.** `AllowedWithinGrants` and `AllowedIsAuthorized` compare the engine with
`Permits` and `Authorized`, for every policy and request; the lemmas below them
follow the engine's own structure, one per check. `CommandBitmapIsExact` needs
that no two commands share a bit (`CommandBitsDistinct`). For program types this is
false, which is what `BitmapIsIntersection` shows.

**PolicyEdits.** From `EditsAssumption` (the names of an instance are in the
tables). `GrantWithinBothPolicies`, `LsmAdmitsWhatProxyGrants` and
`CommandBitmapExact` follow from the theorems about `Policy`, whatever the policy
is. `EditsMonotone` is an action property: it rests on `DecisionsMonotone`, that a
narrower policy decides no more, and on `CheckTypeOpMonotone`, the point where
the wildcard type has to be excepted. `EditsKeepPolicy` (`TypeOK`) says that every
sequence of edits leaves a policy of the shape the engine expects, and all bitmaps
within 32 bits; its invariant is the shape, with at most one system policy in it,
and the bits follow from the tables (`BitsInRange`).

**RoleResolution.** From `ResolutionAssumption`: an order ranks the roles, no two
alike, and custom roles have names of their own. `get_role_for_groups` is first
reduced to what it returns: the first well-known role that matches
(`ResolvesToKnown`) or, if none does, the first of the others in the order
(`ResolvesToFirst`). That a first one exists among any set of ranked roles
(`FirstExists`) is the least-number principle, from the library's well-foundedness
of `<`. From these, at most one role is returned (`ResolutionIsOption`), one that
matches, and one whenever some role does (`ResolutionIsMembership`); the order
changes the result only between custom roles (`OrderRarelyMatters`); and a group
more never leads to a role further down the list (`MembershipIsMonotone`), where
`NoLater` puts having no role last. `Inv` says that the roles of the loaded policy
are finitely many and have known names.

**Proxy.** From `ProxyAssumption` (lengths and bounds are naturals, connections are
finite in number). `GrantJustified` is not inductive. Whether a map may be created
is decided from a role resolved steps before, from groups looked up before that,
under a policy loaded at start. `Inv` carries these facts along:

- a task exists only while the daemon that accepted it runs, so the policy does
  not change under it (`TasksNeedDaemon`);
- a connection without a task carries no groups, role or request into the next, and a
  client that has not called yet has no request under way (`NoLeftovers`);
- the history of groups covers what a lookup would return now, and what the first
  of the two has found (`HeldCoversAccount`), and so the resolved role matches it (`RoleJustified`);
- nothing is created or answered before `Execute` (`NothingBeforeExecute`), and
  an answer says Success exactly when a map was created (`ReplyTruthful`);
- an outcome is forgotten before its connection is reused (`NoStaleOutcome`).

The proof is split by the conjuncts that depend on each other: types, session
facts (before `Execute`) and result facts (after it), with one step per action in
each. `NoUnrequestedMaps` has an invariant of its own, `Accounted`: open maps and
pending requests together are at most the calls made. So has `NoMutualWait`, the
safety half of `Answered`: the request of a waiting client stays with its task until
the task ends (`RequestKept`), because a task that cannot decode what it read ends
instead of reading again.

**Refinement** (the last part of `ProxyProofs`). `ProxyImplementsMonitor`: the
initial states of `Proxy` are initial states of the monitor, and under `Inv` every action is a step of the monitor or
leaves its state alone (`StepRefines`, one step per action). `Inv` is needed for `Execute`
(the request is the one asked for and authorized for the groups held, and no map was
made before), for `Send` (nothing was asked for before), for
`Receive` (what is told is true) and for `LoadPolicy` (no session is live).

**SocketPath.** From `SocketAssumption` (bounds are naturals, the supervised and the
stoppable are instances). `OwnFileGone` (`NoFileInTheWay`) is inductive as it stands,
given the types: an instance comes to its `bind` by removing whatever file there is, and
only another one can put a file there before it binds. `OwnerReachable` is inductive
together with `TypeOK`: an
instance reaches its accept loop only by its own `chmod`, and one that takes the
path over is not running yet. `RestIsServed` is the safety half of
`EventuallyServed`: when nothing is under way any more, users can connect. It is not
inductive; it needs that a path without a file is only temporary, as some instance
is still to bind it (`EmptyPathIsTemporary`), and that an owner of the path which is
down is one that systemd restarts (`OwnerReturns`). The second is why the property
supposes that only supervised instances are killed.

**Cli.** From `CliAssumption` (a word is read as at most one number, and what
`str::parse` accepts clap accepts as the same number). `Inv` adds to
`TypeOK` that a request is sent only for a line that resolves. The work is in
`resolve_create_map_args`, whose `Option`s are sets with at most one element: lemmas
say what each of its two forms yields and that it is at most one request.
`FormsAgree` follows from `TypeOK` alone. `CompleteLineStands` is an action property,
with one lemma for typing an option, one for typing a word and one for the steps that
leave the line alone.

**Namespace.** From `NamespaceAssumption` (a PID is a process in known namespaces, and
`setns` refuses the user namespace one is in). `Inv` says where a caller is at each
step of a call (`Placed`): in its own namespaces until it has entered the target's,
in those it has opened when it acts, and back unless a `setns` was refused. The two
properties under the kernel's rule need `Owned` besides, an invariant of the mounts:
each belongs to a container that has `MayAdmin` over the mount namespace it is in. The
caller that mounted it was in that container, since nobody gets to the host's user
namespace by `setns` and nobody acts before having entered one; and it had passed the
second `setns`, which wants `MayAdmin`. Transitivity of `MayJoin` is not needed for
this; `LinuxRule` has it because the kernel's rule does.

**Lsm.** From `LsmAssumption` (calls name commands and types the tables have).
`RanWithinGrants` and `DeniedForCause` speak of names and grants, the hooks of bits:
lemmas about the bitmap functions show that a bit is set exactly for a name that is
granted, with the aliases and the uncapped wildcard as they are, and that the two
tables of numbers agree. `Inv` adds that the current entry is among those seen
(`Tracked`) and that a call which got to the hook of the type was granted its
command by one of them (`Ran`).

**Only model-checked.** The liveness properties (`Answered`, `Recovers`,
`TaskReleased`, `BacklogDrains`, `EventuallyServed`), which need reasoning about
fairness and `ENABLED` that this prover does not do; and the violations, which are
counterexamples and need no proof.

## 5. Not modelled

- The layout of `BpfAttr`, the truncation of map names, logging, and the text of
  messages beyond its length.
- YAML decoding: its result is a policy or none.
- Time: how long a silent client may hold its task (there is no timeout), how fast
  the accept loop retries at the descriptor limit.
- The bits of `DelegationOpts`: they are handed to `mount` as they are, and the code
  computes nothing from them. `is_bpffs_mounted` only reads `/proc/mounts`, and
  nothing in the repository calls it but the tests.
- Which bits a BPF token carries: that is the kernel's, and no code connects the
  delegation to the policy map yet, so what a delegated namespace may do under both
  is not stated.
- Torn reads of a policy entry, and the layout of the shared records.
- `xtask`, which runs cargo and copies files, the tests and the crate root.

## 6. Plan

Done, in this order: `Policy`, `PolicyEdits`, `RoleResolution`, `Proxy` and their
proofs; `Namespace`, `Lsm`, `ReferenceMonitor` with the refinement, and their proofs;
`SocketPath` and `Cli`; the proofs about `SocketPath`, `Cli` and `RoleResolution`, so
that each safety property of a passing run is a theorem; two readings of the user
database, requests in the monitor, nested containers, silent clients, and the two
parsers of the command line.

Next:

1. Safety halves of the other liveness properties, as `NoMutualWait` is of `Answered`
   and `RestIsServed` of `EventuallyServed`: what a state in which nothing more can
   happen looks like.
2. A composition of `Lsm` and `Namespace`, once the repository has code that writes
   the policy map when it delegates.
