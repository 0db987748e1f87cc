-------------------------- MODULE ReferenceMonitor --------------------------
(***************************************************************************)
(* What proxy mode promises, without daemon, socket, tasks and messages: a *)
(* monitor that creates at most one map in a session, only for a request   *)
(* the policy in force authorizes, and tells the truth about it.           *)
(***************************************************************************)
EXTENDS Policy

CONSTANTS
  Sessions,   \* connections
  Groups,     \* Unix groups
  Requests,   \* what can be asked for
  Policies    \* policies that may be in force

VARIABLES
  policy,     \* the policy in force
  live,       \* the sessions in progress
  held,       \* groups the peer of a session was in since it began
  asked,      \* what the peer of a session has asked for, {} if nothing yet
  made,       \* a map was created in the last or current session
  told        \* what the peer knows: "created", "refused" or "nothing"

vars == <<policy, live, held, asked, made, told>>

Init ==
  /\ policy \in Policies
  /\ live = {}
  /\ held = [k \in Sessions |-> {}]
  /\ asked = [k \in Sessions |-> {}]
  /\ made = [k \in Sessions |-> FALSE]
  /\ told = [k \in Sessions |-> "nothing"]

\* A session begins with the memberships its peer has at that moment.
Open(k) ==
  /\ k \notin live
  /\ live' = live \cup {k}
  /\ \E g \in SUBSET Groups : held' = [held EXCEPT ![k] = g]
  /\ made' = [made EXCEPT ![k] = FALSE]
  /\ told' = [told EXCEPT ![k] = "nothing"]
  /\ UNCHANGED <<policy, asked>>

\* Peers join groups; leaving one has no effect on a session.
Join ==
  /\ held' \in [Sessions -> SUBSET Groups]
  /\ \A k \in Sessions : held[k] \subseteq held'[k]
                           /\ (k \notin live => held'[k] = held[k])
  /\ UNCHANGED <<policy, live, asked, made, told>>

\* One request in a session, at any time while it lasts.
Ask(k) ==
  /\ k \in live
  /\ asked[k] = {}
  /\ \E q \in Requests : asked' = [asked EXCEPT ![k] = {q}]
  /\ UNCHANGED <<policy, live, held, made, told>>

\* The one effect of the monitor: what was asked for, if it is authorized.
Create(k) ==
  /\ k \in live
  /\ ~ made[k]
  /\ \E q \in asked[k] : Authorized(policy, held[k], q)
  /\ made' = [made EXCEPT ![k] = TRUE]
  /\ UNCHANGED <<policy, live, held, asked, told>>

End(k) ==
  /\ k \in live
  /\ live' = live \ {k}
  /\ held' = [held EXCEPT ![k] = {}]
  /\ asked' = [asked EXCEPT ![k] = {}]
  /\ UNCHANGED <<policy, made, told>>

\* Once the session is over the peer may learn how it went.
Tell(k) ==
  /\ k \notin live
  /\ told' = [told EXCEPT ![k] = IF made[k] THEN "created" ELSE "refused"]
  /\ UNCHANGED <<policy, live, held, asked, made>>

Forget(k) ==
  /\ told' = [told EXCEPT ![k] = "nothing"]
  /\ UNCHANGED <<policy, live, held, asked, made>>

\* Every session ends at once.
Crash ==
  /\ live' = {}
  /\ held' = [k \in Sessions |-> {}]
  /\ asked' = [k \in Sessions |-> {}]
  /\ UNCHANGED <<policy, made, told>>

\* The policy is replaced between sessions only.
Restart ==
  /\ live = {}
  /\ policy' \in Policies
  /\ UNCHANGED <<live, held, asked, made, told>>

Next ==
  \/ Join \/ Crash \/ Restart
  \/ \E k \in Sessions :
       Open(k) \/ Ask(k) \/ Create(k) \/ End(k) \/ Tell(k) \/ Forget(k)

Spec == Init /\ [][Next]_vars
=============================================================================
