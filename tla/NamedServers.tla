----------------------------- MODULE NamedServers -----------------------------
(***************************************************************************)
(* What the supervisor promises to its clients, without tasks, locks or    *)
(* messages: a name has one server at a time, which runs, is stopped, ends *)
(* its listener and frees its name; agents are registered with running     *)
(* servers, an id and a route once; and a daemon that shuts down makes and *)
(* changes nothing any more.  Module Supervisor implements it.             *)
(***************************************************************************)
CONSTANTS Names, Insts, RouteKeys, NoInst

VARIABLES
  open,    \* the daemon takes changes
  server,  \* the incarnation that has a name
  used,    \* incarnations that have had a name
  running, \* incarnations that have not been stopped
  live,    \* incarnations whose listener may still serve somebody
  routes   \* the agents that are registered with an incarnation

vars == <<open, server, used, running, live, routes>>

Init ==
  /\ open = TRUE
  /\ server = [n \in Names |-> NoInst]
  /\ used = {} /\ running = {} /\ live = {}
  /\ routes = [i \in Insts |-> {}]

Create(n, i) ==
  /\ open /\ server[n] = NoInst /\ i \notin used
  /\ server' = [server EXCEPT ![n] = i]
  /\ used' = used \cup {i}
  /\ running' = running \cup {i}
  /\ live' = live \cup {i}
  /\ UNCHANGED <<open, routes>>

Register(n, k) ==
  /\ open /\ server[n] \in running
  /\ \A e \in routes[server[n]] : e.id # k.id /\ e.route # k.route
  /\ routes' = [routes EXCEPT ![server[n]] = @ \cup {k}]
  /\ UNCHANGED <<open, server, used, running, live>>

Unregister(n, k) ==
  /\ open /\ server[n] \in running /\ k \in routes[server[n]]
  /\ routes' = [routes EXCEPT ![server[n]] = @ \ {k}]
  /\ UNCHANGED <<open, server, used, running, live>>

Stop(n) ==
  /\ server[n] \in running
  /\ running' = running \ {server[n]}
  /\ UNCHANGED <<open, server, used, live, routes>>

\* The listener of a stopped server has drained, or has given up.
Close(n) ==
  /\ server[n] \in live \ running
  /\ live' = live \ {server[n]}
  /\ UNCHANGED <<open, server, used, running, routes>>

\* The name may be used again, and only now.
Free(n) ==
  /\ server[n] \in used \ live
  /\ server' = [server EXCEPT ![n] = NoInst]
  /\ UNCHANGED <<open, used, running, live, routes>>

Shutdown ==
  /\ open' = FALSE
  /\ UNCHANGED <<server, used, running, live, routes>>

Next ==
  \/ \E n \in Names :
       \/ Stop(n) \/ Close(n) \/ Free(n)
       \/ \E i \in Insts : Create(n, i)
       \/ \E k \in RouteKeys : Register(n, k) \/ Unregister(n, k)
  \/ Shutdown

Spec == Init /\ [][Next]_vars
=============================================================================
