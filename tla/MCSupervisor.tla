---------------------------- MODULE MCSupervisor ----------------------------
(***************************************************************************)
(* Instances of Supervisor for TLC.                                        *)
(***************************************************************************)
EXTENDS Supervisor, TLC

CONSTANTS n1, c1, c2, a1, a2, r1, r2

Key(a, r) == [id |-> a, route |-> r]

\* Fields that a kind of request does not use have a fixed value.
Rq(kind, cfg, key) == [kind |-> kind, name |-> n1, cfg |-> cfg, key |-> key]

\* The life cycle of one name: creates that agree and that differ, stops, and
\* the shutdown of the daemon.
LifecycleRequests ==
  {Rq("create", c, Key(a1, r1)) : c \in {c1, c2}}
    \cup {Rq(k, c1, Key(a1, r1)) : k \in {"stop", "shutdown"}}

\* Registrations that clash by id, by route, by both and not at all.
RouteRequests ==
  {Rq("register", c1, k) : k \in {Key(a1, r1), Key(a1, r2), Key(a2, r1)}}
    \cup {Rq(k, c1, Key(a1, r1)) : k \in {"create", "stop", "unregister", "shutdown"}}

\* One request of each kind but unregister, which waits where register does.
WaitingRequests == {Rq(k, c1, Key(a1, r1)) : k \in Kinds \ {"unregister"}}

Symmetry == Permutations(Tasks) \cup Permutations(Insts) \cup Permutations(Conns)
=============================================================================
