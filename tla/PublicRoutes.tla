----------------------------- MODULE PublicRoutes -----------------------------
(***************************************************************************)
(* How a named server finds the agent of a request by its path, and which  *)
(* routes, ids and paths it takes.  Source: src/src/server/routes.rs:      *)
(* 243-297, src/src/server/mod.rs:22-51, src/src/serve/mod.rs:76-176.      *)
(*                                                                         *)
(* A string is a sequence of characters.  Agents of one server come and    *)
(* go; requests are dispatched to what is registered then.                 *)
(***************************************************************************)
EXTENDS Naturals, SequencesExt, FiniteSets

CONSTANTS
  Strings,   \* strings that routes and paths are taken from
  MaxRoutes  \* routes of the server at most

\* A character is a string of one.
ASSUME RoutesAssumption == Strings \subseteq Seq(STRING)

VARIABLES
  routes,    \* the public routes of the server
  request,   \* the path of the last request since the routes have changed
  answer     \* the status of its answer, the route taken, and the path rewritten

routesVars == <<routes, request, answer>>

-----------------------------------------------------------------------------
StartsWithSlash(s) == s # <<>> /\ Head(s) = "/"
EndsWithSlash(s)   == s # <<>> /\ Last(s) = "/"
After(prefix, s)   == SubSeq(s, Len(prefix) + 1, Len(s))

\* The slashes of a string: where they are, how many there are up to position
\* i, and which is the k-th.
Slashes(s)  == {i \in DOMAIN s : s[i] = "/"}
Rank(s, i)  == Cardinality({j \in Slashes(s) : j <= i})
Slash(s, k) == CHOOSE i \in Slashes(s) : Rank(s, i) = k

\* The segments of a string: what follows each slash, up to the next.
Depth(s)    == Cardinality(Slashes(s))
End(s, k)   == IF k = Depth(s) THEN Len(s) + 1 ELSE Slash(s, k + 1)
Segments(s) == [k \in 1..Depth(s) |-> SubSeq(s, Slash(s, k) + 1, End(s, k) - 1)]

\* validate_route
ValidRoute(r) ==
  /\ StartsWithSlash(r) /\ r # <<"/">> /\ ~EndsWithSlash(r)
  /\ ToSet(r) \cap {"?", "#"} = {}
  /\ <<".", ".">> \notin ToSet(Segments(r))

\* Mutation: a route matches whatever starts with its text.
TextMatches(route, path) == IsPrefix(route, path)

RouteMatches(route, path) ==
  path = route \/ (IsPrefix(route, path) /\ StartsWithSlash(After(route, path)))

\* rewrite_route_prefix
Rewritten(route, path) ==
  LET suffix == After(route, path) IN IF suffix = <<>> THEN <<"/">> ELSE suffix

NotFound == [status |-> 404, route |-> <<>>, path |-> <<>>]

\* dispatch_instance, on the routes and with the path at that moment
Dispatched(rs, path) ==
  LET matching == {r \in rs : RouteMatches(r, path)}
      route    == CHOOSE r \in matching : \A q \in matching : Len(q) <= Len(r)
  IN  IF matching = {} THEN NotFound
      ELSE [status |-> 200, route |-> route, path |-> Rewritten(route, path)]

RoutesInit == routes = {} /\ request = <<>> /\ answer = NotFound

Register(r) ==
  /\ ValidRoute(r)
  /\ r \notin routes /\ Cardinality(routes) < MaxRoutes
  /\ routes' = routes \cup {r}
  /\ request' = <<>> /\ answer' = NotFound

Unregister(r) ==
  /\ r \in routes
  /\ routes' = routes \ {r}
  /\ request' = <<>> /\ answer' = NotFound

\* The path of a URI starts with a slash and has neither query nor fragment.
Dispatch(path) ==
  /\ StartsWithSlash(path) /\ ToSet(path) \cap {"?", "#"} = {}
  /\ request' = path
  /\ answer' = Dispatched(routes, path)
  /\ UNCHANGED routes

RoutesNext == \E s \in Strings : Register(s) \/ Unregister(s) \/ Dispatch(s)

RoutesSpec == RoutesInit /\ [][RoutesNext]_routesVars

-----------------------------------------------------------------------------
\* Read by segments, a request reaches the agent with the longest route that
\* begins the request's path, none only when there is no such route, and the
\* agent sees the segments that follow, an empty path as "/"
\* (dispatch_instance, routes.rs:242-268; rewrite_route_prefix,
\* routes.rs:270-289; route_matches, routes.rs:291-296).
DispatchGoesBySegments ==
  request # <<>> =>
    LET begins == {r \in routes : IsPrefix(Segments(r), Segments(request))}
        rest   == After(Segments(answer.route), Segments(request))
    IN  IF begins = {} THEN answer.status = 404
        ELSE /\ answer.status = 200
             /\ answer.route \in begins
             /\ \A r \in begins : Len(Segments(r)) <= Len(Segments(answer.route))
             /\ Segments(answer.path) = IF rest = <<>> THEN <<(<<>>)>> ELSE rest

=============================================================================
