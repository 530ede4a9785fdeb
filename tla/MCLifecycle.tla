----------------------------- MODULE MCLifecycle -----------------------------
EXTENDS Lifecycle, TLC

CONSTANTS p1, p2, a, b, c, d

\* One agent for each way to distribute it, and one that is not listed.
McChannels == (a :> {"binary", "npx"}) @@ (b :> {"npx", "uvx"}) @@ (c :> {"uvx"})

Job(x, ids) == [cmd |-> x, ids |-> ids, yes |-> FALSE, yolo |-> FALSE]
Yolo(id)    == [Job("run", <<id>>) EXCEPT !.yolo = TRUE]
Env(y)      == [Job("install_env", <<>>) EXCEPT !.yes = y]

\* A batch beside an install-env, and two commands for one agent.
McAssignments ==
  {(p1 :> Job(x, ids)) @@ (p2 :> Env(TRUE)) :
     x \in {"install", "uninstall"}, ids \in {<<c, a, c, b>>, <<d, b>>}}
    \cup {(p1 :> Job("run", <<b>>)) @@ (p2 :> Env(TRUE)), (p1 :> Yolo(c)) @@ (p2 :> Env(TRUE)),
          (p1 :> Yolo(a)) @@ (p2 :> Job("uninstall", <<a>>))}
    \cup {(p1 :> Job(x, <<a>>)) @@ (p2 :> Job(y, <<a>>)) :
           x \in {"update", "uninstall", "run"}, y \in {"install", "update", "uninstall"}}
    \cup {(p1 :> Env(y)) @@ (p2 :> Env(FALSE)) : y \in BOOLEAN}

\* The catalogs of the CDN and of the release: the release's lacks an agent.
McCatalogs == {{a, b}, {a, b, c}}

McFirstEntries == {[x \in Agents |-> IF x = a THEN ds ELSE {}] : ds \in {{}, Digests}}
McFirstPackages == {[r \in Runners |-> {b, c}]}
McFirstPrograms == {{"npm", "curl"}, {"curl"}}

=============================================================================
