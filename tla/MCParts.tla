------------------------------- MODULE MCParts -------------------------------
(***************************************************************************)
(* Four parts that share nothing, for one run of TLC: each behaviour is    *)
(* one of Archive, InstallLog, StderrTail or PublicRoutes, and the other   *)
(* three stay as they are at first.                                        *)
(***************************************************************************)
EXTENDS Archive, InstallLog, StderrTail, PublicRoutes, TLC

VARIABLE subject

-----------------------------------------------------------------------------
(* Archives: all of at most two entries, with bodies that are shorter or   *)
(* longer than declared in ZIP archives, paths and links that lead out;    *)
(* archives of as many entries as the limits and more; and all ways in     *)
(* which a download can go.                                                *)
-----------------------------------------------------------------------------
McEntry(kind, path, declared, holds, to, sealed_) ==
  [kind |-> kind, path |-> path, declared |-> declared, holds |-> holds, to |-> to,
   sealed |-> sealed_]

McPaths == {<<"x">>, <<"x", "y">>, <<".", "y">>, <<"..", "y">>}

McEntries ==
  {McEntry("file", p, d, h, <<>>, FALSE) : p \in McPaths, d \in 1..2, h \in 1..3}
    \cup {McEntry("dir", <<"x">>, 0, 0, <<>>, s) : s \in BOOLEAN}
    \cup {McEntry("link", <<"x">>, 1, 1, to, FALSE) : to \in {<<"y">>, <<"x">>, <<"..">>, <<"/">>}}

Plain == [name |-> "n", format |-> "zip", digest |-> "right", length |-> 1, body |-> 1,
          entries |-> <<>>, cmd |-> <<"y">>]

\* The TAR format gives an entry the size that it declares, or ends before.
CanBe(format, e) == format = "zip" \/ \A i \in DOMAIN e : e[i].holds <= e[i].declared

ArchivesOfTwo ==
  {[Plain EXCEPT !.format = f, !.entries = e, !.cmd = c] :
     f \in {"zip", "tar"}, e \in UNION {[1..n -> McEntries] : n \in 0..2},
     c \in {<<"y">>, <<"x", "y">>}}

\* A file, a directory and files in it.
FullArchive(f, n) ==
  [Plain EXCEPT !.format = f,
                !.entries = [i \in 1..n |->
                   McEntry(IF i = 2 THEN "dir" ELSE "file", <<(<<"y", "x", "u", "v">>[i])>>,
                         0, 0, <<>>, FALSE)]]

Downloads ==
  {[Plain EXCEPT !.name = n, !.format = f, !.digest = d, !.length = l, !.body = b] :
     n \in {"n", ".."}, f \in {"zip", "none"}, d \in {"missing", "right", "wrong"},
     l \in {0, 4, 5}, b \in 0..5}

McArchives ==
  {a \in ArchivesOfTwo : CanBe(a.format, a.entries)} \cup Downloads
    \cup {FullArchive(f, n) : f \in {"zip", "tar"}, n \in 3..4}

-----------------------------------------------------------------------------
(* Strings of slashes and one letter, and some with other characters.      *)
-----------------------------------------------------------------------------
McStrings ==
  UNION {[1..n -> {"/", "a"}] : n \in 1..5}
    \cup {<<"/", "b">>, <<"/", "a", "b">>, <<"/", "a", "/", "b">>, <<"/", ".", ".">>,
          <<"/", "a", "?">>, <<"/", "a", "/", ".", ".">>}

-----------------------------------------------------------------------------
\* Where the archive or the log is not the subject, one choice is enough.
OneSize == \A w \in Writers : size[w] = 1

Init ==
  /\ subject \in {"archive", "log", "stderr", "routes"}
  /\ ArchiveInit /\ (subject = "archive" \/ archive = Plain)
  /\ LogInit /\ (subject = "log" \/ OneSize)
  /\ StderrInit
  /\ RoutesInit

Next ==
  /\ UNCHANGED subject
  /\ \/ subject = "archive" /\ ArchiveNext /\ UNCHANGED <<logVars, stderrVars, routesVars>>
     \/ subject = "log"    /\ LogNext    /\ UNCHANGED <<archiveVars, stderrVars, routesVars>>
     \/ subject = "stderr" /\ StderrNext /\ UNCHANGED <<archiveVars, logVars, routesVars>>
     \/ subject = "routes" /\ RoutesNext /\ UNCHANGED <<archiveVars, logVars, stderrVars>>

Spec == Init /\ [][Next]_<<subject, archiveVars, logVars, stderrVars, routesVars>>

=============================================================================
