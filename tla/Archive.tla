-------------------------------- MODULE Archive --------------------------------
(***************************************************************************)
(* The download and the extraction of one binary archive into a staging    *)
(* directory.  Source: src/src/installer/binary/download.rs, archive.rs,   *)
(* paths.rs, staging.rs.                                                   *)
(*                                                                         *)
(* An archive is what its server sends and what the decoders make of it;   *)
(* its entries say one size and may hold another.  Sizes are counted in    *)
(* units of a read.  A path is a sequence of components, as                *)
(* Path::components gives them: "/" is Component::RootDir, ".." ParentDir  *)
(* and "." CurDir.  A place is the path that the operating system reaches  *)
(* from the destination through the links that are there.                  *)
(***************************************************************************)
EXTENDS Naturals, SequencesExt, FiniteSets

CONSTANTS
  Archives,           \* the archives that are installed
  MaxSteps,           \* components and links that one lookup of a path may take
  MaxDownload,        \* ArchiveLimits: max_download_bytes,
  MaxExpanded,        \* max_expanded_bytes,
  MaxEntries,         \* max_entries,
  MaxFiles            \* and max_files

Component == STRING \cup {"/"}

AnyEntry ==
  [kind : {"dir", "file", "link"}, path : Seq(Component), to : Seq(Component),
   declared : Nat, holds : Nat, sealed : BOOLEAN]

AnyArchive ==
  [name : Component, format : {"zip", "tar", "none"},
   digest : {"missing", "malformed", "right", "wrong"}, length : Nat, body : Nat,
   entries : Seq(AnyEntry), cmd : Seq(Component)]

\* An archive may hold a file, and Path::components gives CurDir at the head
\* of a path only.
ASSUME ArchiveAssumption ==
  /\ MaxSteps \in Nat /\ MaxDownload \in Nat /\ MaxExpanded \in Nat
  /\ MaxEntries \in Nat \ {0} /\ MaxFiles \in Nat \ {0}
  /\ Archives \subseteq AnyArchive
  /\ \A a \in Archives : \A i \in DOMAIN a.entries :
       \A j \in DOMAIN a.entries[i].path : a.entries[i].path[j] = "." => j = 1

VARIABLES
  archive,     \* the archive
  step,        \* what the installation does next
  downloaded,  \* units in the downloaded file
  hasFile,     \* whether that file is there
  next,        \* index of the next entry
  expanded,    \* sizes that the entries so far declare
  files,       \* entries so far that are no directories
  copied,      \* units of the current entry that were copied
  tree,        \* what lies in the destination: [at, kind, to]
  written,     \* units written to files of the destination
  modes,       \* ZIP directories whose mode is still to be set
  sealed,      \* places of directories that cannot be written to
  cancel       \* the flag that the extraction polls

archiveVars == <<archive, step, downloaded, hasFile, next, expanded, files, copied, tree,
                 written, modes, sealed, cancel>>
progress == <<next, expanded, files, copied, tree, written, modes, sealed>>

-----------------------------------------------------------------------------
(* Paths.                                                                  *)
-----------------------------------------------------------------------------
Unsafe == {"..", "/"}

\* validate_archive_path
SafePath(p) ==
  /\ \A i \in DOMAIN p : p[i] \notin Unsafe
  /\ \E i \in DOMAIN p : p[i] # "."

Outside == <<"/">>

\* A lookup takes the next component of what is left of the path from where
\* it is, or follows the link that lies there.
Ahead(links, walk) ==
  LET first  == Head(walk.rest)
      here   == Append(walk.at, first)
      found  == {f \in links : f.at = here}
      Go(at) == [at |-> at, rest |-> Tail(walk.rest)]
  IN  IF walk.rest = <<>> THEN walk
      ELSE IF first = "." THEN Go(walk.at)
      ELSE IF first = ".." /\ walk.at # <<>> THEN Go(Front(walk.at))
      ELSE IF first \in Unsafe THEN [at |-> Outside, rest |-> <<>>]
      ELSE IF found = {} THEN Go(here)
      ELSE [at |-> walk.at, rest |-> (CHOOSE f \in found : TRUE).to \o Tail(walk.rest)]

\* The lookup of path p from directory `from`: it has found its place when
\* nothing of the path is left.
Lookup(links, from, p) ==
  LET walk[n \in Nat] == IF n = 0 THEN [at |-> from, rest |-> p]
                                   ELSE Ahead(links, walk[n - 1])
  IN  walk[MaxSteps]

Links       == {f \in tree : f.kind = "link"}
PlaceOf(p)  == Lookup(Links, <<>>, p).at
Found(p)    == Lookup(Links, <<>>, p).rest = <<>>
ParentOf(p) == IF p = <<>> THEN <<>> ELSE Front(p)
KindAt(q)   == {f.kind : f \in {g \in tree : g.at = q}}

\* An entry of this kind can be made at q: the directories above it are made
\* where they are missing, and nothing of another kind is in the way.
CanMake(kind, q) ==
  /\ \A i \in 1..(Len(q) - 1) : "file" \notin KindAt(SubSeq(q, 1, i))
  /\ ParentOf(q) \notin sealed
  /\ KindAt(q) \subseteq (CASE kind = "dir"  -> {"dir"}
                           [] kind = "file" -> {"file"}
                           [] kind = "link" -> {})

Entry == archive.entries[next]
IsZip == archive.format = "zip"

ArchiveInit ==
  /\ archive \in Archives
  /\ step = "request"
  /\ downloaded = 0 /\ hasFile = FALSE
  /\ next = 1 /\ expanded = 0 /\ files = 0 /\ copied = 0
  /\ tree = {} /\ written = 0 /\ modes = {} /\ sealed = {}
  /\ cancel = FALSE

-----------------------------------------------------------------------------
(* download_archive: the digest and the name of the file are looked at     *)
(* before the request, a declared length before the file is created.  The  *)
(* name "/" stands for all that hold a separator.                          *)
-----------------------------------------------------------------------------
Fail == /\ step' = "failed"
        /\ UNCHANGED <<archive, cancel>> /\ UNCHANGED progress

Request ==
  /\ step = "request"
  /\ IF \/ archive.digest \in {"missing", "malformed"}
        \/ archive.name \in {"", ".", "..", "/"}
        \/ archive.length > MaxDownload
     THEN Fail /\ UNCHANGED <<downloaded, hasFile>>
     ELSE /\ step' = "receive"
          /\ hasFile' = TRUE
          /\ UNCHANGED <<archive, downloaded, cancel>> /\ UNCHANGED progress

\* A chunk is counted before it is written, and a failure removes the file.
Receive ==
  /\ step = "receive"
  /\ downloaded < archive.body
  /\ IF downloaded + 1 > MaxDownload
     THEN Fail /\ hasFile' = FALSE /\ UNCHANGED downloaded
     ELSE /\ downloaded' = downloaded + 1
          /\ UNCHANGED <<archive, step, hasFile, cancel>> /\ UNCHANGED progress

\* The connection breaks before the body ends.
Broken ==
  /\ step = "receive"
  /\ downloaded < archive.body
  /\ Fail /\ hasFile' = FALSE /\ UNCHANGED downloaded

\* The digest of what was received is the one that the registry gives.
Verified(a) == a.digest = "right"

BodyEnds ==
  /\ step = "receive"
  /\ downloaded = archive.body
  /\ IF Verified(archive)
     THEN step' = "extract" /\ UNCHANGED <<archive, hasFile, cancel>> /\ UNCHANGED progress
     ELSE Fail /\ hasFile' = FALSE
  /\ UNCHANGED downloaded

-----------------------------------------------------------------------------
(* extract_archive_blocking and, for each format, the loop over entries.   *)
-----------------------------------------------------------------------------
\* An error anywhere makes the extraction fail; staging is then removed whole.
Stop == Fail /\ UNCHANGED <<downloaded, hasFile>>

\* The format is that of the file's name.  A ZIP file tells its number of
\* entries at once; what is no archive is copied as it is.
Open ==
  /\ step = "extract" /\ ~cancel
  /\ \/ archive.format = "none" /\ archive.body > MaxExpanded /\ Stop
     \/ IsZip /\ Len(archive.entries) > MaxEntries /\ Stop
     \/ /\ archive.format = "none" /\ archive.body <= MaxExpanded
        /\ step' = "copied"
        /\ tree' = {[at |-> <<archive.name>>, kind |-> "file", to |-> <<>>]}
        /\ written' = archive.body
        /\ UNCHANGED <<next, expanded, files, copied, modes, sealed>>
     \/ /\ archive.format # "none" /\ ~(IsZip /\ Len(archive.entries) > MaxEntries)
        /\ step' = "entry"
        /\ UNCHANGED progress
  /\ UNCHANGED <<archive, downloaded, hasFile, cancel>>

\* What is looked at before anything of an entry is written.  The path of a
\* TAR entry's link is looked at here, that of a ZIP entry's when it was read.
EntryIsAllowed ==
  /\ SafePath(Entry.path)
  /\ IsZip \/ Entry.kind # "link" \/ SafePath(Entry.to)
  /\ IsZip \/ next <= MaxEntries
  /\ expanded + Entry.declared <= MaxExpanded
  /\ Entry.kind = "dir" \/ files + 1 <= MaxFiles

\* The path that is looked up to make an entry, and where the entry is made.
\* A link is not followed by what makes a link.
Followed(e) == IF e.kind = "link" THEN ParentOf(e.path) ELSE e.path
Target(e) == IF e.kind = "link" THEN Append(PlaceOf(Followed(e)), Last(e.path))
                                ELSE PlaceOf(Followed(e))

Made(e) == [at |-> Target(e), kind |-> e.kind, to |-> IF e.kind = "link" THEN e.to ELSE <<>>]

\* A directory's mode is set at once by the TAR library, and by the extraction
\* of a ZIP archive after its last entry.
MakeDirectory ==
  /\ tree' = tree \cup {Made(Entry)}
  /\ modes'  = IF IsZip /\ Entry.sealed THEN modes \cup {Target(Entry)} ELSE modes
  /\ sealed' = IF ~IsZip /\ Entry.sealed THEN sealed \cup {Target(Entry)} ELSE sealed
  /\ next' = next + 1
  /\ UNCHANGED <<step, files, copied, written>>

\* A file is created before its body is copied, a link after.
MakeFile ==
  /\ files' = files + 1
  /\ copied' = 0
  /\ tree' = IF Entry.kind = "file" THEN tree \cup {Made(Entry)} ELSE tree
  /\ step' = "copy"
  /\ UNCHANGED <<next, written, modes, sealed>>

BeginEntry ==
  /\ step = "entry" /\ ~cancel
  /\ next <= Len(archive.entries)
  /\ IF EntryIsAllowed /\ Found(Followed(Entry)) /\ CanMake(Entry.kind, Target(Entry))
     THEN /\ expanded' = expanded + Entry.declared
          /\ IF Entry.kind = "dir" THEN MakeDirectory ELSE MakeFile
          /\ UNCHANGED <<archive, downloaded, hasFile, cancel>>
     ELSE Stop

\* Mutation: each entry may have the whole limit.
WholeLimit == MaxExpanded

\* What the entry may hold: the limit without what was declared before it.
CopyLimit == MaxExpanded - (expanded - Entry.declared)

\* copy_with_limit: a unit of the entry, counted before it is written.
Copy ==
  /\ step = "copy" /\ ~cancel
  /\ copied < Entry.holds
  /\ IF copied + 1 > CopyLimit
     THEN Stop
     ELSE /\ copied' = copied + 1
          /\ written' = IF Entry.kind = "file" THEN written + 1 ELSE written
          /\ UNCHANGED <<archive, step, downloaded, hasFile, next, expanded, files, tree,
                         modes, sealed, cancel>>

SizeIsRight(e, n) == n = e.declared

\* The entry is at its end.  The target of a ZIP archive's link is what was
\* read, and is looked at now.
EndEntry ==
  /\ step = "copy" /\ ~cancel
  /\ copied = Entry.holds
  /\ IF SizeIsRight(Entry, copied) /\ (Entry.kind = "link" => SafePath(Entry.to))
     THEN /\ tree' = tree \cup {Made(Entry)}
          /\ next' = next + 1
          /\ step' = "entry"
          /\ UNCHANGED <<archive, downloaded, hasFile, expanded, files, copied, written, modes,
                         sealed, cancel>>
     ELSE Stop

\* The flag is not looked at after the last entry of a ZIP archive; the end of
\* a TAR archive is read through it.
EndEntries ==
  /\ step = "entry" /\ (IsZip \/ ~cancel)
  /\ next > Len(archive.entries)
  /\ sealed' = sealed \cup modes
  /\ modes' = {}
  /\ step' = "copied"
  /\ UNCHANGED <<archive, downloaded, hasFile, next, expanded, files, copied, tree, written,
                 cancel>>

\* The executable must be there when its digest is computed.
Validate ==
  /\ step = "copied" /\ ~cancel
  /\ IF SafePath(archive.cmd) /\ Found(archive.cmd) /\ KindAt(PlaceOf(archive.cmd)) = {"file"}
     THEN step' = "staged" /\ UNCHANGED <<archive, cancel>> /\ UNCHANGED progress
     ELSE Fail
  /\ UNCHANGED <<downloaded, hasFile>>

\* The installation is dropped while its blocking task runs.
Cancel ==
  /\ step \in {"extract", "entry", "copy", "copied"}
  /\ ~cancel
  /\ cancel' = TRUE
  /\ UNCHANGED <<archive, step, downloaded, hasFile>> /\ UNCHANGED progress

\* The task polls the flag before each entry and each read.  A read of a TAR
\* entry's body then answers ErrorKind::Interrupted, which the library's
\* std::io::copy takes for a call to repeat: that task never ends.
Cancelled ==
  /\ cancel
  /\ \/ step \in {"extract", "copied"}
     \/ step = "entry" /\ (IsZip => next <= Len(archive.entries))
     \/ step = "copy" /\ IsZip
  /\ Stop

ArchiveNext ==
  \/ Request \/ Receive \/ Broken \/ BodyEnds
  \/ Open \/ BeginEntry \/ Copy \/ EndEntry \/ EndEntries \/ Validate
  \/ Cancel \/ Cancelled

ArchiveSpec == ArchiveInit /\ [][ArchiveNext]_archiveVars

-----------------------------------------------------------------------------
\* Of numbers in a sequence, the units of each, and their sum.
Units(n) == UNION {{i} \X (1..n[i]) : i \in DOMAIN n}
Total(n) == Cardinality(Units(n))

\* What entries declare, and what those that are files hold.
Sizes(e)     == [i \in DOMAIN e |-> e[i].declared]
FileSizes(e) == [i \in DOMAIN e |-> IF e[i].kind = "file" THEN e[i].holds ELSE 0]
Declared(e)  == Total(Sizes(e))
FileUnits(e) == Total(FileSizes(e))
NonDirectories(e) == {i \in DOMAIN e : e[i].kind # "dir"}

\* An entry says what is true, and its path and target stay inside.
Honest(x) ==
  /\ x.holds = x.declared
  /\ x.path # <<>> /\ Len(x.path) <= MaxSteps
  /\ Unsafe \cap (ToSet(x.path) \cup ToSet(x.to)) = {} /\ "." \notin ToSet(x.path)
  /\ x.kind = "link" => x.to # <<>> /\ ToSet(x.to) # {"."}

\* Entries stay out of each other's way.
Apart(e) ==
  \A i \in DOMAIN e : \A j \in 1..(i - 1) :
    /\ e[i].path # e[j].path
    /\ e[j].kind # "dir" => ~IsPrefix(e[j].path, e[i].path)
    /\ ~IsPrefix(e[i].path, e[j].path)

\* An archive that must be installed: what it says is true and within the
\* limits, and only a ZIP archive has write-protected directories.
Good(a) ==
  LET e == a.entries IN
  /\ a.digest = "right" /\ a.length <= MaxDownload /\ a.body <= MaxDownload
  /\ a.name \notin {"", ".", "..", "/"}
  /\ a.format \in {"zip", "tar"}
  /\ Len(e) <= MaxEntries /\ Cardinality(NonDirectories(e)) <= MaxFiles
  /\ Declared(e) <= MaxExpanded
  /\ Apart(e) /\ \A i \in DOMAIN e : Honest(e[i]) /\ (a.format = "tar" => ~e[i].sealed)
  /\ \E i \in DOMAIN e : e[i].kind = "file" /\ e[i].path = a.cmd

\* Whatever an archive says of itself, its extraction stays within the limits
\* and within the destination, following the links that the archive has made;
\* what reaches the validation is whole and has the registry's digest; and no
\* archive that keeps the rules is refused, one with write-protected
\* directories included (download_archive_with_limits, extract_tar,
\* extract_zip_with_limits, archive.rs:239-469).
ExtractionIsBounded ==
  /\ downloaded <= MaxDownload /\ written <= MaxExpanded
  /\ Cardinality({f \in tree : f.kind # "dir"}) <= MaxFiles
  /\ Cardinality(tree) <= MaxEntries
  /\ \A f \in tree : f.at # Outside /\ Lookup(Links, ParentOf(f.at), f.to).at # Outside
  /\ step \in {"copied", "staged"} /\ archive.format # "none"
       => /\ archive.digest = "right"
          /\ written = FileUnits(archive.entries)
          /\ Declared(archive.entries) <= MaxExpanded
  /\ step = "failed" => cancel \/ downloaded < archive.body \/ ~Good(archive)
  /\ step = "failed" /\ archive.digest # "right" => ~hasFile

=============================================================================
