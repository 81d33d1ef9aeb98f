------------------------------- MODULE Mount --------------------------------
(***************************************************************************)
(* "apimount serve webdav", "apimount serve nfs" and "apimount tree":      *)
(* BuildTree, internal/core/plan/builder.go, makes a tree of virtual files *)
(* of the operations, one operation a step; tree prints it, and clients of *)
(* the servers open and read its files while the resources behind them     *)
(* change.  The files are davFile of internal/frontend/webdav/webdav.go    *)
(* and billyFile of internal/frontend/nfs/billyfs.go.  The WebDAV library  *)
(* reads a file through one open; the NFS library opens it anew for every  *)
(* READ.  Every call that would change the tree is refused by both and     *)
(* left out.                                                               *)
(***************************************************************************)
EXTENDS Operations

CONSTANTS
  Groupings,  \* the --group-by values of tree: "path", "tags", "flat"
  Clients,
  MaxRev      \* bound on the versions of the upstream's resources

FileNames == {".data", ".query", ".post", ".put", ".delete", ".patch",
              ".schema", ".response", ".help"}

ASSUME MountAssumption ==
  /\ Groupings \subseteq {"path", "tags", "flat"}
  /\ Segments \cap FileNames = {}  \* a bound: no directory has a name like .data
  /\ \A o \in Operation : {o.tag, o.id} \cap FileNames = {}
  /\ MaxRev \in Nat \ {0}

VARIABLES
  grouping,  \* groupBy
  frontend,  \* the command: "webdav", "nfs", "tree", or "mcp", which needs no tree
  stage,     \* "building" or "serving"
  added,     \* number of operations in the tree
  tree,      \* path of a node -> index of its operation, Directory or Help
  rev,       \* version of the resources upstream
  file       \* what each client has open

treeVars == <<grouping, frontend, stage, added, tree>>
mountVars == <<document, treeVars, rev, file>>

Directory == 0
Help == -1
Closed == [path |-> <<"">>, loaded |-> FALSE, content |-> << >>,
           offset |-> 0, seen |-> {}, asks |-> 0]

\* Content is a sequence of parts, each what one Read returns: parts of a
\* version of the resource, or one of these.
Failure == 0  \* an error message, served as content
Static == -1  \* StaticContent

-----------------------------------------------------------------------------
(* The tree *)

Base(p) == p[Len(p)]
Parent(p) == SubSeq(p, 1, Len(p) - 1)

\* splitPath drops empty segments.
Split[path \in Seq(Segments)] ==
  IF path = << >> THEN << >>
  ELSE (IF Head(path) = "" THEN << >> ELSE <<Head(path)>>) \o Split[Tail(path)]

\* The directory of an operation.  With tags a leading segment equal to the
\* tag is left out.
Home(o) ==
  CASE grouping = "path" -> Split[o.path]
    [] grouping = "tags" ->
         LET p == Split[o.path]
         IN  <<o.tag>> \o IF p # << >> /\ Head(p) = o.tag THEN Tail(p) ELSE p
    [] grouping = "flat" -> <<o.id>>

\* The files of an operation; other methods have a .response only.
Names(o) ==
  {".response"}
    \cup (IF o.method = "GET" THEN {".data"} ELSE {})
    \cup (IF o.method = "GET" /\ o.query THEN {".query"} ELSE {})
    \cup (IF o.method = "POST" THEN {".post"} ELSE {})
    \cup (IF o.method = "PUT" THEN {".put"} ELSE {})
    \cup (IF o.method = "DELETE" THEN {".delete"} ELSE {})
    \cup (IF o.method = "PATCH" THEN {".patch"} ELSE {})
    \cup (IF o.method \in {"POST", "PUT", "PATCH"} /\ o.body THEN {".schema"} ELSE {})

\* Mutant of Directories: the inner ones are forgotten.
DirectoriesLast(o) == {Home(o)}

Directories(o) == {SubSeq(Home(o), 1, k) : k \in 0..Len(Home(o))}
Files(o) == {Append(Home(o), n) : n \in Names(o)}

NewNodes(i) ==
  [p \in Directories(document[i]) \cup Files(document[i]) |->
     IF p \in Files(document[i]) THEN i ELSE Directory]

\* The nodes of t, and those of u where t has none.
Merged(t, u) == [p \in DOMAIN t \cup DOMAIN u |-> IF p \in DOMAIN t THEN t[p] ELSE u[p]]

IsDirectory(p) == p \in DOMAIN tree /\ tree[p] = Directory
HelpFiles ==
  [p \in {Append(d, ".help") : d \in {q \in DOMAIN tree : IsDirectory(q)}} |-> Help]
Children(d) == {Base(p) : p \in {q \in DOMAIN tree : q # << >> /\ Parent(q) = d}}

\* resolve walks from the root, child by child.
Resolves(p) ==
  \A k \in 1..Len(p) : p[k] \in Children(SubSeq(p, 1, k - 1))

-----------------------------------------------------------------------------
MountInit ==
  /\ document \in Documents
  /\ frontend \in {"webdav", "nfs", "tree", "mcp"}
  /\ grouping \in IF frontend = "tree" THEN Groupings ELSE {"path"}
  /\ stage = "building" /\ added = 0
  /\ tree = [p \in {<< >>} |-> Directory]
  /\ rev = 1
  /\ file = [c \in Clients |-> Closed]

\* Mutant of Add: a later operation replaces the files of an earlier one.
AddOver ==
  /\ stage = "building" /\ added < Len(document)
  /\ added' = added + 1
  /\ tree' = Merged(NewNodes(added + 1), tree)
  /\ UNCHANGED <<document, grouping, frontend, stage, rev, file>>

\* One round of BuildTree: a node that exists stays as it is.
Add ==
  /\ stage = "building" /\ added < Len(document)
  /\ added' = added + 1
  /\ tree' = Merged(tree, NewNodes(added + 1))
  /\ UNCHANGED <<document, grouping, frontend, stage, rev, file>>

\* addHelpFilesRecursive, and the tree is served or printed.
AddHelp ==
  /\ stage = "building" /\ added = Len(document)
  /\ stage' = "serving"
  /\ tree' = Merged(HelpFiles, tree)
  /\ UNCHANGED <<document, grouping, frontend, added, rev, file>>

-----------------------------------------------------------------------------
(* The files *)

Fresh(p) == [Closed EXCEPT !.path = p]

\* What ExecuteGET returns: the resource, possibly from the cache, or an error.
Answers == {<<v, v>> : v \in 1..rev} \cup {<<Failure>>}

\* Mutant of Loads: loaded is never set.
LoadsAlways(f) ==
  IF f.path # << >> /\ Base(f.path) = ".data"
    THEN {[f EXCEPT !.content = a, !.asks = @ + 1] : a \in Answers}
    ELSE {f}

\* ensureLoaded, by what it may leave in the file.  The last response is never
\* set, and the files of writes are empty.
Loads(f) ==
  IF f.loaded \/ IsDirectory(f.path) THEN {[f EXCEPT !.loaded = TRUE]}
  ELSE CASE Base(f.path) \in {".help", ".schema"} ->
              {[f EXCEPT !.loaded = TRUE, !.content = <<Static>>]}
         [] Base(f.path) = ".data" ->
              {[f EXCEPT !.loaded = TRUE, !.content = a, !.asks = @ + 1] : a \in Answers}
         [] OTHER -> {[f EXCEPT !.loaded = TRUE]}

\* One part from the offset on, nothing at the end.
Part(f) == IF f.offset < Len(f.content) THEN {f.content[f.offset + 1]} ELSE {}
Advance(f) ==
  [f EXCEPT !.seen = @ \cup Part(f), !.offset = @ + Cardinality(Part(f))]

IsOpen(c) == file[c] # Closed

Open(c, p) ==
  /\ frontend \in {"webdav", "nfs"} /\ stage = "serving"
  /\ ~IsOpen(c) /\ Resolves(p)
  /\ file' = [file EXCEPT ![c] = Fresh(p)]
  /\ UNCHANGED <<document, treeVars, rev>>

\* davFile.Read
Read(c) ==
  /\ frontend = "webdav" /\ IsOpen(c)
  /\ \E f \in Loads(file[c]) : file' = [file EXCEPT ![c] = Advance(f)]
  /\ UNCHANGED <<document, treeVars, rev>>

\* davFile.Seek, to the start, to the end for the size, or past the end.
Seek(c) ==
  /\ frontend = "webdav" /\ IsOpen(c)
  /\ \E f \in Loads(file[c]) :
       \E o \in {0, Len(f.content), Len(f.content) + 1} :
         file' = [file EXCEPT ![c] = [f EXCEPT !.offset = o]]
  /\ UNCHANGED <<document, treeVars, rev>>

\* A READ of the NFS library opens the file, reads at an offset and forgets it;
\* what the client has put together so far stays.
ReadAt(c, o) ==
  /\ frontend = "nfs" /\ IsOpen(c) /\ ~IsDirectory(file[c].path)
  /\ \E f \in Loads(Fresh(file[c].path)) :
       file' = [file EXCEPT ![c] =
                  [Closed EXCEPT !.path = f.path, !.offset = o + 1,
                     !.seen = file[c].seen \cup Part([f EXCEPT !.offset = o])]]
  /\ UNCHANGED <<document, treeVars, rev>>

Close(c) ==
  /\ IsOpen(c)
  /\ file' = [file EXCEPT ![c] = Closed]
  /\ UNCHANGED <<document, treeVars, rev>>

\* Other users of the API change what is behind the files.
Change ==
  /\ rev < MaxRev
  /\ rev' = rev + 1
  /\ UNCHANGED <<document, treeVars, file>>

MountNext ==
  \/ Add \/ AddHelp \/ Change
  \/ \E c \in Clients :
       \/ \E p \in DOMAIN tree : Open(c, p)
       \/ Read(c) \/ Seek(c) \/ Close(c)
       \/ \E o \in 0..1 : ReadAt(c, o)

-----------------------------------------------------------------------------
(* Properties *)

\* Types; every node hangs below a directory, which getOrCreate made, what is
\* open is a node that is still there, and WebDAV's offset is at most one past
\* the end of what was loaded.
MountTypeOK ==
  /\ document \in Documents /\ grouping \in Groupings \cup {"path"}
  /\ stage \in {"building", "serving"} /\ added \in 0..Len(document)
  /\ \A p \in DOMAIN tree :
       /\ tree[p] \in -1..Len(document)
       /\ p # << >> => IsDirectory(Parent(p))
  /\ rev \in 1..MaxRev
  /\ \A c \in Clients :
       /\ IsOpen(c) => file[c].path \in DOMAIN tree
       /\ frontend = "webdav" => file[c].offset \in 0..(Len(file[c].content) + 1)
       /\ frontend # "webdav" => file[c].offset \in 0..2 /\ ~file[c].loaded
       /\ file[c].asks \in Nat

\* "apimount tree shows you what's available" (README.md:315): every file of
\* every operation is found by a walk down from the root, however paths overlap.
\* Where several operations have a file of one path, as the .response of all the
\* methods of a path or the .schema of two, it is the first one's, and the
\* others' is not to be had (builder.go:105).
NothingLost ==
  stage = "serving" =>
    \A i \in 1..Len(document) : \A p \in Files(document[i]) :
      /\ Resolves(p)
      /\ tree[p] \in 1..i
      /\ p \in Files(document[tree[p]])

\* davFile.loaded (webdav.go:127): however a client reads, seeks and reads
\* again, one open asks the API at most once, and no two parts it was given
\* come from different versions of the resource.
OneVersion ==
  frontend = "webdav" =>
    \A c \in Clients :
      /\ file[c].asks <= 1
      /\ Cardinality(file[c].seen) <= 1
=============================================================================
