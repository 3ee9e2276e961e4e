------------------------------ MODULE IndexStore ------------------------------
(***************************************************************************)
(* The graph store and the passes that write it: a sync pass              *)
(* (CodeGraph.sync over ExtractionOrchestrator.sync), a full index on a    *)
(* recreated database (CodeGraph.recreate, indexAll), the per-file         *)
(* replacement of a file's rows (storeExtractionResult), and the           *)
(* resolution of the references it leaves (ReferenceResolver).            *)
(*                                                                         *)
(* Every database transaction is one step, so that a process can be        *)
(* killed between any two; every read of the disk is one step, so that an  *)
(* editor can save between any two.  One pass runs at a time: FileLock is  *)
(* about that.  Passes are run by Watching, a process that stays up and    *)
(* syncs (the daemon), or by a command that starts afresh.                 *)
(*                                                                         *)
(* A file's content is a model value; Defs and Refs say which names it     *)
(* defines (at a line) and which it refers to.  A symbol row is identified *)
(* by <<file, name, line>>, as the code's sha256(filePath:kind:name:line); *)
(* the node a reference starts from is the file's own.                     *)
(***************************************************************************)
EXTENDS Naturals, FiniteSets

CONSTANTS Files,       \* paths a scan can list
          Contents,    \* what a file can hold
          Holds,       \* [Files -> subset of Contents]: which of them each does
          Indexable,   \* contents that are stored: not too large, and parsed
          Defs,        \* [Contents -> set of <<name, line>>]
          Refs,        \* [Contents -> set of names]
          Chained,     \* names only the second pass can resolve
          None,        \* no file, no row, no cache
          BatchSize,   \* references in one batch of the sweep
          MaxEdits,    \* saves and deletions the model looks at
          MaxCrashes   \* kills the model looks at

ASSUME IndexAssumption ==
  /\ Indexable \subseteq Contents
  /\ Holds \in [Files -> SUBSET Contents]
  /\ \A c \in Contents : IsFiniteSet(Refs[c])
  /\ None \notin Contents
  /\ None \notin [content : Contents, stat : Nat] \cup [hash : Contents, stat : Nat]
  /\ BatchSize \in Nat \ {0}
  /\ MaxEdits \in Nat /\ MaxCrashes \in Nat

VARIABLES
  disk,      \* [Files -> None or [content, stat]]: stat is (size, mtime)
  rows,      \* [Files -> None or [hash, stat]]: the table files
  nodes,     \* the table nodes: <<file, name, line>>
  edges,     \* the table edges: <<source file, target node>>
  refs,      \* the table unresolved_refs: <<source file, name>>
  known,     \* Watching's resolver caches: None, or the nodes they were warmed with
  pc,        \* where the running pass is
  pass,      \* what it holds in memory
  edits, crashes,
  quiet,     \* no save since the last pass began
  blinded,   \* files saved without a change of stat that the store can see
  torn,      \* files killed between their nodes and their row
  excused,   \* references that may lack their edge, each for a named reason
  interrupted \* a pass was killed and no pass has completed since

store   == <<rows, nodes, edges, refs>>
history == <<quiet, blinded, torn, excused, interrupted>>
vars    == <<disk, store, known, pc, pass, edits, crashes, history>>

FileNode(f)  == <<f, None, 0>>
NodesOf(f,c) == {FileNode(f)} \cup {<<f, d[1], d[2]>> : d \in Defs[c]}
Named(N, n)  == {x \in N : x[2] = n}

\* edges from one reference each, to one of the nodes with its name
Targets(B, N) ==
  {L \in SUBSET UNION {{<<r[1], x>> : x \in Named(N, r[2])} : r \in B} :
     \A r \in B : Named(N, r[2]) # {} =>
       Cardinality({e \in L : <<e[1], e[2][2]>> = r}) = 1}

(***************************************************************************)
(* The pass.  listed and tracked are taken once, at its start.             *)
(***************************************************************************)
AtRest == [kind |-> "none", by |-> "none", listed |-> {}, tracked |-> <<>>,
           todo |-> {}, changed |-> {}, file |-> None, content |-> None,
           stat |-> 0, snap |-> {}, batch |-> {}, links |-> {},
           deferred |-> {}, left |-> 0]

Present == {f \in Files : disk[f] # None}
Tracked == {f \in Files : rows[f] # None}

Init ==
  /\ disk \in [Files -> {None} \cup [content : Contents, stat : {0}]]
  /\ \A f \in Files : disk[f] # None => disk[f].content \in Holds[f]
  /\ rows = [f \in Files |-> None]
  /\ nodes = {} /\ edges = {} /\ refs = {}
  /\ known = None
  /\ pc = "idle" /\ pass = AtRest
  /\ edits = 0 /\ crashes = 0
  /\ quiet = FALSE /\ blinded = {} /\ torn = {} /\ excused = {}
  /\ interrupted = FALSE

(***************************************************************************)
(* The editor.  A save takes a fresh stat, or keeps both size and mtime.   *)
(* A full index reads a file and stats it afterwards: a save in between    *)
(* leaves it with the old content under the new stat.                      *)
(***************************************************************************)
ReadNotStatted(f) == pass.kind = "index" /\ pc = "stat" /\ pass.file = f

Save(f, c) ==
  /\ edits < MaxEdits
  /\ edits' = edits + 1
  /\ disk' = [disk EXCEPT ![f] =
                IF c = None THEN None ELSE [content |-> c, stat |-> edits + 1]]
  /\ quiet' = FALSE
  /\ blinded' = IF ReadNotStatted(f) THEN blinded \cup {f} ELSE blinded \ {f}
  /\ UNCHANGED <<store, known, pc, pass, crashes, torn, excused, interrupted>>

SaveUnseen(f, c) ==
  /\ edits < MaxEdits
  /\ disk[f] # None /\ c # disk[f].content
  /\ edits' = edits + 1
  /\ disk' = [disk EXCEPT ![f].content = c]
  /\ quiet' = FALSE
  /\ blinded' = blinded \cup {f}
  /\ UNCHANGED <<store, known, pc, pass, crashes, torn, excused, interrupted>>

(***************************************************************************)
(* QueryBuilder.  Removing a node removes the edges at either end and the  *)
(* references from it (ON DELETE CASCADE); an edge whose end is missing is *)
(* not inserted.                                                           *)
(***************************************************************************)
Severed(f) == {e \in edges : e[1] = f \/ e[2][1] = f}

\* A slip: the row goes and its nodes stay
DeleteRowOnly(f) ==
  /\ rows' = [rows EXCEPT ![f] = None]
  /\ torn' = torn \ {f}
  /\ UNCHANGED <<nodes, edges, refs>>

DeleteFile(f) ==
  /\ rows' = [rows EXCEPT ![f] = None]
  /\ nodes' = {x \in nodes : x[1] # f}
  /\ edges' = edges \ Severed(f)
  /\ refs' = {r \in refs : r[1] # f}
  /\ torn' = torn \ {f}

InsertEdges(E) == edges \cup {e \in E : FileNode(e[1]) \in nodes /\ e[2] \in nodes}

IncomingNames(f) == {<<e[1], e[2][2]>> : e \in {x \in edges : x[2][1] = f /\ x[1] # f}}

(***************************************************************************)
(* Starting a pass.  codegraph index discards the database first.  A tool  *)
(* call makes the watching process reopen it (reopenIfReplaced), with new  *)
(* caches; a sync it runs before that writes to the discarded file only,   *)
(* which this store does not see.  The discarding takes no lock: it is     *)
(* modelled between passes only.                                           *)
(***************************************************************************)
BeginSync(by) ==
  /\ pc = "idle"
  /\ pc' = "remove"
  /\ pass' = [AtRest EXCEPT !.kind = "sync", !.by = by, !.listed = Present,
                            !.tracked = rows, !.todo = Tracked]
  /\ quiet' = TRUE
  /\ UNCHANGED <<disk, store, known, edits, crashes, blinded, torn, excused,
                 interrupted>>

BeginIndex ==
  /\ pc = "idle"
  /\ pc' = "file"
  /\ rows' = [f \in Files |-> None]
  /\ nodes' = {} /\ edges' = {} /\ refs' = {}
  /\ pass' = [AtRest EXCEPT !.kind = "index", !.by = "command", !.todo = Present]
  /\ known' = None
  /\ quiet' = TRUE /\ torn' = {} /\ excused' = {}
  /\ UNCHANGED <<disk, edits, crashes, blinded, interrupted>>

(***************************************************************************)
(* ExtractionOrchestrator.sync: removals, then adds and modifications.     *)
(***************************************************************************)
Done(f) == [pass EXCEPT !.todo = @ \ {f}]

Gone(f) == f \notin pass.listed \/ disk[f] = None

Remove(f) ==
  /\ pc = "remove" /\ f \in pass.todo
  /\ pass' = Done(f)
  /\ IF Gone(f)
       THEN /\ DeleteFile(f)
            /\ excused' = excused \cup IncomingNames(f)
       ELSE UNCHANGED <<store, torn, excused>>
  /\ UNCHANGED <<disk, known, pc, edits, crashes, quiet, blinded, interrupted>>

RemovesDone ==
  /\ pc = "remove" /\ pass.todo = {}
  /\ pc' = "check"
  /\ pass' = [pass EXCEPT !.todo = pass.listed]
  /\ UNCHANGED <<disk, store, known, edits, crashes, history>>

Unchanged(f) ==
  /\ pass.tracked[f] # None
  /\ \/ disk[f] = None
     \/ disk[f].stat = pass.tracked[f].stat
     \/ disk[f].content = pass.tracked[f].hash

Check(f) ==
  /\ pc = "check" /\ f \in pass.todo
  /\ pass' = IF Unchanged(f) \/ disk[f] = None
               THEN Done(f)
               ELSE [Done(f) EXCEPT !.changed = @ \cup {f}]
  /\ UNCHANGED <<disk, store, known, pc, edits, crashes, history>>

ChecksDone ==
  /\ pc = "check" /\ pass.todo = {}
  /\ pc' = "file"
  /\ pass' = [pass EXCEPT !.todo = pass.changed]
  /\ UNCHANGED <<disk, store, known, edits, crashes, history>>

(***************************************************************************)
(* Reading one file.  indexFile stats it, then reads it; the batch reader  *)
(* of indexAll reads it, then stats it.  A file that is gone is skipped.   *)
(***************************************************************************)
Skip(f) == pc' = "file" /\ pass' = Done(f)

TakeStat(f, next) ==
  IF disk[f] = None
    THEN Skip(f)
    ELSE pc' = next /\ pass' = [pass EXCEPT !.file = f, !.stat = disk[f].stat]

ReadContent(f, next) ==
  IF disk[f] = None
    THEN Skip(f)
    ELSE pc' = next /\ pass' = [pass EXCEPT !.file = f, !.content = disk[f].content]

\* A slip: a sync, too, reads a file before it stats it
OpenFileReadFirst(f) ==
  /\ pc = "file" /\ f \in pass.todo
  /\ ReadContent(f, "stat")
  /\ UNCHANGED <<disk, store, known, edits, crashes, history>>

OpenFile(f) ==
  /\ pc = "file" /\ f \in pass.todo
  /\ IF pass.kind = "sync" THEN TakeStat(f, "read") ELSE ReadContent(f, "stat")
  /\ UNCHANGED <<disk, store, known, edits, crashes, history>>

ReadFile ==
  /\ pc = "read"
  /\ ReadContent(pass.file, "store")
  /\ UNCHANGED <<disk, store, known, edits, crashes, history>>

StatFile ==
  /\ pc = "stat"
  /\ TakeStat(pass.file, "store")
  /\ UNCHANGED <<disk, store, known, edits, crashes, history>>

(***************************************************************************)
(* storeExtractionResult, one transaction a step.                          *)
(***************************************************************************)
DropOld ==
  /\ pc = "store"
  /\ LET f == pass.file IN
     IF \/ pass.content \notin Indexable
        \/ rows[f] # None /\ rows[f].hash = pass.content
       THEN Skip(f) /\ UNCHANGED <<store, torn>>
       ELSE /\ pc' = "nodes"
            /\ IF rows[f] # None
                 THEN /\ pass' = [pass EXCEPT !.snap = IncomingNames(f)]
                      /\ DeleteFile(f)
                 ELSE pass' = [pass EXCEPT !.snap = {}] /\ UNCHANGED <<store, torn>>
  /\ UNCHANGED <<disk, known, edits, crashes, quiet, blinded, excused, interrupted>>

\* INSERT OR REPLACE: a node that is already there is deleted first
InsertNodes ==
  /\ pc = "nodes"
  /\ LET N == NodesOf(pass.file, pass.content) IN
     /\ nodes' = nodes \cup N
     /\ edges' = {e \in edges : FileNode(e[1]) \notin N /\ e[2] \notin N}
     /\ refs' = {r \in refs : FileNode(r[1]) \notin N}
     /\ excused' = excused \cup {<<e[1], e[2][2]>> : e \in edges \ edges'}
  /\ pc' = "edges"
  /\ UNCHANGED <<disk, rows, known, pass, edits, crashes, quiet, blinded, torn,
                 interrupted>>

\* A slip: the edges into a file go with its old nodes (#899)
ReinsertNone ==
  /\ pc = "edges"
  /\ pass' = [pass EXCEPT !.snap = {}]
  /\ pc' = "refs"
  /\ UNCHANGED <<disk, store, known, edits, crashes, history>>

ReinsertEdges ==
  /\ pc = "edges"
  /\ \E L \in Targets(pass.snap, NodesOf(pass.file, pass.content)) :
       edges' = InsertEdges(L)
  /\ excused' = excused \cup
       {s \in pass.snap : Named(NodesOf(pass.file, pass.content), s[2]) = {}}
  /\ pass' = [pass EXCEPT !.snap = {}]
  /\ pc' = "refs"
  /\ UNCHANGED <<disk, rows, nodes, refs, known, edits, crashes, quiet, blinded,
                 torn, interrupted>>

InsertRefs ==
  /\ pc = "refs"
  /\ refs' = refs \cup {<<pass.file, n>> : n \in Refs[pass.content]}
  /\ excused' = {r \in excused : r[1] # pass.file}
  /\ pc' = "row"
  /\ UNCHANGED <<disk, rows, nodes, edges, known, pass, edits, crashes, quiet,
                 blinded, torn, interrupted>>

UpsertRow ==
  /\ pc = "row"
  /\ LET f == pass.file IN
     /\ rows' = [rows EXCEPT ![f] = [hash |-> pass.content, stat |-> pass.stat]]
     /\ blinded' = IF disk[f] # None /\ disk[f].content = pass.content
                     THEN blinded \ {f} ELSE blinded
     /\ Skip(f)
  /\ UNCHANGED <<disk, nodes, edges, refs, known, edits, crashes, quiet, torn,
                 excused, interrupted>>

(***************************************************************************)
(* Resolution.  A sync that changed files clears the resolver's caches     *)
(* (runPostExtract), resolves the references of those files, then sweeps   *)
(* whatever rows are left; a full index initialises the resolver and only  *)
(* sweeps; a sync that changed nothing sweeps with the caches it has.      *)
(***************************************************************************)
Cache == IF pass.by = "watching" THEN known ELSE None

FilesDone ==
  /\ pc = "file" /\ pass.todo = {}
  /\ known' = IF pass.by = "watching" /\ pass.changed # {} THEN None ELSE known
  /\ IF pass.kind = "sync" /\ pass.changed # {}
       THEN /\ pc' = "link"
            /\ pass' = [pass EXCEPT !.batch = {r \in refs : r[1] \in pass.changed}]
       ELSE pc' = "sweep" /\ UNCHANGED pass
  /\ UNCHANGED <<disk, store, edits, crashes, history>>

\* warmCaches, then a batch of at most BatchSize rows; the loop ends when the
\* table is empty or did not shrink
TakeBatch ==
  /\ pc = "sweep" /\ refs # {}
  /\ pass.left = 0 \/ Cardinality(refs) < pass.left
  /\ \E B \in SUBSET refs :
       /\ B # {} /\ Cardinality(B) <= BatchSize
       /\ BatchSize <= Cardinality(refs) => Cardinality(B) = BatchSize
       /\ pass' = [pass EXCEPT !.batch = B, !.left = Cardinality(refs)]
  /\ pc' = "link"
  /\ UNCHANGED <<disk, store, known, edits, crashes, history>>

\* A slip: a sync resolves the files it changed and no others (#1187)
SweepSkipped ==
  /\ pc = "sweep"
  /\ pass.kind = "index" /\ refs # {} =>
       pass.left # 0 /\ Cardinality(refs) >= pass.left
  /\ pc' = "second"
  /\ UNCHANGED <<disk, store, known, pass, edits, crashes, history>>

SweepDone ==
  /\ pc = "sweep"
  /\ refs # {} => pass.left # 0 /\ Cardinality(refs) >= pass.left
  /\ pc' = "second"
  /\ UNCHANGED <<disk, store, known, pass, edits, crashes, history>>

Seen == IF Cache = None THEN nodes ELSE Cache

Matched(B)  == {r \in B : r[2] \notin Chained /\ Named(Seen, r[2]) # {}}
Deferred(B) == {r \in B : r[2] \in Chained /\ Named(Seen, r[2]) # {}}

\* rows dropped without an edge: no node has the name, or the caches do not
\* know the node it has, which a sync that changed nothing does not clear
Missed(B) ==
  {r \in B :
     \/ Named(nodes, r[2]) = {}
     \/ /\ pass.changed = {}
        /\ \/ Named(Seen, r[2]) = {}
           \/ r \in Matched(B) /\ ~(Named(Seen, r[2]) \subseteq nodes)}

Link ==
  /\ pc = "link"
  /\ \E L \in Targets(Matched(pass.batch), Seen) : edges' = InsertEdges(L)
  /\ known' = IF pass.by = "watching" /\ known = None THEN nodes ELSE known
  /\ pass' = [pass EXCEPT !.links = Matched(pass.batch),
                          !.deferred = @ \cup Deferred(pass.batch)]
  /\ excused' = excused \cup Missed(pass.batch)
  /\ pc' = "drop"
  /\ UNCHANGED <<disk, rows, nodes, refs, edits, crashes, quiet, blinded, torn,
                 interrupted>>

DropResolved ==
  /\ pc = "drop"
  /\ refs' = refs \ pass.links
  /\ pc' = "dropRest"
  /\ UNCHANGED <<disk, rows, nodes, edges, known, pass, edits, crashes, history>>

DropUnresolved ==
  /\ pc = "dropRest"
  /\ refs' = refs \ (pass.batch \ pass.links)
  /\ pass' = [pass EXCEPT !.batch = {}, !.links = {}]
  /\ pc' = "sweep"
  /\ UNCHANGED <<disk, rows, nodes, edges, known, edits, crashes, history>>

\* resolveChainedCallsViaConformance: these references are only in memory now
SecondPass ==
  /\ pc = "second"
  /\ known' = IF pass.by = "watching" /\ pass.deferred # {} THEN None ELSE known
  /\ \E L \in Targets(pass.deferred, nodes) : edges' = InsertEdges(L)
  /\ pc' = "idle" /\ pass' = AtRest
  /\ interrupted' = FALSE
  /\ UNCHANGED <<disk, rows, nodes, refs, edits, crashes, quiet, blinded, torn,
                 excused>>

(***************************************************************************)
(* The process is killed (the watchdog's SIGKILL, Ctrl-C), or its instance *)
(* is closed under the pass: what the pass holds in memory is lost.        *)
(***************************************************************************)
Crash ==
  /\ pc # "idle" /\ crashes < MaxCrashes
  /\ crashes' = crashes + 1
  /\ pc' = "idle" /\ pass' = AtRest
  /\ known' = IF pass.by = "watching" THEN None ELSE known
  /\ torn' = IF pc \in {"edges", "refs", "row"} THEN torn \cup {pass.file} ELSE torn
  /\ excused' = excused \cup pass.snap \cup (pass.deferred \ refs)
  /\ interrupted' = TRUE
  /\ UNCHANGED <<disk, store, edits, quiet, blinded>>

Saves ==
  \E f \in Files :
    \/ \E c \in Holds[f] \cup {None} : Save(f, c)
    \/ \E c \in Holds[f] : SaveUnseen(f, c)

Begins == (\E by \in {"watching", "command"} : BeginSync(by)) \/ BeginIndex

Reconciles == (\E f \in Files : Remove(f) \/ Check(f)) \/ RemovesDone \/ ChecksDone

StoresFile ==
  \/ \E f \in Files : OpenFile(f)
  \/ ReadFile \/ StatFile
  \/ DropOld \/ InsertNodes \/ ReinsertEdges \/ InsertRefs \/ UpsertRow

Resolves ==
  \/ FilesDone \/ TakeBatch \/ SweepDone
  \/ Link \/ DropResolved \/ DropUnresolved \/ SecondPass

Next == Saves \/ Begins \/ Reconciles \/ StoresFile \/ Resolves \/ Crash

Spec == Init /\ [][Next]_vars

-------------------------------------------------------------------------------

\* Types, and what the foreign keys promise: an edge has both its ends, and a
\* reference the node it starts from.
TypeOK ==
  /\ disk \in [Files -> {None} \cup [content : Contents, stat : 0..MaxEdits]]
  /\ rows \in [Files -> {None} \cup [hash : Indexable, stat : 0..MaxEdits]]
  /\ \A x \in nodes : x[1] \in Files
  /\ \A e \in edges : FileNode(e[1]) \in nodes /\ e[2] \in nodes
  /\ \A r \in refs : FileNode(r[1]) \in nodes
  /\ pc \in {"idle", "remove", "check", "file", "read", "stat", "store", "nodes",
             "edges", "refs", "row", "sweep", "link", "drop", "dropRest", "second"}
  /\ edits \in 0..MaxEdits /\ crashes \in 0..MaxCrashes
  /\ quiet \in BOOLEAN /\ interrupted \in BOOLEAN
  /\ blinded \subseteq Files /\ torn \subseteq Files

\* After a pass through which nothing was saved, the store has exactly the
\* files that are there, each under the hash of what it holds (sync,
\* indexAll): whatever raced the passes before it.  Not seen are a save that
\* kept the stat the row has, a save between a full index's read of a file and
\* its stat, and a content that is too large or does not parse, which leaves
\* the row the file had.
SyncedIsFresh ==
  pc = "idle" /\ quiet /\ ~interrupted =>
    \A f \in Files :
      CASE disk[f] = None -> rows[f] = None
        [] disk[f] # None /\ disk[f].content \notin Indexable -> TRUE
        [] OTHER ->
             /\ rows[f] # None
             /\ \/ rows[f].hash = disk[f].content
                \/ f \in blinded /\ rows[f].stat = disk[f].stat

\* A file's symbols are those of the content its row names, all of them and no
\* others, and a file without a row has none, except while the file is being
\* stored, or after a kill between its nodes and its row.
BeingStored(f) == pass.file = f /\ pc \in {"edges", "refs", "row"}

NodesMatchRows ==
  /\ TypeOK
  /\ \A f \in Files :
       ~BeingStored(f) /\ f \notin torn =>
         {x \in nodes : x[1] = f} =
           IF rows[f] = None THEN {} ELSE NodesOf(f, rows[f].hash)

\* A completed pass leaves no unresolved reference, its own or one that a
\* killed pass left behind (the orphan sweep of sync, #1187).
RefsDrained == pc = "idle" /\ ~interrupted => refs = {}

\* Between passes a stored file has an edge for each of its references whose
\* name some node has, and for nothing else.  Missing may be: a reference that
\* an interrupted pass has left to be resolved; one resolved when no node had
\* its name, or whose target's file lost the name, since its file was last
\* stored; one held in memory only when its pass was killed; and one swept
\* with caches that another process's writes had outdated.
EdgesMatchReferences ==
  pc = "idle" =>
    \A f \in Tracked \ torn :
      /\ \A n \in Refs[rows[f].hash] :
           \/ Named(nodes, n) = {}
           \/ \E e \in edges : e[1] = f /\ e[2][2] = n
           \/ <<f, n>> \in refs \cup excused
      /\ \A e \in edges : e[1] = f => e[2][2] \in Refs[rows[f].hash]
===============================================================================
