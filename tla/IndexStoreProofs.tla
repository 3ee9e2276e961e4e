-------------------------- MODULE IndexStoreProofs --------------------------
(* What TLAPS proves of the index store, for any files, contents, saves    *)
(* and kills.                                                              *)
EXTENDS IndexStore, FiniteSetTheorems, TLAPS

(***************************************************************************)
(* The stages of a pass.                                                   *)
(***************************************************************************)
Storing   == pc \in {"nodes", "edges", "refs", "row"}
Replaced  == pc \in {"edges", "refs", "row"}
HasText   == pc \in {"stat", "store"} \/ Storing
OnFile    == pc = "read" \/ HasText
FileStage == pc = "file" \/ OnFile
Resolving == pc \in {"sweep", "link", "drop", "dropRest", "second"}

PassFields == {"kind", "by", "listed", "tracked", "todo", "changed", "file", "content",
               "stat", "snap", "batch", "links", "deferred", "left"}

Disks == [Files -> {None} \cup [content : Contents, stat : 0..edits]]
Rows  == [Files -> {None} \cup [hash : Indexable, stat : 0..edits]]

\* What the pass holds in memory, as far as its place tells.
PassOK ==
  /\ DOMAIN pass = PassFields
  /\ pc = "idle" => pass = AtRest
  /\ pass.todo \subseteq Files /\ pass.listed \subseteq Files /\ pass.changed \subseteq Files
  /\ pass.stat \in 0..edits /\ pass.left \in Nat
  /\ OnFile => pass.file \in pass.todo
  /\ HasText => pass.content \in Contents
  /\ Storing => pass.content \in Indexable
  /\ pass.kind = "index" => pass.by = "command" /\ pass.changed = {}
  /\ pc \in {"remove", "check"} => pass.kind = "sync" /\ pass.tracked \in Rows
  /\ pc # "idle" => pass.kind \in {"sync", "index"}
  /\ pc = "read" => pass.kind = "sync"
  /\ pc = "stat" => pass.kind = "index"
  /\ pc \notin {"nodes", "edges"} => pass.snap = {}
  /\ ~Resolving => pass.batch = {} /\ pass.deferred = {} /\ pass.left = 0

\* Foreign keys, and the rows of the file at hand.
StoreOK ==
  /\ \A x \in nodes : x[1] \in Files
  /\ \A e \in edges : FileNode(e[1]) \in nodes /\ e[2] \in nodes
  /\ \A r \in refs : FileNode(r[1]) \in nodes
  /\ IsFiniteSet(refs)
  /\ Storing => rows[pass.file] = None
  /\ Replaced => NodesOf(pass.file, pass.content) \subseteq nodes
  /\ \A f \in Files \ torn :
       {x \in nodes : x[1] = f} =
         IF BeingStored(f) THEN NodesOf(f, pass.content)
         ELSE IF rows[f] = None THEN {} ELSE NodesOf(f, rows[f].hash)

Places == {"idle", "remove", "check", "file", "read", "stat", "store", "nodes",
           "edges", "refs", "row", "sweep", "link", "drop", "dropRest", "second"}

StateOK ==
  /\ disk \in Disks /\ rows \in Rows /\ pc \in Places
  /\ edits \in 0..MaxEdits /\ crashes \in 0..MaxCrashes
  /\ quiet \in BOOLEAN /\ interrupted \in BOOLEAN
  /\ blinded \subseteq Files /\ torn \subseteq Files

StoreInv == StateOK /\ PassOK /\ StoreOK

(***************************************************************************)
(* Freshness.                                                              *)
(***************************************************************************)
\* A row with the stat of the file has its content, or a save was not to be seen; and so has
\* what is read of a file.
RowsTruthful ==
  \A f \in Files :
    disk[f] # None /\ rows[f] # None /\ rows[f].stat = disk[f].stat =>
      rows[f].hash = disk[f].content \/ f \in blinded

ReadTruthful ==
  LET f == pass.file IN
  /\ pc = "stat" => f \in blinded \/ (disk[f] # None /\ disk[f].content = pass.content)
  /\ pc = "store" \/ Storing =>
       (disk[f] # None /\ disk[f].stat = pass.stat =>
          disk[f].content = pass.content \/ f \in blinded)

Fresh(f) ==
  IF disk[f] = None THEN rows[f] = None
  ELSE disk[f].content \in Indexable =>
         /\ rows[f] # None
         /\ \/ rows[f].hash = disk[f].content
            \/ f \in blinded /\ rows[f].stat = disk[f].stat

\* With no save since the pass began, what it has done with is fresh.
Kept(f) == rows[f] = IF disk[f] = None THEN None ELSE pass.tracked[f]

QuietPass ==
  quiet =>
    /\ pc \in {"remove", "check"} => pass.listed = Present
    /\ pc = "remove" => pass.changed = {} /\ \A f \in Files :
         IF f \in pass.todo THEN rows[f] = pass.tracked[f] ELSE Kept(f)
    /\ pc = "check" =>
         /\ pass.todo \cup pass.changed \subseteq Present
         /\ \A f \in Files : Kept(f) /\ (f \in pass.todo \cup pass.changed \/ Fresh(f))
    /\ FileStage =>
         /\ pass.todo \subseteq Present
         /\ \A f \in Files \ pass.todo : Fresh(f)
    /\ HasText => disk[pass.file].content = pass.content
    /\ Resolving \/ (pc = "idle" /\ ~interrupted) => \A f \in Files : Fresh(f)

FreshInv == RowsTruthful /\ ReadTruthful /\ QuietPass

(***************************************************************************)
(* References.                                                             *)
(***************************************************************************)
\* The sweep's table shrinks from batch to batch.
RefsInv ==
  /\ pc = "sweep" => pass.left = 0 \/ Cardinality(refs) < pass.left
  /\ pc = "link" /\ pass.left # 0 =>
       pass.batch # {} /\ pass.batch \subseteq refs /\ pass.left = Cardinality(refs)
  /\ pc = "drop" /\ pass.left # 0 => Cardinality(refs \ pass.batch) < pass.left
  /\ pc \in {"drop", "dropRest"} => pass.links \subseteq pass.batch
  /\ pc = "dropRest" /\ pass.left # 0 =>
       Cardinality(refs \ (pass.batch \ pass.links)) < pass.left
  /\ pc = "second" \/ (pc = "idle" /\ ~interrupted) => refs = {}

Linked(f, n) == \E e \in edges : e[1] = f /\ e[2][2] = n
Sound == Tracked \ torn

EdgesInv ==
  /\ \A f \in Sound : \A n \in Refs[rows[f].hash] :
       Linked(f, n) \/ <<f, n>> \in refs \cup excused \cup pass.snap \cup pass.deferred
  /\ pc \in {"drop", "dropRest"} =>
       \A f \in Sound : \A n \in Refs[rows[f].hash] :
         <<f, n>> \in pass.batch => Linked(f, n) \/ <<f, n>> \in excused \cup pass.deferred
  /\ \A f \in Sound :
       /\ \A e \in edges : e[1] = f => e[2][2] \in Refs[rows[f].hash]
       /\ \A r \in refs \cup pass.snap \cup pass.batch \cup pass.deferred :
            r[1] = f => r[2] \in Refs[rows[f].hash]
  /\ Replaced => \A e \in edges : e[1] # pass.file
  /\ pc \in {"nodes", "edges"} => \A r \in pass.snap : r[1] # pass.file
  /\ pc \in {"edges", "refs"} => \A r \in refs : r[1] # pass.file
  /\ pc = "row" =>
       /\ \A n \in Refs[pass.content] : <<pass.file, n>> \in refs
       /\ \A r \in refs : r[1] = pass.file => r[2] \in Refs[pass.content]
  /\ \A r \in pass.deferred : Named(nodes, r[2]) = {} => r \in excused
  /\ Resolving /\ pass.changed # {} => Seen = nodes

(***************************************************************************)
(* The store and its foreign keys.                                         *)
(***************************************************************************)
LEMMA NodesOfFile ==
  \A f, c : FileNode(f) \in NodesOf(f, c) /\ FileNode(f)[1] = f /\ \A x \in NodesOf(f, c) : x[1] = f
BY DEF NodesOf, FileNode

LEMMA Typed ==
  ASSUME StateOK
  PROVE  /\ edits \in Nat /\ None \notin [content : Contents, stat : 0..edits]
         /\ None \notin [hash : Indexable, stat : 0..edits]
         /\ \A f \in Files : disk[f] # None =>
              /\ disk[f] \in [content : Contents, stat : 0..edits]
              /\ disk[f].content \in Contents /\ disk[f].stat \in 0..edits
         /\ \A f \in Files : rows[f] # None =>
              /\ rows[f] \in [hash : Indexable, stat : 0..edits]
              /\ rows[f].hash \in Indexable /\ rows[f].stat \in 0..edits
<1>1. edits \in Nat /\ 0..edits \subseteq Nat /\ Indexable \subseteq Contents
  BY IndexAssumption DEF StateOK
<1>2. /\ [content : Contents, stat : 0..edits] \subseteq [content : Contents, stat : Nat]
      /\ [hash : Indexable, stat : 0..edits] \subseteq [hash : Contents, stat : Nat]
  BY <1>1
<1>3. \A f \in Files : disk[f] # None => disk[f] \in [content : Contents, stat : 0..edits]
  BY DEF StateOK, Disks
<1>4. \A f \in Files : rows[f] # None => rows[f] \in [hash : Indexable, stat : 0..edits]
  BY DEF StateOK, Rows
<1>. QED
  BY <1>1, <1>2, <1>3, <1>4, IndexAssumption

LEMMA InitStore == Init => StoreInv
<1>. SUFFICES ASSUME Init PROVE StoreInv
  OBVIOUS
<1>1. StateOK
  <2>1. MaxEdits \in Nat /\ MaxCrashes \in Nat
    BY IndexAssumption
  <2>2. disk \in Disks
    <3>1. {None} \cup [content : Contents, stat : {0}] \subseteq {None} \cup [content : Contents, stat : 0..0]
      OBVIOUS
    <3>. QED
      BY <3>1 DEF Init, Disks
  <2>3. rows \in Rows
    BY DEF Init, Rows
  <2>4. /\ pc \in Places /\ edits \in 0..MaxEdits /\ crashes \in 0..MaxCrashes
        /\ blinded \subseteq Files /\ torn \subseteq Files
    BY <2>1 DEF Init, Places
  <2>5. quiet \in BOOLEAN /\ interrupted \in BOOLEAN
    BY DEF Init
  <2>. QED
    BY <2>2, <2>3, <2>4, <2>5 DEF StateOK
<1>2. PassOK
  BY DEF Init, PassOK, AtRest, PassFields, OnFile, HasText, Storing, Resolving
<1>3. StoreOK
  <2>1. refs = {} /\ IsFiniteSet(refs)
    BY FS_EmptySet DEF Init
  <2>. QED
    BY <2>1 DEF Init, StoreOK, Storing, Replaced, BeingStored
<1>. QED
  BY <1>1, <1>2, <1>3 DEF StoreInv

\* Steps that leave files, rows and symbols alone.
LEMMA FrameStore ==
  ASSUME StoreInv, UNCHANGED <<disk, rows, nodes, edits, torn>>, refs' \subseteq refs,
         \A e \in edges' : FileNode(e[1]) \in nodes /\ e[2] \in nodes,
         ~Replaced, ~Replaced', Storing' => rows[pass'.file] = None,
         PassOK', pc' \in Places, crashes' \in 0..MaxCrashes,
         quiet' \in BOOLEAN, interrupted' \in BOOLEAN, blinded' \subseteq Files
  PROVE  StoreInv'
<1>1. StateOK'
  BY DEF StoreInv, StateOK, Disks, Rows
<1>2. IsFiniteSet(refs')
  BY FS_Subset DEF StoreInv, StoreOK
<1>3. \A f : ~BeingStored(f) /\ ~BeingStored(f)'
  BY DEF BeingStored, Replaced
<1>4. StoreOK'
  BY <1>2, <1>3 DEF StoreInv, StoreOK
<1>. QED
  BY <1>1, <1>4 DEF StoreInv

LEMMA InsertedEnds ==
  ASSUME StoreInv, NEW E
  PROVE  \A e \in InsertEdges(E) : FileNode(e[1]) \in nodes /\ e[2] \in nodes
BY DEF StoreInv, StoreOK, InsertEdges

LEMMA DeleteFileStore ==
  ASSUME StoreInv, NEW f \in Files, DeleteFile(f), ~Replaced
  PROVE  /\ rows' \in Rows /\ rows'[f] = None /\ torn' \subseteq Files
         /\ \A x \in nodes' : x[1] \in Files
         /\ \A e \in edges' : FileNode(e[1]) \in nodes' /\ e[2] \in nodes'
         /\ \A r \in refs' : FileNode(r[1]) \in nodes'
         /\ IsFiniteSet(refs')
         /\ \A g \in Files \ torn' :
              {x \in nodes' : x[1] = g} = IF rows'[g] = None THEN {} ELSE NodesOf(g, rows'[g].hash)
<1>0. /\ rows' = [rows EXCEPT ![f] = None] /\ nodes' = {x \in nodes : x[1] # f}
      /\ edges' = edges \ Severed(f) /\ refs' = {r \in refs : r[1] # f} /\ torn' = torn \ {f}
  BY DEF DeleteFile
<1>1. rows' \in Rows /\ rows'[f] = None /\ \A g \in Files \ {f} : rows'[g] = rows[g]
  BY <1>0 DEF StoreInv, StateOK, Rows
<1>2. IsFiniteSet(refs')
  BY <1>0, FS_Subset DEF StoreInv, StoreOK
<1>3. \A e \in edges' : FileNode(e[1]) \in nodes' /\ e[2] \in nodes'
  BY <1>0, NodesOfFile DEF StoreInv, StoreOK, Severed
<1>4. \A r \in refs' : FileNode(r[1]) \in nodes'
  BY <1>0, NodesOfFile DEF StoreInv, StoreOK
<1>5. ASSUME NEW g \in Files \ torn'
      PROVE  {x \in nodes' : x[1] = g} = IF rows'[g] = None THEN {} ELSE NodesOf(g, rows'[g].hash)
  <2>1. CASE g = f
    BY <1>0, <1>1, <2>1
  <2>2. CASE g # f
    <3>1. {x \in nodes' : x[1] = g} = {x \in nodes : x[1] = g}
      BY <1>0, <2>2
    <3>2. g \in Files \ torn /\ ~BeingStored(g)
      BY <1>0, <2>2 DEF BeingStored, Replaced
    <3>3. {x \in nodes : x[1] = g} = IF rows[g] = None THEN {} ELSE NodesOf(g, rows[g].hash)
      BY <3>2 DEF StoreInv, StoreOK
    <3>. QED
      BY <1>1, <2>2, <3>1, <3>3
  <2>. QED
    BY <2>1, <2>2
<1>. QED
  BY <1>0, <1>1, <1>2, <1>3, <1>4, <1>5 DEF StoreInv, StateOK, StoreOK

LEMMA SaveStore ==
  ASSUME StoreInv, NEW f \in Files,
         (\E c \in Holds[f] \cup {None} : Save(f, c)) \/ (\E c \in Holds[f] : SaveUnseen(f, c))
  PROVE  StoreInv'
<1>0. /\ UNCHANGED <<rows, nodes, edges, refs, pc, pass, crashes, torn, interrupted>>
      /\ quiet' = FALSE /\ edits < MaxEdits /\ edits' = edits + 1
      /\ blinded' \subseteq blinded \cup {f}
  BY DEF Save, SaveUnseen, store
<1>1. /\ edits \in Nat /\ edits' \in 0..MaxEdits /\ MaxEdits \in Nat /\ 0..edits \subseteq 0..edits'
      /\ edits + 1 \in 0..edits'
  BY <1>0, IndexAssumption DEF StoreInv, StateOK
<1>2. disk' \in Disks'
  <2>1. disk \in [Files -> {None} \cup [content : Contents, stat : 0..edits']]
    BY <1>1 DEF StoreInv, StateOK, Disks
  <2>2. ASSUME NEW c \in Holds[f] \cup {None}, Save(f, c) PROVE disk' \in Disks'
    <3>1. c = None \/ c \in Contents
      BY IndexAssumption
    <3>2. c # None => [content |-> c, stat |-> edits + 1] \in [content : Contents, stat : 0..edits']
      BY <1>1, <3>1
    <3>. QED
      BY <2>1, <2>2, <3>2 DEF Save, Disks
  <2>3. ASSUME NEW c \in Holds[f], SaveUnseen(f, c) PROVE disk' \in Disks'
    <3>1. c \in Contents /\ disk[f] \in [content : Contents, stat : 0..edits']
      BY <2>1, <2>3, IndexAssumption DEF SaveUnseen
    <3>2. [disk[f] EXCEPT !.content = c] \in [content : Contents, stat : 0..edits']
      BY <3>1
    <3>3. disk' = [disk EXCEPT ![f] = [disk[f] EXCEPT !.content = c]]
      BY <2>3 DEF SaveUnseen
    <3>. QED
      BY <2>1, <3>2, <3>3 DEF Disks
  <2>. QED
    BY <2>2, <2>3
<1>3. rows' \in Rows'
  BY <1>0, <1>1 DEF StoreInv, StateOK, Rows
<1>4. StateOK'
  BY <1>0, <1>1, <1>2, <1>3 DEF StoreInv, StateOK
<1>5. PassOK'
  <2>1. pass.tracked \in Rows => pass.tracked \in Rows'
    BY <1>1 DEF Rows
  <2>. QED
    BY <1>0, <1>1, <2>1 DEF StoreInv, PassOK, OnFile, HasText, Storing, Resolving
<1>6. StoreOK'
  BY <1>0 DEF StoreInv, StoreOK, Storing, Replaced, BeingStored
<1>. QED
  BY <1>4, <1>5, <1>6 DEF StoreInv

\* The places of a pass, as the stages see them.
LEMMA BeginSyncStore ==
  ASSUME StoreInv, NEW by \in {"watching", "command"}, BeginSync(by)
  PROVE  StoreInv'
<1>1. /\ pc = "idle" /\ pc' = "remove" /\ UNCHANGED <<disk, rows, nodes, edges, refs, edits, crashes, torn, blinded, interrupted>>
      /\ quiet' = TRUE
      /\ pass' = [AtRest EXCEPT !.kind = "sync", !.by = by, !.listed = Present,
                                !.tracked = rows, !.todo = Tracked]
  BY DEF BeginSync, store
<1>2. PassOK'
  BY <1>1 DEF StoreInv, StateOK, PassOK, AtRest, PassFields, OnFile, HasText, Storing, Resolving,
              Present, Tracked, Rows
<1>. QED
  BY <1>1, <1>2, FrameStore DEF StoreInv, StateOK, StoreOK, Replaced, Storing, Places

LEMMA BeginIndexStore ==
  ASSUME StoreInv, BeginIndex
  PROVE  StoreInv'
<1>1. /\ pc' = "file" /\ UNCHANGED <<disk, edits, crashes, blinded, interrupted>>
      /\ quiet' = TRUE /\ torn' = {} /\ rows' = [f \in Files |-> None]
      /\ nodes' = {} /\ edges' = {} /\ refs' = {}
      /\ pass' = [AtRest EXCEPT !.kind = "index", !.by = "command", !.todo = Present]
  BY DEF BeginIndex
<1>2. PassOK'
  BY <1>1 DEF StoreInv, StateOK, PassOK, AtRest, PassFields, OnFile, HasText, Storing, Resolving,
              Present
<1>3. StateOK'
  BY <1>1 DEF StoreInv, StateOK, Disks, Rows, Places
<1>4. StoreOK'
  BY <1>1, FS_EmptySet DEF StoreOK, Storing, Replaced, BeingStored
<1>. QED
  BY <1>2, <1>3, <1>4 DEF StoreInv

LEMMA RemoveStore ==
  ASSUME StoreInv, NEW f \in Files, Remove(f)
  PROVE  StoreInv'
<1>1. /\ pc = "remove" /\ UNCHANGED <<disk, pc, edits, crashes, quiet, blinded, interrupted>>
      /\ pass' = [pass EXCEPT !.todo = @ \ {f}]
      /\ DeleteFile(f) \/ UNCHANGED <<rows, nodes, edges, refs, torn>>
  BY DEF Remove, Done, store
<1>2. PassOK'
  BY <1>1 DEF StoreInv, PassOK, PassFields, OnFile, HasText, Storing, Resolving, Rows
<1>3. CASE UNCHANGED <<rows, nodes, edges, refs, torn>>
  BY <1>1, <1>2, <1>3, FrameStore DEF StoreInv, StateOK, StoreOK, Replaced, Storing
<1>4. CASE DeleteFile(f)
  <2>1. StateOK'
    BY <1>1, <1>4, DeleteFileStore DEF StoreInv, StateOK, Disks, Rows, Replaced
  <2>2. StoreOK'
    BY <1>1, <1>4, DeleteFileStore DEF StoreOK, Storing, Replaced, BeingStored
  <2>. QED
    BY <1>2, <2>1, <2>2 DEF StoreInv
<1>. QED
  BY <1>1, <1>3, <1>4

\* Passing over a file, and the two reads of it.
LEMMA SkipPass ==
  ASSUME StoreInv, NEW f \in Files, Skip(f), UNCHANGED edits,
         pc \notin {"nodes", "edges"}, ~Resolving, pc # "idle"
  PROVE  PassOK'
<1>1. pc' = "file" /\ pass' = [pass EXCEPT !.todo = @ \ {f}]
  BY DEF Skip, Done
<1>. QED
  BY <1>1 DEF StoreInv, PassOK, PassFields, OnFile, HasText, Storing, Resolving

LEMMA TakeStatPass ==
  ASSUME StoreInv, NEW f \in pass.todo, NEW next \in {"read", "store"}, TakeStat(f, next),
         UNCHANGED <<edits, rows>>, pc \in {"file", "read", "stat"},
         next = "read" => pc = "file" /\ pass.kind = "sync",
         next = "store" => pc = "stat"
  PROVE  PassOK'
<1>0. f \in Files /\ pc \notin {"nodes", "edges"} /\ ~Resolving /\ pc # "idle"
  BY DEF StoreInv, PassOK, Resolving
<1>1. CASE Skip(f)
  BY <1>0, <1>1, SkipPass
<1>2. CASE /\ disk[f] # None /\ pc' = next
           /\ pass' = [pass EXCEPT !.file = f, !.stat = disk[f].stat]
  <2>1. disk[f].stat \in 0..edits
    BY <1>0, <1>2, Typed DEF StoreInv
  <2>2. /\ DOMAIN pass' = PassFields /\ pass'.file = f /\ pass'.stat = disk[f].stat
        /\ pass'.todo = pass.todo /\ pass'.listed = pass.listed /\ pass'.changed = pass.changed
        /\ pass'.content = pass.content /\ pass'.kind = pass.kind /\ pass'.by = pass.by
        /\ pass'.tracked = pass.tracked /\ pass'.snap = pass.snap /\ pass'.batch = pass.batch
        /\ pass'.deferred = pass.deferred
    BY <1>2 DEF StoreInv, PassOK, PassFields
  <2>. QED
    BY <1>2, <2>1, <2>2 DEF StoreInv, PassOK, OnFile, HasText, Storing, Resolving
<1>. QED
  BY <1>1, <1>2 DEF TakeStat

LEMMA ReadContentPass ==
  ASSUME StoreInv, NEW f \in pass.todo, NEW next \in {"stat", "store"}, ReadContent(f, next),
         UNCHANGED <<edits, rows>>, pc \in {"file", "read", "stat"},
         next = "stat" => pass.kind # "sync",
         next = "store" => pc = "read"
  PROVE  PassOK'
<1>0. f \in Files /\ pc \notin {"nodes", "edges"} /\ ~Resolving /\ pc # "idle"
  BY DEF StoreInv, PassOK, Resolving
<1>1. CASE Skip(f)
  BY <1>0, <1>1, SkipPass
<1>2. CASE /\ disk[f] # None /\ pc' = next
           /\ pass' = [pass EXCEPT !.file = f, !.content = disk[f].content]
  <2>1. disk[f].content \in Contents
    BY <1>0, <1>2, Typed DEF StoreInv
  <2>2. /\ DOMAIN pass' = PassFields /\ pass'.file = f /\ pass'.content = disk[f].content
        /\ pass'.todo = pass.todo /\ pass'.listed = pass.listed /\ pass'.changed = pass.changed
        /\ pass'.stat = pass.stat /\ pass'.kind = pass.kind /\ pass'.by = pass.by
        /\ pass'.tracked = pass.tracked /\ pass'.snap = pass.snap /\ pass'.batch = pass.batch
        /\ pass'.deferred = pass.deferred
    BY <1>2 DEF StoreInv, PassOK, PassFields
  <2>. QED
    BY <1>2, <2>1, <2>2 DEF StoreInv, PassOK, OnFile, HasText, Storing, Resolving
<1>. QED
  BY <1>1, <1>2 DEF ReadContent

\* Steps of the pass alone.
LEMMA PassOnlyStore ==
  ASSUME StoreInv,
         \/ RemovesDone \/ ChecksDone \/ FilesDone \/ TakeBatch \/ SweepDone
         \/ ReadFile \/ StatFile
         \/ \E f \in Files : Check(f) \/ OpenFile(f)
  PROVE  StoreInv'
<1>1. /\ UNCHANGED <<disk, rows, nodes, edges, refs, edits, crashes, torn, quiet, blinded, interrupted>>
      /\ pc \in {"remove", "check", "file", "read", "stat", "sweep"}
      /\ pc' \in {"check", "file", "read", "stat", "store", "link", "sweep", "second"}
  BY DEF RemovesDone, ChecksDone, FilesDone, TakeBatch, SweepDone, ReadFile, StatFile, Check, OpenFile,
         store, history, ReadContent, TakeStat, Skip
<1>2. PassOK'
  <2>1. CASE RemovesDone \/ ChecksDone
    BY <1>1, <2>1 DEF RemovesDone, ChecksDone, StoreInv, PassOK, PassFields, OnFile, HasText, Storing,
       Resolving, Rows
  <2>2. CASE FilesDone \/ TakeBatch \/ SweepDone
    <3>1. Cardinality(refs) \in Nat
      BY FS_CardinalityType DEF StoreInv, StoreOK
    <3>2. /\ DOMAIN pass' = PassFields /\ pass'.left \in Nat
          /\ pass'.todo = pass.todo /\ pass'.listed = pass.listed /\ pass'.changed = pass.changed
          /\ pass'.stat = pass.stat /\ pass'.kind = pass.kind /\ pass'.by = pass.by
          /\ pass'.snap = pass.snap /\ pc \in {"file", "sweep"} /\ pc' \in {"link", "sweep", "second"}
      BY <2>2, <3>1 DEF FilesDone, TakeBatch, SweepDone, StoreInv, PassOK, PassFields
    <3>. QED
      BY <1>1, <3>2 DEF StoreInv, PassOK, OnFile, HasText, Storing, Resolving
  <2>3. ASSUME NEW f \in Files, Check(f) PROVE PassOK'
    BY <1>1, <2>3 DEF Check, Done, StoreInv, PassOK, PassFields, OnFile, HasText, Storing, Resolving,
       Rows
  <2>4. ASSUME NEW f \in Files, OpenFile(f) PROVE PassOK'
    <3>1. f \in pass.todo /\ pc = "file"
      BY <2>4 DEF OpenFile
    <3>2. \/ pass.kind = "sync" /\ TakeStat(f, "read")
          \/ pass.kind # "sync" /\ ReadContent(f, "stat")
      BY <2>4 DEF OpenFile
    <3>. QED
      BY <1>1, <3>1, <3>2, TakeStatPass, ReadContentPass
  <2>5. CASE ReadFile
    BY <1>1, <2>5, ReadContentPass DEF ReadFile, StoreInv, PassOK, OnFile, HasText, Storing
  <2>6. CASE StatFile
    BY <1>1, <2>6, TakeStatPass DEF StatFile, StoreInv, PassOK, OnFile, HasText, Storing
  <2>. QED
    BY <2>1, <2>2, <2>3, <2>4, <2>5, <2>6
<1>. QED
  BY <1>1, <1>2, FrameStore DEF StoreInv, StateOK, StoreOK, Replaced, Storing, Places

LEMMA DropOldStore ==
  ASSUME StoreInv, DropOld
  PROVE  StoreInv'
<1>. DEFINE f == pass.file
<1>0. /\ pc = "store" /\ f \in pass.todo /\ f \in Files
      /\ UNCHANGED <<disk, edits, crashes, quiet, blinded, interrupted>>
      /\ ~Replaced /\ ~Resolving /\ pass.content \in Contents
  BY DEF DropOld, StoreInv, PassOK, OnFile, HasText, Replaced, Resolving
<1>1. \/ Skip(f) /\ UNCHANGED <<rows, nodes, edges, refs, torn>>
      \/ /\ pass.content \in Indexable /\ pc' = "nodes"
         /\ rows[f] # None /\ pass' = [pass EXCEPT !.snap = IncomingNames(f)] /\ DeleteFile(f)
      \/ /\ pass.content \in Indexable /\ pc' = "nodes"
         /\ rows[f] = None /\ pass' = [pass EXCEPT !.snap = {}]
         /\ UNCHANGED <<rows, nodes, edges, refs, torn>>
  BY DEF DropOld, store
<1>. HIDE DEF f
<1>2. CASE Skip(f) /\ UNCHANGED <<rows, nodes, edges, refs, torn>>
  <2>1. PassOK' /\ pc' = "file"
    BY <1>0, <1>2, SkipPass DEF Skip
  <2>. QED
    BY <1>0, <1>2, <2>1, FrameStore DEF StoreInv, StateOK, StoreOK, Replaced, Storing, Places
<1>3. ASSUME NEW S, pass.content \in Indexable, pc' = "nodes", pass' = [pass EXCEPT !.snap = S]
      PROVE  PassOK' /\ pass'.file = f
  BY <1>0, <1>3 DEF f, StoreInv, PassOK, PassFields, OnFile, HasText, Storing, Resolving
<1>4. CASE /\ pass.content \in Indexable /\ pc' = "nodes"
           /\ rows[f] = None /\ pass' = [pass EXCEPT !.snap = {}]
           /\ UNCHANGED <<rows, nodes, edges, refs, torn>>
  BY <1>0, <1>3, <1>4, FrameStore DEF StoreInv, StateOK, StoreOK, Replaced, Storing, Places
<1>5. CASE /\ pass.content \in Indexable /\ pc' = "nodes"
           /\ pass' = [pass EXCEPT !.snap = IncomingNames(f)] /\ DeleteFile(f)
  <2>1. PassOK' /\ pass'.file = f
    BY <1>3, <1>5
  <2>2. StateOK'
    BY <1>0, <1>5, DeleteFileStore DEF StoreInv, StateOK, Disks, Rows, Places
  <2>3. StoreOK'
    BY <1>0, <1>5, <2>1, DeleteFileStore DEF StoreOK, Storing, Replaced, BeingStored
  <2>. QED
    BY <2>1, <2>2, <2>3 DEF StoreInv
<1>. QED
  BY <1>1, <1>2, <1>4, <1>5

LEMMA InsertNodesStore ==
  ASSUME StoreInv, InsertNodes
  PROVE  StoreInv'
<1>. DEFINE f == pass.file
            N == NodesOf(pass.file, pass.content)
<1>0. /\ pc = "nodes" /\ pc' = "edges" /\ f \in Files /\ rows[f] = None /\ ~Replaced
      /\ UNCHANGED <<disk, rows, pass, edits, crashes, quiet, blinded, torn, interrupted>>
      /\ nodes' = nodes \cup N
      /\ edges' = {e \in edges : FileNode(e[1]) \notin N /\ e[2] \notin N}
      /\ refs' = {r \in refs : FileNode(r[1]) \notin N}
  BY DEF InsertNodes, StoreInv, PassOK, StoreOK, OnFile, HasText, Storing, Replaced
<1>1. FileNode(f) \in N /\ \A x \in N : x[1] = f
  BY NodesOfFile
<1>. HIDE DEF N
<1>2. PassOK'
  BY <1>0 DEF StoreInv, PassOK, OnFile, HasText, Storing, Resolving
<1>3. StateOK'
  BY <1>0 DEF StoreInv, StateOK, Disks, Rows, Places
<1>4. IsFiniteSet(refs')
  BY <1>0, FS_Subset DEF StoreInv, StoreOK
<1>5. ASSUME NEW g \in Files \ torn
      PROVE  {x \in nodes' : x[1] = g} =
               IF g = f THEN N ELSE IF rows[g] = None THEN {} ELSE NodesOf(g, rows[g].hash)
  <2>1. {x \in nodes : x[1] = g} = IF rows[g] = None THEN {} ELSE NodesOf(g, rows[g].hash)
    BY <1>0 DEF StoreInv, StoreOK, BeingStored, Replaced
  <2>2. CASE g = f
    BY <1>0, <1>1, <2>1, <2>2
  <2>3. CASE g # f
    BY <1>0, <1>1, <2>1, <2>3
  <2>. QED
    BY <2>2, <2>3
<1>6. StoreOK'
  <2>1. \A x \in nodes' : x[1] \in Files
    BY <1>0, <1>1 DEF StoreInv, StoreOK
  <2>2. /\ \A e \in edges' : FileNode(e[1]) \in nodes' /\ e[2] \in nodes'
        /\ \A r \in refs' : FileNode(r[1]) \in nodes'
    BY <1>0 DEF StoreInv, StoreOK
  <2>3. \A g : BeingStored(g)' <=> g = f
    BY <1>0 DEF BeingStored
  <2>4. NodesOf(pass'.file, pass'.content) = N
    BY <1>0 DEF N
  <2>5. \A g \in Files \ torn' :
          {x \in nodes' : x[1] = g} =
            IF BeingStored(g)' THEN NodesOf(g, pass'.content)
            ELSE IF rows'[g] = None THEN {} ELSE NodesOf(g, rows'[g].hash)
    <3>. SUFFICES ASSUME NEW g \in Files \ torn
                  PROVE {x \in nodes' : x[1] = g} =
                          IF g = f THEN NodesOf(g, pass.content)
                          ELSE IF rows[g] = None THEN {} ELSE NodesOf(g, rows[g].hash)
      BY <1>0, <2>3
    <3>. QED
      BY <1>5 DEF N
  <2>. QED
    BY <1>0, <1>4, <2>1, <2>2, <2>4, <2>5 DEF StoreOK, Storing
<1>. QED
  BY <1>2, <1>3, <1>6 DEF StoreInv

\* Between its symbols and its row, a file gets edges and references.
LEMMA ReplacedStore ==
  ASSUME StoreInv, Replaced, Replaced',
         UNCHANGED <<disk, rows, nodes, edits, crashes, quiet, blinded, torn, interrupted>>,
         pass'.file = pass.file, pass'.content = pass.content, PassOK', pc' \in Places,
         \A e \in edges' : FileNode(e[1]) \in nodes /\ e[2] \in nodes,
         \A r \in refs' : FileNode(r[1]) \in nodes, IsFiniteSet(refs')
  PROVE  StoreInv'
<1>1. StateOK'
  BY DEF StoreInv, StateOK, Disks, Rows
<1>2. StoreOK'
  BY DEF StoreInv, StoreOK, Storing, Replaced, BeingStored
<1>. QED
  BY <1>1, <1>2 DEF StoreInv

LEMMA ReinsertEdgesStore ==
  ASSUME StoreInv, ReinsertEdges
  PROVE  StoreInv'
<1>1. /\ pc = "edges" /\ pc' = "refs" /\ pass' = [pass EXCEPT !.snap = {}]
      /\ UNCHANGED <<disk, rows, nodes, refs, edits, crashes, quiet, blinded, torn, interrupted>>
      /\ \E L : edges' = InsertEdges(L)
  BY DEF ReinsertEdges
<1>2. PassOK' /\ pass'.file = pass.file /\ pass'.content = pass.content
  BY <1>1 DEF StoreInv, PassOK, PassFields, OnFile, HasText, Storing, Resolving
<1>3. \A e \in edges' : FileNode(e[1]) \in nodes /\ e[2] \in nodes
  BY <1>1, InsertedEnds
<1>4. (\A r \in refs' : FileNode(r[1]) \in nodes) /\ IsFiniteSet(refs')
  BY <1>1 DEF StoreInv, StoreOK
<1>. QED
  BY <1>1, <1>2, <1>3, <1>4, ReplacedStore DEF Replaced, Places

LEMMA InsertRefsStore ==
  ASSUME StoreInv, InsertRefs
  PROVE  StoreInv'
<1>. DEFINE new == {<<pass.file, n>> : n \in Refs[pass.content]}
<1>1. /\ pc = "refs" /\ pc' = "row" /\ UNCHANGED pass /\ refs' = refs \cup new
      /\ UNCHANGED <<disk, rows, nodes, edges, edits, crashes, quiet, blinded, torn, interrupted>>
  BY DEF InsertRefs
<1>2. PassOK'
  BY <1>1 DEF StoreInv, PassOK, OnFile, HasText, Storing, Resolving
<1>3. \A e \in edges' : FileNode(e[1]) \in nodes /\ e[2] \in nodes
  BY <1>1 DEF StoreInv, StoreOK
<1>4. FileNode(pass.file) \in nodes
  BY <1>1, NodesOfFile DEF StoreInv, StoreOK, Replaced
<1>5. \A r \in refs' : FileNode(r[1]) \in nodes
  BY <1>1, <1>4 DEF StoreInv, StoreOK
<1>6. IsFiniteSet(refs')
  <2>1. pass.content \in Contents
    BY <1>1 DEF StoreInv, PassOK, HasText, Storing
  <2>2. IsFiniteSet(Refs[pass.content])
    BY <2>1, IndexAssumption
  <2>3. IsFiniteSet(new)
    <3>. DEFINE pair == [n \in Refs[pass.content] |-> <<pass.file, n>>]
    <3>1. pair \in Surjection(Refs[pass.content], new)
      BY DEF Surjection
    <3>. QED
      BY <2>2, <3>1, FS_Surjection
  <2>. QED
    BY <1>1, <2>3, FS_Union DEF StoreInv, StoreOK
<1>. QED
  BY <1>1, <1>2, <1>3, <1>5, <1>6, ReplacedStore DEF Replaced, Places

LEMMA UpsertRowStore ==
  ASSUME StoreInv, UpsertRow
  PROVE  StoreInv'
<1>. DEFINE f == pass.file
            row == [hash |-> pass.content, stat |-> pass.stat]
<1>0. /\ pc = "row" /\ f \in pass.todo /\ f \in Files /\ Skip(f) /\ rows' = [rows EXCEPT ![f] = row]
      /\ UNCHANGED <<disk, nodes, edges, refs, edits, crashes, quiet, torn, interrupted>>
      /\ blinded' \subseteq blinded
  BY DEF UpsertRow, StoreInv, PassOK, OnFile, HasText, Storing
<1>1. PassOK' /\ pc' = "file"
  BY <1>0, SkipPass DEF Skip, Resolving
<1>2. row \in [hash : Indexable, stat : 0..edits] /\ row # None /\ row.hash = pass.content
  <2>1. row \in [hash : Indexable, stat : 0..edits]
    BY <1>0 DEF StoreInv, PassOK, Storing
  <2>. QED
    BY <2>1, Typed DEF StoreInv
<1>3. rows' \in Rows' /\ rows'[f] = row /\ \A g \in Files \ {f} : rows'[g] = rows[g]
  BY <1>0, <1>2 DEF StoreInv, StateOK, Rows
<1>. HIDE DEF row
<1>4. StateOK'
  BY <1>0, <1>1, <1>3 DEF StoreInv, StateOK, Disks, Places
<1>5. StoreOK'
  <2>1. \A g : BeingStored(g) <=> g = f
    BY <1>0 DEF BeingStored
  <2>2. ~Storing' /\ ~Replaced' /\ \A g : ~BeingStored(g)'
    BY <1>1 DEF BeingStored, Storing, Replaced
  <2>3. ASSUME NEW g \in Files \ torn
        PROVE  {x \in nodes : x[1] = g} = IF rows'[g] = None THEN {} ELSE NodesOf(g, rows'[g].hash)
    <3>1. {x \in nodes : x[1] = g} =
            IF g = f THEN NodesOf(g, pass.content)
            ELSE IF rows[g] = None THEN {} ELSE NodesOf(g, rows[g].hash)
      BY <2>1 DEF StoreInv, StoreOK
    <3>. QED
      BY <1>2, <1>3, <3>1
  <2>. QED
    BY <1>0, <2>2, <2>3 DEF StoreInv, StoreOK
<1>. QED
  BY <1>1, <1>4, <1>5 DEF StoreInv

LEMMA LinkStore ==
  ASSUME StoreInv, Link \/ DropResolved \/ DropUnresolved
  PROVE  StoreInv'
<1>1. /\ pc \in {"link", "drop", "dropRest"} /\ pc' \in {"drop", "dropRest", "sweep"}
      /\ UNCHANGED <<disk, rows, nodes, edits, crashes, torn, quiet, blinded, interrupted>>
      /\ refs' \subseteq refs
      /\ edges' = edges \/ \E L : edges' = InsertEdges(L)
  BY DEF Link, DropResolved, DropUnresolved, history
<1>2. PassOK'
  <2>1. /\ DOMAIN pass' = PassFields
        /\ pass'.todo = pass.todo /\ pass'.listed = pass.listed /\ pass'.changed = pass.changed
        /\ pass'.stat = pass.stat /\ pass'.kind = pass.kind /\ pass'.by = pass.by
        /\ pass'.snap = pass.snap /\ pass'.left = pass.left
    <3>1. CASE Link
      BY <3>1 DEF Link, StoreInv, PassOK, PassFields
    <3>2. CASE DropResolved
      BY <3>2 DEF DropResolved, StoreInv, PassOK
    <3>3. CASE DropUnresolved
      BY <3>3 DEF DropUnresolved, StoreInv, PassOK, PassFields
    <3>. QED
      BY <3>1, <3>2, <3>3
  <2>. QED
    BY <1>1, <2>1 DEF StoreInv, PassOK, OnFile, HasText, Storing, Resolving
<1>3. \A e \in edges' : FileNode(e[1]) \in nodes /\ e[2] \in nodes
  BY <1>1, InsertedEnds DEF StoreInv, StoreOK
<1>. QED
  BY <1>1, <1>2, <1>3, FrameStore DEF StoreInv, StateOK, Replaced, Storing, Places

LEMMA AtRestPass == pc' = "idle" /\ pass' = AtRest /\ edits' \in Nat => PassOK'
BY DEF PassOK, AtRest, PassFields, OnFile, HasText, Storing, Resolving

LEMMA SecondPassStore ==
  ASSUME StoreInv, SecondPass
  PROVE  StoreInv'
<1>1. /\ pc = "second" /\ pc' = "idle" /\ pass' = AtRest /\ interrupted' = FALSE
      /\ UNCHANGED <<disk, rows, nodes, refs, edits, crashes, torn, quiet, blinded>>
      /\ \E L : edges' = InsertEdges(L)
  BY DEF SecondPass
<1>2. PassOK'
  BY <1>1, Typed, AtRestPass DEF StoreInv
<1>3. \A e \in edges' : FileNode(e[1]) \in nodes /\ e[2] \in nodes
  BY <1>1, InsertedEnds
<1>. QED
  BY <1>1, <1>2, <1>3, FrameStore DEF StoreInv, StateOK, Replaced, Storing, Places

LEMMA CrashStore ==
  ASSUME StoreInv, Crash
  PROVE  StoreInv'
<1>1. /\ pc' = "idle" /\ pass' = AtRest /\ interrupted' = TRUE
      /\ crashes < MaxCrashes /\ crashes' = crashes + 1
      /\ UNCHANGED <<disk, rows, nodes, edges, refs, edits, quiet, blinded>>
      /\ torn' = IF Replaced THEN torn \cup {pass.file} ELSE torn
  BY DEF Crash, store, Replaced
<1>2. PassOK'
  BY <1>1, Typed, AtRestPass DEF StoreInv
<1>3. torn' \subseteq Files /\ torn \subseteq torn' /\ \A f : BeingStored(f) => f \in torn'
  BY <1>1 DEF StoreInv, StateOK, PassOK, OnFile, HasText, Storing, Replaced, BeingStored
<1>4. crashes' \in 0..MaxCrashes
  BY <1>1, IndexAssumption DEF StoreInv, StateOK
<1>5. StateOK'
  BY <1>1, <1>3, <1>4 DEF StoreInv, StateOK, Disks, Rows, Places
<1>6. ~Storing' /\ ~Replaced' /\ \A f : ~BeingStored(f)'
  BY <1>1 DEF Storing, Replaced, BeingStored
<1>7. StoreOK'
  BY <1>1, <1>3, <1>6 DEF StoreInv, StoreOK
<1>. QED
  BY <1>2, <1>5, <1>7 DEF StoreInv

LEMMA NextStore ==
  ASSUME StoreInv, [Next]_vars
  PROVE  StoreInv'
<1>1. CASE Saves
  BY <1>1, SaveStore DEF Saves
<1>2. CASE Begins
  BY <1>2, BeginSyncStore, BeginIndexStore DEF Begins
<1>3. CASE Reconciles
  BY <1>3, RemoveStore, PassOnlyStore DEF Reconciles
<1>4. CASE StoresFile
  BY <1>4, PassOnlyStore, DropOldStore, InsertNodesStore, ReinsertEdgesStore, InsertRefsStore,
     UpsertRowStore DEF StoresFile
<1>5. CASE Resolves
  BY <1>5, PassOnlyStore, LinkStore, SecondPassStore DEF Resolves
<1>6. CASE UNCHANGED vars
  BY <1>6 DEF vars, store, history, StoreInv, StateOK, PassOK, StoreOK, Disks, Rows, OnFile, HasText,
     Storing, Replaced, Resolving, BeingStored
<1>. QED
  BY <1>1, <1>2, <1>3, <1>4, <1>5, <1>6, CrashStore DEF Next

LEMMA StoreInvariant == Spec => []StoreInv
BY InitStore, NextStore, PTL DEF Spec

\* A file's symbols are those of the content its row names, except while it is being stored or
\* after a kill between its symbols and its row; edges and references have their ends
\* (storeExtractionResult, src/extraction/index.ts:2062-2147, and the cascades of the tables).
THEOREM SymbolsMatchRows == Spec => []NodesMatchRows
<1>1. StoreInv => NodesMatchRows
  <2>. SUFFICES ASSUME StoreInv PROVE NodesMatchRows
    OBVIOUS
  <2>1. 0..edits \subseteq 0..MaxEdits
    BY IndexAssumption DEF StoreInv, StateOK
  <2>2. TypeOK
    BY <2>1 DEF StoreInv, StateOK, StoreOK, TypeOK, Disks, Rows, Places
  <2>. QED
    BY <2>2 DEF StoreInv, StoreOK, NodesMatchRows
<1>. QED
  BY <1>1, StoreInvariant, PTL

(***************************************************************************)
(* Freshness of the rows.                                                  *)
(***************************************************************************)
LEMMA InitFresh == Init => FreshInv
BY DEF Init, FreshInv, RowsTruthful, ReadTruthful, QuietPass, Storing, AtRest

\* Steps that touch neither the disk nor the rows.
LEMMA FrameTruthful ==
  ASSUME FreshInv, UNCHANGED <<disk, rows, blinded>>,
         pc' \notin {"stat", "store"} /\ (Storing' => Storing \/ pc = "store"),
         Storing' => pass'.file = pass.file /\ pass'.content = pass.content /\ pass'.stat = pass.stat
  PROVE  RowsTruthful' /\ ReadTruthful'
BY DEF FreshInv, RowsTruthful, ReadTruthful, Storing

LEMMA SaveFresh ==
  ASSUME StoreInv, FreshInv, NEW f \in Files,
         (\E c \in Holds[f] \cup {None} : Save(f, c)) \/ (\E c \in Holds[f] : SaveUnseen(f, c))
  PROVE  FreshInv'
<1>0. /\ UNCHANGED <<rows, pc, pass>> /\ quiet' = FALSE
      /\ edits \in Nat /\ disk \in Disks /\ rows \in Rows
  BY IndexAssumption DEF Save, SaveUnseen, store, StoreInv, StateOK
<1>1. \/ /\ \/ disk'[f] = None
            \/ disk'[f].stat = edits + 1
         /\ blinded' = IF ReadNotStatted(f) THEN blinded \cup {f} ELSE blinded \ {f}
      \/ disk[f] # None /\ disk'[f].stat = disk[f].stat /\ blinded' = blinded \cup {f}
  <2>1. ASSUME NEW c \in Holds[f] \cup {None}, Save(f, c)
        PROVE  /\ disk'[f] = None \/ disk'[f].stat = edits + 1
               /\ blinded' = IF ReadNotStatted(f) THEN blinded \cup {f} ELSE blinded \ {f}
    BY <1>0, <2>1 DEF Save, Disks
  <2>2. ASSUME NEW c \in Holds[f], SaveUnseen(f, c)
        PROVE  disk[f] # None /\ disk'[f].stat = disk[f].stat /\ blinded' = blinded \cup {f}
    <3>1. disk[f] \in [content : Contents, stat : 0..edits] /\ disk[f] # None
      BY <1>0, <2>2 DEF SaveUnseen, Disks
    <3>2. disk'[f] = [disk[f] EXCEPT !.content = c] /\ blinded' = blinded \cup {f}
      BY <1>0, <2>2 DEF SaveUnseen, Disks
    <3>. QED
      BY <3>1, <3>2
  <2>. QED
    BY <2>1, <2>2
<1>2. \A g \in Files \ {f} : disk'[g] = disk[g] /\ (g \in blinded' <=> g \in blinded)
  BY <1>0, <1>1 DEF Save, SaveUnseen, Disks
<1>3. /\ rows[f] # None => rows[f].stat \in 0..edits
      /\ pass.stat \in 0..edits
      /\ \A n \in 0..edits : n # edits + 1
  BY <1>0, Typed DEF StoreInv, PassOK
<1>4. RowsTruthful'
  <2>. SUFFICES ASSUME NEW g \in Files, disk'[g] # None, rows[g] # None, rows[g].stat = disk'[g].stat
                PROVE  rows[g].hash = disk'[g].content \/ g \in blinded'
    BY <1>0 DEF RowsTruthful
  <2>1. CASE g # f
    BY <1>2, <2>1 DEF FreshInv, RowsTruthful
  <2>2. CASE g = f
    BY <1>1, <1>3, <2>2
  <2>. QED
    BY <2>1, <2>2
<1>5. ReadTruthful'
  <2>1. HasText => pass.file \in Files
    BY DEF StoreInv, PassOK, OnFile, HasText
  <2>2. pc = "stat" => \/ pass.file \in blinded'
                       \/ disk'[pass.file] # None /\ disk'[pass.file].content = pass.content
    <3>. SUFFICES ASSUME pc = "stat"
                  PROVE  \/ pass.file \in blinded'
                         \/ disk'[pass.file] # None /\ disk'[pass.file].content = pass.content
      OBVIOUS
    <3>1. CASE pass.file = f
      <4>1. ReadNotStatted(f)
        BY <3>1 DEF ReadNotStatted, StoreInv, PassOK
      <4>. QED
        BY <1>1, <3>1, <4>1
    <3>2. CASE pass.file # f
      BY <1>2, <2>1, <3>2 DEF FreshInv, ReadTruthful, HasText
    <3>. QED
      BY <3>1, <3>2
  <2>3. pc = "store" \/ Storing =>
          (disk'[pass.file] # None /\ disk'[pass.file].stat = pass.stat =>
             disk'[pass.file].content = pass.content \/ pass.file \in blinded')
    <3>1. CASE pass.file = f
      BY <1>1, <1>3, <3>1
    <3>2. CASE pass.file # f
      BY <1>2, <2>1, <3>2 DEF FreshInv, ReadTruthful, HasText
    <3>. QED
      BY <3>1, <3>2
  <2>. QED
    BY <1>0, <2>2, <2>3 DEF ReadTruthful, Storing
<1>. QED
  BY <1>0, <1>4, <1>5 DEF FreshInv, QuietPass

LEMMA BeginSyncFresh ==
  ASSUME StoreInv, FreshInv, NEW by \in {"watching", "command"}, BeginSync(by)
  PROVE  FreshInv'
<1>1. /\ pc' = "remove" /\ UNCHANGED <<disk, rows, blinded>>
      /\ pass'.listed = Present /\ pass'.tracked = rows /\ pass'.todo = Tracked /\ pass'.changed = {}
  BY DEF BeginSync, store, AtRest
<1>2. RowsTruthful' /\ ReadTruthful'
  BY <1>1, FrameTruthful DEF Storing
<1>3. QuietPass'
  BY <1>1 DEF QuietPass, Kept, Present, Tracked, FileStage, OnFile, HasText, Storing, Resolving
<1>. QED
  BY <1>2, <1>3 DEF FreshInv

LEMMA BeginIndexFresh ==
  ASSUME StoreInv, FreshInv, BeginIndex
  PROVE  FreshInv'
<1>1. /\ pc' = "file" /\ UNCHANGED <<disk, blinded>> /\ rows' = [f \in Files |-> None]
      /\ pass'.todo = Present
  BY DEF BeginIndex, AtRest
<1>2. RowsTruthful' /\ ReadTruthful'
  BY <1>1 DEF RowsTruthful, ReadTruthful, Storing
<1>3. QuietPass'
  BY <1>1 DEF QuietPass, Fresh, Present, FileStage, OnFile, HasText, Storing, Resolving
<1>. QED
  BY <1>2, <1>3 DEF FreshInv

LEMMA RemoveFresh ==
  ASSUME StoreInv, FreshInv, NEW f \in Files, Remove(f)
  PROVE  FreshInv'
<1>1. /\ pc = "remove" /\ pc' = "remove" /\ UNCHANGED <<disk, blinded, quiet, interrupted>>
      /\ pass'.todo = pass.todo \ {f} /\ pass'.listed = pass.listed /\ pass'.tracked = pass.tracked
      /\ pass'.changed = pass.changed
      /\ f \in pass.todo /\ rows' = IF Gone(f) THEN [rows EXCEPT ![f] = None] ELSE rows
  BY DEF Remove, Done, store, DeleteFile, StoreInv, PassOK, PassFields
<1>2. \A g \in Files : rows'[g] = IF g = f /\ Gone(f) THEN None ELSE rows[g]
  BY <1>1 DEF StoreInv, StateOK, Rows
<1>3. RowsTruthful' /\ ReadTruthful'
  BY <1>1, <1>2 DEF FreshInv, RowsTruthful, ReadTruthful, Storing
<1>4. QuietPass'
  <2>1. quiet => (Gone(f) <=> disk[f] = None)
    BY <1>1 DEF FreshInv, QuietPass, Gone, Present
  <2>2. quiet => pass'.listed = Present'
    BY <1>1 DEF FreshInv, QuietPass, Present
  <2>3. quiet => \A g \in Files :
          IF g \in pass'.todo THEN rows'[g] = pass'.tracked[g] ELSE Kept(g)'
    BY <1>1, <1>2, <2>1 DEF FreshInv, QuietPass, Kept
  <2>. QED
    BY <1>1, <2>2, <2>3 DEF FreshInv, QuietPass, FileStage, OnFile, HasText, Storing, Resolving
<1>. QED
  BY <1>3, <1>4 DEF FreshInv

LEMMA CheckFresh ==
  ASSUME StoreInv, FreshInv, RemovesDone \/ ChecksDone \/ \E f \in Files : Check(f)
  PROVE  FreshInv'
<1>1. /\ UNCHANGED <<disk, rows, blinded, quiet, interrupted>> /\ pc' \in {"check", "file"}
      /\ pc \in {"remove", "check"}
  BY DEF RemovesDone, ChecksDone, Check, store, history
<1>2. RowsTruthful' /\ ReadTruthful'
  BY <1>1, FrameTruthful DEF Storing
<1>3. QuietPass'
  <2>1. CASE RemovesDone
    <3>1. /\ pc = "remove" /\ pc' = "check" /\ pass.todo = {} /\ pass'.todo = pass.listed
          /\ pass'.listed = pass.listed /\ pass'.tracked = pass.tracked /\ pass'.changed = pass.changed
      BY <2>1 DEF RemovesDone, StoreInv, PassOK, PassFields
    <3>2. quiet => /\ pass.listed = Present /\ pass.changed = {}
                   /\ \A g \in Files : Kept(g)
      BY <3>1 DEF FreshInv, QuietPass
    <3>3. quiet => \A g \in Files : Kept(g)' /\ (g \in Present \/ Fresh(g)')
      BY <1>1, <3>1, <3>2 DEF Kept, Fresh, Present
    <3>. QED
      BY <1>1, <3>1, <3>2, <3>3
      DEF QuietPass, Present, FileStage, OnFile, HasText, Storing, Resolving
  <2>2. CASE ChecksDone
    <3>1. /\ pc = "check" /\ pc' = "file" /\ pass.todo = {} /\ pass'.todo = pass.changed
      BY <2>2 DEF ChecksDone, StoreInv, PassOK, PassFields
    <3>. QED
      BY <1>1, <3>1
      DEF FreshInv, QuietPass, Fresh, Present, FileStage, OnFile, HasText, Storing, Resolving
  <2>3. ASSUME NEW f \in Files, Check(f) PROVE QuietPass'
    <3>1. /\ pc = "check" /\ pc' = "check" /\ pass'.todo = pass.todo \ {f}
          /\ pass'.listed = pass.listed /\ pass'.tracked = pass.tracked
          /\ pass'.changed = IF Unchanged(f) \/ disk[f] = None THEN pass.changed ELSE pass.changed \cup {f}
      BY <2>3 DEF Check, Done, StoreInv, PassOK, PassFields
    <3>2. ASSUME quiet, Unchanged(f) \/ disk[f] = None
          PROVE  Fresh(f)
      <4>1. Kept(f)
        BY <3>1, <3>2 DEF FreshInv, QuietPass
      <4>2. CASE disk[f] = None
        BY <4>1, <4>2 DEF Kept, Fresh
      <4>3. CASE disk[f] # None
        BY <3>2, <4>1, <4>3 DEF Kept, Fresh, Unchanged, FreshInv, RowsTruthful
      <4>. QED
        BY <4>2, <4>3
    <3>3. quiet => /\ pass'.listed = Present' /\ pass'.todo \cup pass'.changed \subseteq Present'
                   /\ \A g \in Files :
                        Kept(g)' /\ (g \in pass'.todo \cup pass'.changed \/ Fresh(g)')
      BY <1>1, <3>1, <3>2 DEF FreshInv, QuietPass, Kept, Fresh, Present
    <3>. QED
      BY <3>1, <1>1, <3>3 DEF QuietPass, FileStage, OnFile, HasText, Storing, Resolving
  <2>. QED
    BY <2>1, <2>2, <2>3
<1>. QED
  BY <1>2, <1>3 DEF FreshInv

\* Passing over a file that the pass may leave as it is.
LEMMA SkipFresh ==
  ASSUME StoreInv, FreshInv, FileStage, NEW f \in Files, Skip(f), UNCHANGED <<disk, rows, blinded, quiet>>,
         quiet => Fresh(f)
  PROVE  FreshInv'
<1>1. pc' = "file" /\ pass'.todo = pass.todo \ {f}
  BY DEF Skip, Done, StoreInv, PassOK, PassFields
<1>2. RowsTruthful' /\ ReadTruthful'
  BY <1>1, FrameTruthful DEF Storing
<1>3. QuietPass'
  <2>1. quiet => pass'.todo \subseteq Present' /\ \A g \in Files \ pass'.todo : Fresh(g)'
    BY <1>1 DEF FreshInv, QuietPass, Fresh, Present
  <2>. QED
    BY <1>1, <2>1 DEF QuietPass, FileStage, OnFile, HasText, Storing, Resolving
<1>. QED
  BY <1>2, <1>3 DEF FreshInv

LEMMA TakeStatFresh ==
  ASSUME StoreInv, FreshInv, FileStage, NEW f \in pass.todo, NEW next \in {"read", "store"},
         TakeStat(f, next), UNCHANGED <<disk, rows, blinded, quiet>>,
         next = "store" => pc = "stat" /\ f = pass.file
  PROVE  FreshInv'
<1>0. f \in Files /\ (quiet => disk[f] # None)
  BY DEF StoreInv, PassOK, FreshInv, QuietPass, Present
<1>1. CASE disk[f] = None
  BY <1>0, <1>1, SkipFresh DEF TakeStat
<1>2. CASE disk[f] # None /\ pc' = next /\ pass' = [pass EXCEPT !.file = f, !.stat = disk[f].stat]
  <2>1. /\ pass'.file = f /\ pass'.stat = disk[f].stat /\ pass'.todo = pass.todo
        /\ pass'.content = pass.content
    BY <1>2 DEF StoreInv, PassOK, PassFields
  <2>2. next = "store" => f \in blinded \/ disk[f].content = pass.content
    BY DEF FreshInv, ReadTruthful
  <2>3. RowsTruthful' /\ ReadTruthful'
    BY <1>2, <2>1, <2>2 DEF FreshInv, RowsTruthful, ReadTruthful, Storing
  <2>4. QuietPass'
    BY <1>2, <2>1 DEF FreshInv, QuietPass, Fresh, Present, FileStage, OnFile, HasText, Storing, Resolving
  <2>. QED
    BY <2>3, <2>4 DEF FreshInv
<1>. QED
  BY <1>1, <1>2 DEF TakeStat

LEMMA ReadContentFresh ==
  ASSUME StoreInv, FreshInv, FileStage, NEW f \in pass.todo, NEW next \in {"stat", "store"},
         ReadContent(f, next), UNCHANGED <<disk, rows, blinded, quiet>>
  PROVE  FreshInv'
<1>0. f \in Files /\ (quiet => disk[f] # None)
  BY DEF StoreInv, PassOK, FreshInv, QuietPass, Present
<1>1. CASE disk[f] = None
  BY <1>0, <1>1, SkipFresh DEF ReadContent
<1>2. CASE disk[f] # None /\ pc' = next /\ pass' = [pass EXCEPT !.file = f, !.content = disk[f].content]
  <2>1. /\ pass'.file = f /\ pass'.content = disk[f].content /\ pass'.todo = pass.todo
    BY <1>2 DEF StoreInv, PassOK, PassFields
  <2>3. RowsTruthful' /\ ReadTruthful'
    BY <1>2, <2>1 DEF FreshInv, RowsTruthful, ReadTruthful, Storing
  <2>4. QuietPass'
    BY <1>2, <2>1 DEF FreshInv, QuietPass, Fresh, Present, FileStage, OnFile, HasText, Storing, Resolving
  <2>. QED
    BY <2>3, <2>4 DEF FreshInv
<1>. QED
  BY <1>1, <1>2 DEF ReadContent

LEMMA ReadingFresh ==
  ASSUME StoreInv, FreshInv, ReadFile \/ StatFile \/ \E f \in Files : OpenFile(f)
  PROVE  FreshInv'
<1>1. CASE ReadFile
  BY <1>1, ReadContentFresh DEF ReadFile, store, history, StoreInv, PassOK, FileStage, OnFile
<1>2. CASE StatFile
  BY <1>2, TakeStatFresh DEF StatFile, store, history, StoreInv, PassOK, FileStage, OnFile, HasText
<1>3. ASSUME NEW f \in Files, OpenFile(f) PROVE FreshInv'
  <2>1. /\ pc = "file" /\ f \in pass.todo /\ UNCHANGED <<disk, rows, blinded, quiet>>
        /\ TakeStat(f, "read") \/ ReadContent(f, "stat")
    BY <1>3 DEF OpenFile, store, history
  <2>. QED
    BY <2>1, TakeStatFresh, ReadContentFresh DEF FileStage
<1>. QED
  BY <1>1, <1>2, <1>3

LEMMA DropOldFresh ==
  ASSUME StoreInv, FreshInv, DropOld
  PROVE  FreshInv'
<1>. DEFINE f == pass.file
<1>0. /\ pc = "store" /\ f \in pass.todo /\ f \in Files /\ UNCHANGED <<disk, blinded, quiet>>
      /\ FileStage /\ pass.content \in Contents
      /\ quiet => disk[f] # None /\ disk[f].content = pass.content
  BY DEF DropOld, StoreInv, PassOK, FileStage, OnFile, HasText, FreshInv, QuietPass, Present
<1>1. \/ /\ Skip(f) /\ UNCHANGED rows
         /\ pass.content \notin Indexable \/ (rows[f] # None /\ rows[f].hash = pass.content)
      \/ /\ pc' = "nodes"
         /\ rows' = rows \/ rows' = [rows EXCEPT ![f] = None]
         /\ \E S : pass' = [pass EXCEPT !.snap = S]
  BY DEF DropOld, store, DeleteFile
<1>. HIDE DEF f
<1>2. CASE /\ Skip(f) /\ UNCHANGED rows
           /\ pass.content \notin Indexable \/ (rows[f] # None /\ rows[f].hash = pass.content)
  <2>1. quiet => Fresh(f)
    BY <1>0, <1>2 DEF Fresh
  <2>. QED
    BY <1>0, <1>2, <2>1, SkipFresh
<1>3. CASE /\ pc' = "nodes"
           /\ rows' = rows \/ rows' = [rows EXCEPT ![f] = None]
           /\ \E S : pass' = [pass EXCEPT !.snap = S]
  <2>1. /\ pass'.file = f /\ pass'.content = pass.content /\ pass'.stat = pass.stat
        /\ pass'.todo = pass.todo
    BY <1>3 DEF f, StoreInv, PassOK, PassFields
  <2>2. \A g \in Files : g # f => rows'[g] = rows[g]
    BY <1>3 DEF StoreInv, StateOK, Rows
  <2>3. rows'[f] = None \/ rows'[f] = rows[f]
    BY <1>0, <1>3 DEF StoreInv, StateOK, Rows
  <2>4. RowsTruthful'
    BY <1>0, <2>2, <2>3 DEF FreshInv, RowsTruthful
  <2>5. ReadTruthful'
    BY <1>0, <1>3, <2>1 DEF f, FreshInv, ReadTruthful, Storing
  <2>6. QuietPass'
    <3>1. quiet => pass'.todo \subseteq Present' /\ \A g \in Files \ pass'.todo : Fresh(g)'
      BY <1>0, <2>1, <2>2 DEF FreshInv, QuietPass, Fresh, Present
    <3>. QED
      BY <1>0, <1>3, <2>1, <3>1 DEF QuietPass, FileStage, OnFile, HasText, Storing, Resolving
  <2>. QED
    BY <2>4, <2>5, <2>6 DEF FreshInv
<1>. QED
  BY <1>1, <1>2, <1>3

LEMMA StoringFresh ==
  ASSUME StoreInv, FreshInv, InsertNodes \/ ReinsertEdges \/ InsertRefs
  PROVE  FreshInv'
<1>1. /\ Storing /\ Storing' /\ UNCHANGED <<disk, rows, blinded, quiet>>
      /\ pass' = pass \/ pass' = [pass EXCEPT !.snap = {}]
      /\ pc' \in {"edges", "refs", "row"}
  BY DEF InsertNodes, ReinsertEdges, InsertRefs, Storing
<1>2. /\ pass'.file = pass.file /\ pass'.content = pass.content /\ pass'.stat = pass.stat
      /\ pass'.todo = pass.todo
  BY <1>1 DEF StoreInv, PassOK, PassFields
<1>3. RowsTruthful' /\ ReadTruthful'
  BY <1>1, <1>2, FrameTruthful
<1>4. QuietPass'
  BY <1>1, <1>2 DEF FreshInv, QuietPass, Fresh, Present, FileStage, OnFile, HasText, Storing, Resolving
<1>. QED
  BY <1>3, <1>4 DEF FreshInv

LEMMA UpsertRowFresh ==
  ASSUME StoreInv, FreshInv, UpsertRow
  PROVE  FreshInv'
<1>. DEFINE f == pass.file
            row == [hash |-> pass.content, stat |-> pass.stat]
<1>0. /\ pc = "row" /\ f \in pass.todo /\ f \in Files /\ Skip(f) /\ UNCHANGED <<disk, quiet>>
      /\ rows' = [rows EXCEPT ![f] = row]
      /\ blinded' = IF disk[f] # None /\ disk[f].content = pass.content THEN blinded \ {f} ELSE blinded
      /\ quiet => disk[f] # None /\ disk[f].content = pass.content
      /\ pass.content \in Indexable
  BY DEF UpsertRow, StoreInv, PassOK, OnFile, HasText, Storing, FreshInv, QuietPass, Present, FileStage
<1>1. pc' = "file" /\ pass'.todo = pass.todo \ {f}
  BY <1>0 DEF Skip, Done, StoreInv, PassOK, PassFields
<1>2. row \in [hash : Indexable, stat : 0..edits] /\ row # None
  <2>1. row \in [hash : Indexable, stat : 0..edits]
    BY <1>0 DEF StoreInv, PassOK
  <2>. QED
    BY <2>1, Typed DEF StoreInv
<1>3. /\ rows'[f] = row /\ row.hash = pass.content /\ row.stat = pass.stat
      /\ \A g \in Files : g # f => rows'[g] = rows[g] /\ (g \in blinded' <=> g \in blinded)
  BY <1>0 DEF StoreInv, StateOK, Rows
<1>4. disk[f] # None /\ disk[f].stat = pass.stat => disk[f].content = pass.content \/ f \in blinded'
  BY <1>0 DEF FreshInv, ReadTruthful, Storing
<1>. HIDE DEF row, f
<1>5. RowsTruthful'
  BY <1>0, <1>3, <1>4 DEF FreshInv, RowsTruthful
<1>6. ReadTruthful'
  BY <1>1 DEF ReadTruthful, Storing
<1>7. QuietPass'
  <2>1. quiet => pass.todo \subseteq Present /\ \A g \in Files \ pass.todo : Fresh(g)
    BY <1>0 DEF FreshInv, QuietPass, FileStage, OnFile, HasText, Storing
  <2>2. \A g \in Files : quiet /\ g = f => Fresh(g)'
    BY <1>0, <1>2, <1>3 DEF Fresh
  <2>3. \A g \in Files : g # f => (Fresh(g)' <=> Fresh(g))
    BY <1>0, <1>3 DEF Fresh
  <2>. QED
    BY <1>0, <1>1, <2>1, <2>2, <2>3
    DEF QuietPass, Present, FileStage, OnFile, HasText, Storing, Resolving
<1>. QED
  BY <1>5, <1>6, <1>7 DEF FreshInv

LEMMA ResolvesFresh ==
  ASSUME StoreInv, FreshInv, Resolves
  PROVE  FreshInv'
<1>1. /\ UNCHANGED <<disk, rows, blinded, quiet>> /\ pc' \in {"sweep", "link", "drop", "dropRest", "second", "idle"}
      /\ Resolving \/ (pc = "file" /\ pass.todo = {})
  BY DEF Resolves, FilesDone, TakeBatch, SweepDone, Link, DropResolved, DropUnresolved, SecondPass,
         store, history, Resolving
<1>2. RowsTruthful' /\ ReadTruthful'
  BY <1>1, FrameTruthful DEF Storing
<1>3. quiet => \A f \in Files : Fresh(f)'
  BY <1>1 DEF FreshInv, QuietPass, Fresh, FileStage
<1>. QED
  BY <1>1, <1>2, <1>3 DEF FreshInv, QuietPass, FileStage, OnFile, HasText, Storing, Resolving

LEMMA CrashFresh ==
  ASSUME StoreInv, FreshInv, Crash
  PROVE  FreshInv'
<1>1. UNCHANGED <<disk, rows, blinded>> /\ pc' = "idle" /\ interrupted' = TRUE
  BY DEF Crash, store
<1>2. RowsTruthful' /\ ReadTruthful'
  BY <1>1, FrameTruthful DEF Storing
<1>. QED
  BY <1>1, <1>2 DEF FreshInv, QuietPass, FileStage, OnFile, HasText, Storing, Resolving

LEMMA NextFresh ==
  ASSUME StoreInv, FreshInv, [Next]_vars
  PROVE  FreshInv'
<1>1. CASE Saves
  BY <1>1, SaveFresh DEF Saves
<1>2. CASE Begins
  BY <1>2, BeginSyncFresh, BeginIndexFresh DEF Begins
<1>3. CASE Reconciles
  BY <1>3, RemoveFresh, CheckFresh DEF Reconciles
<1>4. CASE StoresFile
  BY <1>4, ReadingFresh, DropOldFresh, StoringFresh, UpsertRowFresh DEF StoresFile
<1>5. CASE UNCHANGED vars
  BY <1>5 DEF vars, store, history, FreshInv, RowsTruthful, ReadTruthful, QuietPass, Kept, Fresh, Present,
     FileStage, OnFile, HasText, Storing, Resolving
<1>. QED
  BY <1>1, <1>2, <1>3, <1>4, <1>5, ResolvesFresh, CrashFresh DEF Next

\* After a pass beside which nothing was saved, each file's row has the hash of what the file
\* holds, whatever raced or killed the passes before it, but for a save that could not be seen
\* (sync and indexAll, src/extraction/index.ts:2189-2327 and 1452-1780).
THEOREM SyncLeavesFresh == Spec => []SyncedIsFresh
<1>1. StoreInv /\ FreshInv => SyncedIsFresh
  BY DEF FreshInv, QuietPass, Fresh, SyncedIsFresh
<1>2. Spec => []FreshInv
  BY InitFresh, NextFresh, StoreInvariant, PTL DEF Spec
<1>. QED
  BY <1>1, <1>2, StoreInvariant, PTL

(***************************************************************************)
(* The table of references, emptied.                                       *)
(***************************************************************************)
LEMMA InitRefs == Init => RefsInv
BY DEF Init, RefsInv

LEMMA TakeBatchRefs ==
  ASSUME StoreInv, RefsInv, TakeBatch
  PROVE  RefsInv'
<1>1. PICK B \in SUBSET refs : B # {} /\ pass' = [pass EXCEPT !.batch = B, !.left = Cardinality(refs)]
  BY DEF TakeBatch
<1>2. pass'.batch = B /\ pass'.left = Cardinality(refs)
  BY <1>1 DEF StoreInv, PassOK, PassFields
<1>3. Cardinality(refs) \in Nat
  BY FS_CardinalityType DEF StoreInv, StoreOK
<1>4. pc' = "link" /\ refs' = refs
  BY DEF TakeBatch, store
<1>. QED
  BY <1>1, <1>2, <1>3, <1>4 DEF RefsInv

LEMMA LinkRefs ==
  ASSUME StoreInv, RefsInv, Link
  PROVE  RefsInv'
<1>1. /\ pc = "link" /\ pc' = "drop" /\ refs' = refs
      /\ pass'.links = Matched(pass.batch) /\ pass'.batch = pass.batch /\ pass'.left = pass.left
  BY DEF Link, StoreInv, PassOK, PassFields
<1>2. Matched(pass.batch) \subseteq pass.batch
  BY DEF Matched
<1>3. pass.left # 0 => Cardinality(refs \ pass.batch) < pass.left
  <2>. SUFFICES ASSUME pass.left # 0 PROVE Cardinality(refs \ pass.batch) < pass.left
    OBVIOUS
  <2>1. pass.batch # {} /\ pass.batch \subseteq refs /\ pass.left = Cardinality(refs)
    BY <1>1 DEF RefsInv
  <2>2. IsFiniteSet(refs) /\ refs \ pass.batch \in SUBSET refs /\ refs \ pass.batch # refs
    BY <2>1 DEF StoreInv, StoreOK
  <2>3. /\ Cardinality(refs \ pass.batch) <= Cardinality(refs)
        /\ Cardinality(refs \ pass.batch) # Cardinality(refs)
        /\ Cardinality(refs) \in Nat /\ Cardinality(refs \ pass.batch) \in Nat
    BY <2>2, FS_Subset, FS_CardinalityType
  <2>. QED
    BY <2>1, <2>3
<1>. QED
  BY <1>1, <1>2, <1>3 DEF RefsInv

LEMMA DropRefs ==
  ASSUME StoreInv, RefsInv, DropResolved \/ DropUnresolved
  PROVE  RefsInv'
<1>1. CASE DropResolved
  <2>1. pc = "drop" /\ pc' = "dropRest" /\ refs' = refs \ pass.links /\ pass' = pass
    BY <1>1 DEF DropResolved
  <2>2. refs' \ (pass.batch \ pass.links) = refs \ pass.batch
    BY <2>1 DEF RefsInv
  <2>. QED
    BY <2>1, <2>2 DEF RefsInv
<1>2. CASE DropUnresolved
  <2>1. /\ pc = "dropRest" /\ pc' = "sweep" /\ refs' = refs \ (pass.batch \ pass.links)
        /\ pass'.left = pass.left
    BY <1>2 DEF DropUnresolved, StoreInv, PassOK, PassFields
  <2>. QED
    BY <2>1 DEF RefsInv
<1>. QED
  BY <1>1, <1>2

LEMMA NextRefs ==
  ASSUME StoreInv, RefsInv, [Next]_vars
  PROVE  RefsInv'
<1>1. CASE Saves
  BY <1>1 DEF Saves, Save, SaveUnseen, store, RefsInv
<1>2. CASE Begins
  BY <1>2 DEF Begins, BeginSync, BeginIndex, RefsInv
<1>3. CASE Reconciles
  BY <1>3 DEF Reconciles, Remove, Check, RemovesDone, ChecksDone, RefsInv
<1>4. CASE StoresFile
  <2>1. pc' \in {"file", "read", "stat", "store", "nodes", "edges", "refs", "row"}
    BY <1>4 DEF StoresFile, OpenFile, ReadFile, StatFile, DropOld, InsertNodes, ReinsertEdges,
       InsertRefs, UpsertRow, TakeStat, ReadContent, Skip
  <2>. QED
    BY <2>1 DEF RefsInv
<1>5. CASE FilesDone
  <2>1. pass'.left = pass.left /\ pc' \in {"link", "sweep"} /\ pass.left = 0
    BY <1>5 DEF FilesDone, StoreInv, PassOK, PassFields, Resolving
  <2>. QED
    BY <2>1 DEF RefsInv
<1>6. CASE SweepDone
  <2>1. Cardinality(refs) \in Nat
    BY FS_CardinalityType DEF StoreInv, StoreOK
  <2>2. /\ pc = "sweep" /\ pc' = "second" /\ refs' = refs
        /\ refs # {} => pass.left # 0 /\ Cardinality(refs) >= pass.left
    BY <1>6 DEF SweepDone, store
  <2>3. refs = {} \/ (Cardinality(refs) < pass.left /\ pass.left # 0)
    BY <2>2 DEF RefsInv
  <2>4. pass.left \in Nat
    BY DEF StoreInv, PassOK
  <2>. QED
    BY <2>1, <2>2, <2>3, <2>4 DEF RefsInv
<1>7. CASE SecondPass
  BY <1>7 DEF SecondPass, RefsInv
<1>8. CASE Crash
  BY <1>8 DEF Crash, RefsInv
<1>9. CASE UNCHANGED vars
  BY <1>9 DEF vars, store, history, RefsInv
<1>. QED
  BY <1>1, <1>2, <1>3, <1>4, <1>5, <1>6, <1>7, <1>8, <1>9, TakeBatchRefs, LinkRefs, DropRefs
  DEF Next, Resolves

\* A completed pass leaves no unresolved reference: not its own, and none that a killed pass
\* left behind (the batches of resolveAndPersistBatched, src/resolution/index.ts:1112-1198,
\* and the orphan sweep of CodeGraph.sync).
THEOREM PassDrainsRefs == Spec => []RefsDrained
<1>1. RefsInv => RefsDrained
  BY DEF RefsInv, RefsDrained
<1>2. Spec => []RefsInv
  BY InitRefs, NextRefs, StoreInvariant, PTL DEF Spec
<1>. QED
  BY <1>1, <1>2, PTL

(***************************************************************************)
(* Edges.                                                                  *)
(***************************************************************************)
LEMMA TargetsFacts ==
  ASSUME NEW B, NEW N, NEW L \in Targets(B, N)
  PROVE  /\ \A e \in L : \E r \in B : e[1] = r[1] /\ e[2] \in Named(N, r[2]) /\ e[2][2] = r[2]
         /\ \A f, n : <<f, n>> \in B /\ Named(N, n) # {} =>
              \E e \in L : e[1] = f /\ e[2][2] = n /\ e[2] \in Named(N, n)
<1>1. \A e \in L : \E r \in B : \E x \in Named(N, r[2]) : e = <<r[1], x>>
  BY DEF Targets
<1>2. \A e \in L : \E r \in B : e[1] = r[1] /\ e[2] \in Named(N, r[2]) /\ e[2][2] = r[2]
  BY <1>1 DEF Named
<1>3. ASSUME NEW f, NEW n, <<f, n>> \in B, Named(N, n) # {}
      PROVE  \E e \in L : e[1] = f /\ e[2][2] = n /\ e[2] \in Named(N, n)
  <2>. DEFINE r == <<f, n>>
              E == {e \in L : <<e[1], e[2][2]>> = r}
  <2>1. r[1] = f /\ r[2] = n
    OBVIOUS
  <2>2. Cardinality(E) = 1
    BY <1>3, <2>1 DEF Targets
  <2>3. E # {}
    <3>. HIDE DEF E
    <3>. QED
      BY <2>2, FS_EmptySet
  <2>4. PICK e \in L : <<e[1], e[2][2]>> = <<f, n>>
    BY <2>3
  <2>. QED
    BY <1>2, <2>4
<1>. QED
  BY <1>2, <1>3

\* Of the edges of a set of references, those into symbols that are there are inserted.
LEMMA Inserted ==
  ASSUME StoreInv, NEW B, NEW N, NEW L \in Targets(B, N)
  PROVE  /\ edges \subseteq InsertEdges(L)
         /\ \A e \in InsertEdges(L) : e \in edges \/ \E r \in B : e[1] = r[1] /\ e[2][2] = r[2]
         /\ \A f, n : /\ <<f, n>> \in B /\ Named(N, n) # {} /\ Named(N, n) \subseteq nodes
                      /\ FileNode(f) \in nodes
                      => \E e \in InsertEdges(L) : e[1] = f /\ e[2][2] = n
BY TargetsFacts DEF InsertEdges

\* A file that has a row, and was not cut off while it was stored.
LEMMA SoundFacts ==
  ASSUME StoreInv, NEW f \in Sound
  PROVE  /\ f \in Files /\ rows[f] # None /\ f \notin torn /\ FileNode(f) \in nodes
         /\ Storing => f # pass.file
<1>1. f \in Files \ torn /\ rows[f] # None
  BY DEF Sound, Tracked
<1>2. Storing => f # pass.file
  BY <1>1 DEF StoreInv, StoreOK
<1>3. ~BeingStored(f)
  BY <1>2 DEF BeingStored, Storing
<1>4. {x \in nodes : x[1] = f} = NodesOf(f, rows[f].hash)
  BY <1>1, <1>3 DEF StoreInv, StoreOK
<1>. QED
  BY <1>1, <1>2, <1>4, NodesOfFile

LEMMA InitEdges == Init => EdgesInv
<1>. SUFFICES ASSUME Init PROVE EdgesInv
  OBVIOUS
<1>1. pc = "idle" /\ Sound = {} /\ pass.deferred = {}
  BY DEF Init, Sound, Tracked, AtRest
<1>. QED
  BY <1>1 DEF EdgesInv, Replaced, Resolving

\* Steps that write nothing of rows, edges and references, outside of storing a file.
LEMMA FrameEdges ==
  ASSUME StoreInv, EdgesInv, StoreInv', UNCHANGED <<rows, nodes, edges, refs, torn, excused>>,
         ~Storing, ~Storing', pc' \notin {"drop", "dropRest"},
         pass'.deferred = pass.deferred, pass'.batch \subseteq refs \cup pass.batch,
         Resolving' /\ pass'.changed # {} => Seen' = nodes
  PROVE  EdgesInv'
<1>1. pass.snap = {} /\ pass'.snap = {} /\ ~Replaced' /\ pc' \notin {"nodes", "edges", "refs", "row"}
  BY DEF StoreInv, PassOK, Storing, Replaced
<1>2. Sound' = Sound /\ \A f, n : Linked(f, n)' <=> Linked(f, n)
  BY DEF Sound, Tracked, Linked
<1>. QED
  BY <1>1, <1>2 DEF EdgesInv

LEMMA SaveEdges ==
  ASSUME EdgesInv, Saves
  PROVE  EdgesInv'
<1>1. UNCHANGED <<rows, nodes, edges, refs, known, pc, pass, torn, excused>>
  BY DEF Saves, Save, SaveUnseen, store
<1>. QED
  BY <1>1 DEF EdgesInv, Sound, Tracked, Linked, Replaced, Resolving, Seen, Cache

LEMMA BeginEdges ==
  ASSUME StoreInv, EdgesInv, StoreInv', Begins
  PROVE  EdgesInv'
<1>1. ASSUME NEW by \in {"watching", "command"}, BeginSync(by) PROVE EdgesInv'
  <2>1. /\ pc = "idle" /\ pc' = "remove" /\ UNCHANGED <<rows, nodes, edges, refs, torn, excused>>
        /\ pass'.deferred = {} /\ pass'.batch = {}
    BY <1>1 DEF BeginSync, store, AtRest
  <2>2. pass.deferred = {}
    BY <2>1 DEF StoreInv, PassOK, Resolving
  <2>. QED
    BY <2>1, <2>2, FrameEdges DEF Storing, Resolving
<1>2. CASE BeginIndex
  <2>1. pc' = "file" /\ rows' = [f \in Files |-> None] /\ pass'.deferred = {}
    BY <1>2 DEF BeginIndex, AtRest
  <2>2. Sound' = {}
    BY <2>1 DEF Sound, Tracked
  <2>. QED
    BY <2>1, <2>2 DEF EdgesInv, Replaced, Resolving
<1>. QED
  BY <1>1, <1>2 DEF Begins

\* What the deletion of a file takes from the others.
LEMMA DeleteFileEdges ==
  ASSUME StoreInv, EdgesInv, NEW f \in Files, DeleteFile(f)
  PROVE  \A g \in Sound' :
           /\ g \in Sound /\ g # f /\ rows'[g] = rows[g]
           /\ \A n \in Refs[rows[g].hash] :
                Linked(g, n)' \/ <<g, n>> \in refs' \cup excused \cup pass.snap \cup pass.deferred
                                              \cup IncomingNames(f)
<1>0. /\ rows' = [rows EXCEPT ![f] = None] /\ edges' = edges \ Severed(f)
      /\ refs' = {r \in refs : r[1] # f} /\ torn' = torn \ {f}
  BY DEF DeleteFile
<1>. SUFFICES ASSUME NEW g \in Sound'
              PROVE  /\ g \in Sound /\ g # f /\ rows'[g] = rows[g]
                     /\ \A n \in Refs[rows[g].hash] :
                          Linked(g, n)' \/ <<g, n>> \in refs' \cup excused \cup pass.snap \cup pass.deferred
                                                        \cup IncomingNames(f)
  OBVIOUS
<1>1. g \in Sound /\ g # f /\ rows'[g] = rows[g]
  BY <1>0 DEF Sound, Tracked, StoreInv, StateOK, Rows
<1>2. ASSUME NEW n \in Refs[rows[g].hash]
      PROVE  Linked(g, n)' \/ <<g, n>> \in refs' \cup excused \cup pass.snap \cup pass.deferred
                                           \cup IncomingNames(f)
  <2>1. CASE Linked(g, n)
    <3>1. PICK e \in edges : e[1] = g /\ e[2][2] = n
      BY <2>1 DEF Linked
    <3>2. CASE e \in Severed(f)
      <4>1. e[2][1] = f /\ e[1] # f
        BY <1>1, <3>1, <3>2 DEF Severed
      <4>. QED
        BY <3>1, <4>1 DEF IncomingNames
    <3>3. CASE e \notin Severed(f)
      BY <1>0, <3>1, <3>3 DEF Linked
    <3>. QED
      BY <3>2, <3>3
  <2>2. CASE <<g, n>> \in refs
    BY <1>0, <1>1, <2>2
  <2>. QED
    BY <1>1, <2>1, <2>2 DEF EdgesInv
<1>. QED
  BY <1>1, <1>2

LEMMA RemoveEdges ==
  ASSUME StoreInv, EdgesInv, StoreInv', NEW f \in Files, Remove(f)
  PROVE  EdgesInv'
<1>1. /\ pc = "remove" /\ pc' = "remove"
      /\ pass' = [pass EXCEPT !.todo = @ \ {f}]
      /\ \/ DeleteFile(f) /\ excused' = excused \cup IncomingNames(f)
         \/ UNCHANGED <<rows, nodes, edges, refs, torn, excused>>
  BY DEF Remove, Done, store
<1>2. /\ pass'.snap = pass.snap /\ pass'.deferred = pass.deferred /\ pass'.batch = pass.batch
      /\ pass.deferred = {} /\ pass.snap = {} /\ pass.batch = {}
  BY <1>1 DEF StoreInv, PassOK, PassFields, Resolving
<1>3. CASE UNCHANGED <<rows, nodes, edges, refs, torn, excused>>
  BY <1>1, <1>2, <1>3, FrameEdges DEF Storing, Resolving
<1>4. CASE DeleteFile(f) /\ excused' = excused \cup IncomingNames(f)
  <2>1. \A g \in Sound' : \A n \in Refs[rows'[g].hash] :
          Linked(g, n)' \/ <<g, n>> \in refs' \cup excused'
    BY <1>2, <1>4, DeleteFileEdges
  <2>2. edges' \subseteq edges /\ refs' \subseteq refs
    BY <1>4 DEF DeleteFile
  <2>3. \A g \in Sound' :
          /\ \A e \in edges' : e[1] = g => e[2][2] \in Refs[rows'[g].hash]
          /\ \A r \in refs' : r[1] = g => r[2] \in Refs[rows'[g].hash]
    BY <1>4, <2>2, DeleteFileEdges DEF EdgesInv
  <2>. QED
    BY <1>1, <1>2, <2>1, <2>3 DEF EdgesInv, Replaced, Resolving
<1>. QED
  BY <1>1, <1>3, <1>4

LEMMA PassOnlyEdges ==
  ASSUME StoreInv, EdgesInv, StoreInv',
         \/ RemovesDone \/ ChecksDone \/ FilesDone \/ TakeBatch \/ SweepDone
         \/ ReadFile \/ StatFile
         \/ \E f \in Files : Check(f) \/ OpenFile(f)
  PROVE  EdgesInv'
<1>1. /\ UNCHANGED <<rows, nodes, edges, refs, torn, excused>>
      /\ pc \in {"remove", "check", "file", "read", "stat", "sweep"}
      /\ pc' \in {"check", "file", "read", "stat", "store", "link", "sweep", "second"}
  BY DEF RemovesDone, ChecksDone, FilesDone, TakeBatch, SweepDone, ReadFile, StatFile, Check, OpenFile,
         store, history, ReadContent, TakeStat, Skip
<1>2. CASE FilesDone
  <2>1. /\ pass'.deferred = pass.deferred /\ pass'.changed = pass.changed /\ pass'.by = pass.by
        /\ pass'.batch = pass.batch \/ pass'.batch = {r \in refs : r[1] \in pass.changed}
    BY <1>2 DEF FilesDone, StoreInv, PassOK, PassFields
  <2>2. pass'.changed # {} => Seen' = nodes
    BY <1>1, <1>2, <2>1 DEF FilesDone, Seen, Cache
  <2>. QED
    BY <1>1, <2>1, <2>2, FrameEdges DEF Storing
<1>3. CASE TakeBatch \/ SweepDone
  <2>1. /\ pass'.deferred = pass.deferred /\ pass'.changed = pass.changed /\ pass'.by = pass.by
        /\ pass'.batch = pass.batch \/ pass'.batch \in SUBSET refs
        /\ pc = "sweep" /\ UNCHANGED known
    BY <1>3 DEF TakeBatch, SweepDone, StoreInv, PassOK, PassFields
  <2>2. pass'.changed # {} => Seen' = nodes
    BY <1>1, <2>1 DEF EdgesInv, Resolving, Seen, Cache
  <2>. QED
    BY <1>1, <2>1, <2>2, FrameEdges DEF Storing
<1>4. CASE RemovesDone \/ ChecksDone \/ ReadFile \/ StatFile \/ \E f \in Files : Check(f) \/ OpenFile(f)
  <2>1. /\ pc \in {"remove", "check", "file", "read", "stat"}
        /\ pc' \in {"check", "file", "read", "stat", "store"}
    BY <1>4 DEF RemovesDone, ChecksDone, ReadFile, StatFile, Check, OpenFile, ReadContent, TakeStat, Skip
  <2>2. pass.deferred = {} /\ pass'.deferred = {} /\ pass'.batch = {}
    BY <2>1 DEF StoreInv, PassOK, Resolving
  <2>. QED
    BY <1>1, <2>1, <2>2, FrameEdges DEF Storing, Resolving
<1>. QED
  BY <1>2, <1>3, <1>4

LEMMA DropOldEdges ==
  ASSUME StoreInv, EdgesInv, StoreInv', DropOld
  PROVE  EdgesInv'
<1>0. /\ pc = "store" /\ UNCHANGED excused /\ pass.file \in Files
      /\ pass.snap = {} /\ pass.deferred = {} /\ pass.batch = {}
  BY DEF DropOld, StoreInv, PassOK, OnFile, HasText, Resolving
<1>1. CASE Skip(pass.file) /\ UNCHANGED <<store, torn>>
  <2>1. pc' = "file" /\ UNCHANGED <<rows, nodes, edges, refs, torn>>
    BY <1>1 DEF Skip, store
  <2>2. pass'.deferred = {} /\ pass'.batch = {}
    BY <2>1 DEF StoreInv, PassOK, Resolving
  <2>. QED
    BY <1>0, <2>1, <2>2, FrameEdges DEF Storing, Resolving
<1>2. ASSUME NEW f \in Files, f = pass.file, pc' = "nodes",
             pass' = [pass EXCEPT !.snap = IncomingNames(f)], DeleteFile(f)
      PROVE  EdgesInv'
  <2>1. /\ pass'.snap = IncomingNames(f) /\ pass'.file = f /\ pass'.deferred = {} /\ pass'.batch = {}
    BY <1>0, <1>2 DEF StoreInv, PassOK, PassFields
  <2>2. \A g \in Sound' : g \in Sound /\ g # f /\ rows'[g] = rows[g]
    BY <1>2, DeleteFileEdges
  <2>3. \A g \in Sound' : \A n \in Refs[rows'[g].hash] :
          Linked(g, n)' \/ <<g, n>> \in refs' \cup excused' \cup pass'.snap
    <3>1. \A g \in Sound' : \A n \in Refs[rows[g].hash] :
            Linked(g, n)' \/ <<g, n>> \in refs' \cup excused \cup pass.snap \cup pass.deferred
                                          \cup IncomingNames(f)
      BY <1>2, DeleteFileEdges
    <3>. QED
      BY <1>0, <2>1, <2>2, <3>1
  <2>4. edges' \subseteq edges /\ refs' \subseteq refs
    BY <1>2 DEF DeleteFile
  <2>5. \A g \in Sound' :
          /\ \A e \in edges' : e[1] = g => e[2][2] \in Refs[rows'[g].hash]
          /\ \A r \in refs' : r[1] = g => r[2] \in Refs[rows'[g].hash]
    BY <2>2, <2>4 DEF EdgesInv
  <2>6. /\ \A r \in pass'.snap : r[1] # f
        /\ \A g \in Sound' : \A r \in pass'.snap : r[1] = g => r[2] \in Refs[rows'[g].hash]
    <3>1. ASSUME NEW r \in pass'.snap PROVE \E e \in edges : e[1] # f /\ r[1] = e[1] /\ r[2] = e[2][2]
      BY <2>1, <3>1 DEF IncomingNames
    <3>. QED
      BY <2>2, <3>1 DEF EdgesInv
  <2>. QED
    BY <1>2, <2>1, <2>3, <2>5, <2>6 DEF EdgesInv, Replaced, Resolving
<1>3. CASE /\ pc' = "nodes" /\ pass' = [pass EXCEPT !.snap = {}] /\ UNCHANGED <<store, torn>>
  <2>1. /\ pass'.snap = {} /\ pass'.file = pass.file /\ pass'.deferred = {} /\ pass'.batch = {}
    BY <1>0, <1>3 DEF StoreInv, PassOK, PassFields
  <2>2. Sound' = Sound /\ (\A f, n : Linked(f, n)' <=> Linked(f, n)) /\ UNCHANGED <<rows, edges, refs>>
    BY <1>3 DEF Sound, Tracked, Linked, store
  <2>. QED
    BY <1>0, <1>3, <2>1, <2>2 DEF EdgesInv, Replaced, Resolving
<1>. QED
  BY <1>0, <1>1, <1>2, <1>3 DEF DropOld

LEMMA InsertNodesEdges ==
  ASSUME StoreInv, EdgesInv, StoreInv', InsertNodes
  PROVE  EdgesInv'
<1>1. PICK N : N = NodesOf(pass.file, pass.content)
  OBVIOUS
<1>2. /\ pc = "nodes" /\ pc' = "edges" /\ UNCHANGED <<rows, pass, torn>>
      /\ edges' = {e \in edges : FileNode(e[1]) \notin N /\ e[2] \notin N}
      /\ refs' = {r \in refs : FileNode(r[1]) \notin N}
      /\ excused' = excused \cup {<<e[1], e[2][2]>> : e \in edges \ edges'}
  BY <1>1 DEF InsertNodes
<1>3. FileNode(pass.file) \in N /\ \A x \in N : x[1] = pass.file
  BY <1>1, NodesOfFile
<1>4. Sound' = Sound
  BY <1>2 DEF Sound, Tracked
<1>5. pass.deferred = {} /\ pass.batch = {}
  BY <1>2 DEF StoreInv, PassOK, Resolving
<1>6. ASSUME NEW g \in Sound, NEW n \in Refs[rows[g].hash]
      PROVE  Linked(g, n)' \/ <<g, n>> \in refs' \cup excused' \cup pass.snap
  <2>1. CASE Linked(g, n)
    <3>1. PICK e \in edges : e[1] = g /\ e[2][2] = n
      BY <2>1 DEF Linked
    <3>. QED
      BY <1>2, <3>1 DEF Linked
  <2>2. CASE <<g, n>> \in refs
    <3>1. g # pass.file
      BY <1>2, SoundFacts DEF Storing
    <3>2. FileNode(g) \notin N
      BY <1>3, <3>1, NodesOfFile
    <3>. QED
      BY <1>2, <2>2, <3>2
  <2>. QED
    BY <1>2, <1>5, <1>6, <2>1, <2>2 DEF EdgesInv
<1>7. edges' \subseteq edges /\ refs' \subseteq refs
  BY <1>2
<1>8. /\ \A e \in edges' : e[1] # pass.file
      /\ \A r \in refs' : r[1] # pass.file
  BY <1>2, <1>3
<1>. QED
  BY <1>2, <1>4, <1>5, <1>6, <1>7, <1>8 DEF EdgesInv, Replaced, Resolving

LEMMA ReinsertEdgesEdges ==
  ASSUME StoreInv, EdgesInv, StoreInv', ReinsertEdges
  PROVE  EdgesInv'
<1>1. PICK N : N = NodesOf(pass.file, pass.content)
  OBVIOUS
<1>2. /\ pc = "edges" /\ pc' = "refs" /\ UNCHANGED <<rows, nodes, refs, torn>>
      /\ pass' = [pass EXCEPT !.snap = {}]
      /\ excused' = excused \cup {s \in pass.snap : Named(N, s[2]) = {}}
  BY <1>1 DEF ReinsertEdges
<1>3. PICK L \in Targets(pass.snap, N) : edges' = InsertEdges(L)
  BY <1>1 DEF ReinsertEdges
<1>4. /\ pass'.snap = {} /\ pass'.file = pass.file
      /\ pass'.deferred = {} /\ pass'.batch = {} /\ pass.deferred = {}
  BY <1>2 DEF StoreInv, PassOK, PassFields, Resolving
<1>5. Sound' = Sound
  BY <1>2 DEF Sound, Tracked
<1>6. N \subseteq nodes
  BY <1>1, <1>2 DEF StoreInv, StoreOK, Replaced
<1>7. /\ edges \subseteq edges'
      /\ \A e \in edges' : e \in edges \/ \E r \in pass.snap : e[1] = r[1] /\ e[2][2] = r[2]
  BY <1>3, Inserted
<1>8. ASSUME NEW g \in Sound, NEW n \in Refs[rows[g].hash]
      PROVE  Linked(g, n)' \/ <<g, n>> \in refs' \cup excused'
  <2>1. CASE Linked(g, n)
    BY <1>7, <2>1 DEF Linked
  <2>2. CASE <<g, n>> \in pass.snap
    <3>1. CASE Named(N, n) = {}
      BY <1>2, <2>2, <3>1
    <3>2. CASE Named(N, n) # {}
      <4>1. Named(N, n) \subseteq nodes /\ FileNode(g) \in nodes
        BY <1>6, SoundFacts DEF Named
      <4>2. \E e \in InsertEdges(L) : e[1] = g /\ e[2][2] = n
        BY <1>3, <2>2, <3>2, <4>1, Inserted
      <4>. QED
        BY <1>3, <4>2 DEF Linked
    <3>. QED
      BY <3>1, <3>2
  <2>. QED
    BY <1>2, <1>4, <1>8, <2>1, <2>2 DEF EdgesInv
<1>9. \A g \in Sound : \A e \in edges' : e[1] = g => e[2][2] \in Refs[rows[g].hash]
  BY <1>7 DEF EdgesInv
<1>10. \A e \in edges' : e[1] # pass.file
  BY <1>2, <1>7 DEF EdgesInv, Replaced
<1>. QED
  BY <1>2, <1>4, <1>5, <1>8, <1>9, <1>10 DEF EdgesInv, Replaced, Resolving

LEMMA InsertRefsEdges ==
  ASSUME StoreInv, EdgesInv, StoreInv', InsertRefs
  PROVE  EdgesInv'
<1>1. PICK new : new = {<<pass.file, n>> : n \in Refs[pass.content]}
  OBVIOUS
<1>2. /\ pc = "refs" /\ pc' = "row" /\ UNCHANGED <<rows, nodes, edges, pass, torn>>
      /\ refs' = refs \cup new /\ excused' = {r \in excused : r[1] # pass.file}
  BY <1>1 DEF InsertRefs
<1>3. /\ \A n \in Refs[pass.content] : <<pass.file, n>> \in new
      /\ \A r \in new : r[1] = pass.file /\ r[2] \in Refs[pass.content]
  BY <1>1
<1>4. Sound' = Sound /\ \A f, n : Linked(f, n)' <=> Linked(f, n)
  BY <1>2 DEF Sound, Tracked, Linked
<1>5. \A g \in Sound : g # pass.file
  BY <1>2, SoundFacts DEF Storing
<1>6. pass.snap = {} /\ pass.deferred = {} /\ pass.batch = {}
  BY <1>2 DEF StoreInv, PassOK, Resolving
<1>7. \A g \in Sound : \A n \in Refs[rows[g].hash] :
        Linked(g, n) \/ <<g, n>> \in refs' \cup excused'
  BY <1>2, <1>5, <1>6 DEF EdgesInv
<1>8. \A g \in Sound : \A r \in refs' : r[1] = g => r[2] \in Refs[rows[g].hash]
  BY <1>2, <1>3, <1>5 DEF EdgesInv
<1>9. \A r \in refs' : r[1] = pass.file => r[2] \in Refs[pass.content]
  BY <1>2, <1>3 DEF EdgesInv
<1>. QED
  BY <1>2, <1>3, <1>4, <1>6, <1>7, <1>8, <1>9 DEF EdgesInv, Replaced, Resolving

LEMMA UpsertRowEdges ==
  ASSUME StoreInv, EdgesInv, StoreInv', UpsertRow
  PROVE  EdgesInv'
<1>1. PICK row : row = [hash |-> pass.content, stat |-> pass.stat]
  OBVIOUS
<1>2. /\ pc = "row" /\ pc' = "file" /\ UNCHANGED <<nodes, edges, refs, torn, excused>>
      /\ rows' = [rows EXCEPT ![pass.file] = row]
  BY <1>1 DEF UpsertRow, Skip
<1>3. /\ pass'.snap = {} /\ pass'.deferred = {} /\ pass'.batch = {}
      /\ pass.snap = {} /\ pass.deferred = {} /\ pass.batch = {}
  BY <1>2 DEF StoreInv, PassOK, Resolving
<1>4. \A f, n : Linked(f, n)' <=> Linked(f, n)
  BY <1>2 DEF Linked
<1>5. ASSUME NEW g \in Sound', g = pass.file
      PROVE  /\ \A n \in Refs[rows'[g].hash] : <<g, n>> \in refs'
             /\ \A e \in edges' : e[1] # g
             /\ \A r \in refs' : r[1] = g => r[2] \in Refs[rows'[g].hash]
  <2>1. rows'[g].hash = pass.content
    <3>1. g \in Files
      BY DEF Sound, Tracked
    <3>. QED
      BY <1>1, <1>2, <1>5, <3>1 DEF StoreInv, StateOK, Rows
  <2>. QED
    BY <1>2, <1>5, <2>1 DEF EdgesInv, Replaced
<1>6. ASSUME NEW g \in Sound', g # pass.file PROVE g \in Sound /\ rows'[g] = rows[g]
  BY <1>2, <1>6 DEF Sound, Tracked, StoreInv, StateOK, Rows
<1>7. \A g \in Sound' : \A n \in Refs[rows'[g].hash] : Linked(g, n) \/ <<g, n>> \in refs \cup excused
  BY <1>2, <1>3, <1>5, <1>6 DEF EdgesInv
<1>8. \A g \in Sound' :
        /\ \A e \in edges : e[1] = g => e[2][2] \in Refs[rows'[g].hash]
        /\ \A r \in refs : r[1] = g => r[2] \in Refs[rows'[g].hash]
  BY <1>2, <1>5, <1>6 DEF EdgesInv
<1>. QED
  BY <1>2, <1>3, <1>4, <1>7, <1>8 DEF EdgesInv, Replaced, Resolving

\* What a batch leaves of its references: an edge, a reference for the second pass, or an excuse.
LEMMA LinkedBatch ==
  ASSUME StoreInv, EdgesInv, Link, NEW g \in Sound, NEW n, <<g, n>> \in pass.batch
  PROVE  Linked(g, n)' \/ <<g, n>> \in excused' \cup pass'.deferred
<1>0. pc = "link"
  BY DEF Link
<1>1. pass.changed # {} => Seen = nodes
  BY <1>0 DEF EdgesInv, Resolving
<1>2. PICK L \in Targets(Matched(pass.batch), Seen) : edges' = InsertEdges(L)
  BY DEF Link
<1>3. /\ excused' = excused \cup Missed(pass.batch)
      /\ pass'.deferred = pass.deferred \cup Deferred(pass.batch)
  BY DEF Link, StoreInv, PassOK, PassFields
<1>4. <<g, n>>[2] = n
  OBVIOUS
<1>5. CASE Named(Seen, n) = {}
  BY <1>1, <1>3, <1>4, <1>5 DEF Missed
<1>6. CASE Named(Seen, n) # {} /\ n \in Chained
  BY <1>3, <1>4, <1>6 DEF Deferred
<1>7. CASE Named(Seen, n) # {} /\ n \notin Chained
  <2>1. <<g, n>> \in Matched(pass.batch)
    BY <1>4, <1>7 DEF Matched
  <2>2. CASE Named(Seen, n) \subseteq nodes
    <3>1. FileNode(g) \in nodes
      BY SoundFacts
    <3>2. \E e \in InsertEdges(L) : e[1] = g /\ e[2][2] = n
      BY <1>7, <2>1, <2>2, <3>1, Inserted
    <3>. QED
      BY <1>2, <3>2 DEF Linked
  <2>3. CASE ~(Named(Seen, n) \subseteq nodes)
    <3>1. pass.changed = {}
      BY <1>1, <2>3 DEF Named
    <3>. QED
      BY <1>3, <1>4, <2>1, <2>3, <3>1 DEF Missed
  <2>. QED
    BY <2>2, <2>3
<1>. QED
  BY <1>5, <1>6, <1>7

LEMMA LinkEdges ==
  ASSUME StoreInv, EdgesInv, StoreInv', Link
  PROVE  EdgesInv'
<1>1. /\ pc = "link" /\ pc' = "drop" /\ UNCHANGED <<rows, nodes, refs, torn>>
      /\ excused' = excused \cup Missed(pass.batch)
      /\ known' = IF pass.by = "watching" /\ known = None THEN nodes ELSE known
  BY DEF Link
<1>2. /\ pass'.deferred = pass.deferred \cup Deferred(pass.batch)
      /\ pass'.snap = pass.snap /\ pass'.batch = pass.batch
      /\ pass'.changed = pass.changed /\ pass'.by = pass.by
  BY DEF Link, StoreInv, PassOK, PassFields
<1>3. Sound' = Sound
  BY <1>1 DEF Sound, Tracked
<1>4. PICK L \in Targets(Matched(pass.batch), Seen) : edges' = InsertEdges(L)
  BY DEF Link
<1>5. /\ edges \subseteq edges'
      /\ \A e \in edges' : e \in edges \/ \E r \in Matched(pass.batch) : e[1] = r[1] /\ e[2][2] = r[2]
  BY <1>4, Inserted
<1>6. Matched(pass.batch) \subseteq pass.batch /\ Deferred(pass.batch) \subseteq pass.batch
  BY DEF Matched, Deferred
<1>7. \A g \in Sound : \A n \in Refs[rows[g].hash] :
        Linked(g, n)' \/ <<g, n>> \in refs' \cup excused' \cup pass'.snap \cup pass'.deferred
  <2>1. \A g, n : Linked(g, n) => Linked(g, n)'
    BY <1>5 DEF Linked
  <2>. QED
    BY <1>1, <1>2, <2>1 DEF EdgesInv
<1>8. \A g \in Sound : \A n \in Refs[rows[g].hash] :
        <<g, n>> \in pass'.batch => Linked(g, n)' \/ <<g, n>> \in excused' \cup pass'.deferred
  BY <1>2, LinkedBatch
<1>9. \A g \in Sound :
        /\ \A e \in edges' : e[1] = g => e[2][2] \in Refs[rows[g].hash]
        /\ \A r \in refs' \cup pass'.snap \cup pass'.batch \cup pass'.deferred :
             r[1] = g => r[2] \in Refs[rows[g].hash]
  BY <1>1, <1>2, <1>5, <1>6 DEF EdgesInv
<1>10. \A r \in pass'.deferred : Named(nodes, r[2]) = {} => r \in excused'
  <2>1. \A r \in Deferred(pass.batch) : Named(nodes, r[2]) = {} => r \in Missed(pass.batch)
    BY DEF Deferred, Missed
  <2>. QED
    BY <1>1, <1>2, <2>1 DEF EdgesInv
<1>11. pass'.changed # {} => Seen' = nodes
  BY <1>1, <1>2 DEF EdgesInv, Resolving, Seen, Cache
<1>12. ~Replaced'
  BY <1>1 DEF Replaced
<1>13. \A r \in pass'.deferred : Named(nodes', r[2]) = {} => r \in excused'
  BY <1>1, <1>10
<1>. QED
  BY <1>1, <1>3, <1>7, <1>8, <1>9, <1>11, <1>12, <1>13 DEF EdgesInv

LEMMA DropEdges ==
  ASSUME StoreInv, EdgesInv, StoreInv', RefsInv, DropResolved \/ DropUnresolved
  PROVE  EdgesInv'
<1>1. /\ UNCHANGED <<rows, nodes, edges, torn, excused, known>>
      /\ pc \in {"drop", "dropRest"} /\ pc' \in {"dropRest", "sweep"}
      /\ refs \subseteq refs' \cup pass.batch /\ refs' \subseteq refs
  BY DEF DropResolved, DropUnresolved, RefsInv, history
<1>2. /\ pass'.deferred = pass.deferred /\ pass'.snap = pass.snap
      /\ pass'.changed = pass.changed /\ pass'.by = pass.by
      /\ pass'.batch \subseteq pass.batch
  <2>1. CASE DropResolved
    BY <2>1 DEF DropResolved
  <2>2. CASE DropUnresolved
    BY <2>2 DEF DropUnresolved, StoreInv, PassOK, PassFields
  <2>. QED
    BY <2>1, <2>2
<1>3. Sound' = Sound /\ \A f, n : Linked(f, n)' <=> Linked(f, n)
  BY <1>1 DEF Sound, Tracked, Linked
<1>4. \A g \in Sound : \A n \in Refs[rows[g].hash] :
        Linked(g, n) \/ <<g, n>> \in refs' \cup excused \cup pass.snap \cup pass.deferred
  BY <1>1 DEF EdgesInv
<1>5. \A g \in Sound : \A n \in Refs[rows[g].hash] :
        <<g, n>> \in pass.batch => Linked(g, n) \/ <<g, n>> \in excused \cup pass.deferred
  BY <1>1 DEF EdgesInv
<1>6. \A g \in Sound :
        /\ \A e \in edges : e[1] = g => e[2][2] \in Refs[rows[g].hash]
        /\ \A r \in refs' \cup pass'.snap \cup pass'.batch \cup pass'.deferred :
             r[1] = g => r[2] \in Refs[rows[g].hash]
  BY <1>1, <1>2 DEF EdgesInv
<1>7. pass'.changed # {} => Seen' = nodes
  BY <1>1, <1>2 DEF EdgesInv, Resolving, Seen, Cache
<1>8. \A r \in pass'.deferred : Named(nodes', r[2]) = {} => r \in excused'
  BY <1>1, <1>2 DEF EdgesInv
<1>9. ~Replaced'
  BY <1>1 DEF Replaced
<1>. QED
  BY <1>1, <1>2, <1>3, <1>4, <1>5, <1>6, <1>7, <1>8, <1>9 DEF EdgesInv

LEMMA SecondPassEdges ==
  ASSUME StoreInv, EdgesInv, SecondPass
  PROVE  EdgesInv'
<1>1. /\ pc = "second" /\ pc' = "idle" /\ pass' = AtRest
      /\ UNCHANGED <<rows, nodes, refs, torn, excused>>
  BY DEF SecondPass
<1>2. PICK L \in Targets(pass.deferred, nodes) : edges' = InsertEdges(L)
  BY DEF SecondPass
<1>3. /\ edges \subseteq edges'
      /\ \A e \in edges' : e \in edges \/ \E r \in pass.deferred : e[1] = r[1] /\ e[2][2] = r[2]
  BY <1>2, Inserted
<1>4. Sound' = Sound /\ pass'.snap = {} /\ pass'.batch = {} /\ pass'.deferred = {}
  BY <1>1 DEF Sound, Tracked, AtRest
<1>5. pass.snap = {}
  BY <1>1 DEF StoreInv, PassOK
<1>6. ASSUME NEW g \in Sound, NEW n \in Refs[rows[g].hash]
      PROVE  Linked(g, n)' \/ <<g, n>> \in refs' \cup excused'
  <2>1. CASE Linked(g, n)
    BY <1>3, <2>1 DEF Linked
  <2>2. CASE <<g, n>> \in pass.deferred
    <3>1. CASE Named(nodes, n) = {}
      <4>1. <<g, n>>[2] = n
        OBVIOUS
      <4>. QED
        BY <1>1, <2>2, <3>1, <4>1 DEF EdgesInv
    <3>2. CASE Named(nodes, n) # {}
      <4>1. Named(nodes, n) \subseteq nodes /\ FileNode(g) \in nodes
        BY SoundFacts DEF Named
      <4>2. \E e \in InsertEdges(L) : e[1] = g /\ e[2][2] = n
        BY <1>2, <2>2, <3>2, <4>1, Inserted
      <4>. QED
        BY <1>2, <4>2 DEF Linked
    <3>. QED
      BY <3>1, <3>2
  <2>. QED
    BY <1>1, <1>5, <1>6, <2>1, <2>2 DEF EdgesInv
<1>7. \A g \in Sound :
        /\ \A e \in edges' : e[1] = g => e[2][2] \in Refs[rows[g].hash]
        /\ \A r \in refs' : r[1] = g => r[2] \in Refs[rows[g].hash]
  BY <1>1, <1>3 DEF EdgesInv
<1>. QED
  BY <1>1, <1>4, <1>6, <1>7 DEF EdgesInv, Replaced, Resolving

LEMMA CrashEdges ==
  ASSUME StoreInv, EdgesInv, Crash
  PROVE  EdgesInv'
<1>1. /\ pc' = "idle" /\ pass' = AtRest /\ UNCHANGED <<rows, nodes, edges, refs>>
      /\ excused' = excused \cup pass.snap \cup (pass.deferred \ refs)
      /\ torn \subseteq torn'
  BY DEF Crash, store
<1>2. /\ pass'.snap = {} /\ pass'.batch = {} /\ pass'.deferred = {}
      /\ Sound' \subseteq Sound /\ \A f, n : Linked(f, n)' <=> Linked(f, n)
  BY <1>1 DEF Sound, Tracked, AtRest, Linked
<1>3. \A g \in Sound : \A n \in Refs[rows[g].hash] : Linked(g, n) \/ <<g, n>> \in refs' \cup excused'
  BY <1>1 DEF EdgesInv
<1>. QED
  BY <1>1, <1>2, <1>3 DEF EdgesInv, Replaced, Resolving

LEMMA NextEdges ==
  ASSUME StoreInv, StoreInv', RefsInv, EdgesInv, [Next]_vars
  PROVE  EdgesInv'
<1>1. CASE Saves
  BY <1>1, SaveEdges
<1>2. CASE Begins
  BY <1>2, BeginEdges
<1>3. CASE Reconciles
  BY <1>3, RemoveEdges, PassOnlyEdges DEF Reconciles
<1>4. CASE StoresFile
  BY <1>4, PassOnlyEdges, DropOldEdges, InsertNodesEdges, ReinsertEdgesEdges, InsertRefsEdges,
     UpsertRowEdges DEF StoresFile
<1>5. CASE Resolves
  BY <1>5, PassOnlyEdges, LinkEdges, DropEdges, SecondPassEdges DEF Resolves
<1>6. CASE UNCHANGED vars
  <2>1. UNCHANGED <<rows, nodes, edges, refs, known, pc, pass, torn, excused>>
    BY <1>6 DEF vars, store, history
  <2>. QED
    BY <2>1 DEF EdgesInv, Sound, Tracked, Linked, Replaced, Resolving, Seen, Cache
<1>. QED
  BY <1>1, <1>2, <1>3, <1>4, <1>5, <1>6, CrashEdges DEF Next

\* Between passes a stored file has an edge for each of its references whose name some symbol
\* has, and for nothing else, but for the references that are excused: storeExtractionResult's
\* re-insertion of the edges into a file (src/extraction/index.ts, #899), the batches of
\* resolveAndPersistBatched and the second pass of ReferenceResolver lose no other, whatever
\* saves and kills come between their transactions.
THEOREM EdgesOfReferences == Spec => []EdgesMatchReferences
<1>1. StoreInv /\ EdgesInv => EdgesMatchReferences
  <2>. SUFFICES ASSUME StoreInv, EdgesInv, pc = "idle", NEW f \in Sound
                PROVE  /\ \A n \in Refs[rows[f].hash] :
                            Linked(f, n) \/ <<f, n>> \in refs \cup excused
                       /\ \A e \in edges : e[1] = f => e[2][2] \in Refs[rows[f].hash]
    BY DEF EdgesMatchReferences, Sound, Linked
  <2>1. pass.snap = {} /\ pass.deferred = {}
    BY DEF StoreInv, PassOK, AtRest
  <2>. QED
    BY <2>1 DEF EdgesInv
<1>2. Spec => []RefsInv
  BY InitRefs, NextRefs, StoreInvariant, PTL DEF Spec
<1>3. Spec => []EdgesInv
  BY <1>2, InitEdges, NextEdges, StoreInvariant, PTL DEF Spec
<1>. QED
  BY <1>1, <1>3, StoreInvariant, PTL
=============================================================================
