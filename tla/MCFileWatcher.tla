--------------------------- MODULE MCFileWatcher ---------------------------
(* Two instances: a tree of three directories with a file in the deepest   *)
(* one (Tree...), and a flat project of two files (Flat...).               *)
EXTENDS FileWatcher

TreeDirs == {"root", "sub", "deep"}
TreeParentOf == [d \in {"sub", "deep"} |-> IF d = "sub" THEN "root" ELSE "sub"]
TreeFiles == {"b"}
TreeDirOf == [f \in TreeFiles |-> "deep"]

FlatDirs == {"root"}
FlatParentOf == [d \in {} |-> "root"]
FlatFiles == {"a", "b"}
FlatDirOf == [f \in FlatFiles |-> "root"]
============================================================================
