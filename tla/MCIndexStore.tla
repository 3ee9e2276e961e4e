----------------------------- MODULE MCIndexStore -----------------------------
(***************************************************************************)
(* A caller and a callee.  The caller refers to g, or to g and h; the      *)
(* callee defines g, or g on another line and h, or grows past what is     *)
(* indexed.  h is a name only the second pass resolves.                    *)
(***************************************************************************)
EXTENDS IndexStore, TLC

CONSTANTS caller, callee, one, both, first, moved, huge, g, h

TwoFiles == {caller, callee}
Held     == {one, both, first, moved, huge}
Stored   == Held \ {huge}
MayHold  == (caller :> {one, both}) @@ (callee :> {first, moved, huge})

DefsOf ==
  [c \in Held |-> CASE c = first -> {<<g, 1>>}
                    [] c = moved -> {<<g, 2>>, <<h, 1>>}
                    [] OTHER -> {}]
RefsOf ==
  [c \in Held |-> CASE c = one -> {g} [] c = both -> {g, h} [] OTHER -> {}]

NameH == {h}
===============================================================================
