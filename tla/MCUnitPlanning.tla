--------------------------- MODULE MCUnitPlanning ---------------------------
(* Four modules.  A module declares lower ones only: a build has no cycle. *)
EXTENDS UnitPlanning

Four == 1..4
Graph(edges) == [m \in Four |-> {n \in Four : <<m, n>> \in edges}]

\* All the builds whose only entry is module 4, and one with two entries, 3 and 4.
Downward == {<<m, n>> \in Four \X Four : n < m}
OneEntry == {g \in {Graph(edges) : edges \in SUBSET Downward} :
                \A n \in 1..3 : \E m \in Four : n \in g[m]}
Builds == OneEntry \cup {Graph({<<4, 1>>, <<3, 2>>})}

\* Couplings close cycles of two modules, of three, and of more.
Couplings == {Graph(edges) : edges \in SUBSET {<<1, 2>>, <<2, 4>>, <<1, 3>>}}
Tracks == {{}, {1}, {3, 4}}

\* MinUnit is 3 and MaxUnit is 5: small units that pack by twos and threes, a module of 9
\* to be split, and a healthy unit beside one that is full.
Counts == {<<1, 1, 1, 1>>, <<1, 2, 1, 2>>, <<2, 2, 2, 2>>, <<9, 1, 2, 1>>, <<1, 9, 3, 4>>}

\* Features: independent, a chain, a cycle of two beside a third, a cycle of three.
Three == 1..3
FeatureCouplings == {<<{}, {}, {}>>, <<{2}, {3}, {}>>, <<{}, {3}, {2}>>, <<{3}, {3}, {2}>>, <<{2}, {3}, {1}>>}
=============================================================================
