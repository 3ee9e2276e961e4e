------------------------------ MODULE MCDaemon ------------------------------
(***************************************************************************)
(* Model values for the runs of Daemon.                                    *)
(***************************************************************************)
EXTENDS Daemon

CONSTANTS p1, p2, c1, c2

Two         == {p1, p2}
OneClient   == {c1}
BothClients == {c1, c2}
Second      == {c2}
=============================================================================
