---------------------------- MODULE MCQueryPool ----------------------------
(* Workers are interchangeable; calls are told apart by their order.       *)
EXTENDS QueryPool, TLC

CONSTANTS w1, w2, c1, c2, c3

MCWorkers == {w1, w2}
MCCalls == {c1, c2, c3}
============================================================================
