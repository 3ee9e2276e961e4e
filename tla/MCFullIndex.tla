---------------------------- MODULE MCFullIndex ----------------------------
(* Three files in a window of two, two workers, and two troubles. *)
EXTENDS FullIndex, TLC

MCWorkers == 1..2
MCCalls == (1..3) \X (1..3)
MCResults == {"nodes", "half", "plain", "broken"}
MCYields == <<{"nodes", "half"}, {"broken"}, {"plain"}>>
MCUnread == {1}
============================================================================
