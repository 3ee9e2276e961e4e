------------------------------ MODULE MCProxy ------------------------------
(* A handshake, two calls, a request answered at once, a notification.     *)
EXTENDS Proxy

CONSTANTS hello, c1, c2, ping, note

MCLines == {hello, c1, c2, ping, note}
MCKind == [l \in MCLines |->
             CASE l = hello -> "initialize"
               [] l \in {c1, c2} -> "call"
               [] l = ping -> "other"
               [] l = note -> "note"]
============================================================================
