---------------------------- MODULE CallService ----------------------------
(***************************************************************************)
(* What a service that has others do the work promises its callers,        *)
(* whatever becomes of these: a call is accepted once and answered once,   *)
(* an answer is final, and a service that shuts down leaves nobody waiting.*)
(***************************************************************************)
CONSTANTS Calls, Answers

VARIABLES
    open,     \* calls accepted and not answered
    answers,  \* answers[c]: the answer of call c, "none" before it has one
    down      \* the service was shut down

vars == <<open, answers, down>>

Init ==
    /\ open = {} /\ down = FALSE
    /\ answers = [c \in Calls |-> "none"]

Accept(c) ==
    /\ ~down /\ c \notin open /\ answers[c] = "none"
    /\ open' = open \union {c}
    /\ UNCHANGED <<answers, down>>

\* Some of the calls are answered, together when one event decides them.
Answer(C) ==
    /\ C # {}
    /\ open' = open \ C
    /\ \E a \in [C -> Answers] :
          answers' = [c \in Calls |-> IF c \in C THEN a[c] ELSE answers[c]]
    /\ UNCHANGED down

\* The caller found the service down, or not fit, and did the work itself.
SelfServe(c) ==
    /\ c \notin open /\ answers[c] = "none"
    /\ answers' = [answers EXCEPT ![c] = "inProcess"]
    /\ UNCHANGED <<open, down>>

Shutdown ==
    /\ ~down /\ down' = TRUE
    /\ open' = {}
    /\ answers' = [c \in Calls |-> IF c \in open THEN "shutdown" ELSE answers[c]]

Next ==
    \/ \E c \in Calls : Accept(c) \/ SelfServe(c)
    \/ \E C \in SUBSET open : Answer(C)
    \/ Shutdown

Spec == Init /\ [][Next]_vars
============================================================================
