-------------------------------- MODULE Proxy --------------------------------
(***************************************************************************)
(* The local-handshake proxy (src/mcp/proxy.ts, runLocalHandshakeProxy): a *)
(* process between an MCP host and the shared daemon.  It answers the      *)
(* handshake by itself, holds the host's lines back until the daemon is    *)
(* reached, passes them on, and serves them in process when the daemon     *)
(* cannot be reached or is lost.                                           *)
(*                                                                         *)
(* A handler runs to completion on the event loop and is one action.  The  *)
(* daemon is external: it reads the lines in order, answers each request   *)
(* once, in any order, and may die at any moment with whatever is on the   *)
(* way to or from it.                                                      *)
(***************************************************************************)
EXTENDS SequencesExt

CONSTANTS
    Lines,  \* what the host may say, each line once
    Kind    \* Kind[l]: "initialize", "call", "other" or "note"

\* "other" is a request that handleLocally answers at once: a ping, or with an error what
\* only the daemon can serve.  "note" is a line no answer is due to: a notification, or the
\* host's own answer to a request of the daemon.  Requests for a list, which are answered
\* from constants and go nowhere, are left out.
ASSUME ProxyAssumption == Kind \in [Lines -> {"initialize", "call", "other", "note"}]

VARIABLES
    status,    \* daemonStatus: "connecting", "ready" or "failed"
    pending,   \* lines held back until the daemon is reached
    inflight,  \* requests passed on and not answered
    daemon,    \* [alive, in, working, out, heard]: the daemon and the socket to it
    backlog,   \* lines held back when the daemon could not be reached, served in turn
    serving,   \* calls being served in process
    answer,    \* answer[l]: what the host was told, "none" before it has asked
    said       \* the lines of the host, in order

vars == <<status, pending, inflight, daemon, backlog, serving, answer, said>>

Up == status # "exited"
Asks(l) == Kind[l] # "note"

Init ==
    /\ status = "connecting"
    /\ pending = <<>> /\ backlog = <<>> /\ said = <<>>
    /\ inflight = {} /\ serving = {}
    /\ daemon = [alive |-> FALSE, in |-> <<>>, working |-> {}, out |-> <<>>, heard |-> <<>>]
    /\ answer = [l \in Lines |-> "none"]

\* trackInflight: a request, the forwarded initialize excepted.
Tracked(l) == Asks(l) /\ Kind[l] # "initialize"

\* writeClient.  A second answer to a request is one too many.
Told(ans, L, a) ==
    [l \in Lines |-> IF l \notin L THEN ans[l]
                     ELSE IF ans[l] \in {"none", "waiting"} THEN a ELSE "twice"]

\* handleLocally, for the lines L: some requests are answered at once, a call once the
\* engine is open and has worked on it.
AnsweredAtOnce(ans, L) == Told(ans, {l \in L : Kind[l] = "other"}, "inProcess")

CallsIn(L) == {l \in L : Kind[l] = "call"}

\* The socket's write buffer; a dead daemon's swallows what is written.
Written(d, lines) == IF d.alive THEN [d EXCEPT !.in = @ \o lines] ELSE d

----------------------------------------------------------------------------
\* A line from the host: initialize is answered on the spot; every line is passed on, held
\* back, or served in process (routeToDaemon).
Say(l) ==
    /\ Up /\ l \notin ToSet(said)
    /\ said' = Append(said, l)
    /\ LET asked == CASE Kind[l] = "note" -> answer
                      [] Kind[l] = "initialize" -> Told(answer, {l}, "inProcess")
                      [] OTHER -> [answer EXCEPT ![l] = "waiting"]
       IN  \/ /\ status = "connecting"
              /\ pending' = Append(pending, l)
              /\ answer' = asked
              /\ UNCHANGED <<inflight, daemon, serving>>
           \/ /\ status = "ready"
              /\ inflight' = inflight \union {k \in {l} : Tracked(k)}
              /\ daemon' = Written(daemon, <<l>>)
              /\ answer' = asked
              /\ UNCHANGED <<pending, serving>>
           \/ /\ status = "failed"
              /\ answer' = AnsweredAtOnce(asked, {l})
              /\ serving' = serving \union CallsIn({l})
              /\ UNCHANGED <<pending, inflight, daemon>>
    /\ UNCHANGED <<status, backlog>>

\* A slip: the lines held back are passed on without being tracked.
AttachUntracked ==
    /\ status = "connecting"
    /\ status' = "ready"
    /\ \E alive \in BOOLEAN :
          daemon' = Written([daemon EXCEPT !.alive = alive], pending)
    /\ pending' = <<>>
    /\ UNCHANGED <<inflight, backlog, serving, answer, said>>

\* A slip: the lines held back are taken from the end.
AttachBackwards ==
    /\ status = "connecting"
    /\ status' = "ready"
    /\ \E alive \in BOOLEAN :
          daemon' = Written([daemon EXCEPT !.alive = alive], Reverse(pending))
    /\ inflight' = {l \in ToSet(pending) : Tracked(l)}
    /\ pending' = <<>>
    /\ UNCHANGED <<backlog, serving, answer, said>>

\* The daemon was reached and its hello verified; it may have died since.
Attach ==
    /\ status = "connecting"
    /\ status' = "ready"
    /\ \E alive \in BOOLEAN :
          daemon' = Written([daemon EXCEPT !.alive = alive], pending)
    /\ inflight' = {l \in ToSet(pending) : Tracked(l)}
    /\ pending' = <<>>
    /\ UNCHANGED <<backlog, serving, answer, said>>

\* No daemon of this version answers within the polling budget, or its socket is already
\* destroyed: what was held back is served in process, one line after the other.
GiveUp ==
    /\ status = "connecting"
    /\ status' = "failed"
    /\ backlog' = pending
    /\ pending' = <<>>
    /\ UNCHANGED <<inflight, daemon, serving, answer, said>>

ServeBacklog ==
    /\ Up /\ backlog # <<>>
    /\ backlog' = Tail(backlog)
    /\ LET l == Head(backlog)
       IN  answer' = AnsweredAtOnce(Told(answer, CallsIn({l}), "inProcess"), {l})
    /\ UNCHANGED <<status, pending, inflight, daemon, serving, said>>

\* The engine has worked on a call.
ServeCall(l) ==
    /\ Up /\ l \in serving
    /\ serving' = serving \ {l}
    /\ answer' = Told(answer, {l}, "inProcess")
    /\ UNCHANGED <<status, pending, inflight, daemon, backlog, said>>

\* A slip: an answered request stays in flight.
RelayTracked ==
    /\ status = "ready" /\ daemon.out # <<>>
    /\ daemon' = [daemon EXCEPT !.out = Tail(@)]
    /\ LET l == Head(daemon.out)
       IN  answer' = IF Kind[l] = "initialize" THEN answer ELSE Told(answer, {l}, "daemon")
    /\ UNCHANGED <<status, pending, inflight, backlog, serving, said>>

\* A line from the daemon: an answer ends a request and is passed on, but for the one to
\* initialize, which the host has had.
Relay ==
    /\ status = "ready" /\ daemon.out # <<>>
    /\ daemon' = [daemon EXCEPT !.out = Tail(@)]
    /\ LET l == Head(daemon.out)
       IN  /\ inflight' = inflight \ {l}
           /\ answer' = IF Kind[l] = "initialize" THEN answer ELSE Told(answer, {l}, "daemon")
    /\ UNCHANGED <<status, pending, backlog, serving, said>>

\* onDaemonLost, on the socket's close, after all that had arrived was read, or on an
\* error, which drops it: requests in flight are served in process.
LoseDaemon ==
    /\ status = "ready" /\ ~daemon.alive
    /\ status' = "failed"
    /\ daemon' = [daemon EXCEPT !.out = <<>>]
    /\ inflight' = {}
    /\ answer' = AnsweredAtOnce(answer, inflight)
    /\ serving' = serving \union CallsIn(inflight)
    /\ UNCHANGED <<pending, backlog, said>>

\* shutdown(): the host is gone, or has never said a word.
Exit ==
    /\ Up
    /\ status' = "exited"
    /\ pending' = <<>> /\ backlog' = <<>> /\ inflight' = {} /\ serving' = {}
    /\ daemon' = [daemon EXCEPT !.alive = FALSE, !.in = <<>>, !.working = {}, !.out = <<>>]
    /\ answer' = [l \in Lines |-> IF answer[l] = "waiting" THEN "shutdown" ELSE answer[l]]
    /\ UNCHANGED said

----------------------------------------------------------------------------
(* The daemon's end: one session of it.                                    *)

DaemonReads ==
    /\ daemon.alive /\ daemon.in # <<>>
    /\ LET l == Head(daemon.in)
       IN  daemon' = [daemon EXCEPT !.in = Tail(@), !.heard = Append(@, l),
                                    !.working = @ \union {k \in {l} : Asks(k)}]
    /\ UNCHANGED <<status, pending, inflight, backlog, serving, answer, said>>

DaemonAnswers(l) ==
    /\ daemon.alive /\ l \in daemon.working
    /\ daemon' = [daemon EXCEPT !.working = @ \ {l}, !.out = Append(@, l)]
    /\ UNCHANGED <<status, pending, inflight, backlog, serving, answer, said>>

\* Killed, or stopped under the host: some of what it wrote last may arrive.
DaemonDies ==
    /\ daemon.alive
    /\ \E k \in 0..Len(daemon.out) :
          daemon' = [daemon EXCEPT !.alive = FALSE, !.in = <<>>, !.working = {},
                                   !.out = SubSeq(@, 1, k)]
    /\ UNCHANGED <<status, pending, inflight, backlog, serving, answer, said>>

Next ==
    \/ \E l \in Lines : Say(l) \/ ServeCall(l) \/ DaemonAnswers(l)
    \/ Attach \/ GiveUp \/ ServeBacklog \/ Relay \/ LoseDaemon \/ Exit
    \/ DaemonReads \/ DaemonDies

Spec == Init /\ [][Next]_vars

\* Connecting ends within its polling budget, socket events are handled, the engine gets to
\* each call, and a daemon that lives reads and answers.  One that hangs is killed by its
\* own watchdog.  Nothing is assumed of the host.
FairSpec ==
    /\ Spec
    /\ WF_vars(Attach \/ GiveUp) /\ WF_vars(ServeBacklog)
    /\ WF_vars(Relay) /\ WF_vars(LoseDaemon) /\ WF_vars(DaemonReads)
    /\ \A l \in Lines : WF_vars(ServeCall(l)) /\ WF_vars(DaemonAnswers(l))

----------------------------------------------------------------------------
(* Properties.                                                             *)

TypeOK ==
    /\ status \in {"connecting", "ready", "failed", "exited"}
    /\ pending \in Seq(Lines) /\ backlog \in Seq(Lines) /\ said \in Seq(Lines)
    /\ inflight \subseteq Lines /\ serving \subseteq Lines
    /\ daemon \in [alive : BOOLEAN, in : Seq(Lines), working : SUBSET Lines,
                   out : Seq(Lines), heard : Seq(Lines)]
    /\ answer \in [Lines -> {"none", "waiting", "daemon", "inProcess", "shutdown"}]

\* The daemon gets what the host says, in the host's order, none of it twice and none of it
\* skipped: the lines held back while connecting before those said after (proxy.ts:279-288,
\* 395).  The project to open is in the first of them.
DaemonHearsInOrder ==
    /\ daemon.alive => daemon.heard \o daemon.in = said
    /\ status = "connecting" => pending = said
    /\ IsPrefix(daemon.heard, said)

\* A request in the host's hands is answered, by the daemon or in process, whenever the
\* daemon fails to come or goes away, unless the host ends the session (#662; proxy.ts:228-231,
\* 376-392).
EveryRequestAnswered ==
    \A l \in Lines : answer[l] = "waiting" ~> answer[l] # "waiting"

\* The host sees a call service: each request is answered once, whoever answers it, and the
\* daemon's answer to the handshake never reaches a host that has had the proxy's
\* (proxy.ts:365-392).
Service == INSTANCE CallService WITH
    Calls <- {l \in Lines : Asks(l)},
    Answers <- {"daemon", "inProcess"},
    open <- {l \in Lines : answer[l] = "waiting"},
    answers <- [l \in {k \in Lines : Asks(k)} |->
                   IF answer[l] = "waiting" THEN "none" ELSE answer[l]],
    down <- status = "exited"

KeepsPromise == Service!Spec
==============================================================================
