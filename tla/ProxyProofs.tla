------------------------------ MODULE ProxyProofs ------------------------------
(* What TLAPS proves of the local-handshake proxy, for any lines of the host.     *)
EXTENDS Proxy, SequenceTheorems, TLAPS

----------------------------------------------------------------------------
(* Sequences without repetition, and their elements.                       *)

Distinct(s) == \A i, j \in 1..Len(s) : s[i] = s[j] => i = j

\* The empty sequence.
LEMMA EmptyFacts == Distinct(<<>>) /\ ToSet(<<>>) = {}
BY DEF Distinct, ToSet

\* What a sequence over S holds is in S.
LEMMA ElementsFacts ==
  ASSUME NEW S, NEW s \in Seq(S)
  PROVE  ToSet(s) \subseteq S
BY LenProperties, ElementOfSeq DEF ToSet

\* Taking the first line of a sequence without repetition.
LEMMA TailFacts ==
  ASSUME NEW S, NEW s \in Seq(S), s # <<>>
  PROVE  /\ Head(s) \in ToSet(s) /\ Head(s) \in S
         /\ Tail(s) \in Seq(S)
         /\ ToSet(Tail(s)) \subseteq ToSet(s)
         /\ Distinct(s) => Distinct(Tail(s)) /\ Head(s) \notin ToSet(Tail(s))
<1>1. Tail(s) \in Seq(S) /\ Len(Tail(s)) = Len(s) - 1 /\ Head(s) \in S
  BY HeadTailProperties
<1>2. \A i \in 1..Len(Tail(s)) : Tail(s)[i] = s[i + 1]
  BY HeadTailProperties
<1>3. Len(s) \in Nat \ {0} /\ Head(s) = s[1]
  BY EmptySeq
<1>4. DOMAIN s = 1..Len(s) /\ DOMAIN Tail(s) = 1..Len(Tail(s))
  BY <1>1, LenProperties
<1>. QED
  BY <1>1, <1>2, <1>3, <1>4 DEF ToSet, Distinct

\* A line put at the end of a sequence.
LEMMA AppendFacts ==
  ASSUME NEW S, NEW s \in Seq(S), NEW e \in S
  PROVE  /\ Append(s, e) \in Seq(S)
         /\ ToSet(Append(s, e)) = ToSet(s) \cup {e}
         /\ Distinct(s) /\ e \notin ToSet(s) => Distinct(Append(s, e))
<1>1. Append(s, e) \in Seq(S) /\ Len(Append(s, e)) = Len(s) + 1
  BY AppendProperties
<1>2. /\ \A i \in 1..Len(s) : Append(s, e)[i] = s[i]
      /\ Append(s, e)[Len(s) + 1] = e
  BY AppendProperties
<1>3. /\ Len(s) \in Nat
      /\ DOMAIN s = 1..Len(s) /\ DOMAIN Append(s, e) = 1..(Len(s) + 1)
  BY <1>1, LenProperties
<1>. QED
  BY <1>1, <1>2, <1>3 DEF ToSet, Distinct

\* The first k lines of a sequence.
LEMMA FrontFacts ==
  ASSUME NEW S, NEW s \in Seq(S), NEW k \in 0..Len(s)
  PROVE  /\ SubSeq(s, 1, k) \in Seq(S)
         /\ ToSet(SubSeq(s, 1, k)) \subseteq ToSet(s)
         /\ Distinct(s) => Distinct(SubSeq(s, 1, k))
<1>1. Len(s) \in Nat /\ DOMAIN s = 1..Len(s)
  BY LenProperties
<1>2. \A i \in 1..k : s[i] \in S
  BY <1>1, ElementOfSeq
<1>3. /\ SubSeq(s, 1, k) \in Seq(S) /\ Len(SubSeq(s, 1, k)) = k
      /\ \A i \in 1..k : SubSeq(s, 1, k)[i] = s[i]
  BY <1>1, <1>2, SubSeqProperties
<1>4. DOMAIN SubSeq(s, 1, k) = 1..k
  BY <1>3, LenProperties
<1>. QED
  BY <1>1, <1>3, <1>4 DEF ToSet, Distinct

\* What was passed on stays the same when a line is read: it moves from the socket to those
\* heard.
LEMMA HeardOn ==
  ASSUME NEW S, NEW s \in Seq(S), NEW t \in Seq(S), t # <<>>
  PROVE  Append(s, Head(t)) \o Tail(t) = s \o t
<1>1. Head(t) \in S /\ Tail(t) \in Seq(S)
  BY HeadTailProperties
<1>2. Append(s, Head(t)) = s \o <<Head(t)>> /\ <<Head(t)>> \in Seq(S)
  BY <1>1, AppendIsConcat
<1>3. t = <<Head(t)>> \o Tail(t)
  BY <1>1
<1>. QED
  BY <1>1, <1>2, <1>3, ConcatAssociative

\* A line said goes at the end of what is on its way.
LEMMA SaidOn ==
  ASSUME NEW S, NEW s \in Seq(S), NEW t \in Seq(S), NEW e \in S
  PROVE  s \o Append(t, e) = Append(s \o t, e)
<1>1. s \o t \in Seq(S) /\ <<e>> \in Seq(S)
  BY ConcatProperties
<1>. QED
  BY <1>1, AppendIsConcat, ConcatAssociative

\* The first part of a concatenation is a prefix of it.
LEMMA ConcatPrefix ==
  ASSUME NEW S, NEW s \in Seq(S), NEW t \in Seq(S)
  PROVE  IsPrefix(s, s \o t)
<1>1. Len(s) \in Nat /\ Len(t) \in Nat /\ Len(s \o t) = Len(s) + Len(t)
  BY LenProperties, ConcatProperties
<1>2. CASE Len(s) = 0
  BY <1>1, <1>2, SubSeqEmpty DEF IsPrefix
<1>3. CASE Len(s) > 0
  BY <1>1, <1>3, SubSeqOfConcat1 DEF IsPrefix
<1>. QED
  BY <1>1, <1>2, <1>3

\* A prefix stays one when the sequence grows.
LEMMA PrefixOn ==
  ASSUME NEW S, NEW s \in Seq(S), NEW t \in Seq(S), NEW e \in S, IsPrefix(s, t)
  PROVE  IsPrefix(s, Append(t, e))
<1>1. Len(s) \in Nat /\ Len(t) \in Nat /\ Len(Append(t, e)) = Len(t) + 1 /\ Len(s) <= Len(t)
  BY LenProperties, AppendProperties DEF IsPrefix
<1>2. CASE Len(s) = 0
  BY <1>1, <1>2, SubSeqEmpty DEF IsPrefix
<1>3. CASE Len(s) > 0
  <2>1. Append(t, e) = t \o <<e>> /\ <<e>> \in Seq(S)
    BY AppendIsConcat
  <2>2. SubSeq(Append(t, e), 1, Len(s)) = SubSeq(t, 1, Len(s))
    BY <1>1, <1>3, <2>1, SubSeqOfConcat1
  <2>. QED
    BY <1>1, <2>2 DEF IsPrefix
<1>. QED
  BY <1>1, <1>2, <1>3

----------------------------------------------------------------------------
(* Where the lines are, and which requests are owed an answer.             *)

\* What is held back, passed on or served depends on the status; only a proxy that is
\* ready has a daemon alive, and one that is dead has nothing to read or to do.
Placed ==
    /\ status # "connecting" => pending = <<>>
    /\ status # "ready" => inflight = {} /\ ~daemon.alive
    /\ status # "failed" => backlog = <<>> /\ serving = {}
    /\ ~daemon.alive => daemon.in = <<>> /\ daemon.working = {}
    /\ status = "connecting" => daemon.out = <<>> /\ daemon.heard = <<>>

\* A line the host has said is in one place at most on its way through the daemon.
OnTheWay ==
    /\ Distinct(pending) /\ Distinct(backlog) /\ Distinct(daemon.in) /\ Distinct(daemon.out)
    /\ ToSet(pending) \cup ToSet(backlog) \subseteq ToSet(said)
    /\ ToSet(daemon.in) \cup daemon.working \cup ToSet(daemon.out) \subseteq ToSet(said)
    /\ ToSet(daemon.in) \cap daemon.working = {}
    /\ ToSet(daemon.in) \cap ToSet(daemon.out) = {}
    /\ daemon.working \cap ToSet(daemon.out) = {}
    /\ \A l \in daemon.working \cup ToSet(daemon.out) : Asks(l)

\* The requests that are held back, in flight or served wait for their answer, and those
\* on their way through the daemon are in flight.
Owed ==
    /\ \A l \in Lines \ ToSet(said) : answer[l] = "none"
    /\ \A l \in inflight \cup serving : answer[l] = "waiting" /\ Tracked(l)
    /\ \A l \in serving : Kind[l] = "call"
    /\ \A l \in ToSet(pending) \cup ToSet(backlog) : Tracked(l) => answer[l] = "waiting"
    /\ status = "ready" =>
          \A l \in ToSet(daemon.in) \cup daemon.working \cup ToSet(daemon.out) :
              Tracked(l) => l \in inflight
    /\ ToSet(backlog) \cap serving = {}

\* Inductive: no answer is the second one to its request, which is what TypeOK leaves out
\* of the range of "answer".
OneAnswerEach == TypeOK /\ Placed /\ OnTheWay /\ Owed

\* Lines that had no answer yet get exactly the one they are told.
LEMMA ToldOnce ==
  ASSUME NEW ans, NEW L, NEW a, \A l \in L : ans[l] \in {"none", "waiting"}
  PROVE  Told(ans, L, a) = [l \in Lines |-> IF l \in L THEN a ELSE ans[l]]
BY DEF Told

\* The host says a line (proxy.ts:279-326).
LEMMA SayStep ==
  ASSUME OneAnswerEach, NEW l \in Lines, Say(l)
  PROVE  OneAnswerEach'
<1>. USE ProxyAssumption
<1>1. /\ Append(said, l) \in Seq(Lines)
      /\ ToSet(Append(said, l)) = ToSet(said) \cup {l}
  BY AppendFacts DEF OneAnswerEach, TypeOK
<1>2. answer[l] = "none" /\ l \notin ToSet(said) /\ said' = Append(said, l)
  BY DEF OneAnswerEach, Owed, Say
<1>3. l \notin inflight \cup serving /\ l \notin ToSet(pending) \cup ToSet(backlog)
  BY <1>2 DEF OneAnswerEach, Owed, OnTheWay
<1>4. l \notin ToSet(daemon.in) \cup daemon.working \cup ToSet(daemon.out)
  BY <1>2 DEF OneAnswerEach, OnTheWay
<1>9. ToSet(said) \subseteq Lines
  BY ElementsFacts DEF OneAnswerEach, TypeOK
<1>. DEFINE asked == CASE Kind[l] = "note" -> answer
                       [] Kind[l] = "initialize" -> Told(answer, {l}, "inProcess")
                       [] OTHER -> [answer EXCEPT ![l] = "waiting"]
<1>5. /\ asked \in [Lines -> {"none", "waiting", "daemon", "inProcess", "shutdown"}]
      /\ \A k \in Lines \ {l} : asked[k] = answer[k]
      /\ Tracked(l) => asked[l] = "waiting"
      /\ ~Tracked(l) => asked[l] \in {"none", "inProcess"}
  <2>1. Told(answer, {l}, "inProcess") = [k \in Lines |-> IF k \in {l} THEN "inProcess" ELSE answer[k]]
    BY <1>2, ToldOnce
  <2>. QED
    BY <2>1, <1>2 DEF OneAnswerEach, TypeOK, Tracked, Asks
<1>6. CASE status = "connecting"
  <2>1. /\ pending' = Append(pending, l) /\ answer' = asked
        /\ UNCHANGED <<status, inflight, daemon, serving, backlog>>
    BY <1>6 DEF Say
  <2>2. /\ pending' \in Seq(Lines) /\ ToSet(pending') = ToSet(pending) \cup {l}
        /\ Distinct(pending')
    BY <2>1, <1>3, AppendFacts DEF OneAnswerEach, TypeOK, OnTheWay
  <2>3. TypeOK' /\ Placed'
    BY <2>1, <2>2, <1>1, <1>2, <1>5, <1>6 DEF OneAnswerEach, TypeOK, Placed
  <2>4. OnTheWay'
    BY <2>1, <2>2, <1>1, <1>2 DEF OneAnswerEach, OnTheWay
  <2>5. Owed'
    <3>1. backlog = <<>> /\ inflight = {} /\ serving = {}
      BY <1>6 DEF OneAnswerEach, Placed
    <3>2. \A k \in ToSet(pending) : Tracked(k) => asked[k] = "waiting"
      BY <1>5, <1>9 DEF OneAnswerEach, OnTheWay, Owed
    <3>. QED
      BY <2>1, <2>2, <3>1, <3>2, <1>1, <1>2, <1>5, <1>6, EmptyFacts DEF OneAnswerEach, Owed
  <2>. QED
    BY <2>3, <2>4, <2>5 DEF OneAnswerEach
<1>7. CASE status = "ready"
  <2>1. /\ inflight' = inflight \cup {k \in {l} : Tracked(k)}
        /\ daemon' = Written(daemon, <<l>>) /\ answer' = asked
        /\ UNCHANGED <<status, pending, serving, backlog>>
    BY <1>7 DEF Say
  <2>2. /\ Append(daemon.in, l) \in Seq(Lines)
        /\ ToSet(Append(daemon.in, l)) = ToSet(daemon.in) \cup {l}
        /\ Distinct(Append(daemon.in, l))
        /\ Append(daemon.in, l) = daemon.in \o <<l>>
    BY <1>4, AppendFacts, AppendIsConcat DEF OneAnswerEach, TypeOK, OnTheWay
  <2>3. /\ daemon' \in [alive : BOOLEAN, in : Seq(Lines), working : SUBSET Lines,
                        out : Seq(Lines), heard : Seq(Lines)]
        /\ daemon'.alive = daemon.alive /\ daemon'.working = daemon.working
        /\ daemon'.out = daemon.out /\ daemon'.heard = daemon.heard
        /\ daemon.alive => daemon'.in = Append(daemon.in, l)
        /\ ~daemon.alive => daemon'.in = daemon.in
    BY <2>1, <2>2 DEF OneAnswerEach, TypeOK, Written
  <2>. HIDE DEF asked
  <2>4. ToSet(daemon'.in) \subseteq ToSet(daemon.in) \cup {l} /\ Distinct(daemon'.in)
    BY <2>2, <2>3 DEF OneAnswerEach, OnTheWay
  <2>5. TypeOK' /\ Placed'
    BY <2>1, <2>3, <1>1, <1>2, <1>5, <1>7 DEF OneAnswerEach, TypeOK, Placed
  <2>6. OnTheWay'
    <3>1. Distinct(daemon'.in) /\ Distinct(daemon'.out)
      BY <2>3, <2>4 DEF OneAnswerEach, OnTheWay
    <3>2. /\ ToSet(pending) \cup ToSet(backlog) \subseteq ToSet(said')
          /\ ToSet(daemon'.in) \cup daemon'.working \cup ToSet(daemon'.out) \subseteq ToSet(said')
      BY <2>3, <2>4, <1>1, <1>2 DEF OneAnswerEach, OnTheWay
    <3>3. /\ ToSet(daemon'.in) \cap daemon'.working = {}
          /\ ToSet(daemon'.in) \cap ToSet(daemon'.out) = {}
      BY <2>3, <2>4, <1>4 DEF OneAnswerEach, OnTheWay
    <3>. QED
      BY <2>1, <2>3, <3>1, <3>2, <3>3 DEF OneAnswerEach, OnTheWay
  <2>7. Owed'
    <3>1. \A k \in Lines \ ToSet(said') : asked[k] = "none"
      BY <1>1, <1>2, <1>5 DEF OneAnswerEach, Owed
    <3>2. \A k \in inflight' : asked[k] = "waiting" /\ Tracked(k)
      BY <2>1, <1>3, <1>5 DEF OneAnswerEach, TypeOK, Owed
    <3>3. pending = <<>> /\ backlog = <<>> /\ serving = {}
      BY <1>7 DEF OneAnswerEach, Placed
    <3>4. \A k \in ToSet(daemon'.in) \cup daemon'.working \cup ToSet(daemon'.out) :
             Tracked(k) => k \in inflight'
      BY <2>1, <2>3, <2>4, <1>7 DEF OneAnswerEach, Owed
    <3>. QED
      BY <2>1, <3>1, <3>2, <3>3, <3>4, EmptyFacts DEF Owed
  <2>. QED
    BY <2>5, <2>6, <2>7 DEF OneAnswerEach
<1>8. CASE status = "failed"
  <2>1. /\ answer' = AnsweredAtOnce(asked, {l}) /\ serving' = serving \cup CallsIn({l})
        /\ UNCHANGED <<status, pending, inflight, daemon, backlog>>
    BY <1>8 DEF Say
  <2>2. AnsweredAtOnce(asked, {l}) =
           [k \in Lines |-> IF k = l /\ Kind[l] = "other" THEN "inProcess" ELSE asked[k]]
    <3>. DEFINE L == {j \in {l} : Kind[j] = "other"}
    <3>1. \A k \in L : asked[k] \in {"none", "waiting"}
      BY <1>5 DEF Tracked, Asks
    <3>2. AnsweredAtOnce(asked, {l}) = Told(asked, L, "inProcess")
      BY DEF AnsweredAtOnce
    <3>3. \A k \in Lines : k \in L <=> k = l /\ Kind[l] = "other"
      OBVIOUS
    <3>. HIDE DEF L, asked
    <3>4. Told(asked, L, "inProcess") = [k \in Lines |-> IF k \in L THEN "inProcess" ELSE asked[k]]
      BY <3>1, ToldOnce
    <3>. QED
      BY <3>2, <3>3, <3>4
  <2>3. CallsIn({l}) = IF Kind[l] = "call" THEN {l} ELSE {}
    BY DEF CallsIn
  <2>. HIDE DEF asked
  <2>4. TypeOK' /\ Placed'
    <3>1. answer' \in [Lines -> {"none", "waiting", "daemon", "inProcess", "shutdown"}]
      BY <2>1, <2>2, <1>5
    <3>2. serving' \subseteq Lines
      BY <2>1, <2>3 DEF OneAnswerEach, TypeOK
    <3>. QED
      BY <2>1, <3>1, <3>2, <1>1, <1>2, <1>8 DEF OneAnswerEach, TypeOK, Placed
  <2>5. OnTheWay'
    BY <2>1, <1>1, <1>2 DEF OneAnswerEach, OnTheWay
  <2>6. Owed'
    <3>1. \A k \in Lines \ {l} : answer'[k] = answer[k]
      BY <2>1, <2>2, <1>5
    <3>2. Kind[l] = "call" => answer'[l] = "waiting" /\ Tracked(l)
      BY <2>1, <2>2, <1>5 DEF Tracked, Asks
    <3>3. \A k \in ToSet(backlog) : k \in Lines \ {l}
      BY <1>2, <1>9 DEF OneAnswerEach, OnTheWay
    <3>4. pending = <<>> /\ inflight = {}
      BY <1>8 DEF OneAnswerEach, Placed
    <3>5. \A k \in Lines \ ToSet(said') : answer'[k] = "none"
      BY <3>1, <1>1, <1>2 DEF OneAnswerEach, Owed
    <3>6. \A k \in serving' : answer'[k] = "waiting" /\ Tracked(k) /\ Kind[k] = "call"
      <4>1. \A k \in serving : k \in Lines \ {l}
        BY <1>3 DEF OneAnswerEach, TypeOK
      <4>2. \A k \in serving : answer'[k] = "waiting" /\ Tracked(k) /\ Kind[k] = "call"
        BY <4>1, <3>1 DEF OneAnswerEach, Owed
      <4>. QED
        BY <2>1, <2>3, <3>2, <4>2
    <3>7. \A k \in ToSet(backlog) : Tracked(k) => answer'[k] = "waiting"
      BY <3>1, <3>3 DEF OneAnswerEach, Owed
    <3>8. ToSet(backlog) \cap serving' = {}
      BY <2>1, <2>3, <3>3 DEF OneAnswerEach, Owed
    <3>. QED
      BY <2>1, <3>4, <3>5, <3>6, <3>7, <3>8, <1>8, EmptyFacts DEF Owed
  <2>. QED
    BY <2>4, <2>5, <2>6 DEF OneAnswerEach
<1>. QED
  BY <1>6, <1>7, <1>8 DEF Say

\* The daemon is reached (proxy.ts:345-356, 393-396).
LEMMA AttachStep == OneAnswerEach /\ Attach => OneAnswerEach'
<1>. SUFFICES ASSUME OneAnswerEach, Attach PROVE OneAnswerEach'
  OBVIOUS
<1>. PICK alive \in BOOLEAN : daemon' = Written([daemon EXCEPT !.alive = alive], pending)
  BY DEF Attach
<1>1. /\ status = "connecting" /\ status' = "ready" /\ pending' = <<>>
      /\ inflight' = {l \in ToSet(pending) : Tracked(l)}
      /\ UNCHANGED <<backlog, serving, answer, said>>
  BY DEF Attach
<1>2. /\ daemon.in = <<>> /\ daemon.working = {} /\ daemon.out = <<>> /\ daemon.heard = <<>>
      /\ backlog = <<>> /\ serving = {} /\ inflight = {}
  BY <1>1 DEF OneAnswerEach, Placed
<1>3. daemon.in \o pending = pending
  BY <1>2, ConcatEmptySeq DEF OneAnswerEach, TypeOK
<1>4. daemon' = [daemon EXCEPT !.alive = alive, !.in = IF alive THEN pending ELSE <<>>]
  BY <1>2, <1>3 DEF Written, OneAnswerEach, TypeOK
<1>5. /\ daemon' \in [alive : BOOLEAN, in : Seq(Lines), working : SUBSET Lines,
                      out : Seq(Lines), heard : Seq(Lines)]
      /\ daemon'.in = (IF alive THEN pending ELSE <<>>) /\ daemon'.alive = alive
      /\ daemon'.working = {} /\ daemon'.out = <<>>
  BY <1>2, <1>4 DEF OneAnswerEach, TypeOK
<1>6. ToSet(pending) \subseteq ToSet(said) /\ ToSet(said) \subseteq Lines
  BY ElementsFacts DEF OneAnswerEach, OnTheWay, TypeOK
<1>7. ToSet(daemon'.in) \subseteq ToSet(pending) /\ Distinct(daemon'.in)
  BY <1>5, EmptyFacts DEF OneAnswerEach, OnTheWay
<1>8. TypeOK' /\ Placed'
  BY <1>1, <1>2, <1>5, <1>6, EmptySeq DEF OneAnswerEach, TypeOK, Placed
<1>9. OnTheWay'
  BY <1>1, <1>2, <1>5, <1>6, <1>7, EmptyFacts DEF OneAnswerEach, OnTheWay
<1>10. Owed'
  BY <1>1, <1>2, <1>5, <1>7, EmptyFacts DEF OneAnswerEach, Owed
<1>. QED
  BY <1>8, <1>9, <1>10 DEF OneAnswerEach

\* The daemon cannot be reached (proxy.ts:397-400).
LEMMA GiveUpStep == OneAnswerEach /\ GiveUp => OneAnswerEach'
<1>. SUFFICES ASSUME OneAnswerEach, GiveUp PROVE OneAnswerEach'
  OBVIOUS
<1>1. TypeOK' /\ Placed'
  BY EmptySeq DEF GiveUp, OneAnswerEach, TypeOK, Placed
<1>2. OnTheWay'
  BY EmptyFacts DEF GiveUp, OneAnswerEach, OnTheWay
<1>3. Owed'
  BY EmptyFacts DEF GiveUp, OneAnswerEach, Owed, Placed
<1>. QED
  BY <1>1, <1>2, <1>3 DEF OneAnswerEach

\* What the host is told for the next line of the backlog.
LEMMA BacklogAnswer ==
  ASSUME OneAnswerEach, ServeBacklog
  PROVE  /\ Head(backlog) \in ToSet(backlog) /\ Head(backlog) \in Lines
         /\ answer' = [k \in Lines |-> IF k = Head(backlog) /\ Tracked(k) THEN "inProcess"
                                       ELSE answer[k]]
<1>. DEFINE l == Head(backlog)
            C == {j \in {l} : Kind[j] = "call"}
            O == {j \in {l} : Kind[j] = "other"}
            ans == [k \in Lines |-> IF k \in C THEN "inProcess" ELSE answer[k]]
<1>1. l \in ToSet(backlog) /\ l \in Lines
  BY TailFacts DEF OneAnswerEach, TypeOK, ServeBacklog
<1>2. Tracked(l) <=> Kind[l] \in {"call", "other"}
  BY <1>1, ProxyAssumption DEF Tracked, Asks
<1>3. Tracked(l) => answer[l] = "waiting"
  BY <1>1 DEF OneAnswerEach, Owed
<1>4. answer' = Told(Told(answer, C, "inProcess"), O, "inProcess")
  BY DEF ServeBacklog, AnsweredAtOnce, CallsIn
<1>5. Told(answer, C, "inProcess") = ans
  <2>1. \A k \in C : answer[k] \in {"none", "waiting"}
    BY <1>2, <1>3
  <2>. HIDE DEF C
  <2>. QED
    BY <2>1, ToldOnce
<1>6. Told(ans, O, "inProcess") = [k \in Lines |-> IF k \in O THEN "inProcess" ELSE ans[k]]
  <2>1. \A k \in O : ans[k] \in {"none", "waiting"}
    BY <1>1, <1>2, <1>3
  <2>. HIDE DEF O, ans
  <2>. QED
    BY <2>1, ToldOnce
<1>. QED
  BY <1>1, <1>2, <1>4, <1>5, <1>6

\* The next line held back is served in process (proxy.ts:400-402).
LEMMA ServeBacklogStep == OneAnswerEach /\ ServeBacklog => OneAnswerEach'
<1>. SUFFICES ASSUME OneAnswerEach, ServeBacklog PROVE OneAnswerEach'
  OBVIOUS
<1>. DEFINE l == Head(backlog)
<1>1. /\ backlog' = Tail(backlog) /\ backlog # <<>>
      /\ UNCHANGED <<status, pending, inflight, daemon, serving, said>>
  BY DEF ServeBacklog
<1>2. /\ Tail(backlog) \in Seq(Lines) /\ ToSet(Tail(backlog)) \subseteq ToSet(backlog)
      /\ Distinct(Tail(backlog)) /\ l \notin ToSet(Tail(backlog))
  BY <1>1, TailFacts DEF OneAnswerEach, TypeOK, OnTheWay
<1>3. /\ l \in ToSet(backlog) /\ l \in Lines
      /\ answer' = [k \in Lines |-> IF k = l /\ Tracked(k) THEN "inProcess" ELSE answer[k]]
  BY BacklogAnswer
<1>. HIDE DEF l
<1>4. TypeOK' /\ Placed'
  BY <1>1, <1>2, <1>3 DEF OneAnswerEach, TypeOK, Placed
<1>5. OnTheWay'
  BY <1>1, <1>2 DEF OneAnswerEach, OnTheWay
<1>6. Owed'
  <2>1. ToSet(backlog) \subseteq Lines /\ ToSet(backlog) \subseteq ToSet(said)
    BY ElementsFacts DEF OneAnswerEach, TypeOK, OnTheWay
  <2>2. \A k \in Lines \ {l} : answer'[k] = answer[k]
    BY <1>3
  <2>3. pending = <<>> /\ inflight = {} /\ status # "ready"
    BY <1>1 DEF OneAnswerEach, Placed
  <2>4. l \notin serving /\ serving \subseteq Lines
    BY <1>3 DEF OneAnswerEach, Owed, TypeOK
  <2>. QED
    BY <1>1, <1>2, <1>3, <2>1, <2>2, <2>3, <2>4, EmptyFacts DEF OneAnswerEach, Owed
<1>. QED
  BY <1>4, <1>5, <1>6 DEF OneAnswerEach

\* A call served in process is answered.
LEMMA ServeCallStep ==
  ASSUME OneAnswerEach, NEW l \in Lines, ServeCall(l)
  PROVE  OneAnswerEach'
<1>1. /\ l \in serving /\ serving' = serving \ {l}
      /\ UNCHANGED <<status, pending, inflight, daemon, backlog, said>>
  BY DEF ServeCall
<1>2. answer[l] = "waiting"
  BY <1>1 DEF OneAnswerEach, Owed
<1>3. answer' = [k \in Lines |-> IF k \in {l} THEN "inProcess" ELSE answer[k]]
  BY <1>2, ToldOnce DEF ServeCall
<1>4. TypeOK' /\ Placed'
  BY <1>1, <1>3 DEF OneAnswerEach, TypeOK, Placed
<1>5. OnTheWay'
  BY <1>1 DEF OneAnswerEach, OnTheWay
<1>6. Owed'
  <2>1. pending = <<>> /\ inflight = {} /\ status # "ready"
    BY <1>1 DEF OneAnswerEach, Placed
  <2>2. ToSet(backlog) \subseteq Lines \ {l}
    BY <1>1, ElementsFacts DEF OneAnswerEach, TypeOK, Owed
  <2>3. serving \subseteq Lines
    BY DEF OneAnswerEach, TypeOK
  <2>. QED
    BY <1>1, <1>2, <1>3, <2>1, <2>2, <2>3, EmptyFacts DEF OneAnswerEach, Owed
<1>. QED
  BY <1>4, <1>5, <1>6 DEF OneAnswerEach

\* What the host is told of the next line of the daemon, which it waits for.
LEMMA RelayAnswer ==
  ASSUME OneAnswerEach, Relay
  PROVE  /\ Head(daemon.out) \in ToSet(daemon.out) /\ Head(daemon.out) \in Lines
         /\ Tracked(Head(daemon.out)) =>
               Head(daemon.out) \in inflight /\ answer[Head(daemon.out)] = "waiting"
         /\ answer' = [k \in Lines |-> IF k = Head(daemon.out) /\ Tracked(k) THEN "daemon"
                                       ELSE answer[k]]
<1>. DEFINE l == Head(daemon.out)
<1>1. l \in ToSet(daemon.out) /\ l \in Lines
  BY TailFacts DEF OneAnswerEach, TypeOK, Relay
<1>2. Tracked(l) <=> Kind[l] # "initialize"
  BY <1>1 DEF OneAnswerEach, OnTheWay, Tracked
<1>3. Tracked(l) => l \in inflight /\ answer[l] = "waiting"
  BY <1>1 DEF OneAnswerEach, Owed, Relay
<1>4. answer' = IF Kind[l] = "initialize" THEN answer ELSE Told(answer, {l}, "daemon")
  BY DEF Relay
<1>5. CASE Kind[l] = "initialize"
  BY <1>1, <1>2, <1>4, <1>5 DEF OneAnswerEach, TypeOK
<1>6. CASE Kind[l] # "initialize"
  <2>. HIDE DEF l
  <2>1. Told(answer, {l}, "daemon") = [k \in Lines |-> IF k \in {l} THEN "daemon" ELSE answer[k]]
    BY <1>2, <1>3, <1>6, ToldOnce
  <2>2. answer' = [k \in Lines |-> IF k = l /\ Tracked(k) THEN "daemon" ELSE answer[k]]
    BY <1>2, <1>4, <1>6, <2>1
  <2>. QED
    BY <1>1, <1>3, <2>2 DEF l
<1>. QED
  BY <1>5, <1>6

\* The next line of the daemon is passed on (proxy.ts:358-375).
LEMMA RelayStep == OneAnswerEach /\ Relay => OneAnswerEach'
<1>. SUFFICES ASSUME OneAnswerEach, Relay PROVE OneAnswerEach'
  OBVIOUS
<1>. DEFINE l == Head(daemon.out)
<1>1. /\ status = "ready" /\ inflight' = inflight \ {l} /\ daemon.out # <<>>
      /\ daemon' = [daemon EXCEPT !.out = Tail(@)]
      /\ UNCHANGED <<status, pending, backlog, serving, said>>
  BY DEF Relay
<1>2. /\ Tail(daemon.out) \in Seq(Lines) /\ ToSet(Tail(daemon.out)) \subseteq ToSet(daemon.out)
      /\ Distinct(Tail(daemon.out)) /\ l \notin ToSet(Tail(daemon.out))
  BY <1>1, TailFacts DEF OneAnswerEach, TypeOK, OnTheWay
<1>3. /\ l \in ToSet(daemon.out) /\ l \in Lines
      /\ Tracked(l) => l \in inflight /\ answer[l] = "waiting"
      /\ answer' = [k \in Lines |-> IF k = l /\ Tracked(k) THEN "daemon" ELSE answer[k]]
  BY RelayAnswer
<1>. HIDE DEF l
<1>4. /\ daemon' \in [alive : BOOLEAN, in : Seq(Lines), working : SUBSET Lines,
                      out : Seq(Lines), heard : Seq(Lines)]
      /\ daemon'.alive = daemon.alive /\ daemon'.in = daemon.in
      /\ daemon'.working = daemon.working /\ daemon'.out = Tail(daemon.out)
      /\ daemon'.heard = daemon.heard
  BY <1>1, <1>2 DEF OneAnswerEach, TypeOK
<1>5. TypeOK' /\ Placed'
  BY <1>1, <1>3, <1>4 DEF OneAnswerEach, TypeOK, Placed
<1>6. OnTheWay'
  BY <1>1, <1>2, <1>4 DEF OneAnswerEach, OnTheWay
<1>7. Owed'
  <2>1. pending = <<>> /\ backlog = <<>> /\ serving = {} /\ inflight \subseteq Lines
    BY <1>1 DEF OneAnswerEach, TypeOK, Placed
  <2>2. l \in ToSet(said) /\ l \notin ToSet(daemon.in) /\ l \notin daemon.working
    BY <1>3 DEF OneAnswerEach, OnTheWay
  <2>3. \A k \in Lines \ {l} : answer'[k] = answer[k]
    BY <1>3
  <2>4. \A k \in Lines \ ToSet(said) : answer'[k] = "none"
    BY <2>2, <2>3 DEF OneAnswerEach, Owed
  <2>5. \A k \in inflight' : answer'[k] = "waiting" /\ Tracked(k)
    BY <1>1, <2>1, <2>3 DEF OneAnswerEach, Owed
  <2>6. \A k \in ToSet(daemon'.in) \cup daemon'.working \cup ToSet(daemon'.out) :
           Tracked(k) => k \in inflight'
    BY <1>1, <1>2, <1>4, <2>2 DEF OneAnswerEach, Owed
  <2>. QED
    BY <1>1, <2>1, <2>4, <2>5, <2>6, EmptyFacts DEF Owed
<1>. QED
  BY <1>5, <1>6, <1>7 DEF OneAnswerEach

\* What the host is told when the daemon is lost.
LEMMA LossAnswer ==
  ASSUME OneAnswerEach, LoseDaemon
  PROVE  answer' = [k \in Lines |-> IF k \in inflight /\ Kind[k] = "other" THEN "inProcess"
                                    ELSE answer[k]]
<1>. DEFINE O == {k \in inflight : Kind[k] = "other"}
<1>1. answer' = Told(answer, O, "inProcess")
  BY DEF LoseDaemon, AnsweredAtOnce
<1>2. \A k \in O : answer[k] \in {"none", "waiting"}
  BY DEF OneAnswerEach, Owed
<1>3. \A k \in Lines : k \in O <=> k \in inflight /\ Kind[k] = "other"
  OBVIOUS
<1>. HIDE DEF O
<1>4. Told(answer, O, "inProcess") = [k \in Lines |-> IF k \in O THEN "inProcess" ELSE answer[k]]
  BY <1>2, ToldOnce
<1>. QED
  BY <1>1, <1>3, <1>4

\* The loss of the daemon is noticed (proxy.ts:376-392).
LEMMA LoseDaemonStep == OneAnswerEach /\ LoseDaemon => OneAnswerEach'
<1>. SUFFICES ASSUME OneAnswerEach, LoseDaemon PROVE OneAnswerEach'
  OBVIOUS
<1>1. /\ status = "ready" /\ ~daemon.alive /\ status' = "failed" /\ inflight' = {}
      /\ daemon' = [daemon EXCEPT !.out = <<>>]
      /\ UNCHANGED <<pending, backlog, said>>
  BY DEF LoseDaemon
<1>2. pending = <<>> /\ backlog = <<>> /\ serving = {} /\ daemon.in = <<>> /\ daemon.working = {}
  BY <1>1 DEF OneAnswerEach, Placed
<1>3. serving' = {k \in inflight : Kind[k] = "call"}
  BY <1>2 DEF LoseDaemon, CallsIn
<1>4. answer' = [k \in Lines |-> IF k \in inflight /\ Kind[k] = "other" THEN "inProcess" ELSE answer[k]]
  BY LossAnswer
<1>5. /\ daemon' \in [alive : BOOLEAN, in : Seq(Lines), working : SUBSET Lines,
                      out : Seq(Lines), heard : Seq(Lines)]
      /\ daemon'.alive = daemon.alive /\ daemon'.in = <<>> /\ daemon'.working = {}
      /\ daemon'.out = <<>>
  BY <1>1, <1>2, EmptySeq DEF OneAnswerEach, TypeOK
<1>6. inflight \subseteq Lines /\ \A k \in inflight : answer[k] = "waiting" /\ Tracked(k)
  BY DEF OneAnswerEach, TypeOK, Owed
<1>7. TypeOK' /\ Placed'
  BY <1>1, <1>2, <1>3, <1>4, <1>5, <1>6 DEF OneAnswerEach, TypeOK, Placed
<1>8. OnTheWay'
  BY <1>1, <1>2, <1>5, EmptyFacts DEF OneAnswerEach, OnTheWay
<1>9. Owed'
  <2>1. \A k \in Lines \ ToSet(said) : answer'[k] = "none"
    BY <1>4, <1>6 DEF OneAnswerEach, Owed
  <2>2. \A k \in serving' : answer'[k] = "waiting" /\ Tracked(k) /\ Kind[k] = "call"
    BY <1>3, <1>4, <1>6
  <2>. QED
    BY <1>1, <1>2, <2>1, <2>2, EmptyFacts DEF Owed
<1>. QED
  BY <1>7, <1>8, <1>9 DEF OneAnswerEach

\* The host ends the session.
LEMMA ExitStep == OneAnswerEach /\ Exit => OneAnswerEach'
<1>. SUFFICES ASSUME OneAnswerEach, Exit PROVE OneAnswerEach'
  OBVIOUS
<1>1. /\ status' = "exited" /\ pending' = <<>> /\ backlog' = <<>>
      /\ inflight' = {} /\ serving' = {} /\ said' = said
      /\ answer' = [l \in Lines |-> IF answer[l] = "waiting" THEN "shutdown" ELSE answer[l]]
  BY DEF Exit
<1>2. /\ daemon' \in [alive : BOOLEAN, in : Seq(Lines), working : SUBSET Lines,
                      out : Seq(Lines), heard : Seq(Lines)]
      /\ ~daemon'.alive /\ daemon'.in = <<>> /\ daemon'.working = {} /\ daemon'.out = <<>>
  BY EmptySeq DEF Exit, OneAnswerEach, TypeOK
<1>3. TypeOK' /\ Placed'
  BY <1>1, <1>2, EmptySeq DEF OneAnswerEach, TypeOK, Placed
<1>4. OnTheWay'
  BY <1>1, <1>2, EmptyFacts DEF OneAnswerEach, OnTheWay
<1>5. Owed'
  BY <1>1, <1>2, EmptyFacts DEF OneAnswerEach, Owed
<1>. QED
  BY <1>3, <1>4, <1>5 DEF OneAnswerEach

\* The daemon reads its next line.
LEMMA DaemonReadsStep == OneAnswerEach /\ DaemonReads => OneAnswerEach'
<1>. SUFFICES ASSUME OneAnswerEach, DaemonReads PROVE OneAnswerEach'
  OBVIOUS
<1>. DEFINE l == Head(daemon.in)
<1>1. /\ daemon.alive /\ daemon.in # <<>>
      /\ daemon' = [daemon EXCEPT !.in = Tail(@), !.heard = Append(@, l),
                                  !.working = @ \union {k \in {l} : Asks(k)}]
      /\ UNCHANGED <<status, pending, inflight, backlog, serving, answer, said>>
  BY DEF DaemonReads
<1>2. /\ Tail(daemon.in) \in Seq(Lines) /\ ToSet(Tail(daemon.in)) \subseteq ToSet(daemon.in)
      /\ Distinct(Tail(daemon.in)) /\ l \notin ToSet(Tail(daemon.in))
      /\ l \in ToSet(daemon.in) /\ l \in Lines
  BY <1>1, TailFacts DEF OneAnswerEach, TypeOK, OnTheWay
<1>3. Append(daemon.heard, l) \in Seq(Lines)
  BY <1>2, AppendFacts DEF OneAnswerEach, TypeOK
<1>. HIDE DEF l
<1>4. /\ daemon' \in [alive : BOOLEAN, in : Seq(Lines), working : SUBSET Lines,
                      out : Seq(Lines), heard : Seq(Lines)]
      /\ daemon'.alive = daemon.alive /\ daemon'.in = Tail(daemon.in)
      /\ daemon'.out = daemon.out
      /\ daemon'.working = daemon.working \cup {k \in {l} : Asks(k)}
  BY <1>1, <1>2, <1>3 DEF OneAnswerEach, TypeOK
<1>5. TypeOK' /\ Placed'
  BY <1>1, <1>4 DEF OneAnswerEach, TypeOK, Placed
<1>6. OnTheWay'
  <2>1. l \notin daemon.working /\ l \notin ToSet(daemon.out) /\ l \in ToSet(said)
    BY <1>2 DEF OneAnswerEach, OnTheWay
  <2>2. /\ ToSet(daemon'.in) \cap daemon'.working = {}
        /\ daemon'.working \cap ToSet(daemon'.out) = {}
        /\ \A k \in daemon'.working : Asks(k)
    BY <1>2, <1>4, <2>1 DEF OneAnswerEach, OnTheWay
  <2>3. ToSet(daemon'.in) \cup daemon'.working \cup ToSet(daemon'.out) \subseteq ToSet(said)
    BY <1>2, <1>4, <2>1 DEF OneAnswerEach, OnTheWay
  <2>. QED
    BY <1>1, <1>2, <1>4, <2>2, <2>3 DEF OneAnswerEach, OnTheWay
<1>7. Owed'
  <2>1. status = "ready" =>
           \A k \in ToSet(daemon'.in) \cup daemon'.working \cup ToSet(daemon'.out) :
               Tracked(k) => k \in inflight
    BY <1>2, <1>4 DEF OneAnswerEach, Owed
  <2>. QED
    BY <1>1, <2>1 DEF OneAnswerEach, Owed
<1>. QED
  BY <1>5, <1>6, <1>7 DEF OneAnswerEach

\* The daemon answers a request it works on.
LEMMA DaemonAnswersStep ==
  ASSUME OneAnswerEach, NEW l \in Lines, DaemonAnswers(l)
  PROVE  OneAnswerEach'
<1>1. /\ daemon.alive /\ l \in daemon.working
      /\ daemon' = [daemon EXCEPT !.working = @ \ {l}, !.out = Append(@, l)]
      /\ UNCHANGED <<status, pending, inflight, backlog, serving, answer, said>>
  BY DEF DaemonAnswers
<1>2. /\ Append(daemon.out, l) \in Seq(Lines)
      /\ ToSet(Append(daemon.out, l)) = ToSet(daemon.out) \cup {l}
      /\ Distinct(Append(daemon.out, l))
  <2>1. l \notin ToSet(daemon.out)
    BY <1>1 DEF OneAnswerEach, OnTheWay
  <2>. QED
    BY <2>1, AppendFacts DEF OneAnswerEach, TypeOK, OnTheWay
<1>3. /\ daemon' \in [alive : BOOLEAN, in : Seq(Lines), working : SUBSET Lines,
                      out : Seq(Lines), heard : Seq(Lines)]
      /\ daemon'.alive = daemon.alive /\ daemon'.in = daemon.in
      /\ daemon'.out = Append(daemon.out, l) /\ daemon'.working = daemon.working \ {l}
      /\ daemon'.heard = daemon.heard
  BY <1>1, <1>2 DEF OneAnswerEach, TypeOK
<1>4. TypeOK' /\ Placed'
  BY <1>1, <1>3 DEF OneAnswerEach, TypeOK, Placed
<1>5. OnTheWay'
  BY <1>1, <1>2, <1>3 DEF OneAnswerEach, OnTheWay
<1>6. Owed'
  BY <1>1, <1>2, <1>3 DEF OneAnswerEach, Owed
<1>. QED
  BY <1>4, <1>5, <1>6 DEF OneAnswerEach

\* The daemon dies; what it had not written is gone.
LEMMA DaemonDiesStep == OneAnswerEach /\ DaemonDies => OneAnswerEach'
<1>. SUFFICES ASSUME OneAnswerEach, DaemonDies PROVE OneAnswerEach'
  OBVIOUS
<1>. PICK k \in 0..Len(daemon.out) :
        daemon' = [daemon EXCEPT !.alive = FALSE, !.in = <<>>, !.working = {},
                                 !.out = SubSeq(@, 1, k)]
  BY DEF DaemonDies
<1>1. daemon.alive /\ UNCHANGED <<status, pending, inflight, backlog, serving, answer, said>>
  BY DEF DaemonDies
<1>2. /\ SubSeq(daemon.out, 1, k) \in Seq(Lines)
      /\ ToSet(SubSeq(daemon.out, 1, k)) \subseteq ToSet(daemon.out)
      /\ Distinct(SubSeq(daemon.out, 1, k))
  BY FrontFacts DEF OneAnswerEach, TypeOK, OnTheWay
<1>3. /\ daemon' \in [alive : BOOLEAN, in : Seq(Lines), working : SUBSET Lines,
                      out : Seq(Lines), heard : Seq(Lines)]
      /\ ~daemon'.alive /\ daemon'.in = <<>> /\ daemon'.working = {}
      /\ daemon'.out = SubSeq(daemon.out, 1, k) /\ daemon'.heard = daemon.heard
  BY <1>2, EmptySeq DEF OneAnswerEach, TypeOK
<1>4. TypeOK' /\ Placed'
  BY <1>1, <1>3 DEF OneAnswerEach, TypeOK, Placed
<1>5. OnTheWay'
  BY <1>1, <1>2, <1>3, EmptyFacts DEF OneAnswerEach, OnTheWay
<1>6. Owed'
  BY <1>1, <1>2, <1>3, EmptyFacts DEF OneAnswerEach, Owed
<1>. QED
  BY <1>4, <1>5, <1>6 DEF OneAnswerEach

\* Every step keeps the inductive invariant.
LEMMA OneAnswerStep == OneAnswerEach /\ [Next]_vars => OneAnswerEach'
<1>. SUFFICES ASSUME OneAnswerEach, [Next]_vars PROVE OneAnswerEach'
  OBVIOUS
<1>1. ASSUME UNCHANGED vars PROVE OneAnswerEach'
  BY <1>1 DEF vars, OneAnswerEach, TypeOK, Placed, OnTheWay, Owed
<1>. QED
  BY <1>1, SayStep, ServeCallStep, DaemonAnswersStep, AttachStep, GiveUpStep,
     ServeBacklogStep, RelayStep, LoseDaemonStep, ExitStep, DaemonReadsStep, DaemonDiesStep
     DEF Next

\* The inductive invariant holds in every reachable state.
LEMMA OneAnswerInvariant == Spec => []OneAnswerEach
<1>1. Init => OneAnswerEach
  BY EmptySeq, EmptyFacts DEF Init, OneAnswerEach, TypeOK, Placed, OnTheWay, Owed
<1>. QED
  BY <1>1, OneAnswerStep, PTL DEF Spec

\* Every variable keeps its type; in particular no request is answered twice, wherever the
\* daemon is lost and whatever of its answers still arrives.
THEOREM ProxyTypeCorrect == Spec => []TypeOK
<1>1. OneAnswerEach => TypeOK
  BY DEF OneAnswerEach
<1>. QED
  BY <1>1, OneAnswerInvariant, PTL

----------------------------------------------------------------------------
(* What the daemon hears.                                                  *)

\* Every step keeps the order in which the daemon hears the host.
LEMMA HearsInOrderStep ==
  ASSUME OneAnswerEach, DaemonHearsInOrder, [Next]_vars
  PROVE  DaemonHearsInOrder'
<1>. USE DEF OneAnswerEach
<1>1. /\ pending \in Seq(Lines) /\ said \in Seq(Lines)
      /\ daemon.in \in Seq(Lines) /\ daemon.heard \in Seq(Lines)
  BY DEF TypeOK
<1>2. ASSUME NEW l \in Lines, Say(l) PROVE DaemonHearsInOrder'
  <2>1. said' = Append(said, l)
    BY <1>2 DEF Say
  <2>2. daemon'.heard = daemon.heard /\ daemon'.alive = daemon.alive
    BY <1>2 DEF Say, Written, TypeOK
  <2>3. IsPrefix(daemon'.heard, said')
    BY <1>1, <2>1, <2>2, PrefixOn DEF DaemonHearsInOrder
  <2>4. status' = "connecting" => pending' = said'
    BY <1>2, <2>1 DEF Say, DaemonHearsInOrder
  <2>5. ASSUME daemon.alive PROVE daemon'.in = Append(daemon.in, l)
    <3>1. daemon' = Written(daemon, <<l>>)
      BY <1>2, <2>5 DEF Say, Placed
    <3>2. daemon'.in = daemon.in \o <<l>>
      BY <2>5, <3>1 DEF Written, TypeOK
    <3>. QED
      BY <1>1, <3>2, AppendIsConcat
  <2>6. daemon.alive => daemon.heard \o Append(daemon.in, l) = Append(said, l)
    <3>1. daemon.heard \o Append(daemon.in, l) = Append(daemon.heard \o daemon.in, l)
      <4>1. \A s, t \in Seq(Lines) : s \o Append(t, l) = Append(s \o t, l)
        BY SaidOn
      <4>. QED
        BY <1>1, <4>1
    <3>. QED
      BY <3>1 DEF DaemonHearsInOrder
  <2>. QED
    BY <2>1, <2>2, <2>3, <2>4, <2>5, <2>6 DEF DaemonHearsInOrder
<1>3. ASSUME Attach PROVE DaemonHearsInOrder'
  <2>. PICK alive \in BOOLEAN : daemon' = Written([daemon EXCEPT !.alive = alive], pending)
    BY <1>3 DEF Attach
  <2>1. daemon.heard = <<>> /\ daemon.in = <<>> /\ pending = said
    BY <1>3 DEF Attach, Placed, DaemonHearsInOrder
  <2>2. /\ daemon'.heard = <<>> /\ daemon'.alive = alive
        /\ alive => daemon'.in = <<>> \o pending
    BY <2>1 DEF Written, TypeOK
  <2>3. <<>> \o pending = pending
    BY <1>1, ConcatEmptySeq
  <2>. QED
    BY <1>3, <2>1, <2>2, <2>3 DEF Attach, DaemonHearsInOrder
<1>4. ASSUME DaemonReads PROVE DaemonHearsInOrder'
  <2>1. /\ daemon.alive /\ daemon.in # <<>> /\ UNCHANGED <<status, pending, said>>
        /\ daemon'.alive = daemon.alive /\ daemon'.in = Tail(daemon.in)
        /\ daemon'.heard = Append(daemon.heard, Head(daemon.in))
    BY <1>4 DEF DaemonReads, TypeOK
  <2>2. daemon'.heard \o daemon'.in = said
    <3>1. Append(daemon.heard, Head(daemon.in)) \o Tail(daemon.in) = daemon.heard \o daemon.in
      BY <1>1, <2>1, HeardOn
    <3>. QED
      BY <2>1, <3>1 DEF DaemonHearsInOrder
  <2>3. daemon'.heard \in Seq(Lines) /\ daemon'.in \in Seq(Lines)
    BY <1>1, <2>1, HeadTailProperties, AppendProperties
  <2>. QED
    BY <2>1, <2>2, <2>3, ConcatPrefix DEF DaemonHearsInOrder
<1>5. ASSUME DaemonDies PROVE DaemonHearsInOrder'
  BY <1>5 DEF DaemonDies, TypeOK, DaemonHearsInOrder
<1>6. ASSUME Exit PROVE DaemonHearsInOrder'
  BY <1>6 DEF Exit, TypeOK, DaemonHearsInOrder
<1>7. ASSUME Relay \/ LoseDaemon \/ \E l \in Lines : DaemonAnswers(l)
      PROVE  DaemonHearsInOrder'
  BY <1>7 DEF Relay, LoseDaemon, DaemonAnswers, TypeOK, DaemonHearsInOrder
<1>8. ASSUME GiveUp \/ ServeBacklog \/ \E l \in Lines : ServeCall(l)
      PROVE  DaemonHearsInOrder'
  BY <1>8 DEF GiveUp, ServeBacklog, ServeCall, DaemonHearsInOrder
<1>9. ASSUME UNCHANGED vars PROVE DaemonHearsInOrder'
  BY <1>9 DEF vars, DaemonHearsInOrder
<1>. QED
  BY <1>2, <1>3, <1>4, <1>5, <1>6, <1>7, <1>8, <1>9 DEF Next

\* The daemon hears what the host says, in order, none of it twice and none of it skipped,
\* for any lines, whenever it is reached and whenever it dies.
THEOREM HeardInOrder == Spec => []DaemonHearsInOrder
<1>1. Init => DaemonHearsInOrder
  <2>1. IsPrefix(<<>>, <<>>)
    BY SubSeqEmpty DEF IsPrefix
  <2>. QED
    BY <2>1 DEF Init, DaemonHearsInOrder
<1>. QED
  BY <1>1, HearsInOrderStep, OneAnswerInvariant, PTL DEF Spec

----------------------------------------------------------------------------
(* The proxy implements CallService.                                       *)

\* Requests that waited and are answered, by one event, are a step of the service.
LEMMA AnsweredStep ==
  ASSUME OneAnswerEach, NEW C \in SUBSET Lines, \A l \in C : answer[l] = "waiting",
         NEW a \in {"daemon", "inProcess"},
         answer' = [k \in Lines |-> IF k \in C THEN a ELSE answer[k]],
         (status' = "exited") = (status = "exited")
  PROVE  [Service!Next]_(Service!vars)
<1>1. CASE C = {}
  <2>1. answer' = answer
    BY <1>1 DEF OneAnswerEach, TypeOK
  <2>. QED
    BY <2>1 DEF Service!vars
<1>2. CASE C # {}
  <2>. DEFINE open == {l \in Lines : answer[l] = "waiting"}
              calls == {l \in Lines : Asks(l)}
              answers == [l \in calls |-> IF answer[l] = "waiting" THEN "none" ELSE answer[l]]
              given == [c \in C |-> a]
  <2>1. C \in SUBSET open
    OBVIOUS
  <2>2. open' = open \ C
    OBVIOUS
  <2>3. calls' = calls
    BY DEF Asks
  <2>4. answers' = [c \in calls |-> IF c \in C THEN given[c] ELSE answers[c]]
    BY <2>3
  <2>5. given \in [C -> {"daemon", "inProcess"}]
    OBVIOUS
  <2>6. Service!Answer(C)
    BY <1>2, <2>2, <2>4, <2>5 DEF Service!Answer
  <2>. QED
    BY <2>1, <2>6 DEF Service!Next
<1>. QED
  BY <1>1, <1>2

\* A line of the host is no call, is accepted, or is answered on the spot.
LEMMA SaidStep ==
  ASSUME OneAnswerEach, NEW l \in Lines, Say(l)
  PROVE  [Service!Next]_(Service!vars)
<1>. DEFINE open == {k \in Lines : answer[k] = "waiting"}
            calls == {k \in Lines : Asks(k)}
            answers == [k \in calls |-> IF answer[k] = "waiting" THEN "none" ELSE answer[k]]
<1>1. answer[l] = "none" /\ status # "exited"
      /\ answer \in [Lines -> {"none", "waiting", "daemon", "inProcess", "shutdown"}]
      /\ status' = status
  <2>1. answer[l] = "none"
    BY DEF OneAnswerEach, Owed, Say
  <2>2. answer \in [Lines -> {"none", "waiting", "daemon", "inProcess", "shutdown"}]
    BY DEF OneAnswerEach, TypeOK
  <2>3. status # "exited" /\ status' = status
    BY DEF Say, Up
  <2>. QED
    BY <2>1, <2>2, <2>3
<1>2. calls' = calls
  BY DEF Asks
<1>3. CASE answer' = answer
  BY <1>1, <1>3 DEF Service!vars
<1>4. CASE Asks(l) /\ answer' = [answer EXCEPT ![l] = "waiting"]
  <2>1. l \notin open /\ answers[l] = "none" /\ l \in calls
    BY <1>1, <1>4
  <2>2. open' = open \cup {l}
    BY <1>1, <1>4
  <2>3. answers' = answers
    BY <1>1, <1>2, <1>4
  <2>4. Service!Accept(l)
    BY <1>1, <2>1, <2>2, <2>3 DEF Service!Accept
  <2>. QED
    BY <2>1, <2>4 DEF Service!Next
<1>5. CASE Asks(l) /\ answer' = [answer EXCEPT ![l] = "inProcess"]
  <2>1. l \notin open /\ answers[l] = "none" /\ l \in calls
    BY <1>1, <1>5
  <2>2. open' = open
    BY <1>1, <1>5
  <2>3. answers' = [answers EXCEPT ![l] = "inProcess"]
    BY <1>1, <1>2, <1>5
  <2>4. Service!SelfServe(l)
    BY <1>1, <2>1, <2>2, <2>3 DEF Service!SelfServe
  <2>. QED
    BY <2>1, <2>4 DEF Service!Next
<1>6. \/ answer' = answer
      \/ Asks(l) /\ answer' = [answer EXCEPT ![l] = "waiting"]
      \/ Asks(l) /\ answer' = [answer EXCEPT ![l] = "inProcess"]
  <2>. DEFINE asked == CASE Kind[l] = "note" -> answer
                         [] Kind[l] = "initialize" -> Told(answer, {l}, "inProcess")
                         [] OTHER -> [answer EXCEPT ![l] = "waiting"]
  <2>1. Told(answer, {l}, "inProcess") = [answer EXCEPT ![l] = "inProcess"]
    <3>1. Told(answer, {l}, "inProcess") = [k \in Lines |-> IF k \in {l} THEN "inProcess" ELSE answer[k]]
      BY <1>1, ToldOnce
    <3>. QED
      BY <1>1, <3>1
  <2>2. answer' = asked \/ answer' = AnsweredAtOnce(asked, {l})
    BY DEF Say
  <2>3. CASE Kind[l] = "note"
    <3>1. {j \in {l} : Kind[j] = "other"} = {} /\ asked = answer
      BY <2>3
    <3>2. Told(answer, {}, "inProcess") = answer
      BY <1>1 DEF Told
    <3>. QED
      BY <2>2, <3>1, <3>2 DEF AnsweredAtOnce
  <2>4. CASE Kind[l] = "initialize"
    <3>1. {j \in {l} : Kind[j] = "other"} = {} /\ asked = [answer EXCEPT ![l] = "inProcess"]
      BY <2>1, <2>4
    <3>2. Told(asked, {}, "inProcess") = asked
      BY <1>1, <3>1 DEF Told
    <3>. QED
      BY <2>2, <2>4, <3>1, <3>2 DEF AnsweredAtOnce, Asks
  <2>5. CASE Kind[l] \notin {"note", "initialize", "other"}
    <3>1. {j \in {l} : Kind[j] = "other"} = {} /\ asked = [answer EXCEPT ![l] = "waiting"]
      BY <2>5
    <3>2. Told(asked, {}, "inProcess") = asked
      BY <1>1, <3>1 DEF Told
    <3>. QED
      BY <2>2, <2>5, <3>1, <3>2 DEF AnsweredAtOnce, Asks
  <2>6. CASE Kind[l] = "other"
    <3>1. {j \in {l} : Kind[j] = "other"} = {l} /\ asked = [answer EXCEPT ![l] = "waiting"]
      BY <2>6
    <3>2. Told(asked, {l}, "inProcess") = [answer EXCEPT ![l] = "inProcess"]
      BY <1>1, <3>1 DEF Told
    <3>. QED
      BY <2>2, <2>6, <3>1, <3>2 DEF AnsweredAtOnce, Asks
  <2>. QED
    BY <2>3, <2>4, <2>5, <2>6
<1>. QED
  BY <1>3, <1>4, <1>5, <1>6

\* The end of the session is the end of the service.
LEMMA ExitIsShutdown ==
  ASSUME OneAnswerEach, Exit
  PROVE  [Service!Next]_(Service!vars)
<1>. DEFINE open == {k \in Lines : answer[k] = "waiting"}
            calls == {k \in Lines : Asks(k)}
            answers == [k \in calls |-> IF answer[k] = "waiting" THEN "none" ELSE answer[k]]
<1>1. /\ status # "exited" /\ status' = "exited"
      /\ answer' = [l \in Lines |-> IF answer[l] = "waiting" THEN "shutdown" ELSE answer[l]]
  BY DEF Exit, Up
<1>2. calls' = calls
  BY DEF Asks
<1>3. open' = {}
  BY <1>1
<1>4. answers' = [c \in calls |-> IF c \in open THEN "shutdown" ELSE answers[c]]
  BY <1>1, <1>2
<1>5. Service!Shutdown
  BY <1>1, <1>3, <1>4 DEF Service!Shutdown
<1>. QED
  BY <1>5 DEF Service!Next

\* Every step of the proxy is a step of the service or leaves it alone.
LEMMA ServiceStep ==
  ASSUME OneAnswerEach, [Next]_vars
  PROVE  [Service!Next]_(Service!vars)
<1>1. ASSUME UNCHANGED <<status, answer>> PROVE [Service!Next]_(Service!vars)
  BY <1>1 DEF Service!vars, Asks
<1>2. ASSUME ServeBacklog PROVE [Service!Next]_(Service!vars)
  <2>. DEFINE C == {k \in {Head(backlog)} : Tracked(k)}
  <2>1. C \in SUBSET Lines /\ \A l \in C : answer[l] = "waiting"
    BY <1>2, BacklogAnswer DEF OneAnswerEach, Owed
  <2>2. answer' = [k \in Lines |-> IF k \in C THEN "inProcess" ELSE answer[k]]
    BY <1>2, BacklogAnswer
  <2>3. status' = status
    BY <1>2 DEF ServeBacklog
  <2>. HIDE DEF C
  <2>. QED
    BY <2>1, <2>2, <2>3, AnsweredStep
<1>3. ASSUME NEW l \in Lines, ServeCall(l) PROVE [Service!Next]_(Service!vars)
  <2>1. answer[l] = "waiting" /\ status' = status
    BY <1>3 DEF ServeCall, OneAnswerEach, Owed
  <2>2. answer' = [k \in Lines |-> IF k \in {l} THEN "inProcess" ELSE answer[k]]
    BY <1>3, <2>1, ToldOnce DEF ServeCall
  <2>. QED
    BY <2>1, <2>2, AnsweredStep
<1>4. ASSUME Relay PROVE [Service!Next]_(Service!vars)
  <2>. DEFINE C == {k \in {Head(daemon.out)} : Tracked(k)}
  <2>1. C \in SUBSET Lines /\ \A l \in C : answer[l] = "waiting"
    BY <1>4, RelayAnswer
  <2>2. answer' = [k \in Lines |-> IF k \in C THEN "daemon" ELSE answer[k]]
    BY <1>4, RelayAnswer
  <2>3. status' = status
    BY <1>4 DEF Relay
  <2>. HIDE DEF C
  <2>. QED
    BY <2>1, <2>2, <2>3, AnsweredStep
<1>5. ASSUME LoseDaemon PROVE [Service!Next]_(Service!vars)
  <2>. DEFINE C == {k \in inflight : Kind[k] = "other"}
  <2>1. C \in SUBSET Lines /\ \A l \in C : answer[l] = "waiting"
    BY DEF OneAnswerEach, TypeOK, Owed
  <2>2. answer' = [k \in Lines |-> IF k \in C THEN "inProcess" ELSE answer[k]]
    BY <1>5, LossAnswer
  <2>3. status # "exited" /\ status' # "exited"
    BY <1>5 DEF LoseDaemon
  <2>. HIDE DEF C
  <2>. QED
    BY <2>1, <2>2, <2>3, AnsweredStep
<1>6. ASSUME Attach \/ GiveUp PROVE [Service!Next]_(Service!vars)
  <2>1. answer' = answer /\ status # "exited" /\ status' # "exited"
    BY <1>6 DEF Attach, GiveUp
  <2>. QED
    BY <2>1 DEF Service!vars, Asks
<1>7. ASSUME DaemonReads \/ DaemonDies \/ \E l \in Lines : DaemonAnswers(l)
      PROVE  [Service!Next]_(Service!vars)
  BY <1>1, <1>7 DEF DaemonReads, DaemonDies, DaemonAnswers
<1>. QED
  BY <1>1, <1>2, <1>3, <1>4, <1>5, <1>6, <1>7, SaidStep, ExitIsShutdown DEF Next, vars

\* The host sees a call service, for any lines: one answer to each request, from the daemon
\* or from the proxy, whatever becomes of the daemon.
THEOREM ProxyImplementsService == Spec => KeepsPromise
<1>1. Init => Service!Init
  BY DEF Init, Service!Init
<1>. QED
  BY <1>1, ServiceStep, OneAnswerInvariant, PTL DEF Spec, KeepsPromise, Service!Spec
=============================================================================
