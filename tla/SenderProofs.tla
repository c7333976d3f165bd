---------------------------- MODULE SenderProofs ----------------------------
(***************************************************************************)
(* Proofs about Sender for every number of attempts.                       *)
(*                                                                         *)
(* What an attempt may do depends on its own variables only, so that the   *)
(* invariant has one part that speaks of each attempt by itself and one    *)
(* that speaks of which attempt has the turn.                              *)
(***************************************************************************)
EXTENDS Sender, FiniteSetTheorems, SequenceTheorems, TLAPS

\* Nothing has been seen of a failure, a connection or an acceptance.
Silent(r) ==
    /\ ~r.responseSent /\ ~r.hook /\ ~r.endTimer
    /\ r.events = {} /\ r.accepted = "no"

\* What may have been reported.  A delivery without a failure is released; with
\* one it is deferred or bounced once the hook has called back, and it is
\* released as well when the MX accepts it late.
OutcomeOK(r) ==
    \/ r.reports = << >> /\ r.accepted = "no"
    \/ r.reports = <<"suppressed">> /\ Silent(r) /\ r.main \in {"over", "pause"}
    \/ r.reports = <<"failure">> /\ r.responseSent /\ ~r.hook /\ r.accepted = "no"
    \/ r.reports = <<"delivered">> /\ r.accepted = "yes" /\ ~r.responseSent
    \/ r.reports = <<"delivered">> /\ r.accepted = "late"
    \/ /\ r.reports \in {<<"failure", "delivered">>, <<"delivered", "failure">>}
       /\ r.accepted = "late" /\ r.responseSent /\ ~r.hook

\* The same has been seen and reported.
Alike(q, r) ==
    /\ q.reports = r.reports /\ q.accepted = r.accepted
    /\ q.responseSent = r.responseSent /\ q.hook = r.hook
    /\ q.connectionDone = r.connectionDone /\ q.endTimer = r.endTimer
    /\ q.events = r.events

\* Where an attempt is, and what it can have done by then.
AttemptOK(r) ==
    /\ r \in Attempt
    /\ OutcomeOK(r)
    /\ r.hook => r.responseSent
    /\ r.main \in {"idle", "get", "fetch", "connect"} => Silent(r) /\ r.reports = << >>
    /\ r.main = "pause" => Silent(r) /\ r.reports \in {<< >>, <<"suppressed">>}
    /\ r.main \in {"headers", "send"} =>
          r.accepted = "no" /\ (r.responseSent => r.connectionDone)
    /\ r.accepted # "no" => r.connectionDone
    /\ "suppressed" \in r.waiting => r.reports = <<"suppressed">> /\ r.main = "over"
    /\ r.main = "idle" => ~r.sendingDone /\ r.waiting = {}

\* Attempt a has not passed the turn on yet.
HasTurn(a) == att[a].main # "idle" /\ ~att[a].sendingDone

\* The turn is with one attempt, or between two, unless the sender is closing;
\* attempts begin one after the other.
TurnOK ==
    /\ nextDue \in {0, 1}
    /\ \A a, b \in Attempts : HasTurn(a) /\ HasTurn(b) => a = b
    /\ nextDue = 1 => \A a \in Attempts : ~HasTurn(a)
    /\ closing \/ nextDue = 1 \/ \E a \in Attempts : HasTurn(a)
    /\ \E n \in 0..MaxAttempts : \A a \in Attempts : att[a].main # "idle" <=> a <= n

SenderInv ==
    /\ closing \in BOOLEAN /\ crashed \in BOOLEAN
    /\ att \in [Attempts -> Attempt]
    /\ \A a \in Attempts : AttemptOK(att[a])
    /\ TurnOK

(***************************************************************************)
(* What is done to the variables of one attempt.                           *)
(***************************************************************************)
\* The lists of reports there can be, and how they grow.
LEMMA Lists ==
    ASSUME NEW x \in Command, NEW y \in Command, NEW u, NEW v
    PROVE  /\ Append(<< >>, x) = <<x>>
           /\ Append(<<x>>, y) = <<x, y>>
           /\ << >> # <<u>> /\ << >> # <<u, v>>
           /\ <<x>> # <<u, v>>
           /\ <<x>> = <<u>> => x = u
  <1>1. Append(<< >>, x) = <<x>>
    OBVIOUS
  <1>2. Append(<<x>>, y) = <<x, y>>
    <2> DEFINE s == Append(<<x>>, y)
               t == <<x, y>>
    <2>1. s \in Seq(Command) /\ Len(s) = 2 /\ s[1] = x /\ s[2] = y
      OBVIOUS
    <2>2. t \in Seq(Command) /\ Len(t) = 2 /\ t[1] = x /\ t[2] = y
      OBVIOUS
    <2> HIDE DEF s, t
    <2>3. \A i \in 1..2 : s[i] = t[i]
      BY <2>1, <2>2
    <2>4. s = t
      BY <2>1, <2>2, <2>3, SeqEqual
    <2> QED BY <2>4 DEF s, t
  <1>3. Len(<< >>) = 0 /\ Len(<<u>>) = 1 /\ Len(<<x>>) = 1 /\ Len(<<u, v>>) = 2
    OBVIOUS
  <1>4. << >> # <<u>> /\ << >> # <<u, v>> /\ <<x>> # <<u, v>>
    BY <1>3
  <1>5. <<x>> = <<u>> => x = u
    OBVIOUS
  <1> QED BY <1>1, <1>2, <1>4, <1>5

\* A report is added at the end of the list, and the rest stays as it is.
LEMMA ReportAdded ==
    ASSUME NEW r \in Attempt, NEW c \in Command
    PROVE  /\ Report(r, c) \in Attempt
           /\ Report(r, c).reports = Append(r.reports, c)
           /\ Report(r, c).waiting = r.waiting \cup {c}
           /\ Report(r, c).main = r.main
           /\ Report(r, c).sendingDone = r.sendingDone
           /\ Report(r, c).connectionDone = r.connectionDone
           /\ Report(r, c).responseSent = r.responseSent
           /\ Report(r, c).hook = r.hook
           /\ Report(r, c).endTimer = r.endTimer
           /\ Report(r, c).events = r.events
           /\ Report(r, c).accepted = r.accepted
  <1>1. Append(r.reports, c) \in Seq(Command)
    BY DEF Attempt
  <1> QED BY <1>1 DEF Report, Attempt

\* handleError, for an attempt that has seen no failure only if it has reported
\* nothing either.
LEMMA HandleErrorOK ==
    ASSUME NEW r \in Attempt, OutcomeOK(r), r.hook => r.responseSent,
           ~r.responseSent => r.reports = << >>,
           r.main \in {"headers", "send", "over"},
           r.main \in {"headers", "send"} => r.accepted = "no" /\ r.connectionDone,
           r.accepted # "no" => r.connectionDone,
           "suppressed" \in r.waiting => r.reports = <<"suppressed">> /\ r.main = "over"
    PROVE  /\ AttemptOK(HandleError(r))
           /\ HandleError(r).main = r.main
           /\ HandleError(r).sendingDone = r.sendingDone
  <1>1. CASE r.responseSent
    BY <1>1 DEF HandleError, AttemptOK
  <1>2. CASE ~r.responseSent
    <2> DEFINE q == HandleError(r)
    <2>1. /\ q \in Attempt /\ q.main = r.main /\ q.sendingDone = r.sendingDone
          /\ q.reports = r.reports /\ q.accepted = r.accepted /\ q.waiting = r.waiting
          /\ q.connectionDone = r.connectionDone /\ q.responseSent /\ q.hook
      BY <1>2 DEF HandleError, Attempt
    <2>2. r.reports = << >> /\ r.accepted = "no"
      BY <1>2, Lists DEF OutcomeOK
    <2> HIDE DEF q
    <2>3. OutcomeOK(q)
      BY <2>1, <2>2 DEF OutcomeOK
    <2>4. "suppressed" \notin r.waiting
      BY <2>2, Lists
    <2>5. AttemptOK(q)
      BY <2>1, <2>2, <2>3, <2>4 DEF AttemptOK
    <2> QED BY <2>1, <2>5 DEF q
  <1> QED BY <1>1, <1>2

(***************************************************************************)
(* Whose turn it is.                                                       *)
(***************************************************************************)
\* A step of an attempt that has begun and that leaves the turn where it is.
LEMMA TurnKept ==
    ASSUME SenderInv, NEW a \in Attempts, NEW r \in Attempt,
           att[a].main # "idle", r.main # "idle",
           r.sendingDone = att[a].sendingDone, AttemptOK(r),
           att' = [att EXCEPT ![a] = r], nextDue' = nextDue,
           closing' \in BOOLEAN, closing => closing', crashed' \in BOOLEAN
    PROVE  SenderInv'
  <1>1. att' \in [Attempts -> Attempt]
    BY DEF SenderInv
  <1>2. \A b \in Attempts : AttemptOK(att'[b])
    BY DEF SenderInv
  <1>3. \A b \in Attempts : /\ att'[b].main = "idle" <=> att[b].main = "idle"
                            /\ att'[b].sendingDone = att[b].sendingDone
    BY DEF SenderInv
  <1>4. \A b \in Attempts : HasTurn(b)' <=> HasTurn(b)
    BY <1>3 DEF HasTurn
  <1>5. TurnOK'
    <2>1. \A b, c \in Attempts : HasTurn(b)' /\ HasTurn(c)' => b = c
      BY <1>4 DEF SenderInv, TurnOK
    <2>2. nextDue' = 1 => \A b \in Attempts : ~HasTurn(b)'
      BY <1>4 DEF SenderInv, TurnOK
    <2>3. closing' \/ nextDue' = 1 \/ \E b \in Attempts : HasTurn(b)'
      BY <1>4 DEF SenderInv, TurnOK
    <2>4. \E n \in 0..MaxAttempts : \A b \in Attempts : att'[b].main # "idle" <=> b <= n
      BY <1>3 DEF SenderInv, TurnOK
    <2>5. nextDue' \in {0, 1}
      BY DEF SenderInv, TurnOK
    <2> QED BY <2>1, <2>2, <2>3, <2>4, <2>5 DEF TurnOK
  <1> QED BY <1>1, <1>2, <1>5 DEF SenderInv, AttemptOK, OutcomeOK, Silent

\* continueSending: the attempt passes the turn on, if it still has it.
LEMMA TurnPassed ==
    ASSUME SenderInv, NEW a \in Attempts, NEW r \in Attempt,
           att[a].main # "idle", r.main # "idle",
           r.sendingDone = att[a].sendingDone, AttemptOK(r), ContinueSending(a, r)
    PROVE  SenderInv'
  <1> DEFINE q == [r EXCEPT !.sendingDone = TRUE]
  <1>1. /\ q \in Attempt /\ q.main = r.main /\ Alike(q, r)
        /\ q.sendingDone /\ q.waiting = r.waiting
    BY DEF Attempt, Alike
  <1>2. AttemptOK(q)
    BY <1>1 DEF AttemptOK, OutcomeOK, Silent, Alike
  <1>3. /\ att' = [att EXCEPT ![a] = q] /\ UNCHANGED <<closing, crashed>>
        /\ nextDue' = nextDue + (IF r.sendingDone THEN 0 ELSE 1)
    BY DEF ContinueSending
  <1> HIDE DEF q
  <1>4. CASE r.sendingDone
    <2>1. nextDue' = nextDue
      BY <1>3, <1>4 DEF SenderInv, TurnOK
    <2>2. q.sendingDone = att[a].sendingDone
      BY <1>1, <1>4 DEF SenderInv, Attempt
    <2> QED BY <1>1, <1>2, <1>3, <2>1, <2>2, TurnKept DEF SenderInv
  <1>5. CASE ~r.sendingDone
    <2>1. HasTurn(a)
      BY <1>5 DEF HasTurn
    <2>2. nextDue = 0 /\ nextDue' = 1
      BY <1>3, <1>5, <2>1 DEF SenderInv, TurnOK
    <2>3. att' \in [Attempts -> Attempt] /\ \A b \in Attempts : AttemptOK(att'[b])
      BY <1>1, <1>2, <1>3 DEF SenderInv
    <2>4. \A b \in Attempts : ~HasTurn(b)'
      <3>1. \A b \in Attempts \ {a} : ~HasTurn(b)
        BY <2>1 DEF SenderInv, TurnOK
      <3>2. att'[a] = q /\ \A b \in Attempts \ {a} : att'[b] = att[b]
        BY <1>3 DEF SenderInv
      <3> QED BY <1>1, <3>1, <3>2 DEF HasTurn
    <2>5. \A b \in Attempts : att'[b].main = "idle" <=> att[b].main = "idle"
      BY <1>1, <1>3 DEF SenderInv
    <2>6. \E n \in 0..MaxAttempts : \A b \in Attempts : att'[b].main # "idle" <=> b <= n
      BY <2>5 DEF SenderInv, TurnOK
    <2>7. TurnOK'
      BY <2>2, <2>4, <2>6 DEF TurnOK
    <2> QED BY <1>3, <2>3, <2>7 DEF SenderInv, AttemptOK, OutcomeOK, Silent
  <1> QED BY <1>4, <1>5

\* sendNext: the next attempt takes the turn, or nobody does in a closing sender.
LEMMA TurnTaken == SenderInv /\ SendNext => SenderInv'
  <1> SUFFICES ASSUME SenderInv, SendNext PROVE SenderInv'
    OBVIOUS
  <1>1. nextDue = 1 /\ nextDue' = 0 /\ \A a \in Attempts : ~HasTurn(a)
    BY DEF SendNext, SenderInv, TurnOK
  <1>2. CASE closing
    BY <1>1, <1>2 DEF SendNext, SenderInv, TurnOK, HasTurn, AttemptOK, OutcomeOK, Silent
  <1>3. CASE ~closing
    <2>1. PICK n \in 0..MaxAttempts : \A b \in Attempts : att[b].main # "idle" <=> b <= n
      BY DEF SenderInv, TurnOK
    <2>2. Begun = 1..n
      BY <2>1, SenderAssumption DEF Begun, Attempts
    <2>3. Cardinality(Begun) = n
      BY <2>2, FS_Interval
    <2>4. n + 1 \in Attempts
      BY <1>3, <2>2, SenderAssumption DEF SendNext, Attempts
    <2> DEFINE q == [att[n + 1] EXCEPT !.main = "get"]
    <2>5. /\ att' = [att EXCEPT ![n + 1] = q]
          /\ UNCHANGED <<closing, crashed>>
      BY <1>3, <2>3 DEF SendNext
    <2>6. att[n + 1] \in Attempt /\ att[n + 1].main = "idle" /\ AttemptOK(att[n + 1])
      BY <2>1, <2>4 DEF SenderInv
    <2>7. /\ q \in Attempt /\ q.main = "get" /\ Alike(q, att[n + 1])
          /\ q.sendingDone = att[n + 1].sendingDone
          /\ q.waiting = att[n + 1].waiting
      BY <2>6 DEF Attempt, Alike
    <2> HIDE DEF q
    <2>8. AttemptOK(q)
      BY <2>6, <2>7 DEF AttemptOK, OutcomeOK, Silent, Alike
    <2>9. att'[n + 1] = q /\ \A b \in Attempts \ {n + 1} : att'[b] = att[b]
      BY <2>4, <2>5 DEF SenderInv
    <2>10. att' \in [Attempts -> Attempt] /\ \A b \in Attempts : AttemptOK(att'[b])
      BY <2>5, <2>7, <2>8, <2>9 DEF SenderInv
    <2>11. \A b \in Attempts : HasTurn(b)' <=> b = n + 1
      BY <1>1, <2>4, <2>6, <2>7, <2>9 DEF HasTurn, AttemptOK
    <2>12. \A b \in Attempts : att'[b].main # "idle" <=> b <= n + 1
      BY <2>1, <2>4, <2>7, <2>9 DEF Attempts
    <2>13. n + 1 \in 0..MaxAttempts
      BY <2>4 DEF Attempts
    <2>14. TurnOK'
      BY <1>1, <2>4, <2>11, <2>12, <2>13 DEF TurnOK
    <2> QED BY <2>5, <2>10, <2>14 DEF SenderInv, AttemptOK, OutcomeOK, Silent
  <1> QED BY <1>2, <1>3

(***************************************************************************)
(* The invariant.                                                          *)
(***************************************************************************)
\* To leaves the turn where it is.
LEMMA ToKeepsTurn ==
    ASSUME SenderInv, NEW a \in Attempts, NEW r, To(a, r),
           att[a].main # "idle", r.main # "idle",
           r.sendingDone = att[a].sendingDone, AttemptOK(r)
    PROVE  SenderInv'
  BY TurnKept DEF To, SenderInv, AttemptOK

\* An attempt that looks for a delivery or a connection has seen nothing yet: it
\* stays in order wherever it goes.
LEMMA MovedOK ==
    ASSUME NEW r \in Attempt, NEW q \in Attempt, Alike(q, r), AttemptOK(r),
           r.main \in {"get", "pause", "fetch", "connect"},
           q.waiting = r.waiting,
           \/ q.main \in {"over", "pause"}
           \/ q.main = "fetch" /\ r.main = "get"
           \/ q.main = "connect" /\ r.main = "fetch"
    PROVE  AttemptOK(q)
  BY DEF AttemptOK, OutcomeOK, Silent, Alike

\* Asking for a delivery and fetching it.
LEMMA FetchingInv ==
    ASSUME SenderInv, NEW a \in Attempts, Fetching(a) PROVE SenderInv'
  <1>1. /\ att[a] \in Attempt /\ AttemptOK(att[a])
        /\ att[a].main \in {"get", "pause"}
    BY DEF SenderInv, Fetching, GetNothing, PauseOver, Fetch, At
  <1>2. ASSUME NEW m \in {"pause", "over", "fetch"}, m = "fetch" => att[a].main = "get"
        PROVE  /\ [att[a] EXCEPT !.main = m] \in Attempt
               /\ [att[a] EXCEPT !.main = m].main = m
               /\ [att[a] EXCEPT !.main = m].sendingDone = att[a].sendingDone
               /\ AttemptOK([att[a] EXCEPT !.main = m])
    <2> DEFINE q == [att[a] EXCEPT !.main = m]
    <2>1. /\ q \in Attempt /\ q.main = m /\ q.sendingDone = att[a].sendingDone
          /\ Alike(q, att[a]) /\ q.waiting = att[a].waiting
      BY <1>1 DEF Attempt, Alike
    <2> HIDE DEF q
    <2>2. AttemptOK(q)
      BY <1>1, <1>2, <2>1, MovedOK
    <2> QED BY <2>1, <2>2 DEF q
  <1>3. CASE GetNothing(a)
    BY <1>1, <1>2, <1>3, ToKeepsTurn DEF GetNothing, At
  <1>4. CASE PauseOver(a)
    BY <1>1, <1>2, <1>4, TurnPassed DEF PauseOver, At
  <1>5. CASE Fetch(a)
    BY <1>1, <1>2, <1>5, ToKeepsTurn DEF Fetch, At
  <1> QED BY <1>3, <1>4, <1>5 DEF Fetching

\* Looking for a connection, or being kept from it by a plugin.
LEMMA ConnectingInv ==
    ASSUME SenderInv, NEW a \in Attempts, Connecting(a) PROVE SenderInv'
  <1>1. /\ att[a] \in Attempt /\ AttemptOK(att[a])
        /\ att[a].main \in {"fetch", "connect"}
    BY DEF SenderInv, Connecting, FetchRefused, Suppressed, Connect,
           ConnectFails, Connected, At
  <1>2. /\ Silent(att[a]) /\ att[a].reports = << >>
        /\ "suppressed" \notin att[a].waiting
    BY <1>1, Lists DEF AttemptOK
  <1>3. CASE FetchRefused(a) \/ ConnectFails(a)
    <2>1. PICK timer \in BOOLEAN :
            To(a, HandleError([att[a] EXCEPT !.main = "over", !.connectTimer = timer]))
      <3>1. CASE FetchRefused(a)
        <4>1. [att[a] EXCEPT !.main = "over"]
                = [att[a] EXCEPT !.main = "over", !.connectTimer = att[a].connectTimer]
          BY <1>1 DEF Attempt
        <4>2. att[a].connectTimer \in BOOLEAN
          BY <1>1 DEF Attempt
        <4> QED BY <3>1, <4>1, <4>2 DEF FetchRefused
      <3>2. CASE ConnectFails(a)
        BY <3>2 DEF ConnectFails
      <3> QED BY <1>3, <3>1, <3>2
    <2> DEFINE q == [att[a] EXCEPT !.main = "over", !.connectTimer = timer]
    <2>2. /\ q \in Attempt /\ q.main = "over" /\ q.sendingDone = att[a].sendingDone
          /\ Alike(q, att[a]) /\ q.waiting = att[a].waiting
      BY <1>1 DEF Attempt, Alike
    <2>3. To(a, HandleError(q))
      BY <2>1
    <2> HIDE DEF q
    <2>4. AttemptOK(q)
      BY <1>1, <2>2, MovedOK
    <2>5. /\ AttemptOK(HandleError(q)) /\ HandleError(q).main = q.main
          /\ HandleError(q).sendingDone = q.sendingDone
      BY <1>2, <2>2, <2>4, HandleErrorOK DEF AttemptOK, Alike
    <2> QED BY <1>1, <2>2, <2>3, <2>5, ToKeepsTurn
  <1>4. CASE Suppressed(a)
    <2> DEFINE q == [att[a] EXCEPT !.main = "over"]
               p == Report(q, "suppressed")
    <2>1. /\ q \in Attempt /\ q.main = "over" /\ q.sendingDone = att[a].sendingDone
          /\ Alike(q, att[a]) /\ q.waiting = att[a].waiting
      BY <1>1 DEF Attempt, Alike
    <2>2. To(a, p)
      BY <1>4 DEF Suppressed
    <2>3. "suppressed" \in Command
      BY DEF Command
    <2> HIDE DEF q
    <2>4. /\ p \in Attempt /\ p.main = "over" /\ p.sendingDone = att[a].sendingDone
          /\ Silent(p) /\ p.reports = <<"suppressed">>
      BY <1>2, <2>1, <2>3, ReportAdded, Lists DEF Silent, Alike
    <2> HIDE DEF p
    <2>5. AttemptOK(p)
      BY <2>4 DEF AttemptOK, OutcomeOK, Silent
    <2> QED BY <1>1, <2>2, <2>4, <2>5, ToKeepsTurn
  <1>5. CASE Connect(a)
    <2> DEFINE q == [att[a] EXCEPT !.main = "connect", !.connectTimer = TRUE]
    <2>1. /\ q \in Attempt /\ q.main = "connect" /\ q.sendingDone = att[a].sendingDone
          /\ Alike(q, att[a]) /\ q.waiting = att[a].waiting /\ att[a].main = "fetch"
      BY <1>1, <1>5 DEF Attempt, Alike, Connect, At
    <2>2. To(a, q)
      BY <1>5 DEF Connect
    <2> HIDE DEF q
    <2>3. AttemptOK(q)
      BY <1>1, <2>1, MovedOK
    <2> QED BY <1>1, <2>1, <2>2, <2>3, ToKeepsTurn
  <1>6. CASE Connected(a)
    <2>1. PICK events \in {{}, {"error", "end"}} :
            To(a, [att[a] EXCEPT !.main = "headers", !.connectTimer = FALSE,
                                 !.events = events])
      BY <1>6 DEF Connected
    <2> DEFINE q == [att[a] EXCEPT !.main = "headers", !.connectTimer = FALSE,
                                   !.events = events]
    <2>2. /\ q \in Attempt /\ q.main = "headers" /\ q.sendingDone = att[a].sendingDone
          /\ q.reports = << >> /\ q.accepted = "no" /\ ~q.responseSent /\ ~q.hook
          /\ "suppressed" \notin q.waiting
      BY <1>1, <1>2 DEF Attempt, Silent
    <2>3. To(a, q)
      BY <2>1
    <2> HIDE DEF q
    <2>4. AttemptOK(q)
      BY <2>2 DEF AttemptOK, OutcomeOK
    <2> QED BY <1>1, <2>2, <2>3, <2>4, ToKeepsTurn
  <1> QED BY <1>3, <1>4, <1>5, <1>6 DEF Connecting

\* What an attempt that sends has reported: at most a failure.
LEMMA BeforeAcceptance ==
    ASSUME NEW r, AttemptOK(r), r.main \in {"headers", "send"}
    PROVE  /\ \/ r.reports = << >>
              \/ r.reports = <<"failure">> /\ r.responseSent /\ ~r.hook
           /\ "suppressed" \notin r.waiting
  BY Lists DEF AttemptOK, OutcomeOK

\* Sending the message.
LEMMA SendingInv ==
    ASSUME SenderInv, NEW a \in Attempts, Sending(a) PROVE SenderInv'
  <1>1. /\ att[a] \in Attempt /\ AttemptOK(att[a])
        /\ att[a].main \in {"headers", "send"}
    BY DEF SenderInv, Sending, HeadersRefused, Send, SendDone, SendFails, At
  <1>2. /\ \/ att[a].reports = << >>
           \/ att[a].reports = <<"failure">> /\ att[a].responseSent /\ ~att[a].hook
        /\ "suppressed" \notin att[a].waiting
    BY <1>1, BeforeAcceptance
  <1>3. /\ att[a].accepted = "no" /\ (att[a].hook => att[a].responseSent)
        /\ (att[a].responseSent => att[a].connectionDone)
        /\ OutcomeOK(att[a])
    BY <1>1 DEF AttemptOK
  <1> DEFINE s == Sent(att[a])
  <1>4. /\ s \in Attempt /\ s.main = "over" /\ s.sendingDone = att[a].sendingDone
        /\ s.reports = att[a].reports /\ s.responseSent = att[a].responseSent
        /\ s.hook = att[a].hook /\ s.accepted = "no" /\ s.connectionDone
        /\ s.waiting = att[a].waiting
    BY <1>1, <1>3 DEF Attempt, Sent
  <1>5. CASE HeadersRefused(a) \/ SendFails(a)
    <2>1. To(a, HandleError(s))
      BY <1>5 DEF HeadersRefused, SendFails, Sent
    <2> HIDE DEF s
    <2>2. OutcomeOK(s)
      BY <1>2, <1>4 DEF OutcomeOK
    <2>3. /\ AttemptOK(HandleError(s)) /\ HandleError(s).main = s.main
          /\ HandleError(s).sendingDone = s.sendingDone
      BY <1>2, <1>3, <1>4, <2>2, HandleErrorOK
    <2> QED BY <1>1, <1>4, <2>1, <2>3, ToKeepsTurn
  <1>6. CASE Send(a)
    <2> DEFINE q == [att[a] EXCEPT !.main = "send"]
    <2>1. /\ q \in Attempt /\ q.main = "send" /\ q.sendingDone = att[a].sendingDone
          /\ Alike(q, att[a]) /\ q.waiting = att[a].waiting
      BY <1>1 DEF Attempt, Alike
    <2>2. To(a, q)
      BY <1>6 DEF Send
    <2> HIDE DEF q
    <2>3. AttemptOK(q)
      BY <1>2, <1>3, <2>1 DEF AttemptOK, OutcomeOK, Alike
    <2> QED BY <1>1, <2>1, <2>2, <2>3, ToKeepsTurn
  <1>7. CASE SendDone(a)
    <2> DEFINE when == IF att[a].connectionDone THEN "late" ELSE "yes"
               q == [s EXCEPT !.accepted = when]
               p == Report(q, "delivered")
    <2>1. when = "late" \/ (when = "yes" /\ ~att[a].responseSent)
      <3>1. CASE att[a].connectionDone
        BY <3>1
      <3>2. CASE ~att[a].connectionDone
        BY <1>3, <3>2
      <3> QED BY <3>1, <3>2
    <2> HIDE DEF s, when
    <2>2. /\ q \in Attempt /\ q.main = "over" /\ q.sendingDone = att[a].sendingDone
          /\ q.reports = att[a].reports /\ q.responseSent = att[a].responseSent
          /\ q.hook = att[a].hook /\ q.accepted = when /\ q.connectionDone
          /\ q.waiting = att[a].waiting
      BY <1>4, <2>1 DEF Attempt
    <2>3. To(a, p)
      BY <1>7 DEF SendDone, s, when
    <2>4. "delivered" \in Command /\ "failure" \in Command
      BY DEF Command
    <2> HIDE DEF q
    <2>5. /\ p \in Attempt /\ p.main = "over" /\ p.sendingDone = att[a].sendingDone
          /\ p.reports = Append(att[a].reports, "delivered")
          /\ p.responseSent = att[a].responseSent
          /\ p.hook = att[a].hook /\ p.accepted = when /\ p.connectionDone
          /\ p.waiting = att[a].waiting \cup {"delivered"}
      BY <2>2, <2>4, ReportAdded
    <2> HIDE DEF p
    <2>6. OutcomeOK(p)
      <3>1. CASE att[a].reports = << >>
        BY <2>1, <2>4, <2>5, <3>1, Lists DEF OutcomeOK
      <3>2. CASE att[a].reports = <<"failure">> /\ att[a].responseSent /\ ~att[a].hook
        BY <2>1, <2>4, <2>5, <3>2, Lists DEF OutcomeOK
      <3> QED BY <1>2, <3>1, <3>2
    <2>7. AttemptOK(p)
      BY <1>2, <1>3, <2>5, <2>6 DEF AttemptOK
    <2> QED BY <1>1, <2>3, <2>5, <2>7, ToKeepsTurn
  <1> QED BY <1>5, <1>6, <1>7 DEF Sending

\* The plugins have called back: the failure is reported, after what else was.
LEMMA ResponseErrorHookInv ==
    ASSUME SenderInv, NEW a \in Attempts, ResponseErrorHook(a) PROVE SenderInv'
  <1> DEFINE q == [att[a] EXCEPT !.hook = FALSE]
             p == Report(q, "failure")
  <1>1. /\ att[a] \in Attempt /\ AttemptOK(att[a]) /\ att[a].hook
        /\ att[a].responseSent
    BY DEF SenderInv, ResponseErrorHook, AttemptOK
  <1>2. /\ \/ att[a].reports = << >> /\ att[a].accepted = "no"
           \/ att[a].reports = <<"delivered">> /\ att[a].accepted = "late"
        /\ att[a].main \in {"headers", "send", "over"}
        /\ "suppressed" \notin att[a].waiting
    <2>1. ~Silent(att[a])
      BY <1>1 DEF Silent
    <2>2. \/ att[a].reports = << >> /\ att[a].accepted = "no"
          \/ att[a].reports = <<"delivered">> /\ att[a].accepted = "late"
      BY <1>1, <2>1 DEF AttemptOK, OutcomeOK
    <2>3. att[a].main \in {"headers", "send", "over"}
      BY <1>1, <2>1 DEF AttemptOK, Attempt
    <2>4. att[a].reports # <<"suppressed">>
      BY <2>2, Lists DEF Command
    <2> QED BY <1>1, <2>2, <2>3, <2>4 DEF AttemptOK
  <1>3. /\ q \in Attempt /\ q.main = att[a].main /\ q.sendingDone = att[a].sendingDone
        /\ q.reports = att[a].reports /\ q.responseSent /\ ~q.hook
        /\ q.accepted = att[a].accepted /\ q.connectionDone = att[a].connectionDone
        /\ q.waiting = att[a].waiting
    BY <1>1 DEF Attempt
  <1>4. To(a, p)
    BY DEF ResponseErrorHook
  <1>5. "delivered" \in Command /\ "failure" \in Command
    BY DEF Command
  <1> HIDE DEF q
  <1>6. /\ p \in Attempt /\ p.main = att[a].main /\ p.sendingDone = att[a].sendingDone
        /\ p.reports = Append(att[a].reports, "failure")
        /\ p.responseSent = q.responseSent /\ p.hook = q.hook
        /\ p.accepted = att[a].accepted /\ p.connectionDone = att[a].connectionDone
        /\ p.waiting = att[a].waiting \cup {"failure"}
    <2>1. /\ p \in Attempt /\ p.main = q.main /\ p.sendingDone = q.sendingDone
          /\ p.reports = Append(q.reports, "failure")
          /\ p.responseSent = q.responseSent /\ p.hook = q.hook
          /\ p.accepted = q.accepted /\ p.connectionDone = q.connectionDone
          /\ p.waiting = q.waiting \cup {"failure"}
      BY <1>3, <1>5, ReportAdded
    <2> HIDE DEF p
    <2> QED BY <1>3, <2>1
  <1> HIDE DEF p
  <1>7. OutcomeOK(p)
    <2> USE <1>3
    <2>1. CASE att[a].reports = << >> /\ att[a].accepted = "no"
      BY <1>5, <1>6, <2>1, Lists DEF OutcomeOK
    <2>2. CASE att[a].reports = <<"delivered">> /\ att[a].accepted = "late"
      BY <1>5, <1>6, <2>2, Lists DEF OutcomeOK
    <2> QED BY <1>2, <2>1, <2>2
  <1>8. AttemptOK(p)
    BY <1>1, <1>2, <1>3, <1>6, <1>7 DEF AttemptOK
  <1> QED BY <1>1, <1>2, <1>4, <1>6, <1>8, ToKeepsTurn

\* The connection fails: what has delivered takes no notice.
LEMMA ConnectionErrorInv ==
    ASSUME SenderInv, NEW a \in Attempts, ConnectionError(a) PROVE SenderInv'
  <1> DEFINE r == [att[a] EXCEPT !.events = @ \ {"error"}]
             q == [r EXCEPT !.connectionDone = TRUE]
  <1>1. /\ att[a] \in Attempt /\ AttemptOK(att[a]) /\ ~Silent(att[a])
        /\ att[a].main \in {"headers", "send", "over"}
        /\ att[a].reports # <<"suppressed">>
    BY Lists DEF SenderInv, AttemptOK, OutcomeOK, Attempt, ConnectionError, Silent, Command
  <1>2. /\ r \in Attempt /\ r.main = att[a].main /\ r.sendingDone = att[a].sendingDone
        /\ r.reports = att[a].reports /\ r.accepted = att[a].accepted
        /\ r.responseSent = att[a].responseSent /\ r.hook = att[a].hook
        /\ r.connectionDone = att[a].connectionDone /\ r.waiting = att[a].waiting
    BY <1>1 DEF Attempt
  <1>3. /\ q \in Attempt /\ q.main = att[a].main /\ q.sendingDone = att[a].sendingDone
        /\ q.reports = att[a].reports /\ q.accepted = att[a].accepted
        /\ q.responseSent = att[a].responseSent /\ q.hook = att[a].hook
        /\ q.connectionDone /\ q.waiting = att[a].waiting
    BY <1>1 DEF Attempt
  <1>4. To(a, IF r.connectionDone THEN r ELSE HandleError(q))
    BY DEF ConnectionError
  <1> HIDE DEF r, q
  <1>5. CASE r.connectionDone
    <2>1. AttemptOK(r)
      BY <1>1, <1>2 DEF AttemptOK, OutcomeOK
    <2> QED BY <1>1, <1>2, <1>4, <1>5, <2>1, ToKeepsTurn
  <1>6. CASE ~r.connectionDone
    <2>1. To(a, HandleError(q))
      BY <1>4, <1>6
    <2>2. att[a].accepted = "no" /\ ~att[a].connectionDone
      BY <1>1, <1>2, <1>6 DEF AttemptOK, Attempt
    <2>3. OutcomeOK(q)
      BY <1>1, <1>3 DEF AttemptOK, OutcomeOK
    <2>4. ~q.responseSent => q.reports = << >>
      BY <1>1, <1>3, <2>2 DEF AttemptOK, OutcomeOK
    <2>5. "suppressed" \notin q.waiting /\ (q.hook => q.responseSent)
      BY <1>1, <1>3 DEF AttemptOK
    <2> DEFINE h == HandleError(q)
    <2>6. AttemptOK(h) /\ h.main = q.main /\ h.sendingDone = q.sendingDone
      BY <1>1, <1>3, <2>2, <2>3, <2>4, <2>5, HandleErrorOK
    <2>7. To(a, h)
      BY <2>1
    <2> HIDE DEF h
    <2> QED BY <1>1, <1>3, <2>6, <2>7, ToKeepsTurn
  <1> QED BY <1>5, <1>6

\* The connection closes, and the second after that is over.
LEMMA ConnectionEndInv ==
    ASSUME SenderInv, NEW a \in Attempts, ConnectionEnd(a) \/ EndTimeout(a)
    PROVE  SenderInv'
  <1>1. /\ att[a] \in Attempt /\ AttemptOK(att[a]) /\ ~Silent(att[a])
        /\ att[a].main \in {"headers", "send", "over"}
        /\ att[a].reports # <<"suppressed">>
    BY Lists DEF SenderInv, AttemptOK, OutcomeOK, Attempt, ConnectionEnd, EndTimeout,
                 Silent, Command
  <1>2. CASE ConnectionEnd(a)
    <2> DEFINE q == [att[a] EXCEPT !.events = @ \ {"end"},
                                   !.endTimer = ~att[a].connectionDone]
    <2>1. att[a].connectionDone \in BOOLEAN
      BY <1>1 DEF Attempt
    <2>2. (~att[a].connectionDone) \in BOOLEAN
      BY <2>1
    <2>3. /\ q \in Attempt /\ q.main = att[a].main /\ q.sendingDone = att[a].sendingDone
          /\ q.reports = att[a].reports /\ q.accepted = att[a].accepted
          /\ q.responseSent = att[a].responseSent /\ q.hook = att[a].hook
          /\ q.connectionDone = att[a].connectionDone /\ q.waiting = att[a].waiting
      BY <1>1, <2>2 DEF Attempt
    <2>4. To(a, q)
      BY <1>2 DEF ConnectionEnd
    <2> HIDE DEF q
    <2>5. AttemptOK(q)
      BY <1>1, <2>3 DEF AttemptOK, OutcomeOK
    <2> QED BY <1>1, <2>3, <2>4, <2>5, ToKeepsTurn
  <1>3. CASE EndTimeout(a)
    <2> DEFINE q == [att[a] EXCEPT !.endTimer = FALSE, !.connectionDone = TRUE]
    <2>1. /\ q \in Attempt /\ q.main = att[a].main /\ q.sendingDone = att[a].sendingDone
          /\ q.reports = att[a].reports /\ q.accepted = att[a].accepted
          /\ q.responseSent = att[a].responseSent /\ q.hook = att[a].hook
          /\ q.connectionDone /\ q.waiting = att[a].waiting
      BY <1>1 DEF Attempt
    <2>2. att' = [att EXCEPT ![a] = q] /\ nextDue' = nextDue /\ closing' = closing
      BY <1>3 DEF EndTimeout
    <2>3. crashed' \in BOOLEAN
      BY <1>3 DEF EndTimeout
    <2> HIDE DEF q
    <2>4. AttemptOK(q)
      BY <1>1, <2>1 DEF AttemptOK, OutcomeOK
    <2> QED BY <1>1, <2>1, <2>2, <2>3, <2>4, TurnKept DEF SenderInv
  <1> QED BY <1>2, <1>3

\* The master answers a report, or with an error.
LEMMA AnswerInv ==
    ASSUME SenderInv, NEW a \in Attempts, NEW c \in Command, Answer(a, c)
    PROVE  SenderInv'
  <1>1. att[a] \in Attempt /\ AttemptOK(att[a]) /\ att[a].main # "idle"
    BY DEF SenderInv, AttemptOK, Answer, Acknowledged, CommandFails, BounceSent,
           SuppressionAnswered
  <1> DEFINE r == Answered(a, c)
  <1>2. /\ r \in Attempt /\ r.main = att[a].main /\ r.sendingDone = att[a].sendingDone
        /\ Alike(r, att[a]) /\ r.waiting = att[a].waiting \ {c}
    BY <1>1 DEF Attempt, Answered, Alike
  <1>3. AttemptOK(r)
    BY <1>1, <1>2 DEF AttemptOK, OutcomeOK, Silent, Alike
  <1>4. CASE Acknowledged(a, c)
    <2>1. PICK bounce \in SUBSET {"bounce"} :
            ContinueSending(a, [r EXCEPT !.waiting = @ \cup bounce])
      BY <1>4 DEF Acknowledged
    <2> DEFINE q == [r EXCEPT !.waiting = @ \cup bounce]
    <2> HIDE DEF r
    <2>2. /\ q \in Attempt /\ q.main = r.main /\ q.sendingDone = r.sendingDone
          /\ Alike(q, r) /\ q.waiting = r.waiting \cup bounce
      BY <1>2 DEF Attempt, Command, Alike
    <2>3. ContinueSending(a, q)
      BY <2>1
    <2> HIDE DEF q
    <2>4. AttemptOK(q)
      BY <1>1, <1>2, <1>3, <2>2 DEF AttemptOK, OutcomeOK, Silent, Alike
    <2> QED BY <1>1, <1>2, <2>2, <2>3, <2>4, TurnPassed
  <1>5. CASE CommandFails(a, c)
    <2>1. /\ att' = [att EXCEPT ![a] = r] /\ nextDue' = nextDue
          /\ closing' = TRUE /\ crashed' \in BOOLEAN
      BY <1>5 DEF CommandFails, SenderInv
    <2> HIDE DEF r
    <2> QED BY <1>1, <1>2, <1>3, <2>1, TurnKept
  <1>6. CASE c = "bounce" /\ BounceSent(a)
    <2>1. To(a, r)
      BY <1>6 DEF BounceSent
    <2> HIDE DEF r
    <2> QED BY <1>1, <1>2, <1>3, <2>1, ToKeepsTurn
  <1>7. CASE c = "suppressed" /\ SuppressionAnswered(a)
    <2> DEFINE q == [r EXCEPT !.main = "pause"]
    <2>1. To(a, q)
      BY <1>7 DEF SuppressionAnswered, AfterSuppression
    <2>2. att[a].reports = <<"suppressed">>
      BY <1>1, <1>7 DEF SuppressionAnswered, AttemptOK
    <2>3. Silent(att[a])
      BY <1>1, <2>2, Lists DEF AttemptOK, OutcomeOK, Command
    <2> HIDE DEF r
    <2>4. /\ q \in Attempt /\ q.main = "pause" /\ q.sendingDone = att[a].sendingDone
          /\ Alike(q, att[a]) /\ "suppressed" \notin q.waiting
      BY <1>2, <1>7 DEF Attempt, Alike
    <2> HIDE DEF q
    <2>5. AttemptOK(q)
      BY <1>1, <2>2, <2>3, <2>4 DEF AttemptOK, OutcomeOK, Silent, Alike
    <2> QED BY <1>1, <2>1, <2>4, <2>5, ToKeepsTurn
  <1> QED BY <1>4, <1>5, <1>6, <1>7 DEF Answer

\* SenderInv: attempts keep to themselves, and one of them has the turn.
LEMMA Invariance == Spec => []SenderInv
  <1>1. Init => SenderInv
    <2> SUFFICES ASSUME Init PROVE SenderInv
      OBVIOUS
    <2>1. NewAttempt \in Attempt /\ AttemptOK(NewAttempt)
      <3>1. << >> \in Seq(Command) /\ DOMAIN << >> = {}
        OBVIOUS
      <3>2. NewAttempt \in Attempt /\ NewAttempt.reports = << >>
        BY <3>1 DEF NewAttempt, Attempt
      <3> QED BY <3>1, <3>2 DEF NewAttempt, AttemptOK, OutcomeOK, Silent
    <2>2. \A a \in Attempts : att[a].main = "idle"
      BY DEF Init, NewAttempt
    <2>3. 0 \in 0..MaxAttempts /\ \A a \in Attempts : ~(a <= 0)
      BY SenderAssumption DEF Attempts
    <2>4. TurnOK
      BY <2>2, <2>3 DEF Init, TurnOK, HasTurn
    <2> QED BY <2>1, <2>4 DEF Init, SenderInv
  <1>2. SenderInv /\ [Next]_vars => SenderInv'
    <2> SUFFICES ASSUME SenderInv, [Next]_vars PROVE SenderInv'
      OBVIOUS
    <2>1. CASE SendNext
      BY <2>1, TurnTaken
    <2>2. ASSUME NEW a \in Attempts, ConnectTimeout(a) PROVE SenderInv'
      <3> DEFINE q == [att[a] EXCEPT !.connectTimer = FALSE]
      <3>1. /\ att[a] \in Attempt /\ AttemptOK(att[a]) /\ att[a].main = "connect"
            /\ ContinueSending(a, q)
        BY <2>2 DEF SenderInv, ConnectTimeout, At
      <3>2. /\ q \in Attempt /\ q.main = "connect" /\ q.sendingDone = att[a].sendingDone
            /\ Alike(q, att[a]) /\ q.waiting = att[a].waiting
        BY <3>1 DEF Attempt, Alike
      <3> HIDE DEF q
      <3>3. AttemptOK(q)
        BY <3>1, <3>2 DEF AttemptOK, OutcomeOK, Silent, Alike
      <3> QED BY <3>1, <3>2, <3>3, TurnPassed
    <2>3. ASSUME NEW a \in Attempts, NEW c \in Command, Answer(a, c) PROVE SenderInv'
      BY <2>3, AnswerInv
    <2>4. CASE Close
      BY <2>4 DEF Close, SenderInv, TurnOK, HasTurn, AttemptOK, OutcomeOK, Silent
    <2>5. CASE UNCHANGED vars
      BY <2>5 DEF vars, SenderInv, TurnOK, HasTurn, AttemptOK, OutcomeOK, Silent
    <2> QED BY <2>1, <2>2, <2>3, <2>4, <2>5, FetchingInv, ConnectingInv, SendingInv,
               ResponseErrorHookInv, ConnectionErrorInv,
               ConnectionEndInv DEF Next
  <1> QED BY <1>1, <1>2, PTL DEF Spec

(***************************************************************************)
(* The properties.                                                         *)
(***************************************************************************)
\* TypeOK, the shape of the variables of lib/sender.js.
THEOREM TypeCorrect == Spec => []TypeOK
  <1>1. SenderInv => TypeOK
    BY SenderAssumption DEF SenderInv, TurnOK, TypeOK
  <1> QED BY <1>1, Invariance, PTL

\* OneLoop: a sender that is not closing has one loop of sendNext.
THEOREM OneLoopHolds == Spec => []OneLoop
  <1>1. SenderInv => OneLoop
    <2> SUFFICES ASSUME SenderInv, ~closing
                 PROVE  nextDue + Cardinality({a \in Begun : ~att[a].sendingDone}) = 1
      BY DEF OneLoop
    <2> DEFINE T == {a \in Begun : ~att[a].sendingDone}
    <2>1. T = {a \in Attempts : HasTurn(a)}
      BY DEF Begun, HasTurn
    <2>2. CASE nextDue = 1
      <3>1. T = {}
        BY <2>1, <2>2 DEF SenderInv, TurnOK
      <3> QED BY <2>2, <3>1, FS_EmptySet
    <2>3. CASE nextDue = 0
      <3>1. PICK a \in Attempts : HasTurn(a)
        BY <2>3 DEF SenderInv, TurnOK
      <3>2. T = {a}
        BY <2>1, <3>1 DEF SenderInv, TurnOK
      <3> QED BY <2>3, <3>2, FS_Singleton
    <2> QED BY <2>2, <2>3 DEF SenderInv, TurnOK
  <1> QED BY <1>1, Invariance, PTL

\* OneOutcome: each delivery is reported once, except one that the MX accepts after
\* its connection has failed, which is released and deferred or bounced.
THEOREM OneOutcomeHolds == Spec => []OneOutcome
  <1>1. SenderInv => OneOutcome
    <2> SUFFICES ASSUME SenderInv, NEW a \in Attempts
                 PROVE  \/ Len(att[a].reports) <= 1
                        \/ /\ att[a].accepted = "late"
                           /\ att[a].reports \in {<<"failure", "delivered">>,
                                                  <<"delivered", "failure">>}
      BY DEF OneOutcome
    <2>1. /\ Len(<< >>) = 0 /\ Len(<<"suppressed">>) = 1
          /\ Len(<<"failure">>) = 1 /\ Len(<<"delivered">>) = 1
      OBVIOUS
    <2>2. OutcomeOK(att[a])
      BY DEF SenderInv, AttemptOK
    <2> DEFINE x == att[a].reports
    <2>3. \/ x \in {<< >>, <<"suppressed">>, <<"failure">>, <<"delivered">>}
          \/ /\ att[a].accepted = "late"
             /\ x \in {<<"failure", "delivered">>, <<"delivered", "failure">>}
      BY <2>2 DEF OutcomeOK
    <2> HIDE DEF x
    <2>4. x \in {<< >>, <<"suppressed">>, <<"failure">>, <<"delivered">>} => Len(x) <= 1
      <3>1. CASE x = << >>
        BY <2>1, <3>1
      <3>2. CASE x = <<"suppressed">>
        BY <2>1, <3>2
      <3>3. CASE x = <<"failure">>
        BY <2>1, <3>3
      <3>4. CASE x = <<"delivered">>
        BY <2>1, <3>4
      <3> QED BY <3>1, <3>2, <3>3, <3>4
    <2> QED BY <2>3, <2>4 DEF x
  <1> QED BY <1>1, Invariance, PTL
=============================================================================
