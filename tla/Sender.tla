------------------------------- MODULE Sender -------------------------------
(***************************************************************************)
(* One connection of a sender process: lib/sender.js.  An attempt is one   *)
(* call of sendNext.  It asks the master for a delivery, connects to the   *)
(* MX, sends the message and reports how that ended; the sender then goes  *)
(* on with the next attempt.  One that takes too long to connect is left   *)
(* behind: it goes on beside its successors.                               *)
(*                                                                         *)
(* While the message is being sent the connection may fail or close, and   *)
(* each of these comes with a callback of its own; so does each command to *)
(* the master.  What is left out: which of RELEASE and DEFER a failure     *)
(* leads to, the choice of the MX, and how the message is put together.    *)
(***************************************************************************)
EXTENDS Integers, Sequences, FiniteSets

CONSTANT MaxAttempts    \* bound of the attempts

ASSUME SenderAssumption == MaxAttempts \in Nat \ {0}

Attempts == 1..MaxAttempts

VARIABLES
    att,        \* the local variables of each attempt
    nextDue,    \* how many calls of sendNext are due
    closing,    \* this.closing; nobody listens for its errors any more
    crashed     \* the process has ended with an uncaught exception

vars == <<att, nextDue, closing, crashed>>

Command == {"failure", "delivered", "suppressed", "bounce"}

Attempt == [
    main : {"idle", "get", "pause", "fetch", "connect", "headers", "send", "over"},
    sendingDone : BOOLEAN,
    responseSent : BOOLEAN,
    connectionDone : BOOLEAN,
    hook : BOOLEAN,                     \* sender:responseError has not called back
    connectTimer : BOOLEAN,
    events : SUBSET {"error", "end"},   \* that the connection may still have
    endTimer : BOOLEAN,                 \* the second after "end"
    waiting : SUBSET Command,           \* for the answer of the master
    reports : Seq(Command),             \* history: what was reported
    accepted : {"no", "yes", "late"}]   \* history: by the MX, or only after the
                                        \* connection has failed

NewAttempt == [
    main |-> "idle", sendingDone |-> FALSE, responseSent |-> FALSE,
    connectionDone |-> FALSE, hook |-> FALSE, connectTimer |-> FALSE,
    events |-> {}, endTimer |-> FALSE, waiting |-> {}, reports |-> << >>,
    accepted |-> "no"]

Begun == {a \in Attempts : att[a].main # "idle"}

Init ==
    /\ att = [a \in Attempts |-> NewAttempt]
    /\ nextDue = 1
    /\ closing = FALSE
    /\ crashed = FALSE

At(a, main) == ~crashed /\ att[a].main = main

To(a, r) ==
    /\ att' = [att EXCEPT ![a] = r]
    /\ UNCHANGED <<nextDue, closing, crashed>>

\* A bug to be found: the attempt goes on each time it is told to.
ContinueTwice(a, r) ==
    /\ att' = [att EXCEPT ![a] = [r EXCEPT !.sendingDone = TRUE]]
    /\ nextDue' = nextDue + 1
    /\ UNCHANGED <<closing, crashed>>

\* continueSending
ContinueSending(a, r) ==
    /\ att' = [att EXCEPT ![a] = [r EXCEPT !.sendingDone = TRUE]]
    /\ nextDue' = nextDue + (IF r.sendingDone THEN 0 ELSE 1)
    /\ UNCHANGED <<closing, crashed>>

Report(r, outcome) ==
    [r EXCEPT !.reports = Append(@, outcome), !.waiting = @ \cup {outcome}]

\* Bugs to be found: a failure is handled each time it is seen, or only before
\* the connection is done.
HandleErrorTwice(r) == [r EXCEPT !.responseSent = TRUE, !.hook = TRUE]
HandleErrorEarly(r) ==
    IF r.responseSent \/ r.connectionDone THEN r
    ELSE [r EXCEPT !.responseSent = TRUE, !.hook = TRUE]

\* handleError: the plugins are asked first, and meanwhile the rest goes on.
HandleError(r) ==
    IF r.responseSent THEN r
    ELSE [r EXCEPT !.responseSent = TRUE, !.hook = TRUE]

\* They have called back: handleResponseError, with the deferral or the bounce.
ResponseErrorHook(a) ==
    /\ ~crashed
    /\ att[a].hook
    /\ To(a, Report([att[a] EXCEPT !.hook = FALSE], "failure"))

\* sendNext; a sender that is closing stops here.
SendNext ==
    /\ ~crashed
    /\ nextDue > 0
    /\ closing \/ Begun # Attempts
    /\ nextDue' = nextDue - 1
    /\ IF closing THEN UNCHANGED att
       ELSE att' = [att EXCEPT ![Cardinality(Begun) + 1].main = "get"]
    /\ UNCHANGED <<closing, crashed>>

\* The answer to GET is an error, or that there is nothing to send.
GetNothing(a) == At(a, "get") /\ To(a, [att[a] EXCEPT !.main = "pause"])

PauseOver(a) ==
    At(a, "pause") /\ ContinueSending(a, [att[a] EXCEPT !.main = "over"])

Fetch(a) == At(a, "get") /\ To(a, [att[a] EXCEPT !.main = "fetch"])

\* A plugin refuses the delivery ...
FetchRefused(a) ==
    At(a, "fetch") /\ To(a, HandleError([att[a] EXCEPT !.main = "over"]))

\* ... or suppresses it.
Suppressed(a) ==
    At(a, "fetch") /\ To(a, Report([att[a] EXCEPT !.main = "over"], "suppressed"))

\* After the zone's throttling: the connection is looked for.
Connect(a) ==
    /\ At(a, "fetch")
    /\ To(a, [att[a] EXCEPT !.main = "connect", !.connectTimer = TRUE])

\* It takes more than 10 seconds: the attempt is left behind.
ConnectTimeout(a) ==
    /\ At(a, "connect")
    /\ att[a].connectTimer
    /\ ContinueSending(a, [att[a] EXCEPT !.connectTimer = FALSE])

ConnectFails(a) ==
    /\ At(a, "connect")
    /\ To(a, HandleError([att[a] EXCEPT !.main = "over", !.connectTimer = FALSE]))

\* An upload over HTTP has no connection that the sender listens to.
Connected(a) ==
    /\ At(a, "connect")
    /\ \E events \in {{}, {"error", "end"}} :
          To(a, [att[a] EXCEPT !.main = "headers", !.connectTimer = FALSE,
                               !.events = events])

HeadersRefused(a) ==
    /\ At(a, "headers")
    /\ To(a, HandleError([att[a] EXCEPT !.main = "over", !.connectionDone = TRUE]))

Send(a) == At(a, "headers") /\ To(a, [att[a] EXCEPT !.main = "send"])

\* A bug to be found: after the message is sent the connection still counts.
DoneForgotten(r) == [r EXCEPT !.main = "over"]

Sent(r) == [r EXCEPT !.main = "over", !.connectionDone = TRUE]

SendDone(a) ==
    /\ At(a, "send")
    /\ LET when == IF att[a].connectionDone THEN "late" ELSE "yes"
       IN  To(a, Report([Sent(att[a]) EXCEPT !.accepted = when], "delivered"))

SendFails(a) == At(a, "send") /\ To(a, HandleError(Sent(att[a])))

\* The connection fails; what a pooled connection does later is of no interest.
ConnectionError(a) ==
    /\ ~crashed
    /\ "error" \in att[a].events
    /\ LET r == [att[a] EXCEPT !.events = @ \ {"error"}]
       IN  To(a, IF r.connectionDone THEN r
                 ELSE HandleError([r EXCEPT !.connectionDone = TRUE]))

ConnectionEnd(a) ==
    /\ ~crashed
    /\ "end" \in att[a].events
    /\ To(a, [att[a] EXCEPT !.events = @ \ {"end"}, !.endTimer = ~att[a].connectionDone])

\* One second later the connection has not been accounted for.  The error that
\* is to be reported is built from `err`, which is the err of the callback that
\* gave the connection, so null: the exception ends the process.
EndTimeout(a) ==
    /\ ~crashed
    /\ att[a].endTimer
    /\ att' = [att EXCEPT ![a].endTimer = FALSE, ![a].connectionDone = TRUE]
    /\ crashed' = ~att[a].connectionDone
    /\ UNCHANGED <<nextDue, closing>>

Answered(a, c) == [att[a] EXCEPT !.waiting = @ \ {c}]

\* The master has done what the report says; after a rejection it is told to
\* send a bounce.
Acknowledged(a, c) ==
    /\ ~crashed
    /\ c \in att[a].waiting \cap {"failure", "delivered"}
    /\ \E bounce \in IF c = "failure" THEN {{}, {"bounce"}} ELSE {{}} :
          ContinueSending(a, [Answered(a, c) EXCEPT !.waiting = @ \cup bounce])

BounceSent(a) ==
    /\ ~crashed
    /\ "bounce" \in att[a].waiting
    /\ To(a, Answered(a, "bounce"))

\* A bug to be found: a release that fails is not waited out.
PauseForgotten(r) == r

AfterSuppression(r) == [r EXCEPT !.main = "pause"]

\* The answer for a suppressed delivery, whatever it is.
SuppressionAnswered(a) ==
    /\ ~crashed
    /\ "suppressed" \in att[a].waiting
    /\ To(a, AfterSuppression(Answered(a, "suppressed")))

\* The master answers with an error: the sender closes, and with it all senders
\* of the process; when they had, the error event that nobody hears is thrown.
CommandFails(a, c) ==
    /\ ~crashed
    /\ c \in att[a].waiting \ {"suppressed"}
    /\ att' = [att EXCEPT ![a] = Answered(a, c)]
    /\ closing' = TRUE
    /\ crashed' = closing
    /\ UNCHANGED nextDue

\* Another sender of the process had an error, or there are to be fewer.
Close ==
    /\ ~crashed /\ ~closing
    /\ closing' = TRUE
    /\ UNCHANGED <<att, nextDue, crashed>>

Fetching(a) == GetNothing(a) \/ PauseOver(a) \/ Fetch(a)

Connecting(a) ==
    \/ FetchRefused(a) \/ Suppressed(a) \/ Connect(a)
    \/ ConnectFails(a) \/ Connected(a)

Sending(a) == HeadersRefused(a) \/ Send(a) \/ SendDone(a) \/ SendFails(a)

Answer(a, c) ==
    \/ Acknowledged(a, c) \/ CommandFails(a, c)
    \/ (c = "bounce" /\ BounceSent(a)) \/ (c = "suppressed" /\ SuppressionAnswered(a))

Next ==
    \/ SendNext
    \/ \E a \in Attempts :
          \/ Fetching(a) \/ Connecting(a) \/ ConnectTimeout(a) \/ Sending(a)
          \/ ConnectionError(a) \/ ConnectionEnd(a) \/ EndTimeout(a)
          \/ ResponseErrorHook(a)
          \/ \E c \in Command : Answer(a, c)
    \/ Close

Spec == Init /\ [][Next]_vars

\* Timers fire, commands are answered, hooks call back, and a connection ends
\* its work one way or the other (its own timeouts see to that).
FairSpec ==
    /\ Spec
    /\ WF_vars(SendNext)
    /\ \A a \in Attempts :
          /\ WF_vars(Fetching(a) \/ Connecting(a) \/ Sending(a))
          /\ WF_vars(EndTimeout(a))
          /\ WF_vars(ResponseErrorHook(a))
          /\ \A c \in Command : WF_vars(Answer(a, c))

(***************************************************************************)
(* Properties.                                                             *)
(***************************************************************************)
\* Every variable keeps its shape.
TypeOK ==
    /\ nextDue \in 0..MaxAttempts
    /\ {closing, crashed} \subseteq BOOLEAN
    /\ DOMAIN att = Attempts
    /\ \A a \in Attempts : att[a] \in Attempt

\* A sender is one loop, however many attempts it has left behind: it is either
\* about to call sendNext or has one attempt that will (continueSending passes
\* the turn on once per attempt).  All share one deliveryTimer, which would be
\* cleared under a second loop.
OneLoop ==
    ~closing => nextDue + Cardinality({a \in Begun : ~att[a].sendingDone}) = 1

\* A delivery is reported once, whatever order its timers, events and callbacks
\* come in and however many of them tell of a failure (responseSent).  There is
\* one exception: a message that the MX accepts after its connection has failed
\* (UNEXPECTED in the log) is released as well as deferred or bounced, in either
\* order, as a plugin may hold the failure back.
OneOutcome ==
    \A a \in Attempts :
        \/ Len(att[a].reports) <= 1
        \/ /\ att[a].accepted = "late"
           /\ att[a].reports \in {<<"failure", "delivered">>, <<"delivered", "failure">>}

\* Every delivery that is fetched is reported to the master, so that it does
\* not stay locked, unless the process ends.
FetchedIsReported ==
    \A a \in Attempts :
        (att[a].main = "fetch") ~> (att[a].reports # << >> \/ crashed)

\* A sender that is not closed goes on to its next attempt, after every failure.
KeepsSending == <>(Begun = Attempts \/ closing \/ crashed)

\* What the handler of "end" is for: a delivery whose connection is closed
\* early is reported (as a temporary network error).
ClosedIsReported ==
    \A a \in Attempts : att[a].endTimer ~> (att[a].reports # << >>)
=============================================================================
