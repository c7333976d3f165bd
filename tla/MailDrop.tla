------------------------------- MODULE MailDrop -------------------------------
(***************************************************************************)
(* How a message enters the queue: handleMessage of lib/smtp-interface.js, *)
(* add of lib/mail-drop.js, lib/remote-queue.js, the commands PUSH and     *)
(* REMOVE of lib/queue-server.js with what they do to the database, and    *)
(* the collection of bodies that nothing in the queue refers to            *)
(* (clearGarbage of lib/mail-queue.js).                                    *)
(*                                                                         *)
(* A receiver process runs the stream of a message through the plugins     *)
(* into the database while it waits for their hooks.  An error of the      *)
(* stream is an event; where nothing listens for it the process ends, with *)
(* all its messages.  What happens to an entry later is in MailQueue.tla.  *)
(***************************************************************************)
EXTENDS Integers, FiniteSets

CONSTANTS
    Messages,
    Receiver,   \* message -> the process that receives it
    Margin,     \* of the collection: ten minutes
    Timely,     \* is every message queued before the margin is over?
    MaxTime     \* bound

ASSUME MailDropAssumption ==
    /\ Margin \in Nat \ {0}
    /\ Timely \in BOOLEAN
    /\ MaxTime \in Nat

VARIABLES
    now,
    msg,        \* each message in its receiver process
    file,       \* its body in the database
    entry,      \* its entries in the queue
    clearUntil  \* of the round of the collection that is under way

vars == <<now, msg, file, entry, clearUntil>>

None == -1

NoRound == -1

Message == [
    \* the callback that is waited for
    at : {"start", "hook", "refused", "store", "failing", "stuck", "queue",
          "meta", "push", "remove", "over", "crashed"},
    stream : {"none", "head", "headers", "body", "ended", "error"},
    answers : 0..1,
    accepted : BOOLEAN]

\* "some" are chunks that no file refers to, "cut" is a file without all of its.
File == [body : {"none", "some", "cut", "whole"}, since : None..MaxTime]
Entry == [at : {"none", "queued", "sent", "dropped"}, since : None..MaxTime]

Init ==
    /\ now = 0
    /\ msg = [m \in Messages |->
                [at |-> "start", stream |-> "none", answers |-> 0, accepted |-> FALSE]]
    /\ file = [m \in Messages |-> [body |-> "none", since |-> None]]
    /\ entry = [m \in Messages |-> [at |-> "none", since |-> None]]
    /\ clearUntil = NoRound

GoesTo(m, where) == msg' = [msg EXCEPT ![m].at = where]

Answer(m, ok) ==
    msg' = [msg EXCEPT ![m].at = "over", ![m].answers = @ + 1, ![m].accepted = ok]

(***************************************************************************)
(* The stream.                                                             *)
(***************************************************************************)
\* handleMessage: the smtp:data hooks refuse the message, or it is added.
Data(m, ok) ==
    /\ msg[m].at = "start"
    /\ IF ok THEN msg' = [msg EXCEPT ![m].at = "hook", ![m].stream = "head"]
             ELSE Answer(m, FALSE)
    /\ UNCHANGED <<now, file, entry, clearUntil>>

Streams(m) == msg[m].at # "crashed" /\ msg[m].stream \in {"head", "headers", "body"}

\* onHeaders; the message:headers hooks let it pass; the rest comes.
StreamGoes(m) ==
    /\ Streams(m)
    /\ msg' = [msg EXCEPT ![m].stream = CASE @ = "head" -> "headers"
                                          [] @ = "headers" -> "body"
                                          [] @ = "body" -> "ended"]
    /\ UNCHANGED <<now, file, entry, clearUntil>>

\* All that a process does ends with it; a PUSH may be on its way.
Crash(r) ==
    LET under == {m \in Messages : Receiver[m] = r /\ msg[m].at \notin {"start", "over"}}
    IN  /\ msg' = [m \in Messages |->
                     IF m \in under THEN [msg[m] EXCEPT !.at = "crashed"] ELSE msg[m]]
        /\ \E sent \in SUBSET {m \in under : msg[m].at = "push"} :
              entry' = [m \in Messages |->
                          IF m \in sent THEN [at |-> "queued", since |-> now] ELSE entry[m]]

\* A bug to be found: store does not look at `returned`.
HeardAgain(m) == msg[m].at \in {"store", "remove", "over"}

\* The error listener of store that has not returned
Heard(m) == msg[m].at = "store"

\* A filter or a hook refuses it, its head or its size is above the limit.
\* Before the message:store hooks are done, and for good if they have refused
\* it, nobody listens.
StreamError(m) ==
    /\ Streams(m)
    /\ \/ /\ msg[m].at \in {"hook", "refused"}
          /\ Crash(Receiver[m])
       \/ /\ Heard(m)
          /\ msg' = [msg EXCEPT ![m].at = "failing", ![m].stream = "error"]
          /\ UNCHANGED entry
       \/ /\ msg[m].at \notin {"hook", "refused"} /\ ~Heard(m)
          /\ msg' = [msg EXCEPT ![m].stream = "error"]
          /\ UNCHANGED entry
    /\ UNCHANGED <<now, file, clearUntil>>

(***************************************************************************)
(* The callbacks.                                                          *)
(***************************************************************************)
\* message:store: it is refused, and the stream is read to its end, or it is
\* uploaded; the id of the upload has the time of its beginning.
StoreHook(m, ok) ==
    /\ msg[m].at = "hook"
    /\ IF ok
       THEN /\ GoesTo(m, "store")
            /\ file' = [file EXCEPT ![m] = [body |-> "some", since |-> now]]
       ELSE /\ msg' = [msg EXCEPT ![m].at = "refused", ![m].answers = @ + 1]
            /\ UNCHANGED file
    /\ UNCHANGED <<now, entry, clearUntil>>

\* The file is there when all chunks are; it is not checked that they still are.
Finished(m) == [file EXCEPT ![m].body = IF @ = "some" THEN "whole" ELSE "cut"]

\* 'finish' of the upload
UploadDone(m) ==
    /\ msg[m].at = "store" /\ msg[m].stream = "ended"
    /\ file' = Finished(m)
    /\ GoesTo(m, "queue")
    /\ UNCHANGED <<now, entry, clearUntil>>

\* 'error' of the upload.  If the stream had one before, this is not told and
\* 'finish' does not come.
UploadFails(m) ==
    /\ \/ msg[m].at = "store" /\ GoesTo(m, "remove")
       \/ msg[m].at = "failing" /\ GoesTo(m, "stuck")
    /\ UNCHANGED <<now, file, entry, clearUntil>>

\* A bug to be found: both listeners of 'finish' call back.
FailedGoesOn == "queue"

AfterFailed == "remove"

\* 'finish' of an upload that was ended early; store removes it, and add once more
FailingDone(m) ==
    /\ msg[m].at = "failing"
    /\ file' = Finished(m)
    /\ GoesTo(m, AfterFailed)
    /\ UNCHANGED <<now, entry, clearUntil>>

\* message:queue
QueueHook(m, ok) ==
    /\ msg[m].at = "queue"
    /\ GoesTo(m, IF ok THEN "meta" ELSE "remove")
    /\ UNCHANGED <<now, file, entry, clearUntil>>

SetMeta(m, ok) ==
    /\ msg[m].at = "meta"
    /\ GoesTo(m, IF ok THEN "push" ELSE "remove")
    /\ UNCHANGED <<now, file, entry, clearUntil>>

\* PUSH: the entries are inserted or not, and it may fail in either case.
Push(m, inserted, ok) ==
    /\ msg[m].at = "push"
    /\ ok => inserted
    /\ entry' = IF inserted THEN [entry EXCEPT ![m] = [at |-> "queued", since |-> now]]
                ELSE entry
    /\ IF ok THEN Answer(m, TRUE) ELSE GoesTo(m, "remove")
    /\ UNCHANGED <<now, file, clearUntil>>

\* A bug to be found: there is no answer if it cannot be removed.
RemovedOnly(m, ok) == IF ok THEN Answer(m, FALSE) ELSE GoesTo(m, "stuck")

AfterRemove(m, ok) == Answer(m, FALSE)

\* removeMessage deletes a file that is there, and the callback gets the error
\* that led here.
Remove(m, ok) ==
    /\ msg[m].at = "remove"
    /\ file' = IF ok /\ file[m].body \in {"cut", "whole"}
               THEN [file EXCEPT ![m].body = "none"] ELSE file
    /\ AfterRemove(m, ok)
    /\ UNCHANGED <<now, entry, clearUntil>>

\* The process is killed.
Kill(r) ==
    /\ \E m \in Messages : Receiver[m] = r /\ msg[m].at \notin {"start", "over", "crashed"}
    /\ Crash(r)
    /\ UNCHANGED <<now, file, clearUntil>>

(***************************************************************************)
(* The queue.                                                              *)
(***************************************************************************)
\* All entries are released, and the body with them.
Deliver(m) ==
    /\ entry[m].at = "queued" /\ file[m].body = "whole"
    /\ entry' = [entry EXCEPT ![m].at = "sent"]
    /\ file' = [file EXCEPT ![m].body = "none"]
    /\ UNCHANGED <<now, msg, clearUntil>>

\* shift does not find the message and deletes the entries.
Orphaned(m) ==
    /\ entry[m].at = "queued" /\ file[m].body = "none"
    /\ entry' = [entry EXCEPT ![m].at = "dropped"]
    /\ UNCHANGED <<now, msg, file, clearUntil>>

Queued == {m \in Messages : entry[m].at = "queued"}

\* A bug to be found: only the age of the bodies counts.
ClearAll(until) == until = now - Margin

\* The time of the oldest entry, or now if there is none, less the margin
ClearsUntil(until) ==
    IF Queued = {} THEN until = now - Margin
    ELSE /\ \E m \in Queued : until = entry[m].since - Margin
         /\ \A m \in Queued : until <= entry[m].since - Margin

\* clearGarbage looks for the oldest entry.
OldestFound ==
    /\ clearUntil = NoRound
    /\ \E until \in 0..MaxTime :
          /\ ClearsUntil(until)
          /\ clearUntil' = until
    /\ UNCHANGED <<now, msg, file, entry>>

Uploading(m) == msg[m].at \in {"store", "failing"}

\* It deletes the files, and then the chunks, with an older id.
Clear ==
    /\ clearUntil # NoRound
    /\ file' = [m \in Messages |->
                  IF file[m].body = "none" \/ file[m].since > clearUntil THEN file[m]
                  ELSE [file[m] EXCEPT !.body = IF Uploading(m) THEN "cut" ELSE "none"]]
    /\ clearUntil' = NoRound
    /\ UNCHANGED <<now, msg, entry>>

\* From the beginning of its upload to the insertion of its entries
UnderWay(m) == msg[m].at \in {"store", "queue", "meta", "push"}

Tick ==
    /\ now < MaxTime
    /\ Timely => \A m \in Messages : UnderWay(m) => now + 1 < file[m].since + Margin
    /\ now' = now + 1
    /\ UNCHANGED <<msg, file, entry, clearUntil>>

Storing(m) ==
    \/ \E ok \in BOOLEAN : StoreHook(m, ok) \/ QueueHook(m, ok)
    \/ UploadDone(m) \/ UploadFails(m) \/ FailingDone(m)

Commands(m) ==
    \E ok \in BOOLEAN :
        \/ SetMeta(m, ok) \/ Remove(m, ok)
        \/ \E inserted \in BOOLEAN : Push(m, inserted, ok)

Next ==
    \/ \E m \in Messages :
          \/ \E ok \in BOOLEAN : Data(m, ok)
          \/ StreamGoes(m) \/ StreamError(m)
          \/ Storing(m) \/ Commands(m)
          \/ Deliver(m) \/ Orphaned(m)
    \/ \E m \in Messages : Kill(Receiver[m])
    \/ OldestFound \/ Clear
    \/ Tick

Spec == Init /\ [][Next]_vars

\* Plugins, the database and the master call back.
FairSpec ==
    /\ Spec
    /\ \A m \in Messages :
          WF_vars(Storing(m) /\ (msg[m].at = "store" => msg[m].stream = "ended"))
          /\ WF_vars(Commands(m))

(***************************************************************************)
(* Properties.                                                             *)
(***************************************************************************)
\* Every variable keeps its shape; no message is answered twice.
TypeOK ==
    /\ now \in 0..MaxTime
    /\ msg \in [Messages -> Message]
    /\ file \in [Messages -> File]
    /\ entry \in [Messages -> Entry]
    /\ clearUntil \in NoRound..MaxTime

\* A message that a client was told is queued is sent or still there, with its
\* body, whatever failed, crashed and was collected meanwhile.
AcceptedIsKept ==
    \A m \in Messages :
        msg[m].accepted =>
            \/ entry[m].at = "sent"
            \/ entry[m].at = "queued" /\ file[m].body = "whole"

\* Nothing is queued of which only a part has come, or which a filter or hook
\* has refused.
OnlyWholeIsQueued ==
    \A m \in Messages : entry[m].at # "none" => msg[m].stream = "ended"

\* One answer at most, and no entry of what was refused, broken or cut.
Consistent == TypeOK /\ OnlyWholeIsQueued

\* A message that has come completely is answered, unless its process ends.
ReceivedIsAnswered ==
    \A m \in Messages :
        (msg[m].stream = "ended") ~> (msg[m].answers = 1 \/ msg[m].at = "crashed")
=============================================================================
