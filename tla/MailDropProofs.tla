---------------------------- MODULE MailDropProofs ----------------------------
(***************************************************************************)
(* Proofs about MailDrop: for any messages and receiver processes, any     *)
(* margin and any bound of the time, what was accepted is kept if every    *)
(* message is queued before the margin is over, and in any case nothing is *)
(* queued of which only a part has come.  After them, proofs about the     *)
(* processes that receive the messages (SmtpProxy): each that ends is made *)
(* up for, and they take turns.                                            *)
(***************************************************************************)
EXTENDS MailDrop, SequenceTheorems, FiniteSetTheorems, TLAPS

(***************************************************************************)
(* Between its first and its last callback a message has not been          *)
(* answered; until PUSH it has no entries, and from the end of its upload  *)
(* on its stream has ended.                                                *)
(***************************************************************************)
Steps(m) ==
    /\ msg[m].at \notin {"refused", "over", "crashed"} => msg[m].answers = 0
    /\ msg[m].at \in {"start", "hook", "refused", "store", "failing", "stuck",
                      "queue", "meta", "push"}
          => entry[m].at = "none"
    /\ msg[m].at \in {"queue", "meta", "push"} \/ entry[m].at # "none"
          => msg[m].stream = "ended"
    /\ msg[m].accepted => msg[m].at = "over"

InOrder == \A m \in Messages : Steps(m)

Inv == TypeOK /\ InOrder

(***************************************************************************)
(* What the collection may delete is older, by the margin, than all that   *)
(* is in the queue or on its way there.                                    *)
(***************************************************************************)
Fresh(m) ==
    /\ file[m].since \in 0..now
    /\ now < file[m].since + Margin
    /\ file[m].body = IF msg[m].at = "store" THEN "some" ELSE "whole"

Kept(m) ==
    \/ entry[m].at = "sent"
    \/ /\ entry[m].at = "queued"
       /\ file[m].body = "whole"
       /\ entry[m].since < file[m].since + Margin

Cleared ==
    /\ clearUntil # NoRound => clearUntil <= now - Margin
    /\ \A m \in Queued : /\ entry[m].since \in 0..now
                         /\ clearUntil # NoRound => clearUntil <= entry[m].since - Margin

Safe ==
    /\ Cleared
    /\ \A m \in Messages : (UnderWay(m) => Fresh(m)) /\ (msg[m].accepted => Kept(m))

IInv == Inv /\ Safe

(***************************************************************************)
(* One answer, and nothing but whole messages in the queue.                *)
(***************************************************************************)
LEMMA InitInv == Init => Inv
BY MailDropAssumption
   DEF Init, Inv, TypeOK, InOrder, Steps, Message, File, Entry, None, NoRound

\* A process that ends leaves its messages as they are.
LEMMA CrashKeeps ==
    ASSUME Inv, NEW r, Crash(r), UNCHANGED <<now, file, clearUntil>>
    PROVE  Inv'
<1> USE MailDropAssumption DEF Crash, Inv, TypeOK, Message, Entry
<1>1. TypeOK'
  <2>1. ASSUME NEW m \in Messages PROVE msg'[m] \in Message
    <3>1. msg[m] \in Message
      OBVIOUS
    <3>2. msg'[m] \in {msg[m], [msg[m] EXCEPT !.at = "crashed"]}
      OBVIOUS
    <3> QED BY <3>1, <3>2
  <2>2. PICK sent \in SUBSET Messages :
           entry' = [m \in Messages |->
                       IF m \in sent THEN [at |-> "queued", since |-> now] ELSE entry[m]]
    OBVIOUS
  <2>3. entry' \in [Messages -> Entry]
    BY <2>2 DEF None
  <2>4. msg' \in [Messages -> Message]
    BY <2>1
  <2> QED BY <2>3, <2>4
<1>2. ASSUME NEW m \in Messages PROVE Steps(m)'
  BY DEF InOrder, Steps
<1> QED BY <1>1, <1>2 DEF InOrder

LEMMA StepInv == Inv /\ [Next]_vars => Inv'
<1> SUFFICES ASSUME Inv, [Next]_vars PROVE Inv'
  OBVIOUS
<1> USE MailDropAssumption DEF Inv, TypeOK, Message
<1>1. CASE UNCHANGED vars
  BY <1>1 DEF vars, InOrder, Steps, File, Entry
<1>2. ASSUME NEW m \in Messages, NEW ok \in BOOLEAN, Data(m, ok) PROVE Inv'
  <2>1. CASE ok
    <3>1. /\ msg' = [msg EXCEPT ![m].at = "hook", ![m].stream = "head"]
          /\ UNCHANGED <<now, file, entry, clearUntil>>
          /\ msg[m].at = "start"
      BY <1>2, <2>1 DEF Data
    <3>2. TypeOK'
      BY ZenonT(30), <3>1
    <3>3. InOrder'
      BY <3>1 DEF InOrder, Steps
    <3> QED BY <3>2, <3>3
  <2>2. CASE ~ok
    <3>1. /\ msg' = [msg EXCEPT ![m].at = "over", ![m].answers = @ + 1, ![m].accepted = FALSE]
          /\ UNCHANGED <<now, file, entry, clearUntil>>
          /\ msg[m].at = "start"
      BY <1>2, <2>2 DEF Data, Answer
    <3>2. TypeOK'
      <4>1. msg[m].answers = 0
        BY <3>1 DEF InOrder, Steps
      <4> QED BY <3>1, <4>1
    <3>3. InOrder'
      BY <3>1 DEF InOrder, Steps
    <3> QED BY <3>2, <3>3
  <2> QED BY <2>1, <2>2
<1>3. ASSUME NEW m \in Messages, StreamGoes(m) PROVE Inv'
  BY <1>3 DEF StreamGoes, Streams, InOrder, Steps
<1>4. ASSUME NEW m \in Messages, StreamError(m) PROVE Inv'
  <2>1. CASE msg[m].at \in {"hook", "refused"}
    BY <1>4, <2>1, CrashKeeps DEF StreamError, Heard
  <2>2. CASE msg[m].at \notin {"hook", "refused"}
    BY <1>4, <2>2 DEF StreamError, Heard, Streams, InOrder, Steps
  <2> QED BY <2>1, <2>2
<1>5. ASSUME NEW m \in Messages, NEW ok \in BOOLEAN, StoreHook(m, ok) PROVE Inv'
  <2>1. CASE ok
    <3>1. /\ msg' = [msg EXCEPT ![m].at = "store"]
          /\ file' = [file EXCEPT ![m] = [body |-> "some", since |-> now]]
          /\ UNCHANGED <<now, entry, clearUntil>>
          /\ msg[m].at = "hook"
      BY <1>5, <2>1 DEF StoreHook, GoesTo
    <3>2. [body |-> "some", since |-> now] \in File
      BY DEF File, None
    <3>3. file' \in [Messages -> File]
      BY <3>1, <3>2
    <3>4. TypeOK'
      BY <3>1, <3>3
    <3>5. InOrder'
      BY <3>1 DEF InOrder, Steps
    <3> QED BY <3>4, <3>5
  <2>2. CASE ~ok
    BY <1>5, <2>2 DEF StoreHook, GoesTo, InOrder, Steps, File, None
  <2> QED BY <2>1, <2>2
<1>6. ASSUME NEW m \in Messages, UploadDone(m) PROVE Inv'
  BY <1>6 DEF UploadDone, Finished, GoesTo, InOrder, Steps, File
<1>7. ASSUME NEW m \in Messages, UploadFails(m) PROVE Inv'
  BY SMTT(30), <1>7 DEF UploadFails, GoesTo, InOrder, Steps
<1>8. ASSUME NEW m \in Messages, FailingDone(m) PROVE Inv'
  BY <1>8 DEF FailingDone, AfterFailed, Finished, GoesTo, InOrder, Steps, File
<1>9. ASSUME NEW m \in Messages, NEW ok \in BOOLEAN, QueueHook(m, ok) PROVE Inv'
  BY <1>9 DEF QueueHook, GoesTo, InOrder, Steps
<1>10. ASSUME NEW m \in Messages, NEW ok \in BOOLEAN, SetMeta(m, ok) PROVE Inv'
  BY <1>10 DEF SetMeta, GoesTo, InOrder, Steps
<1>11. ASSUME NEW m \in Messages, NEW ok \in BOOLEAN, NEW inserted \in BOOLEAN,
              Push(m, inserted, ok)
       PROVE  Inv'
  <2>1. CASE ok
    BY <1>11, <2>1 DEF Push, Answer, GoesTo, InOrder, Steps, Entry, None
  <2>2. CASE ~ok
    BY <1>11, <2>2 DEF Push, Answer, GoesTo, InOrder, Steps, Entry, None
  <2> QED BY <2>1, <2>2
<1>12. ASSUME NEW m \in Messages, NEW ok \in BOOLEAN, Remove(m, ok) PROVE Inv'
  BY <1>12 DEF Remove, AfterRemove, Answer, InOrder, Steps, File
<1>13. ASSUME NEW m \in Messages, Kill(Receiver[m]) PROVE Inv'
  BY <1>13, CrashKeeps DEF Kill
<1>14. ASSUME NEW m \in Messages, Deliver(m) PROVE Inv'
  BY <1>14 DEF Deliver, InOrder, Steps, File, Entry
<1>15. ASSUME NEW m \in Messages, Orphaned(m) PROVE Inv'
  BY <1>15 DEF Orphaned, InOrder, Steps, Entry
<1>16. CASE OldestFound
  BY <1>16 DEF OldestFound, InOrder, Steps, NoRound
<1>17. CASE Clear
  BY <1>17 DEF Clear, InOrder, Steps, File, NoRound
<1>18. CASE Tick
  BY <1>18 DEF Tick, InOrder, Steps
<1> QED
  BY <1>1, <1>2, <1>3, <1>4, <1>5, <1>6, <1>7, <1>8, <1>9, <1>10, <1>11, <1>12,
     <1>13, <1>14, <1>15, <1>16, <1>17, <1>18
     DEF Next, Storing, Commands

\* The variables keep their shape and a message is answered once: of the
\* callbacks and events of a message only one answers the client.
THEOREM TypeCorrect == Spec => []TypeOK
<1>1. Inv => TypeOK
  BY DEF Inv
<1> QED BY InitInv, StepInv, <1>1, PTL DEF Spec

\* Whatever fails, and whenever, no part of a message is queued: neither one
\* that was cut short by an error of the stream nor one that a hook refused.
THEOREM OnlyWholeHolds == Spec => []OnlyWholeIsQueued
<1>1. Inv => OnlyWholeIsQueued
  BY DEF Inv, InOrder, Steps, OnlyWholeIsQueued
<1> QED BY InitInv, StepInv, <1>1, PTL DEF Spec

\* One answer at most, and no entry of what was refused, broken or cut.
THEOREM ConsistentHolds == Spec => []Consistent
<1>1. TypeOK /\ OnlyWholeIsQueued => Consistent
  BY DEF Consistent
<1> QED BY TypeCorrect, OnlyWholeHolds, <1>1, PTL

(***************************************************************************)
(* What is accepted is kept.                                               *)
(***************************************************************************)
LEMMA InitSafe == Init => Safe
BY DEF Init, Safe, Cleared, Queued, NoRound, UnderWay

\* The entries of messages whose process ends are as fresh as the moment.
LEMMA CrashIsSafe ==
    ASSUME Timely, IInv, NEW r, Crash(r), UNCHANGED <<now, file, clearUntil>>
    PROVE  Safe'
<1> USE MailDropAssumption DEF IInv, Inv, TypeOK, Message, Entry, File
<1>1. \A m \in Messages :
         /\ msg'[m] \in {msg[m], [msg[m] EXCEPT !.at = "crashed"]}
         /\ msg[m].at = "over" => msg'[m] = msg[m]
         /\ entry'[m] = entry[m] \/ (entry'[m] = [at |-> "queued", since |-> now] /\ msg[m].at = "push")
  BY DEF Crash
<1>2. Cleared'
  BY <1>1 DEF Safe, Cleared, Queued, NoRound
<1>3. ASSUME NEW m \in Messages, UnderWay(m)' PROVE Fresh(m)'
  BY <1>1, <1>3 DEF Safe, UnderWay, Fresh
<1>4. ASSUME NEW m \in Messages, (msg[m].accepted)' PROVE Kept(m)'
  <2>1. msg[m].accepted
    BY ZenonT(30), <1>1, <1>4
  <2>2. msg[m].at = "over"
    BY <2>1 DEF InOrder, Steps
  <2>3. Kept(m)
    BY <2>1 DEF Safe
  <2> QED BY <1>1, <2>2, <2>3 DEF Kept
<1> QED BY <1>2, <1>3, <1>4 DEF Safe

LEMMA StepSafe ==
    ASSUME Timely
    PROVE  IInv /\ Inv' /\ [Next]_vars => Safe'
<1> SUFFICES ASSUME IInv, Inv', [Next]_vars PROVE Safe'
  OBVIOUS
<1> USE MailDropAssumption DEF IInv, Inv, TypeOK, Message, Entry, File
<1> USE DEF Safe, Cleared, Queued, UnderWay, Fresh, Kept, InOrder, Steps
<1>1. CASE UNCHANGED vars
  BY <1>1 DEF vars
<1>2. ASSUME NEW m \in Messages, NEW ok \in BOOLEAN, Data(m, ok) PROVE Safe'
  <2>1. CASE ok
    <3>1. /\ msg[m].at = "start"
          /\ msg' = [msg EXCEPT ![m].at = "hook", ![m].stream = "head"]
          /\ UNCHANGED <<now, file, entry, clearUntil>>
      BY <1>2, <2>1 DEF Data
    <3>2. msg'[m].at = "hook"
      BY <3>1
    <3>3. ~msg'[m].accepted
      BY <3>2
    <3>4. ASSUME NEW n \in Messages, n # m
          PROVE  msg'[n] = msg[n]
      BY <3>1, <3>4
    <3> QED BY <3>1, <3>2, <3>3, <3>4
  <2>2. CASE ~ok
    BY <1>2, <2>2 DEF Data, Answer
  <2> QED BY <2>1, <2>2
<1>3. ASSUME NEW m \in Messages, StreamGoes(m) PROVE Safe'
  BY <1>3 DEF StreamGoes, Streams
<1>4. ASSUME NEW m \in Messages, StreamError(m) PROVE Safe'
  <2>1. CASE msg[m].at \in {"hook", "refused"}
    BY <1>4, <2>1, CrashIsSafe DEF StreamError, Heard
  <2>2. CASE msg[m].at \notin {"hook", "refused"}
    BY <1>4, <2>2 DEF StreamError, Heard, Streams
  <2> QED BY <2>1, <2>2
<1>5. ASSUME NEW m \in Messages, NEW ok \in BOOLEAN, StoreHook(m, ok) PROVE Safe'
  <2>1. CASE ok
    <3>1. /\ msg[m].at = "hook"
          /\ msg' = [msg EXCEPT ![m].at = "store"]
          /\ file' = [file EXCEPT ![m] = [body |-> "some", since |-> now]]
          /\ UNCHANGED <<now, entry, clearUntil>>
      BY <1>5, <2>1 DEF StoreHook, GoesTo
    <3>2. /\ msg'[m].at = "store"
          /\ file'[m] = [body |-> "some", since |-> now]
      BY <3>1
    <3>3. ~msg'[m].accepted
      BY <3>2
    <3>4. ASSUME NEW n \in Messages, n # m
          PROVE  msg'[n] = msg[n] /\ file'[n] = file[n]
      BY <3>1, <3>4
    <3> QED BY <3>1, <3>2, <3>3, <3>4
  <2>2. CASE ~ok
    BY <1>5, <2>2 DEF StoreHook
  <2> QED BY <2>1, <2>2
<1>6. ASSUME NEW m \in Messages, UploadDone(m) PROVE Safe'
  BY <1>6 DEF UploadDone, Finished, GoesTo
<1>7. ASSUME NEW m \in Messages, UploadFails(m) PROVE Safe'
  BY SMTT(30), <1>7 DEF UploadFails, GoesTo
<1>8. ASSUME NEW m \in Messages, FailingDone(m) PROVE Safe'
  BY <1>8 DEF FailingDone, AfterFailed, Finished, GoesTo
<1>9. ASSUME NEW m \in Messages, NEW ok \in BOOLEAN, QueueHook(m, ok) PROVE Safe'
  BY <1>9 DEF QueueHook, GoesTo
<1>10. ASSUME NEW m \in Messages, NEW ok \in BOOLEAN, SetMeta(m, ok) PROVE Safe'
  BY <1>10 DEF SetMeta, GoesTo
<1>11. ASSUME NEW m \in Messages, NEW ok \in BOOLEAN, NEW inserted \in BOOLEAN,
              Push(m, inserted, ok)
       PROVE  Safe'
  BY <1>11 DEF Push, Answer, GoesTo
<1>12. ASSUME NEW m \in Messages, NEW ok \in BOOLEAN, Remove(m, ok) PROVE Safe'
  BY <1>12 DEF Remove, AfterRemove, Answer
<1>13. ASSUME NEW m \in Messages, Kill(Receiver[m]) PROVE Safe'
  BY <1>13, CrashIsSafe DEF Kill
<1>14. ASSUME NEW m \in Messages, Deliver(m) PROVE Safe'
  BY <1>14 DEF Deliver
<1>15. ASSUME NEW m \in Messages, Orphaned(m) PROVE Safe'
  BY <1>15 DEF Orphaned
<1>16. CASE OldestFound
  BY <1>16 DEF OldestFound, ClearsUntil
<1>17. CASE Clear
  BY <1>17 DEF Clear
<1>18. CASE Tick
  BY <1>18 DEF Tick
<1> HIDE DEF IInv, Inv, TypeOK, Message, Entry, File, Safe, Cleared, Queued,
         UnderWay, Fresh, Kept, InOrder, Steps
<1> QED
  BY <1>1, <1>2, <1>3, <1>4, <1>5, <1>6, <1>7, <1>8, <1>9, <1>10, <1>11, <1>12,
     <1>13, <1>14, <1>15, <1>16, <1>17, <1>18
     DEF Next, Storing, Commands

\* Whatever failed, crashed and was collected meanwhile, a message that the
\* client was told is queued is sent or in the queue with its body, if messages
\* are queued before the margin of the collection is over.
THEOREM AcceptedHolds ==
    ASSUME Timely
    PROVE  Spec => []AcceptedIsKept
<1>1. Init => IInv
  BY InitInv, InitSafe DEF IInv
<1>2. IInv /\ [Next]_vars => IInv'
  BY StepInv, StepSafe DEF IInv
<1>3. IInv => AcceptedIsKept
  BY DEF IInv, Safe, Kept, AcceptedIsKept
<1> QED BY <1>1, <1>2, <1>3, PTL DEF Spec

(***************************************************************************)
(* The receiver processes that take the messages in: SmtpProxy, for any    *)
(* number of processes and connections.  They share no variable with the   *)
(* messages above, so it is an instance of its own.                        *)
(***************************************************************************)
CONSTANTS Processes, Children, Sockets, MaxExits

VARIABLES children, passed, started, spawns, respawns, closing, running, child, socket,
          exits, owed

Proxy == INSTANCE SmtpProxy

States == {"none", "starting", "ready", "gone"}
Places == {"new", "sent", "session", "stuck", "over"}

\* The members of the Set and the processes agree.
ListOK ==
    /\ children \in Seq(Children)
    /\ \A i, j \in DOMAIN children : children[i] = children[j] => i = j
    /\ Len(children) <= Processes
    /\ passed \in Nat /\ passed <= Len(children)
    /\ child \in [Children -> States]
    /\ running => \A c \in Children : c \in Proxy!Listed <=> child[c] # "none"
    /\ ~running => children = << >> /\ \A c \in Children : child[c] # "gone"

SocketsOK ==
    /\ socket \in [Sockets -> [at : Places, child : Children \cup {Proxy!NoChild}]]
    /\ \A s \in Sockets :
          socket[s].child # Proxy!NoChild <=> socket[s].at \in {"sent", "session"}

Gone == {c \in Children : child[c] = "gone"}

\* Each call of spawnReceiver that waits is the first one or follows from the end
\* of a process.
CallsOK ==
    /\ spawns \in Nat /\ respawns \in Nat
    /\ exits \in Nat /\ exits <= MaxExits
    /\ started \in BOOLEAN /\ closing \in BOOLEAN /\ running \in BOOLEAN
    /\ spawns + respawns + Cardinality(Gone) <= exits + (IF started THEN 1 ELSE 0)
    /\ respawns + Cardinality(Gone) <= exits

\* Who has not had a connection since process i was given one comes before it
\* again: the selector has passed i, but not them, or it has been at them in
\* this round before it was at i.
TurnsOK ==
    /\ DOMAIN owed \subseteq Proxy!Listed
    /\ \A c \in DOMAIN owed : owed[c] \subseteq Proxy!Listed
    /\ \A i, j \in DOMAIN children :
          children[i] \in DOMAIN owed /\ children[j] \in owed[children[i]] =>
              IF i <= passed THEN passed < j \/ j < i ELSE passed < j /\ j < i

\* ProxyAssumption of SmtpProxy
ProxyConstants ==
    /\ Processes \in Nat \ {0}
    /\ Children \subseteq Nat \ {0}
    /\ IsFiniteSet(Children)
    /\ MaxExits \in Nat

ReceiversInv ==
    /\ ProxyConstants
    /\ ListOK /\ SocketsOK /\ CallsOK /\ TurnsOK
    /\ Proxy!MissingIsOnItsWay

(***************************************************************************)
(* Facts about the Set.                                                    *)
(***************************************************************************)
LEMMA ReceiversConstants ==
    ASSUME ProxyConstants
    PROVE  /\ Processes \in Nat /\ Processes > 0 /\ MaxExits \in Nat
           /\ Proxy!NoChild \notin Children /\ IsFiniteSet(Children)
BY DEF ProxyConstants, Proxy!NoChild

LEMMA GoneType == ProxyConstants => IsFiniteSet(Gone) /\ Cardinality(Gone) \in Nat
<1> SUFFICES ASSUME ProxyConstants PROVE IsFiniteSet(Gone) /\ Cardinality(Gone) \in Nat
  OBVIOUS
<1>1. Gone \in SUBSET Children
  BY DEF Gone
<1> QED BY <1>1, ReceiversConstants, FS_Subset, FS_CardinalityType

LEMMA Members ==
    ASSUME ListOK
    PROVE  /\ Len(children) \in Nat /\ DOMAIN children = 1..Len(children)
           /\ \A i \in DOMAIN children :
                 children[i] \in Children /\ children[i] \in Proxy!Listed
           /\ \A c \in Proxy!Listed : \E i \in DOMAIN children : children[i] = c
           /\ Proxy!Listed \subseteq Children
<1>1. children \in Seq(Children)
  BY DEF ListOK
<1>2. Len(children) \in Nat /\ DOMAIN children = 1..Len(children)
  BY <1>1
<1>3. \A i \in DOMAIN children : children[i] \in Children
  BY <1>1, <1>2
<1> QED BY <1>2, <1>3 DEF Proxy!Listed

\* What becomes of the Set when c, its member number q, is deleted.
LEMMA Deletes ==
    ASSUME ListOK, NEW q \in DOMAIN children, NEW c, c = children[q]
    PROVE  /\ Proxy!Deleted(c) \in Seq(Children)
           /\ Len(Proxy!Deleted(c)) = Len(children) - 1
           /\ \A i \in 1..Len(children) - 1 :
                 /\ i < q => i \in DOMAIN children /\ Proxy!Deleted(c)[i] = children[i]
                 /\ ~(i < q) => i + 1 \in DOMAIN children
                                /\ Proxy!Deleted(c)[i] = children[i + 1]
<1>1. Proxy!Position(c) = q
  <2>1. \A i \in DOMAIN children : children[i] = c => i = q
    BY DEF ListOK
  <2> QED BY <2>1 DEF Proxy!Position
<1>2. /\ Len(children) \in Nat /\ DOMAIN children = 1..Len(children)
      /\ \A i \in DOMAIN children : children[i] \in Children
  BY Members
<1>3. Len(children) - 1 \in Nat /\ q \in 1..Len(children)
  BY <1>2
<1>4. Proxy!Deleted(c) = [i \in 1..Len(children) - 1 |->
                       children[IF i < q THEN i ELSE i + 1]]
  BY <1>1 DEF Proxy!Deleted
<1>5. \A i \in 1..Len(children) - 1 :
          /\ i < q => i \in DOMAIN children /\ Proxy!Deleted(c)[i] = children[i]
          /\ ~(i < q) => i + 1 \in DOMAIN children
                         /\ Proxy!Deleted(c)[i] = children[i + 1]
  BY <1>2, <1>3, <1>4
<1>6. \A i \in 1..Len(children) - 1 : Proxy!Deleted(c)[i] \in Children
  BY <1>2, <1>5
<1>7. Proxy!Deleted(c) \in [1..Len(children) - 1 -> Children]
  BY <1>4, <1>6
<1>8. Proxy!Deleted(c) \in Seq(Children) /\ Len(Proxy!Deleted(c)) = Len(children) - 1
  BY <1>3, <1>7, IsASeq, LenProperties
<1> QED BY <1>5, <1>8

(***************************************************************************)
(* The steps.                                                              *)
(***************************************************************************)
LEMMA ReceiversInit ==
    ASSUME ProxyConstants, Proxy!Init
    PROVE  ReceiversInv
<1>1. ListOK
  <2>1. Len(children) = 0 /\ DOMAIN children = {} /\ children \in Seq(Children)
    BY DEF Proxy!Init
  <2>2. Processes \in Nat
    BY ReceiversConstants
  <2>3. Proxy!Listed = {}
    BY <2>1 DEF Proxy!Listed
  <2>4. child \in [Children -> States] /\ \A c \in Children : child[c] = "none"
    BY DEF Proxy!Init, States
  <2>5. passed = 0 /\ running = TRUE
    BY DEF Proxy!Init
  <2>6. \A i, j \in DOMAIN children : children[i] = children[j] => i = j
    BY <2>1
  <2> QED BY <2>1, <2>2, <2>3, <2>4, <2>5, <2>6 DEF ListOK
<1>2. SocketsOK
  BY DEF Proxy!Init, SocketsOK, Proxy!Nowhere, Proxy!NoChild, Places
<1>3. CallsOK
  <2>1. Gone = {}
    BY DEF Proxy!Init, Gone
  <2>2. Cardinality(Gone) = 0 /\ MaxExits \in Nat
    BY <2>1, FS_EmptySet, ReceiversConstants
  <2>3. spawns = 0 /\ respawns = 0 /\ exits = 0
    BY DEF Proxy!Init
  <2>4. started \in BOOLEAN /\ closing \in BOOLEAN /\ running \in BOOLEAN
    BY DEF Proxy!Init
  <2> QED BY <2>2, <2>3, <2>4 DEF CallsOK
<1>4. TurnsOK
  BY DEF Proxy!Init, TurnsOK, Proxy!Listed
<1>5. Proxy!MissingIsOnItsWay
  BY DEF Proxy!Init, Proxy!MissingIsOnItsWay
<1> QED BY <1>1, <1>2, <1>3, <1>4, <1>5 DEF ReceiversInv

\* A call of spawnReceiver: a process joins the Set, at its end, or none.
LEMMA SpawnStep ==
    ASSUME ReceiversInv, NEW waiting \in Nat, running, Proxy!SpawnReceiver(waiting),
           UNCHANGED <<passed, running, socket, owed>>
    PROVE  /\ ListOK' /\ SocketsOK' /\ TurnsOK' /\ Proxy!MissingIsOnItsWay'
           /\ Gone' = Gone
           /\ spawns' \in Nat /\ spawns' <= waiting + 1
<1>0. /\ Len(children) \in Nat /\ DOMAIN children = 1..Len(children)
      /\ Processes \in Nat /\ Len(children) <= Processes
      /\ children \in Seq(Children)
  BY Members, ReceiversConstants DEF ReceiversInv, ListOK
<1>1. SocketsOK'
  BY DEF ReceiversInv, SocketsOK
<1>2. CASE ~Proxy!Room
  <2>1. spawns' = waiting /\ UNCHANGED <<children, child>>
    BY <1>2 DEF Proxy!SpawnReceiver
  <2>2. Len(children) = Processes
    <3>1. ~(Len(children) < Processes)
      BY <1>2 DEF Proxy!Room
    <3>2. Len(children) \in Nat /\ Processes \in Nat /\ Len(children) <= Processes
      BY <1>0
    <3> QED BY <3>1, <3>2
  <2>3. Len(children') = Processes
    BY <2>1, <2>2
  <2>4. Proxy!Listed' = Proxy!Listed /\ Gone' = Gone
    BY <2>1 DEF Proxy!Listed, Gone
  <2>6. ListOK'
    BY <2>1, <2>4 DEF ReceiversInv, ListOK
  <2>7. TurnsOK'
    BY <2>1, <2>4 DEF ReceiversInv, TurnsOK
  <2>5. Proxy!MissingIsOnItsWay'
    BY <2>3 DEF Proxy!MissingIsOnItsWay
  <2> QED BY <1>1, <2>1, <2>4, <2>5, <2>6, <2>7
<1>3. CASE Proxy!Room
  <2>1. PICK c \in Children :
            /\ child[c] = "none"
            /\ children' = Append(children, c)
            /\ child' = [child EXCEPT ![c] = "starting"]
            /\ spawns' = waiting + (IF Len(children) + 1 < Processes THEN 1 ELSE 0)
    BY <1>3 DEF Proxy!SpawnReceiver
  <2>2. /\ children' \in Seq(Children)
        /\ Len(children') = Len(children) + 1
        /\ DOMAIN children' = 1..Len(children) + 1
        /\ \A i \in 1..Len(children) : children'[i] = children[i]
        /\ children'[Len(children) + 1] = c
    BY <1>0, <2>1, AppendProperties
  <2>3. c \notin Proxy!Listed /\ \A i \in DOMAIN children : children[i] # c
    BY <2>1, Members DEF ReceiversInv, ListOK
  <2>4. Proxy!Listed' = Proxy!Listed \cup {c}
    <3>1. \A d \in Proxy!Listed' : d \in Proxy!Listed \cup {c}
      <4> TAKE d \in Proxy!Listed'
      <4>1. PICK i \in 1..Len(children) + 1 : d = children'[i]
        BY <2>2 DEF Proxy!Listed
      <4> QED BY <1>0, <2>2, <4>1 DEF Proxy!Listed
    <3>2. \A d \in Proxy!Listed \cup {c} : d \in Proxy!Listed'
      <4>1. \A i \in 1..Len(children) : i \in DOMAIN children'
        BY <1>0, <2>2
      <4>2. Len(children) + 1 \in DOMAIN children'
        BY <1>0, <2>2
      <4> QED BY <1>0, <2>2, <4>1, <4>2 DEF Proxy!Listed
    <3> QED BY <3>1, <3>2
  <2>5. ListOK'
    <3>1. \A i, j \in DOMAIN children' : children'[i] = children'[j] => i = j
      BY <1>0, <2>2, <2>3 DEF ReceiversInv, ListOK
    <3>2. Len(children') <= Processes /\ passed' \in Nat /\ passed' <= Len(children')
      BY <1>0, <1>3, <2>2 DEF Proxy!Room, ReceiversInv, ListOK
    <3>3. /\ child' \in [Children -> States]
          /\ \A d \in Children : d \in Proxy!Listed' <=> child'[d] # "none"
      BY <2>1, <2>4 DEF ReceiversInv, ListOK, States
    <3> QED BY <2>2, <3>1, <3>2, <3>3 DEF ListOK
  <2>6. TurnsOK'
    <3>1. \A d \in DOMAIN owed : owed[d] \subseteq Proxy!Listed /\ d \in Proxy!Listed
      BY DEF ReceiversInv, TurnsOK
    <3>2. \A i, j \in DOMAIN children' :
              children'[i] \in DOMAIN owed /\ children'[j] \in owed[children'[i]] =>
                 i \in DOMAIN children /\ j \in DOMAIN children
      BY <1>0, <2>2, <2>3, <3>1
    <3> QED BY <1>0, <2>2, <2>4, <3>1, <3>2 DEF ReceiversInv, TurnsOK
  <2>7. Proxy!MissingIsOnItsWay'
    BY <1>0, <1>3, <2>1, <2>2 DEF Proxy!MissingIsOnItsWay, Proxy!Room
  <2>8. Gone' = Gone
    BY <2>1 DEF Gone, ReceiversInv, ListOK
  <2> QED BY <1>1, <2>1, <2>5, <2>6, <2>7, <2>8
<1> QED BY <1>2, <1>3

LEMMA StepSpawning ==
    ASSUME ReceiversInv, Proxy!Spawning
    PROVE  ReceiversInv'
<1>1. spawns \in Nat /\ respawns \in Nat /\ exits \in Nat /\ Cardinality(Gone) \in Nat
  BY GoneType DEF ReceiversInv, CallsOK
<1>2. ProxyConstants'
  BY DEF ReceiversInv, ProxyConstants
<1>3. CASE Proxy!Start
  <2>1. /\ running /\ ~started /\ started' = TRUE /\ Proxy!SpawnReceiver(spawns)
        /\ UNCHANGED <<passed, respawns, closing, running, socket, exits, owed>>
    BY <1>3 DEF Proxy!Start
  <2>2. /\ ListOK' /\ SocketsOK' /\ TurnsOK' /\ Proxy!MissingIsOnItsWay'
        /\ Gone' = Gone
        /\ spawns' \in Nat /\ spawns' <= spawns + 1
    BY <1>1, <2>1, SpawnStep
  <2>3. closing' \in BOOLEAN /\ running' \in BOOLEAN
    BY <2>1 DEF ReceiversInv, CallsOK
  <2>4. CallsOK'
    BY <1>1, <2>1, <2>2, <2>3 DEF ReceiversInv, CallsOK
  <2> QED BY <1>2, <2>2, <2>4 DEF ReceiversInv
<1>4. CASE Proxy!SpawnNext
  <2>1. /\ running /\ spawns - 1 \in Nat /\ Proxy!SpawnReceiver(spawns - 1)
        /\ UNCHANGED <<passed, started, respawns, closing, running, socket, exits, owed>>
    BY <1>1, <1>4 DEF Proxy!SpawnNext
  <2>2. /\ ListOK' /\ SocketsOK' /\ TurnsOK' /\ Proxy!MissingIsOnItsWay'
        /\ Gone' = Gone
        /\ spawns' \in Nat /\ spawns' <= (spawns - 1) + 1
    BY <1>1, <2>1, SpawnStep
  <2>3. closing' \in BOOLEAN /\ running' \in BOOLEAN /\ started' \in BOOLEAN
    BY <2>1 DEF ReceiversInv, CallsOK
  <2>4. CallsOK'
    BY <1>1, <2>1, <2>2, <2>3 DEF ReceiversInv, CallsOK
  <2> QED BY <1>2, <2>2, <2>4 DEF ReceiversInv
<1>5. CASE Proxy!Respawn
  <2>1. /\ running /\ respawns > 0 /\ respawns' = respawns - 1
        /\ Proxy!SpawnReceiver(spawns)
        /\ UNCHANGED <<passed, started, closing, running, socket, exits, owed>>
    BY <1>5 DEF Proxy!Respawn
  <2>2. /\ ListOK' /\ SocketsOK' /\ TurnsOK' /\ Proxy!MissingIsOnItsWay'
        /\ Gone' = Gone
        /\ spawns' \in Nat /\ spawns' <= spawns + 1
    BY <1>1, <2>1, SpawnStep
  <2>3. closing' \in BOOLEAN /\ running' \in BOOLEAN /\ started' \in BOOLEAN
    BY <2>1 DEF ReceiversInv, CallsOK
  <2>4. CallsOK'
    BY <1>1, <2>1, <2>2, <2>3 DEF ReceiversInv, CallsOK
  <2> QED BY <1>2, <2>2, <2>4 DEF ReceiversInv
<1> QED BY <1>3, <1>4, <1>5 DEF Proxy!Spawning

\* What a process does by itself leaves the Set and the selector alone.
LEMMA ChildKeeps ==
    ASSUME ReceiversInv,
           UNCHANGED <<children, passed, started, spawns, respawns, closing, running,
                       owed>>
    PROVE  TurnsOK' /\ Proxy!MissingIsOnItsWay'
BY DEF ReceiversInv, TurnsOK, Proxy!Listed, Proxy!MissingIsOnItsWay

LEMMA StepReady ==
    ASSUME ReceiversInv, NEW c \in Children, Proxy!Ready(c)
    PROVE  ReceiversInv'
<1>1. /\ child[c] = "starting" /\ child' = [child EXCEPT ![c] = "ready"]
      /\ UNCHANGED <<children, passed, started, spawns, respawns, closing, running,
                     socket, exits, owed>>
  BY DEF Proxy!Ready
<1>2. ProxyConstants' /\ SocketsOK'
  BY <1>1 DEF ReceiversInv, ProxyConstants, SocketsOK
<1>3. Proxy!Listed' = Proxy!Listed /\ Gone' = Gone
  BY <1>1 DEF Proxy!Listed, Gone, ReceiversInv, ListOK
<1>4. ListOK'
  BY <1>1, <1>3 DEF ReceiversInv, ListOK, States
<1>5. CallsOK'
  BY <1>1, <1>3 DEF ReceiversInv, CallsOK
<1>6. TurnsOK' /\ Proxy!MissingIsOnItsWay'
  BY <1>1, ChildKeeps
<1> QED BY <1>2, <1>4, <1>5, <1>6 DEF ReceiversInv

\* A place that a connection gets.
LEMMA LostType ==
    ASSUME ReceiversInv, NEW c \in Children, socket' = Proxy!Lost(c)
    PROVE  SocketsOK'
<1>1. [at |-> "over", child |-> Proxy!NoChild]
          \in [at : Places, child : Children \cup {Proxy!NoChild}]
  BY DEF Places
<1>2. \A s \in Sockets :
          \/ socket'[s] = socket[s]
          \/ socket'[s] = [at |-> "over", child |-> Proxy!NoChild]
  BY DEF Proxy!Lost
<1>3. socket' = [s \in Sockets |-> socket'[s]]
  BY DEF Proxy!Lost
<1> QED BY <1>1, <1>2, <1>3 DEF ReceiversInv, SocketsOK

LEMMA StepExit ==
    ASSUME ReceiversInv, NEW c \in Children, Proxy!Exit(c)
    PROVE  ReceiversInv'
<1>1. /\ child[c] \in {"starting", "ready"}
      /\ exits < MaxExits \/ ~running
      /\ exits' = (IF running THEN exits + 1 ELSE exits)
      /\ child' = [child EXCEPT ![c] = IF running THEN "gone" ELSE "none"]
      /\ socket' = Proxy!Lost(c)
      /\ UNCHANGED <<children, passed, started, spawns, respawns, closing, running, owed>>
  BY DEF Proxy!Exit
<1>2. ProxyConstants' /\ SocketsOK'
  BY <1>1, LostType DEF ReceiversInv, ProxyConstants
<1>3. ListOK'
  <2>1. Proxy!Listed' = Proxy!Listed
    BY <1>1 DEF Proxy!Listed
  <2>2. child' \in [Children -> States]
    BY <1>1 DEF ReceiversInv, ListOK, States
  <2>3. running => child'[c] = "gone" /\ child[c] # "none"
    BY <1>1 DEF ReceiversInv, ListOK
  <2>4. ~running => child'[c] = "none"
    BY <1>1 DEF ReceiversInv, ListOK
  <2>5. \A d \in Children : d # c => child'[d] = child[d]
    BY <1>1 DEF ReceiversInv, ListOK
  <2> QED BY <1>1, <2>1, <2>2, <2>3, <2>4, <2>5 DEF ReceiversInv, ListOK
<1>4. CallsOK'
  <2>1. /\ MaxExits \in Nat /\ exits \in Nat /\ spawns \in Nat /\ respawns \in Nat
        /\ IsFiniteSet(Gone) /\ Cardinality(Gone) \in Nat
    BY ReceiversConstants, GoneType DEF ReceiversInv, CallsOK
  <2>2. started' \in BOOLEAN /\ closing' \in BOOLEAN /\ running' \in BOOLEAN
    BY <1>1 DEF ReceiversInv, CallsOK
  <2>3. CASE running
    <3>1. Gone' = Gone \cup {c} /\ c \notin Gone
      BY <1>1, <2>3 DEF Gone, ReceiversInv, ListOK
    <3>2. Cardinality(Gone') = Cardinality(Gone) + 1
      BY <2>1, <3>1, FS_AddElement
    <3> QED BY <1>1, <2>1, <2>2, <2>3, <3>2 DEF ReceiversInv, CallsOK
  <2>4. CASE ~running
    <3>1. Gone' = Gone
      BY <1>1, <2>4 DEF Gone, ReceiversInv, ListOK
    <3> QED BY <1>1, <2>2, <2>4, <3>1 DEF ReceiversInv, CallsOK
  <2> QED BY <2>3, <2>4
<1>5. TurnsOK' /\ Proxy!MissingIsOnItsWay'
  BY <1>1, ChildKeeps
<1> QED BY <1>2, <1>3, <1>4, <1>5 DEF ReceiversInv

\* The end of a process: those behind it move up, and the selector with them.
LEMMA StepClosed ==
    ASSUME ReceiversInv, NEW c \in Children, Proxy!Closed(c)
    PROVE  ReceiversInv'
<1>1. /\ running /\ child[c] = "gone"
      /\ child' = [child EXCEPT ![c] = "none"]
      /\ children' = Proxy!Deleted(c)
      /\ passed' = Proxy!PassedAfter(c)
      /\ respawns' = respawns + (IF closing THEN 0 ELSE 1)
      /\ owed' = [d \in DOMAIN owed \ {c} |-> owed[d] \ {c}]
      /\ UNCHANGED <<started, spawns, closing, running, socket, exits>>
  BY DEF Proxy!Closed, Proxy!RespawnOf
<1>2. PICK q \in DOMAIN children : children[q] = c
  <2>1. c \in Proxy!Listed
    BY <1>1 DEF ReceiversInv, ListOK
  <2> QED BY <2>1, Members DEF ReceiversInv
<1> DEFINE n == Len(children)
           Old(i) == IF i < q THEN i ELSE i + 1
<1>3. /\ n \in Nat /\ DOMAIN children = 1..n /\ q \in 1..n /\ n <= Processes
      /\ Processes \in Nat /\ passed \in Nat /\ passed <= n
      /\ \A i, j \in DOMAIN children : children[i] = children[j] => i = j
  BY <1>2, Members, ReceiversConstants DEF ReceiversInv, ListOK
<1>4. /\ children' \in Seq(Children) /\ Len(children') = n - 1
      /\ DOMAIN children' = 1..n - 1
      /\ \A i \in DOMAIN children' :
            /\ Old(i) \in DOMAIN children /\ Old(i) # q /\ children'[i] = children[Old(i)]
  <2>1. children' \in Seq(Children) /\ Len(children') = n - 1
    BY <1>1, <1>2, Deletes DEF ReceiversInv
  <2>2. DOMAIN children' = 1..n - 1
    BY <2>1, LenProperties
  <2>3. \A i \in 1..n - 1 :
            /\ i < q => i \in DOMAIN children /\ children'[i] = children[i]
            /\ ~(i < q) => i + 1 \in DOMAIN children /\ children'[i] = children[i + 1]
    BY <1>1, <1>2, Deletes DEF ReceiversInv
  <2>4. \A i \in 1..n - 1 : Old(i) # q
    BY <1>3
  <2> QED BY <2>1, <2>2, <2>3, <2>4
<1>5. passed' = (IF q <= passed THEN passed - 1 ELSE passed)
  <2>1. (\E i \in 1..passed : children[i] = c) <=> q <= passed
    <3>1. \A i \in 1..passed : i \in DOMAIN children
      BY <1>3
    <3> QED BY <1>2, <1>3, <3>1
  <2> QED BY <1>1, <2>1 DEF Proxy!PassedAfter
<1>6. Proxy!Listed' = Proxy!Listed \ {c}
  <2>1. \A d \in Proxy!Listed' : d \in Proxy!Listed \ {c}
    <3> TAKE d \in Proxy!Listed'
    <3>1. PICK i \in DOMAIN children' : d = children'[i]
      BY DEF Proxy!Listed
    <3>2. /\ Old(i) \in DOMAIN children /\ Old(i) # q /\ d = children[Old(i)]
      BY <1>4, <3>1
    <3> HIDE DEF Old
    <3> QED BY <1>2, <1>3, <3>2 DEF Proxy!Listed
  <2>2. \A d \in Proxy!Listed \ {c} : d \in Proxy!Listed'
    <3> TAKE d \in Proxy!Listed \ {c}
    <3>1. PICK j \in DOMAIN children : d = children[j]
      BY DEF Proxy!Listed
    <3>2. j # q
      BY <1>2, <3>1
    <3>3. \E i \in 1..n - 1 : Old(i) = j
      <4>1. CASE j < q
        BY <1>3, <4>1
      <4>2. CASE ~(j < q)
        <5>1. j - 1 \in 1..n - 1 /\ Old(j - 1) = j
          BY <1>3, <3>2, <4>2
        <5> QED BY <5>1
      <4> QED BY <4>1, <4>2
    <3> HIDE DEF Old
    <3>4. \E i \in DOMAIN children' : children'[i] = d
      BY <1>4, <3>1, <3>3
    <3> QED BY <3>4 DEF Proxy!Listed
  <2> QED BY <2>1, <2>2
<1>7. \A i, j \in DOMAIN children' : Old(i) = Old(j) => i = j
  BY <1>4
<1>8. \A i, j \in DOMAIN children' : Old(i) < Old(j) => i < j
  BY <1>4
<1>9. \A i \in DOMAIN children' : /\ i <= passed' => Old(i) <= passed
                                  /\ passed < Old(i) => passed' < i
                                  /\ Old(i) <= passed => i <= passed'
  BY <1>3, <1>4, <1>5
<1> HIDE DEF Old
<1>10. ProxyConstants' /\ SocketsOK'
  BY <1>1 DEF ReceiversInv, ProxyConstants, SocketsOK
<1>11. ListOK'
  <2>1. \A i, j \in DOMAIN children' : children'[i] = children'[j] => i = j
    BY <1>3, <1>4, <1>7
  <2>2. Len(children') <= Processes /\ passed' \in Nat /\ passed' <= Len(children')
    BY <1>3, <1>4, <1>5
  <2>3. /\ child' \in [Children -> States]
        /\ \A d \in Children : d \in Proxy!Listed' <=> child'[d] # "none"
    BY <1>1, <1>6 DEF ReceiversInv, ListOK, States
  <2> QED BY <1>1, <1>4, <2>1, <2>2, <2>3 DEF ListOK
<1>12. CallsOK'
  <2>1. /\ exits \in Nat /\ spawns \in Nat /\ respawns \in Nat
        /\ IsFiniteSet(Gone) /\ Cardinality(Gone) \in Nat
    BY GoneType DEF ReceiversInv, CallsOK
  <2>2. started' \in BOOLEAN /\ closing' \in BOOLEAN /\ running' \in BOOLEAN
    BY <1>1 DEF ReceiversInv, CallsOK
  <2>3. Gone' = Gone \ {c} /\ c \in Gone
    BY <1>1 DEF Gone, ReceiversInv, ListOK
  <2>4. Cardinality(Gone') = Cardinality(Gone) - 1
    BY <2>1, <2>3, FS_RemoveElement
  <2>5. respawns' \in Nat /\ respawns' <= respawns + 1
    BY <1>1, <2>1
  <2> QED BY <1>1, <2>1, <2>2, <2>4, <2>5 DEF ReceiversInv, CallsOK
<1>13. TurnsOK'
  <2>1. /\ DOMAIN owed' \subseteq Proxy!Listed'
        /\ \A d \in DOMAIN owed' : owed'[d] \subseteq Proxy!Listed'
    BY <1>1, <1>6 DEF ReceiversInv, TurnsOK
  <2>2. ASSUME NEW i \in DOMAIN children', NEW j \in DOMAIN children',
               children'[i] \in DOMAIN owed', children'[j] \in owed'[children'[i]]
        PROVE  IF i <= passed' THEN passed' < j \/ j < i ELSE passed' < j /\ j < i
    <3>1. /\ Old(i) \in DOMAIN children /\ Old(j) \in DOMAIN children
          /\ children'[i] = children[Old(i)] /\ children'[j] = children[Old(j)]
      BY <1>4
    <3>2. children[Old(i)] \in DOMAIN owed /\ children[Old(j)] \in owed[children[Old(i)]]
      BY <1>1, <2>2, <3>1
    <3>3. IF Old(i) <= passed THEN passed < Old(j) \/ Old(j) < Old(i)
          ELSE passed < Old(j) /\ Old(j) < Old(i)
      BY <3>1, <3>2 DEF ReceiversInv, TurnsOK
    <3> QED BY <1>8, <1>9, <3>3
  <2> QED BY <2>1, <2>2 DEF TurnsOK
<1>14. Proxy!MissingIsOnItsWay'
  <2>1. respawns \in Nat
    BY DEF ReceiversInv, CallsOK
  <2> QED BY <1>1, <1>3, <1>4, <2>1 DEF ReceiversInv, Proxy!MissingIsOnItsWay
<1> QED BY <1>10, <1>11, <1>12, <1>13, <1>14 DEF ReceiversInv

LEMMA ToType ==
    ASSUME ReceiversInv, NEW s \in Sockets, NEW at \in Places,
           NEW c \in Children \cup {Proxy!NoChild},
           c # Proxy!NoChild <=> at \in {"sent", "session"}, Proxy!To(s, at, c)
    PROVE  SocketsOK'
<1>1. socket' = [socket EXCEPT ![s] = [at |-> at, child |-> c]]
  BY DEF Proxy!To
<1>2. [at |-> at, child |-> c] \in [at : Places, child : Children \cup {Proxy!NoChild}]
  OBVIOUS
<1>3. socket' \in [Sockets -> [at : Places, child : Children \cup {Proxy!NoChild}]]
  BY <1>1, <1>2 DEF ReceiversInv, SocketsOK
<1>4. \A r \in Sockets :
          socket'[r] = IF r = s THEN [at |-> at, child |-> c] ELSE socket[r]
  BY <1>1 DEF ReceiversInv, SocketsOK
<1> QED BY <1>3, <1>4 DEF ReceiversInv, SocketsOK

\* The place of a connection changes, and nothing else.
LEMMA SocketKeeps ==
    ASSUME ReceiversInv, SocketsOK',
           UNCHANGED <<children, passed, started, spawns, respawns, closing, running,
                       child, exits, owed>>
    PROVE  ReceiversInv'
<1>1. ProxyConstants' /\ TurnsOK' /\ Proxy!MissingIsOnItsWay'
  BY ChildKeeps DEF ReceiversInv, ProxyConstants
<1>2. Proxy!Listed' = Proxy!Listed /\ Gone' = Gone
  BY DEF Proxy!Listed, Gone
<1>3. ListOK' /\ CallsOK'
  BY <1>2 DEF ReceiversInv, ListOK, CallsOK
<1> QED BY <1>1, <1>3 DEF ReceiversInv

LEMMA StepSocket ==
    ASSUME ReceiversInv, NEW s \in Sockets,
           Proxy!PassSocket(s) \/ Proxy!GiveUp(s) \/ Proxy!Ends(s) \/ Proxy!Again(s)
    PROVE  ReceiversInv'
<1>1. UNCHANGED <<children, passed, started, spawns, respawns, closing, running, child,
                  exits, owed>>
  BY DEF Proxy!PassSocket, Proxy!GiveUp, Proxy!Ends, Proxy!Again
<1>2. SocketsOK'
  <2>1. Proxy!NoChild \notin Children
    BY ReceiversConstants DEF ReceiversInv
  <2>2. CASE Proxy!PassSocket(s)
    <3>1. socket[s].child \in Children /\ Proxy!To(s, "session", socket[s].child)
      BY <2>2 DEF Proxy!PassSocket, ReceiversInv, SocketsOK
    <3> QED BY <2>1, <3>1, ToType DEF Places
  <2>3. CASE Proxy!GiveUp(s) \/ Proxy!Ends(s)
    <3>1. Proxy!To(s, "over", Proxy!NoChild)
      BY <2>3 DEF Proxy!GiveUp, Proxy!Ends
    <3> QED BY <3>1, ToType DEF Places
  <2>4. CASE Proxy!Again(s)
    <3>1. Proxy!To(s, "new", Proxy!NoChild)
      BY <2>4 DEF Proxy!Again
    <3> QED BY <3>1, ToType DEF Places
  <2> QED BY <2>2, <2>3, <2>4
<1> QED BY <1>1, <1>2, SocketKeeps

\* A connection goes to the next process.
LEMMA StepConnection ==
    ASSUME ReceiversInv, NEW s \in Sockets, Proxy!Connection(s)
    PROVE  ReceiversInv'
<1>1. /\ running /\ ~closing /\ socket[s].at = "new"
      /\ UNCHANGED <<children, started, spawns, respawns, running, child, exits>>
  BY DEF Proxy!Connection
<1>2. PICK n \in Nat :
      /\ n = Len(children) /\ DOMAIN children = 1..n
      /\ passed \in Nat /\ passed <= n
      /\ \A i \in DOMAIN children : children[i] \in Children
      /\ Proxy!NoChild \notin Children
  BY Members, ReceiversConstants DEF ReceiversInv, ListOK
<1>3. CASE /\ children = << >> /\ Proxy!To(s, "over", Proxy!NoChild)
           /\ UNCHANGED <<passed, owed, closing>>
  <2>1. SocketsOK'
    BY <1>3, ToType DEF Places
  <2> QED BY <1>1, <1>3, <2>1, SocketKeeps
<1>4. CASE children # << >> /\ ~(UNCHANGED <<passed, owed, closing>> /\ children = << >>)
  <2> DEFINE p == Proxy!NextPassed
             c == children[Proxy!NextPassed]
  <2>1. /\ passed' = p
        /\ owed' = Proxy!Owed(c)
        /\ \/ Proxy!To(s, "over", Proxy!NoChild) /\ UNCHANGED closing
           \/ /\ closing' = (child[c] = "gone")
              /\ IF child[c] = "gone" THEN Proxy!To(s, "stuck", Proxy!NoChild)
                 ELSE Proxy!To(s, "sent", c)
    BY <1>4 DEF Proxy!Connection
  <2>2. /\ p \in 1..n /\ p \in DOMAIN children /\ p \in Nat
        /\ \/ p = passed + 1
           \/ p = 1 /\ passed = n
    <3>1. n # 0
      BY <1>2, <1>4, EmptySeq DEF ReceiversInv, ListOK
    <3>2. p = IF passed < n THEN passed + 1 ELSE 1
      BY <1>2 DEF Proxy!NextPassed
    <3> HIDE DEF p
    <3>3. n \in Nat /\ passed \in Nat /\ passed <= n
      BY <1>2
    <3>4. p \in 1..n /\ (p = passed + 1 \/ (p = 1 /\ passed = n))
      BY <3>1, <3>2, <3>3
    <3> QED BY <1>2, <3>4
  <2>3. c \in Children /\ c \in Proxy!Listed /\ c = children[p]
    BY <1>2, <2>2 DEF Proxy!Listed
  <2>4. \A i \in DOMAIN children : children[i] = c => i = p
    BY <2>2, <2>3 DEF ReceiversInv, ListOK
  <2> HIDE DEF c, p
  <2>5. SocketsOK'
    <3>1. CASE Proxy!To(s, "over", Proxy!NoChild)
      BY <3>1, ToType DEF Places
    <3>2. CASE Proxy!To(s, "stuck", Proxy!NoChild)
      BY <3>2, ToType DEF Places
    <3>3. CASE Proxy!To(s, "sent", c)
      BY <1>2, <2>3, <3>3, ToType DEF Places
    <3> QED BY <2>1, <3>1, <3>2, <3>3
  <2>6. Proxy!Listed' = Proxy!Listed /\ Gone' = Gone
    BY <1>1 DEF Proxy!Listed, Gone
  <2>7. ListOK'
    BY <1>1, <2>1, <2>2, <2>6 DEF ReceiversInv, ListOK
  <2>8. CallsOK'
    <3>1. closing' \in BOOLEAN /\ started' \in BOOLEAN /\ running' \in BOOLEAN
      BY <1>1, <2>1 DEF ReceiversInv, CallsOK
    <3> QED BY <1>1, <2>6, <3>1 DEF ReceiversInv, CallsOK
  <2>9. TurnsOK'
    <3>1. owed' = [d \in DOMAIN owed \cup {c} |->
                      IF d = c THEN Proxy!Listed \ {c} ELSE owed[d] \ {c}]
      BY <2>1 DEF Proxy!Owed
    <3>2. /\ DOMAIN owed' \subseteq Proxy!Listed
          /\ \A d \in DOMAIN owed' : owed'[d] \subseteq Proxy!Listed
      BY <2>3, <3>1 DEF ReceiversInv, TurnsOK
    <3>3. ASSUME NEW i \in DOMAIN children, NEW j \in DOMAIN children,
                 children[i] \in DOMAIN owed', children[j] \in owed'[children[i]]
          PROVE  IF i <= p THEN p < j \/ j < i ELSE p < j /\ j < i
      <4>1. j # p /\ i \in Nat /\ j \in Nat /\ i <= n /\ j <= n
        BY <1>2, <2>3, <3>1, <3>3
      <4>2. CASE i = p
        BY <2>2, <4>1, <4>2
      <4>3. CASE i # p
        <5>1. children[i] \in DOMAIN owed /\ children[j] \in owed[children[i]]
          BY <2>4, <3>1, <3>3, <4>3
        <5>2. IF i <= passed THEN passed < j \/ j < i ELSE passed < j /\ j < i
          BY <5>1 DEF ReceiversInv, TurnsOK
        <5>3. n \in Nat /\ passed \in Nat /\ passed <= n
          BY <1>2
        <5>4. p \in Nat /\ (p = passed + 1 \/ (p = 1 /\ passed = n))
          BY <2>2
        <5>5. CASE p = passed + 1
          BY <4>1, <4>3, <5>2, <5>3, <5>5
        <5>6. CASE p = 1 /\ passed = n
          <6>1. j < i
            BY <4>1, <5>2, <5>3, <5>6
          <6>2. 1 <= i /\ 1 <= j
            BY <1>2
          <6> QED BY <4>1, <4>3, <5>6, <6>1, <6>2
        <5> QED BY <5>4, <5>5, <5>6
      <4> QED BY <4>2, <4>3
    <3> QED BY <1>1, <2>1, <2>6, <3>2, <3>3 DEF TurnsOK
  <2>10. Proxy!MissingIsOnItsWay'
    BY <1>1 DEF ReceiversInv, Proxy!MissingIsOnItsWay
  <2>11. ProxyConstants'
    BY DEF ReceiversInv, ProxyConstants
  <2> QED BY <2>5, <2>7, <2>8, <2>9, <2>10, <2>11 DEF ReceiversInv
<1> QED BY <1>3, <1>4 DEF Proxy!Connection

LEMMA StepStop ==
    ASSUME ReceiversInv, Proxy!Stop
    PROVE  ReceiversInv'
<1>1. /\ closing' = TRUE
      /\ UNCHANGED <<children, passed, started, spawns, respawns, running, child, socket,
                     exits, owed>>
  BY DEF Proxy!Stop
<1>2. Proxy!Listed' = Proxy!Listed /\ Gone' = Gone
  BY <1>1 DEF Proxy!Listed, Gone
<1>3. ProxyConstants' /\ ListOK' /\ SocketsOK' /\ TurnsOK' /\ Proxy!MissingIsOnItsWay'
  BY <1>1, <1>2
     DEF ReceiversInv, ProxyConstants, ListOK, SocketsOK, TurnsOK,
     Proxy!MissingIsOnItsWay
<1>4. CallsOK'
  BY <1>1, <1>2 DEF ReceiversInv, CallsOK
<1> QED BY <1>3, <1>4 DEF ReceiversInv

LEMMA StepMasterExit ==
    ASSUME ReceiversInv, Proxy!MasterExit
    PROVE  ReceiversInv'
<1>1. /\ running' = FALSE /\ spawns' = 0 /\ respawns' = 0 /\ children' = << >>
      /\ passed' = 0 /\ owed' = [c \in {} |-> {}]
      /\ child' = [c \in Children |-> IF child[c] = "gone" THEN "none" ELSE child[c]]
      /\ socket' = [s \in Sockets |->
                      IF socket[s].at = "stuck"
                      THEN [at |-> "over", child |-> Proxy!NoChild]
                      ELSE socket[s]]
      /\ UNCHANGED <<started, closing, exits>>
  BY DEF Proxy!MasterExit
<1>2. ProxyConstants' /\ Proxy!MissingIsOnItsWay'
  BY <1>1 DEF ReceiversInv, ProxyConstants, Proxy!MissingIsOnItsWay
<1>3. ListOK'
  <2>1. children' \in Seq(Children) /\ DOMAIN children' = {} /\ Len(children') = 0
    BY <1>1
  <2>2. Processes \in Nat
    BY ReceiversConstants DEF ReceiversInv
  <2>3. child' \in [Children -> States] /\ \A c \in Children : child'[c] # "gone"
    BY <1>1 DEF ReceiversInv, ListOK, States
  <2> QED BY <1>1, <2>1, <2>2, <2>3 DEF ListOK
<1>4. SocketsOK'
  <2>1. [at |-> "over", child |-> Proxy!NoChild]
            \in [at : Places, child : Children \cup {Proxy!NoChild}]
    BY DEF Places
  <2> QED BY <1>1, <2>1 DEF ReceiversInv, SocketsOK
<1>5. CallsOK'
  <2>1. Gone' = {}
    BY <1>1 DEF Gone
  <2>2. Cardinality(Gone') = 0
    BY <2>1, FS_EmptySet
  <2>3. started' \in BOOLEAN /\ closing' \in BOOLEAN /\ running' \in BOOLEAN
    BY <1>1 DEF ReceiversInv, CallsOK
  <2>4. exits' \in Nat /\ exits' <= MaxExits
    BY <1>1 DEF ReceiversInv, CallsOK
  <2> QED BY <1>1, <2>2, <2>3, <2>4 DEF CallsOK
<1>6. TurnsOK'
  BY <1>1 DEF TurnsOK, Proxy!Listed
<1> QED BY <1>2, <1>3, <1>4, <1>5, <1>6 DEF ReceiversInv

LEMMA ReceiversNext == ReceiversInv /\ [Proxy!Next]_(Proxy!vars) => ReceiversInv'
<1> SUFFICES ASSUME ReceiversInv, [Proxy!Next]_(Proxy!vars) PROVE ReceiversInv'
  OBVIOUS
<1>1. CASE Proxy!Spawning
  BY <1>1, StepSpawning
<1>2. CASE \E c \in Children : Proxy!Ready(c) \/ Proxy!Exit(c) \/ Proxy!Closed(c)
  BY <1>2, StepReady, StepExit, StepClosed
<1>3. CASE \E s \in Sockets :
              Proxy!Connection(s) \/ Proxy!PassSocket(s) \/ Proxy!GiveUp(s)
                  \/ Proxy!Ends(s) \/ Proxy!Again(s)
  BY <1>3, StepConnection, StepSocket
<1>4. CASE Proxy!Stop
  BY <1>4, StepStop
<1>5. CASE Proxy!MasterExit
  BY <1>5, StepMasterExit
<1>6. CASE UNCHANGED Proxy!vars
  <2>1. SocketsOK'
    BY <1>6 DEF Proxy!vars, ReceiversInv, SocketsOK
  <2> QED BY <1>6, <2>1, SocketKeeps DEF Proxy!vars
<1> QED BY <1>1, <1>2, <1>3, <1>4, <1>5, <1>6 DEF Proxy!Next

LEMMA ReceiversInvariant == ProxyConstants => (Proxy!Spec => []ReceiversInv)
<1>1. ProxyConstants /\ Proxy!Init => ReceiversInv
  BY ReceiversInit
<1> QED BY <1>1, ReceiversNext, PTL DEF Proxy!Spec

(***************************************************************************)
(* The results.                                                            *)
(***************************************************************************)
LEMMA ReceiversInvConsistent == ReceiversInv => Proxy!Consistent
<1> SUFFICES ASSUME ReceiversInv PROVE Proxy!Consistent
  OBVIOUS
<1>1. /\ Len(children) <= Processes
      /\ passed \in 0..Len(children)
      /\ running => Proxy!Listed = {c \in Children : child[c] # "none"}
  <2>1. Len(children) \in Nat /\ Proxy!Listed \subseteq Children
    BY Members DEF ReceiversInv
  <2>2. passed \in Nat /\ passed <= Len(children) /\ Len(children) <= Processes
    BY DEF ReceiversInv, ListOK
  <2>3. passed \in 0..Len(children)
    BY <2>1, <2>2
  <2>4. running => Proxy!Listed = {c \in Children : child[c] # "none"}
    BY <2>1 DEF ReceiversInv, ListOK
  <2> QED BY <2>2, <2>3, <2>4
<1>2. {started, closing, running} \subseteq BOOLEAN
  BY DEF ReceiversInv, CallsOK
<1>3. spawns \in 0..MaxExits + 1 /\ respawns \in 0..MaxExits
  <2>1. /\ spawns \in Nat /\ respawns \in Nat /\ exits \in Nat /\ exits <= MaxExits
        /\ MaxExits \in Nat /\ Cardinality(Gone) \in Nat
    BY ReceiversConstants, GoneType DEF ReceiversInv, CallsOK
  <2>2. respawns + Cardinality(Gone) <= exits
    BY DEF ReceiversInv, CallsOK
  <2>3. spawns + respawns + Cardinality(Gone) <= exits + 1
    <3>1. spawns + respawns + Cardinality(Gone) <= exits + (IF started THEN 1 ELSE 0)
      BY DEF ReceiversInv, CallsOK
    <3> QED BY <2>1, <3>1
  <2> QED BY <2>1, <2>2, <2>3
<1>4. \A s \in Sockets :
          /\ socket[s].at \in {"new", "sent", "session", "stuck", "over"}
          /\ socket[s].child \in Children <=> socket[s].at \in {"sent", "session"}
  BY ReceiversConstants DEF ReceiversInv, SocketsOK, Places
<1>5. Proxy!TypeOK
  BY <1>1, <1>2, <1>3, <1>4 DEF Proxy!TypeOK, ReceiversInv, TurnsOK
<1> QED BY <1>5 DEF ReceiversInv, Proxy!Consistent

\* However the starts, the ends and the timers of the receiver processes follow
\* each other, the Set of spawnReceiver holds those that there are, never more
\* than it may, the selector is within it, and while one is missing a call of
\* spawnReceiver waits for it.
THEOREM ReceiversConsistent == ProxyConstants => (Proxy!Spec => []Proxy!Consistent)
<1> QED BY ReceiversInvariant, ReceiversInvConsistent, PTL

\* Whom the selector comes to has no one to wait for.
LEMMA NextIsOwedNothing ==
    ASSUME ReceiversInv, children # << >>, children[Proxy!NextPassed] \in DOMAIN owed
    PROVE  owed[children[Proxy!NextPassed]] = {}
<1> DEFINE p == Proxy!NextPassed
<1>1. PICK n \in Nat :
          /\ n = Len(children) /\ DOMAIN children = 1..n
          /\ passed \in Nat /\ passed <= n
  BY Members DEF ReceiversInv, ListOK
<1>2. p \in 1..n /\ (p = passed + 1 \/ (p = 1 /\ passed = n))
  <2>1. n # 0
    BY <1>1, EmptySeq DEF ReceiversInv, ListOK
  <2>2. p = IF passed < n THEN passed + 1 ELSE 1
    BY <1>1 DEF Proxy!NextPassed
  <2>3. n \in Nat /\ passed \in Nat /\ passed <= n
    BY <1>1
  <2> HIDE DEF p
  <2> QED BY <2>1, <2>2, <2>3
<1> HIDE DEF p
<1>3. ASSUME NEW d \in owed[children[p]], children[p] \in DOMAIN owed
      PROVE  FALSE
  <2>1. d \in Proxy!Listed
    BY <1>3 DEF ReceiversInv, TurnsOK
  <2>2. PICK j \in DOMAIN children : d = children[j]
    BY <2>1 DEF Proxy!Listed
  <2>3. p \in DOMAIN children /\ j \in Nat /\ j >= 1 /\ j <= n
    BY <1>1, <1>2, <2>2
  <2>4. IF p <= passed THEN passed < j \/ j < p ELSE passed < j /\ j < p
    BY <1>3, <2>2, <2>3 DEF ReceiversInv, TurnsOK
  <2>5. n \in Nat /\ passed \in Nat /\ passed <= n /\ p \in Nat
    BY <1>1, <1>2
  <2> QED BY <1>2, <2>3, <2>4, <2>5
<1> QED BY <1>3 DEF p

LEMMA TurnsStep ==
    ASSUME ReceiversInv, [Proxy!Next]_(Proxy!vars),
           NEW c \in DOMAIN owed, NEW s \in Sockets,
           socket[s].at = "new", socket'[s] = [at |-> "sent", child |-> c]
    PROVE  owed[c] = {}
<1>1. socket'[s].at = "sent" /\ socket'[s] # socket[s]
  OBVIOUS
<1>2. CASE UNCHANGED socket
  BY <1>1, <1>2
<1>3. CASE \E d \in Children : Proxy!Exit(d)
  <2>1. PICK d \in Children : socket' = Proxy!Lost(d)
    BY <1>3 DEF Proxy!Exit
  <2> QED BY <1>1, <2>1 DEF Proxy!Lost
<1>4. CASE Proxy!MasterExit
  BY <1>1, <1>4 DEF Proxy!MasterExit
<1>5. CASE \E r \in Sockets :
              Proxy!PassSocket(r) \/ Proxy!GiveUp(r) \/ Proxy!Ends(r) \/ Proxy!Again(r)
  <2>1. PICK r \in Sockets :
            Proxy!PassSocket(r) \/ Proxy!GiveUp(r) \/ Proxy!Ends(r) \/ Proxy!Again(r)
    BY <1>5
  <2>2. PICK at \in {"session", "over", "new"}, d \in Children \cup {Proxy!NoChild} :
            socket' = [socket EXCEPT ![r] = [at |-> at, child |-> d]]
    BY <2>1 DEF Proxy!PassSocket, Proxy!GiveUp, Proxy!Ends, Proxy!Again, Proxy!To,
       ReceiversInv, SocketsOK
  <2> QED BY <1>1, <2>2 DEF ReceiversInv, SocketsOK
<1>6. CASE \E r \in Sockets : Proxy!Connection(r)
  <2>1. PICK r \in Sockets : Proxy!Connection(r)
    BY <1>6
  <2>2. CASE children = << >>
    <3>1. socket' = [socket EXCEPT ![r] = [at |-> "over", child |-> Proxy!NoChild]]
      BY <2>1, <2>2 DEF Proxy!Connection, Proxy!To
    <3> QED BY <1>1, <3>1 DEF ReceiversInv, SocketsOK
  <2>3. CASE children # << >>
    <3>1. \/ socket' = [socket EXCEPT ![r] = [at |-> "over", child |-> Proxy!NoChild]]
          \/ socket' = [socket EXCEPT ![r] = [at |-> "stuck", child |-> Proxy!NoChild]]
          \/ socket' = [socket EXCEPT ![r] = [at |-> "sent",
                                              child |-> children[Proxy!NextPassed]]]
      BY <2>1, <2>3 DEF Proxy!Connection, Proxy!To
    <3>2. c = children[Proxy!NextPassed]
      BY <1>1, <3>1 DEF ReceiversInv, SocketsOK
    <3> QED BY <2>3, <3>2, NextIsOwedNothing
  <2> QED BY <2>2, <2>3
<1>7. UNCHANGED socket \/ (\E d \in Children : Proxy!Exit(d)) \/ Proxy!MasterExit
      \/ (\E r \in Sockets :
            Proxy!PassSocket(r) \/ Proxy!GiveUp(r) \/ Proxy!Ends(r) \/ Proxy!Again(r))
      \/ (\E r \in Sockets : Proxy!Connection(r))
  BY DEF Proxy!Next, Proxy!Spawning, Proxy!Start, Proxy!SpawnNext, Proxy!Respawn,
     Proxy!Ready, Proxy!Closed, Proxy!Stop, Proxy!vars
<1> QED BY <1>2, <1>3, <1>4, <1>5, <1>6, <1>7

\* The selector of `connection` gives no process another connection before every
\* other one that has been there all the time has had one, though processes leave
\* and join the Set that it goes through.
THEOREM ReceiversTakeTurns == ProxyConstants => (Proxy!Spec => Proxy!TurnsAreTaken)
<1>1. ReceiversInv /\ [Proxy!Next]_(Proxy!vars) =>
          [\A c \in DOMAIN owed :
              (\E s \in Sockets : socket[s].at = "new"
                                    /\ socket'[s] = [at |-> "sent", child |-> c])
                  => owed[c] = {}]_(Proxy!vars)
  BY TurnsStep
<1> QED BY <1>1, ReceiversInvariant, PTL DEF Proxy!Spec, Proxy!TurnsAreTaken
=============================================================================
