---------------------------- MODULE FrameParser -----------------------------
(***************************************************************************)
(* One direction of a connection: frames with a length before each         *)
(* (lib/transport/frames.js) are written to a socket and cut out of the    *)
(* stream of bytes at the other end (lib/transport/frame-parser.js).  The  *)
(* stream arrives in chunks of any size, so that a cut may fall anywhere,  *)
(* also into a length.                                                     *)
(*                                                                         *)
(* A byte is named by its position in the stream.  What the parser does    *)
(* depends on how many bytes it has and on the lengths it reads; its list  *)
(* of chunks always ends where the socket is read next, so `chunklen` says *)
(* all about it.                                                           *)
(***************************************************************************)
EXTENDS FrameStream

VARIABLES
    sent,       \* how many frames have been written to the socket
    arrived,    \* how many bytes have arrived at the other end
    taken,      \* how many of them socket.read() has returned
    chunklen,   \* how many of these are left in this.chunks
    frame,      \* this.frame: the length that was read, 0 for false
    step,       \* what the parser does next
    cut,        \* the bytes that were cut out last
    last        \* the bytes that were handed to the handler last

vars == <<sent, arrived, taken, chunklen, frame, step, cut, last>>
parserVars == <<taken, chunklen, frame, step, cut, last>>

Bytes == [from : Nat, length : Nat]
NoBytes == [from |-> 0, length |-> 0]

Init ==
    /\ sent = 0
    /\ arrived = 0
    /\ taken = 0
    /\ chunklen = 0
    /\ frame = 0
    /\ step = "idle"
    /\ cut = NoBytes
    /\ last = NoBytes

\* The bytes of the frames that have been sent.
SentBytes == Start[sent + 1]

\* send: a frame is written to the socket.
Send ==
    /\ sent < Frames
    /\ sent' = sent + 1
    /\ UNCHANGED <<arrived, parserVars>>

Arrive(n) ==
    /\ arrived < n /\ n <= SentBytes
    /\ arrived' = n
    /\ UNCHANGED <<sent, parserVars>>

\* getFrame: the first bytes are the frame, the rest stays in this.chunks.
GetFrame(from, have, length) ==
    /\ cut' = [from |-> from, length |-> length]
    /\ chunklen' = have - length
    /\ frame' = 0
    /\ step' = "process"

\* A bug to be found: what has arrived of a frame is taken for all of it.
ExtractEarly(from, have, length) ==
    GetFrame(from, have, IF have < length THEN have ELSE length)

\* `have` bytes of a frame whose length is known.
Extract(from, have, length) ==
    IF have < length
    THEN chunklen' = have /\ frame' = length /\ step' = "read" /\ UNCHANGED cut
    ELSE GetFrame(from, have, length)

\* A bug to be found: a length is not looked for in what was left over.
PiledUpNever == FALSE

\* Enough data is piled up: the socket is not read.
PiledUp == frame = 0 /\ chunklen >= Header

HeaderIncomplete(have) == have < Header

ReadBytes == IF PiledUp THEN 0 ELSE arrived - taken

\* read, with at least one byte: called for 'readable', which is of no interest
\* while the parser is at work, or as an immediate.
Read ==
    LET have == chunklen + ReadBytes
        from == taken - chunklen
    IN  /\ step \in {"idle", "read"}
        /\ PiledUp \/ arrived > taken
        /\ taken' = taken + ReadBytes
        /\ IF frame # 0 THEN Extract(from, have, frame)
           ELSE IF HeaderIncomplete(have)
           THEN chunklen' = have /\ step' = "read" /\ UNCHANGED <<frame, cut>>
           ELSE IF LengthAt(from) > MaxSize
           THEN chunklen' = have /\ step' = "failed" /\ UNCHANGED <<frame, cut>>
           ELSE Extract(from + Header, have - Header, LengthAt(from))
        /\ UNCHANGED <<sent, arrived, last>>

\* socket.read() returns null.
ReadNothing ==
    /\ step = "read"
    /\ ~PiledUp
    /\ arrived = taken
    /\ step' = "idle"
    /\ UNCHANGED <<sent, arrived, taken, chunklen, frame, cut, last>>

\* processFrame calls the handler, which calls back at once (client and server
\* do before they look at the frame).
ProcessFrame ==
    /\ step = "process"
    /\ last' = cut
    /\ step' = "read"
    /\ UNCHANGED <<sent, arrived, taken, chunklen, frame, cut>>

Parse == Read \/ ReadNothing \/ ProcessFrame

ArriveSome == \E n \in 1..SentBytes : Arrive(n)

Next == Send \/ ArriveSome \/ Parse

Spec == Init /\ [][Next]_vars

(***************************************************************************)
(* Properties.                                                             *)
(***************************************************************************)
Payload(i) == IF i = 0 THEN NoBytes
              ELSE [from |-> Start[i] + Header, length |-> Size(i)]

\* The number of the frame that these bytes are, Frames + 1 if they are none.
FrameOf(bytes) ==
    IF \E i \in 0..Frames : bytes = Payload(i)
    THEN CHOOSE i \in 0..Frames : bytes = Payload(i) ELSE Frames + 1

\* Every variable keeps its shape.
TypeOK ==
    /\ sent \in 0..Frames
    /\ {arrived, taken, chunklen, frame} \subseteq Nat
    /\ step \in {"idle", "read", "process", "failed"}
    /\ {cut, last} \subseteq Bytes
    /\ chunklen <= taken /\ taken <= arrived /\ arrived <= SentBytes

Channel == INSTANCE FrameChannel WITH got <- FrameOf(last)

\* However the stream is cut, the parser hands the frames to the handler whole,
\* in order and once each: the connection is a channel of frames.
FramesInOrder == Channel!Spec
=============================================================================
