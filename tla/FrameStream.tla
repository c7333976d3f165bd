---------------------------- MODULE FrameStream -----------------------------
(***************************************************************************)
(* The bytes of one direction of a connection: frames, each after a header *)
(* that holds its length (lib/transport/frames.js).  A byte is named by    *)
(* its position in the stream.                                             *)
(***************************************************************************)
EXTENDS Integers

CONSTANTS
    Frames,     \* how many frames are sent at most
    Header,     \* bytes of the length before each frame: 4
    Start,      \* where in the stream each frame starts, with its header
    MaxSize     \* MAX_ALLOWED_FRAME_SIZE

\* A frame is never empty: it is the encoding of an object.
ASSUME FrameAssumption ==
    /\ Frames \in Nat
    /\ Header \in Nat \ {0}
    /\ MaxSize \in Nat
    /\ Start \in [1..Frames + 1 -> Nat]
    /\ Start[1] = 0
    /\ \A i, j \in 1..Frames + 1 : i < j => Start[i] + Header < Start[j]

Size(i) == Start[i + 1] - Start[i] - Header

\* The number that is found at a position: nothing good if no frame starts there.
Garbage == MaxSize + 1
LengthAt(p) ==
    IF \E i \in 1..Frames : Start[i] = p
    THEN Size(CHOOSE i \in 1..Frames : Start[i] = p) ELSE Garbage
=============================================================================
