------------------------ MODULE SenderServiceProofs -------------------------
(***************************************************************************)
(* Proofs about SenderService, for any number of senders, commands and     *)
(* reloads, and any sizes of the frames.                                   *)
(*                                                                         *)
(* The answers come through a FrameParser.  What is proved of it first     *)
(* holds of the connection: the frame that is handed over is the next one  *)
(* that the master has sent.                                               *)
(***************************************************************************)
EXTENDS SenderService, SequenceTheorems, FiniteSetTheorems, WellFoundedInduction,
        TLAPS

(***************************************************************************)
(* The bytes the parser has not handed out begin at the next frame, or     *)
(* just after the header of that frame when its length has been read.      *)
(***************************************************************************)
AtFrame(n) ==
    IF frame = 0 THEN taken - chunklen = Start[n]
    ELSE /\ n \in 1..Frames
         /\ frame = Parser!Size(n)
         /\ taken - chunklen = Start[n] + Header
         /\ chunklen < frame

\* g frames have been handed over.
HandedOver(g) ==
    /\ last = Parser!Payload(g)
    /\ IF step = "process"
       THEN /\ g + 1 \in 1..Frames
            /\ cut = Parser!Payload(g + 1)
            /\ AtFrame(g + 2)
       ELSE AtFrame(g + 1)

Aligned == \E g \in 0..Frames : HandedOver(g)

ParserInv == Parser!TypeOK /\ Aligned

(***************************************************************************)
(* Facts about the stream.                                                 *)
(***************************************************************************)
\* Frames start one after the other, so a position that is not after the start
\* of another frame belongs to a frame that is not after it.
LEMMA StartsInOrder ==
    ASSUME NEW i \in 1..Frames + 1, NEW j \in 1..Frames + 1, Start[i] < Start[j] + 1
    PROVE  i <= j
BY FrameAssumption

\* A frame has a length of at least one byte.
LEMMA SizeType ==
    ASSUME NEW i \in 1..Frames
    PROVE  /\ Parser!Size(i) \in Nat \ {0}
           /\ Start[i] \in Nat
           /\ Start[i + 1] = Start[i] + Header + Parser!Size(i)
BY FrameAssumption DEF Parser!Size

\* What is read where a frame starts is its length.
LEMMA LengthRead ==
    ASSUME NEW i \in 1..Frames
    PROVE  Parser!LengthAt(Start[i]) = Parser!Size(i)
<1> DEFINE P(j) == Start[j] = Start[i]
<1>1. \A j \in 1..Frames : P(j) => j = i
  <2> SUFFICES ASSUME NEW j \in 1..Frames, Start[j] = Start[i] PROVE j = i
    OBVIOUS
  <2>1. i \in 1..Frames + 1 /\ j \in 1..Frames + 1 /\ Start[i] \in Nat /\ Start[j] \in Nat
    BY FrameAssumption
  <2>2. i <= j /\ j <= i
    BY <2>1, StartsInOrder
  <2> QED BY <2>2, FrameAssumption
<1>2. (CHOOSE j \in 1..Frames : P(j)) = i
  <2>1. \E j \in 1..Frames : P(j)
    OBVIOUS
  <2>2. /\ (CHOOSE j \in 1..Frames : P(j)) \in 1..Frames
        /\ P(CHOOSE j \in 1..Frames : P(j))
    BY <2>1
  <2> QED BY <2>2, <1>1
<1> QED BY <1>2 DEF Parser!LengthAt

\* Bytes that are a frame are no other frame.
LEMMA PayloadsDiffer ==
    ASSUME NEW i \in 0..Frames, NEW j \in 0..Frames, Parser!Payload(i) = Parser!Payload(j)
    PROVE  i = j
<1>1. CASE i = 0 /\ j = 0
  BY <1>1
<1>2. CASE i # 0 /\ j # 0
  BY <1>2, FrameAssumption DEF Parser!Payload
<1>3. CASE i = 0 /\ j # 0
  BY <1>3, FrameAssumption DEF Parser!Payload, Parser!NoBytes
<1>4. CASE i # 0 /\ j = 0
  BY <1>4, FrameAssumption DEF Parser!Payload, Parser!NoBytes
<1> QED BY <1>1, <1>2, <1>3, <1>4

\* The number of a frame is found from its bytes.
LEMMA FrameOfPayload ==
    ASSUME NEW i \in 0..Frames
    PROVE  Parser!FrameOf(Parser!Payload(i)) = i
<1> DEFINE P(j) == Parser!Payload(i) = Parser!Payload(j)
<1>1. \E j \in 0..Frames : P(j)
  OBVIOUS
<1>2. /\ (CHOOSE j \in 0..Frames : P(j)) \in 0..Frames
      /\ P(CHOOSE j \in 0..Frames : P(j))
  BY <1>1
<1>3. (CHOOSE j \in 0..Frames : P(j)) = i
  BY <1>2, PayloadsDiffer
<1> QED BY <1>1, <1>3 DEF Parser!FrameOf

\* A frame is a piece of the stream.
LEMMA PayloadType ==
    ASSUME NEW i \in 1..Frames
    PROVE  /\ Parser!Payload(i) = [from |-> Start[i] + Header, length |-> Parser!Size(i)]
           /\ Parser!Payload(i) \in Parser!Bytes
BY SizeType, FrameAssumption DEF Parser!Payload, Parser!Bytes

(***************************************************************************)
(* The steps of the parser and of its environment.                         *)
(***************************************************************************)
LEMMA ParserInit == Parser!Init => ParserInv
<1> SUFFICES ASSUME Parser!Init PROVE ParserInv
  OBVIOUS
<1>1. Parser!TypeOK
  BY FrameAssumption DEF Parser!Init, Parser!TypeOK, Parser!Bytes, Parser!NoBytes,
     Parser!SentBytes
<1>2. HandedOver(0)
  BY FrameAssumption DEF Parser!Init, HandedOver, AtFrame, Parser!Payload,
     Parser!NoBytes
<1>3. 0 \in 0..Frames
  BY FrameAssumption
<1> QED BY <1>1, <1>2, <1>3 DEF ParserInv, Aligned

\* Sending and arriving leave the parser alone.
LEMMA ParserStream ==
    ASSUME ParserInv, Parser!Send \/ Parser!ArriveSome
    PROVE  ParserInv'
<1>1. Parser!TypeOK'
  <2>1. CASE Parser!Send
    <3>1. /\ sent \in Nat /\ sent + 1 \in 1..Frames
          /\ sent + 1 \in 1..Frames + 1 /\ sent + 2 \in 1..Frames + 1
      BY <2>1, FrameAssumption DEF Parser!Send, ParserInv, Parser!TypeOK
    <3>2. Start[sent + 1] <= Start[sent + 2]
      <4>1. Start[sent + 1] \in Nat /\ Start[sent + 2] \in Nat /\ sent + 1 < sent + 2
        BY <3>1, FrameAssumption
      <4>2. Start[sent + 1] + Header < Start[sent + 2]
        BY <3>1, <4>1, FrameAssumption
      <4> QED BY <4>1, <4>2, FrameAssumption
    <3>3. /\ Parser!SentBytes <= Parser!SentBytes'
          /\ Parser!SentBytes \in Nat /\ Parser!SentBytes' \in Nat
      BY <2>1, <3>1, <3>2, FrameAssumption DEF Parser!Send, Parser!SentBytes,
         ParserInv, Parser!TypeOK
    <3> QED BY <2>1, <3>1, <3>3 DEF Parser!Send, Parser!parserVars, ParserInv,
               Parser!TypeOK
  <2>2. CASE Parser!ArriveSome
    <3>1. Parser!SentBytes \in Nat /\ Parser!SentBytes' = Parser!SentBytes
      BY <2>2, FrameAssumption DEF Parser!ArriveSome, Parser!Arrive,
         Parser!SentBytes, ParserInv, Parser!TypeOK
    <3> QED BY <2>2, <3>1 DEF Parser!ArriveSome, Parser!Arrive, Parser!parserVars,
               ParserInv, Parser!TypeOK
  <2> QED BY <2>1, <2>2
<1>2. UNCHANGED Parser!parserVars
  BY DEF Parser!Send, Parser!ArriveSome, Parser!Arrive
<1>3. Aligned'
  BY <1>2 DEF ParserInv, Aligned, HandedOver, AtFrame, Parser!parserVars
<1> QED BY <1>1, <1>3 DEF ParserInv

(***************************************************************************)
(* Cutting out a frame.                                                    *)
(***************************************************************************)
\* What the parser has begins in a frame that has been sent, when it is enough
\* for a header or when the length of that frame is known.
LEMMA NextIsSent ==
    ASSUME ParserInv, NEW n \in 1..Frames + 1, Start[n] < arrived
    PROVE  n \in 1..Frames /\ n <= sent
<1>1. sent + 1 \in 1..Frames + 1 /\ arrived <= Start[sent + 1]
  BY FrameAssumption DEF ParserInv, Parser!TypeOK, Parser!SentBytes
<1>2. ~(sent + 1 <= n)
  <2> SUFFICES ASSUME sent + 1 <= n PROVE FALSE
    OBVIOUS
  <2>1. Start[sent + 1] <= Start[n]
    BY <1>1, FrameAssumption
  <2> QED BY <1>1, <2>1, FrameAssumption DEF ParserInv, Parser!TypeOK
<1> QED BY <1>1, <1>2, FrameAssumption DEF ParserInv, Parser!TypeOK

\* Extract, told the length of frame n and given what is left of the bytes
\* after its header.
LEMMA ExtractAligned ==
    ASSUME ParserInv, NEW g \in 0..Frames, last = Parser!Payload(g), step # "process",
           g + 1 \in 1..Frames,
           NEW have \in Nat, NEW from \in Nat,
           from = Start[g + 1] + Header,
           from + have = taken',
           taken' \in Nat,
           Parser!Extract(from, have, Parser!Size(g + 1)),
           UNCHANGED last
    PROVE  /\ Aligned'
           /\ chunklen' \in Nat /\ frame' \in Nat
           /\ chunklen' <= taken'
           /\ step' \in {"read", "process"}
           /\ cut' \in Parser!Bytes
<1> DEFINE n == g + 1
<1>0. /\ Parser!Size(n) \in Nat \ {0} /\ Start[n] \in Nat
      /\ Start[n + 1] = Start[n] + Header + Parser!Size(n)
      /\ Header \in Nat /\ Frames \in Nat
  BY SizeType, FrameAssumption
<1>a. /\ Parser!Payload(n) = [from |-> Start[n] + Header, length |-> Parser!Size(n)]
      /\ Parser!Payload(n) \in Parser!Bytes
  BY PayloadType
<1>1. CASE have < Parser!Size(n)
  <2>1. chunklen' = have /\ frame' = Parser!Size(n) /\ step' = "read" /\ cut' = cut
    BY <1>1 DEF Parser!Extract
  <2>2. AtFrame(n)'
    BY <1>0, <2>1, <1>1 DEF AtFrame, Parser!Size
  <2>3. HandedOver(g)'
    BY <2>1, <2>2 DEF HandedOver, Parser!Payload, Parser!NoBytes, Parser!Size
  <2> QED BY <1>0, <2>1, <2>3 DEF Aligned, ParserInv, Parser!TypeOK
<1>2. CASE ~(have < Parser!Size(n))
  <2>1. /\ cut' = [from |-> from, length |-> Parser!Size(n)]
        /\ chunklen' = have - Parser!Size(n) /\ frame' = 0 /\ step' = "process"
    BY <1>2 DEF Parser!Extract, Parser!GetFrame
  <2>2. cut' = Parser!Payload(n)
    BY <2>1, <1>a
  <2>3. AtFrame(g + 2)'
    BY <1>0, <2>1, <1>2 DEF AtFrame
  <2>4. HandedOver(g)'
    BY <2>1, <2>2, <2>3 DEF HandedOver, Parser!Payload, Parser!NoBytes, Parser!Size
  <2>5. chunklen' \in Nat /\ chunklen' <= taken'
    BY <1>0, <1>2, <2>1
  <2> QED BY <2>1, <2>2, <2>4, <2>5, <1>a DEF Aligned
<1> QED BY <1>1, <1>2

LEMMA ParserRead ==
    ASSUME ParserInv, Parser!Read
    PROVE  ParserInv'
<1> DEFINE have == chunklen + Parser!ReadBytes
           from == taken - chunklen
<1>1. PICK g \in 0..Frames : HandedOver(g)
  BY DEF ParserInv, Aligned
<1>2. step # "process" /\ last = Parser!Payload(g) /\ AtFrame(g + 1)
  BY <1>1 DEF HandedOver, Parser!Read
<1>3. /\ {sent, arrived, taken, chunklen, frame} \subseteq Nat
      /\ chunklen <= taken /\ taken <= arrived /\ arrived <= Parser!SentBytes
      /\ Parser!SentBytes \in Nat /\ Header \in Nat \ {0} /\ MaxSize \in Nat
      /\ Frames \in Nat
  BY FrameAssumption DEF ParserInv, Parser!TypeOK, Parser!SentBytes
<1>4. /\ Parser!ReadBytes \in Nat /\ have \in Nat \ {0} /\ from \in Nat
      /\ taken' = taken + Parser!ReadBytes /\ taken' = from + have
      /\ taken' \in Nat /\ taken' <= arrived /\ chunklen <= have
  BY <1>3 DEF Parser!Read, Parser!ReadBytes, Parser!PiledUp
<1>5. UNCHANGED <<sent, arrived, last>> /\ Parser!SentBytes' = Parser!SentBytes
  BY DEF Parser!Read, Parser!SentBytes
<1>6. g + 1 \in 1..Frames + 1
  BY <1>3
<1>7. CASE frame # 0
  <2>1. /\ g + 1 \in 1..Frames /\ frame = Parser!Size(g + 1)
        /\ from = Start[g + 1] + Header
    BY <1>2, <1>7 DEF AtFrame
  <2>2. Parser!Extract(from, have, Parser!Size(g + 1))
    BY <1>7, <2>1 DEF Parser!Read
  <2>3. /\ Aligned' /\ chunklen' \in Nat /\ frame' \in Nat /\ chunklen' <= taken'
        /\ step' \in {"read", "process"} /\ cut' \in Parser!Bytes
    BY <1>2, <1>4, <1>5, <2>1, <2>2, ExtractAligned
  <2> QED BY <1>3, <1>4, <1>5, <2>3 DEF ParserInv, Parser!TypeOK
<1>8. CASE frame = 0 /\ Parser!HeaderIncomplete(have)
  <2>1. chunklen' = have /\ step' = "read" /\ UNCHANGED <<frame, cut>>
    BY <1>8 DEF Parser!Read
  <2>2. AtFrame(g + 1)'
    BY <1>2, <1>3, <1>4, <1>8, <2>1 DEF AtFrame
  <2>3. HandedOver(g)'
    BY <1>2, <1>5, <2>1, <2>2 DEF HandedOver, Parser!Payload, Parser!NoBytes,
       Parser!Size
  <2> QED BY <1>3, <1>4, <1>5, <2>1, <2>3 DEF ParserInv, Parser!TypeOK, Aligned
<1>9. CASE frame = 0 /\ ~Parser!HeaderIncomplete(have)
  <2>1. from = Start[g + 1] /\ have >= Header
    BY <1>2, <1>3, <1>4, <1>9 DEF AtFrame, Parser!HeaderIncomplete
  <2>2. g + 1 \in 1..Frames
    <3>1. Start[g + 1] < arrived
      BY <1>3, <1>4, <2>1
    <3> QED BY <1>6, <3>1, NextIsSent
  <2>3. Parser!LengthAt(from) = Parser!Size(g + 1)
    BY <2>1, <2>2, LengthRead
  <2>4. CASE Parser!Size(g + 1) > MaxSize
    <3>1. chunklen' = have /\ step' = "failed" /\ UNCHANGED <<frame, cut>>
      BY <1>9, <2>3, <2>4 DEF Parser!Read
    <3>2. AtFrame(g + 1)'
      BY <1>3, <1>4, <1>9, <2>1, <3>1 DEF AtFrame
    <3>3. HandedOver(g)'
      BY <1>2, <1>5, <3>1, <3>2 DEF HandedOver, Parser!Payload, Parser!NoBytes,
         Parser!Size
    <3> QED BY <1>3, <1>4, <1>5, <3>1, <3>3 DEF ParserInv, Parser!TypeOK, Aligned
  <2>5. CASE ~(Parser!Size(g + 1) > MaxSize)
    <3>1. Parser!Extract(from + Header, have - Header, Parser!Size(g + 1))
      BY <1>9, <2>3, <2>5 DEF Parser!Read
    <3>2. /\ have - Header \in Nat /\ from + Header \in Nat
          /\ from + Header = Start[g + 1] + Header
          /\ (from + Header) + (have - Header) = taken'
      BY <1>3, <1>4, <2>1
    <3>3. /\ Aligned' /\ chunklen' \in Nat /\ frame' \in Nat /\ chunklen' <= taken'
          /\ step' \in {"read", "process"} /\ cut' \in Parser!Bytes
      BY <1>2, <1>4, <1>5, <2>2, <3>1, <3>2, ExtractAligned
    <3> QED BY <1>3, <1>4, <1>5, <3>3 DEF ParserInv, Parser!TypeOK
  <2> QED BY <2>4, <2>5
<1> QED BY <1>7, <1>8, <1>9

\* There is nothing to read.
LEMMA ParserReadNothing ==
    ASSUME ParserInv, Parser!ReadNothing
    PROVE  ParserInv'
<1>1. /\ UNCHANGED <<sent, arrived, taken, chunklen, frame, cut, last>>
      /\ step # "process" /\ step' = "idle"
  BY DEF Parser!ReadNothing
<1>2. Parser!TypeOK'
  BY <1>1 DEF ParserInv, Parser!TypeOK, Parser!SentBytes
<1>3. Aligned'
  <2>1. PICK g \in 0..Frames : HandedOver(g)
    BY DEF ParserInv, Aligned
  <2>2. HandedOver(g)'
    BY <1>1, <2>1 DEF HandedOver, AtFrame
  <2> QED BY <2>2 DEF Aligned
<1> QED BY <1>2, <1>3 DEF ParserInv

LEMMA ParserProcessFrame ==
    ASSUME ParserInv, Parser!ProcessFrame
    PROVE  ParserInv'
<1>1. PICK g \in 0..Frames : HandedOver(g)
  BY DEF ParserInv, Aligned
<1>2. /\ g + 1 \in 1..Frames /\ g + 1 \in 0..Frames
      /\ cut = Parser!Payload(g + 1) /\ AtFrame(g + 2)
  BY <1>1, FrameAssumption DEF HandedOver, Parser!ProcessFrame
<1>3. /\ last' = Parser!Payload(g + 1) /\ step' = "read"
      /\ UNCHANGED <<sent, arrived, taken, chunklen, frame, cut>>
  BY <1>2 DEF Parser!ProcessFrame
<1>4. AtFrame((g + 1) + 1)'
  <2>1. g + 2 = (g + 1) + 1
    OBVIOUS
  <2> QED BY <1>2, <1>3, <2>1 DEF AtFrame
<1>5. HandedOver(g + 1)'
  BY <1>3, <1>4 DEF HandedOver, Parser!Payload, Parser!NoBytes, Parser!Size
<1>6. Parser!TypeOK'
  BY <1>3 DEF Parser!ProcessFrame, ParserInv, Parser!TypeOK, Parser!SentBytes
<1> QED BY <1>2, <1>5, <1>6 DEF ParserInv, Aligned

LEMMA ParserStep == ParserInv /\ [Parser!Next]_(Parser!vars) => ParserInv'
<1> SUFFICES ASSUME ParserInv, [Parser!Next]_(Parser!vars) PROVE ParserInv'
  OBVIOUS
<1>1. CASE Parser!Send \/ Parser!ArriveSome
  BY <1>1, ParserStream
<1>2. CASE Parser!ReadNothing
  BY <1>2, ParserReadNothing
<1>3. CASE Parser!Read
  BY <1>3, ParserRead
<1>4. CASE Parser!ProcessFrame
  BY <1>4, ParserProcessFrame
<1>5. CASE UNCHANGED Parser!vars
  BY <1>5 DEF Parser!vars, ParserInv, Parser!TypeOK, Aligned, HandedOver, AtFrame,
     Parser!SentBytes
<1> QED BY <1>1, <1>2, <1>3, <1>4, <1>5 DEF Parser!Next, Parser!Parse

\* The parser is always at the start of a frame or just after its header.
THEOREM ParserAligned == Parser!Spec => []ParserInv
BY ParserInit, ParserStep, PTL DEF Parser!Spec

\* The variables of the parser keep their shape; what it has taken has arrived,
\* and what has arrived was sent.
THEOREM ParserTypeCorrect == Parser!Spec => []Parser!TypeOK
BY ParserAligned, PTL DEF ParserInv

\* What has been handed over has been sent.
LEMMA HandedOverIsSent ==
    ASSUME ParserInv
    PROVE  Parser!FrameOf(last) \in 0..sent
<1>1. PICK g \in 0..Frames : HandedOver(g)
  BY DEF ParserInv, Aligned
<1>2. Parser!FrameOf(last) = g
  BY <1>1, FrameOfPayload DEF HandedOver
<1>3. taken <= Start[sent + 1] /\ sent + 1 \in 1..Frames + 1
  BY FrameAssumption DEF ParserInv, Parser!TypeOK, Parser!SentBytes
<1>4. CASE step = "process"
  <2>1. AtFrame(g + 2) /\ g + 1 \in 1..Frames /\ g + 2 \in 1..Frames + 1
    BY <1>1, <1>4, FrameAssumption DEF HandedOver
  <2>2. Start[g + 2] <= taken
    BY <2>1, FrameAssumption DEF AtFrame, ParserInv, Parser!TypeOK
  <2>3. g + 2 <= sent + 1
    BY SMTT(30), <1>3, <2>1, <2>2, StartsInOrder, FrameAssumption DEF ParserInv,
       Parser!TypeOK
  <2> QED BY <1>2, <2>3 DEF ParserInv, Parser!TypeOK
<1>5. CASE step # "process"
  <2>1. AtFrame(g + 1) /\ g + 1 \in 1..Frames + 1
    BY <1>1, <1>5, FrameAssumption DEF HandedOver
  <2>2. Start[g + 1] <= taken
    BY <2>1, FrameAssumption DEF AtFrame, ParserInv, Parser!TypeOK
  <2>3. g + 1 <= sent + 1
    BY SMTT(30), <1>3, <2>1, <2>2, StartsInOrder, FrameAssumption DEF ParserInv,
       Parser!TypeOK
  <2> QED BY <1>2, <2>3 DEF ParserInv, Parser!TypeOK
<1> QED BY <1>4, <1>5

\* What is cut out is the next frame, and it has been sent.
LEMMA CutIsNext ==
    ASSUME ParserInv, step = "process"
    PROVE  /\ Parser!FrameOf(cut) = Parser!FrameOf(last) + 1
           /\ Parser!FrameOf(cut) <= sent
<1>1. PICK g \in 0..Frames : HandedOver(g)
  BY DEF ParserInv, Aligned
<1>2. /\ g + 1 \in 1..Frames /\ g + 1 \in 0..Frames /\ g + 2 \in 1..Frames + 1
      /\ last = Parser!Payload(g) /\ cut = Parser!Payload(g + 1) /\ AtFrame(g + 2)
  BY <1>1, FrameAssumption DEF HandedOver
<1>3. Parser!FrameOf(last) = g /\ Parser!FrameOf(cut) = g + 1
  BY <1>2, FrameOfPayload
<1>4. Start[g + 2] <= taken
  BY <1>2, FrameAssumption DEF AtFrame, ParserInv, Parser!TypeOK
<1>5. taken <= Start[sent + 1] /\ sent + 1 \in 1..Frames + 1
  BY FrameAssumption DEF ParserInv, Parser!TypeOK, Parser!SentBytes
<1>6. g + 2 <= sent + 1
  BY SMTT(30), <1>2, <1>4, <1>5, StartsInOrder, FrameAssumption DEF ParserInv,
     Parser!TypeOK
<1> QED BY <1>3, <1>6 DEF ParserInv, Parser!TypeOK

\* Each step of the parser is one of the channel, or none.
LEMMA ParserRefines ==
    ParserInv /\ [Parser!Next]_(Parser!vars)
        => [Parser!Channel!Next]_(Parser!Channel!vars)
<1> SUFFICES ASSUME ParserInv, [Parser!Next]_(Parser!vars)
             PROVE  [Parser!Channel!Next]_(Parser!Channel!vars)
  OBVIOUS
<1> USE DEF Parser!Channel!Next, Parser!Channel!vars, Parser!Channel!Send,
       Parser!Channel!Receive
<1>1. CASE Parser!Send
  BY <1>1 DEF Parser!Send, Parser!parserVars
<1>2. CASE UNCHANGED <<sent, last>>
  BY <1>2
<1>3. CASE Parser!ProcessFrame
  <2>1. Parser!FrameOf(cut) = Parser!FrameOf(last) + 1 /\ Parser!FrameOf(cut) <= sent
    BY <1>3, CutIsNext DEF Parser!ProcessFrame
  <2>2. Parser!FrameOf(last) \in 0..sent /\ sent \in Nat
    BY HandedOverIsSent, FrameAssumption DEF ParserInv, Parser!TypeOK
  <2>3. Parser!FrameOf(last)' = Parser!FrameOf(cut) /\ sent' = sent
    BY <1>3 DEF Parser!ProcessFrame, Parser!FrameOf, Parser!Payload, Parser!NoBytes,
       Parser!Size
  <2> QED BY <2>1, <2>2, <2>3
<1>4. CASE Parser!ArriveSome \/ Parser!Read \/ Parser!ReadNothing
  <2>1. UNCHANGED <<sent, last>>
    BY <1>4 DEF Parser!ArriveSome, Parser!Arrive, Parser!parserVars, Parser!Read,
       Parser!ReadNothing
  <2> QED BY <2>1, <1>2
<1>5. CASE UNCHANGED Parser!vars
  BY <1>5, <1>2 DEF Parser!vars
<1> QED BY <1>1, <1>3, <1>4, <1>5 DEF Parser!Next, Parser!Parse

\* The connection is a channel: frames of any sizes come out whole, in order
\* and once each, however the stream is cut into chunks.
THEOREM ParserImplementsChannel == Parser!Spec => Parser!FramesInOrder
<1>1. Parser!Init => Parser!Channel!Init
  <2> SUFFICES ASSUME Parser!Init PROVE Parser!Channel!Init
    OBVIOUS
  <2>1. last = Parser!Payload(0) /\ 0 \in 0..Frames
    BY FrameAssumption DEF Parser!Init, Parser!Payload
  <2> QED BY <2>1, FrameOfPayload DEF Parser!Init, Parser!Channel!Init
<1> QED BY <1>1, ParserRefines, ParserAligned, PTL DEF Parser!Spec,
           Parser!FramesInOrder, Parser!Channel!Spec

(***************************************************************************)
(* The invariants of the process and its connection.                       *)
(***************************************************************************)
Requests == [cmd : {"GET", "RELEASE"}, req : Nat \ {0}]
Replies == {"delivery", "nothing", "error", "released", "zone not set", "close"}
Answers == [req : Nat, answer : Replies]

\* How many of the answers have been handed over.
Got == Parser!FrameOf(last)

StreamOK ==
    /\ ParserInv
    /\ answers \in Seq(Answers)
    /\ Len(answers) = sent

\* Nothing happens before the connection is made.
StartOK ==
    process = "new" =>
        /\ link = "none" /\ client = "null"
        /\ commands = << >> /\ running = {} /\ answers = << >>
        /\ cmdId = 0

RequestsOK ==
    /\ cmdId \in 0..MaxCommands
    /\ DOMAIN responseHandlers \subseteq 1..cmdId
    /\ responseHandlers \in [DOMAIN responseHandlers -> Senders]
    /\ callbacks \in Seq([to : Senders, answer : Replies])
    /\ commands \in Seq({Hello} \cup Requests)
    /\ running \subseteq Requests
    /\ \A i \in 1..Len(commands) : commands[i].req <= cmdId
    /\ \A m \in running : m.req <= cmdId
    /\ \A i \in 1..Len(answers) : answers[i].req <= cmdId

\* The places where command c can be.
Written(c) == \E i \in 1..Len(commands) : commands[i].req = c
AtWork(c) == \E m \in running : m.req = c
Pending == (Got + 1)..Len(answers)
OnItsWay(c) == \E i \in Pending : answers[i].req = c

Open == link = "up" /\ client # "null" /\ Running

\* As long as the connection is open, no command is twice at one place or at
\* two of them, and it is at one of them if it waits for its answer.
UnderWay ==
    /\ \A i, j \in 1..Len(commands) : commands[i].req = commands[j].req => i = j
    /\ \A m, n \in running : m.req = n.req => m = n
    /\ \A i, j \in Pending : answers[i].req = answers[j].req => i = j
    /\ \A c \in 1..cmdId :
          /\ ~(Written(c) /\ AtWork(c))
          /\ ~(Written(c) /\ OnItsWay(c))
          /\ ~(AtWork(c) /\ OnItsWay(c))
          /\ c \in DOMAIN responseHandlers <=> Written(c) \/ AtWork(c) \/ OnItsWay(c)

\* A sender that waits has one command that waits for its answer, or the
\* callback of one that had it.
Asked(s) == \E c \in DOMAIN responseHandlers : responseHandlers[c] = s
Told(s) == \E i \in 1..Len(callbacks) : callbacks[i].to = s

OneEach ==
    /\ \A c, d \in DOMAIN responseHandlers :
          responseHandlers[c] = responseHandlers[d] => c = d
    /\ \A i, j \in 1..Len(callbacks) : callbacks[i].to = callbacks[j].to => i = j
    /\ \A s \in Senders :
          /\ ~(Asked(s) /\ Told(s))
          /\ sender[s] \in {"get", "release"} <=> Asked(s) \/ Told(s)

\* The senders are started in order, and a reload closes none that is needed.
SendersOK ==
    /\ process \in {"new", "init", "up", "exited"}
    /\ closing \in BOOLEAN
    /\ due \in Nat
    /\ sender \in [Senders -> {"none", "idle", "get", "work", "release"}]
    /\ \E n \in 0..MaxSenders : Spawned = 1..n
    /\ senders \subseteq Spawned
    /\ zoneConnections \in Connections
    /\ link \in {"none", "up", "ended", "lost"}
    /\ client \in {"null", "unnamed", "named"}
    /\ EnoughSenders

Inv ==
    /\ StreamOK
    /\ StartOK
    /\ RequestsOK
    /\ Open => UnderWay
    /\ process # "exited" => OneEach
    /\ SendersOK

(***************************************************************************)
(* The stream of the answers.                                              *)
(***************************************************************************)
LEMMA FrameKept ==
    ASSUME ParserInv,
           \/ Parser!Send \/ Parser!ArriveSome \/ Parser!Read \/ Parser!ReadNothing
           \/ Parser!ProcessFrame
           \/ UNCHANGED streamVars
    PROVE  ParserInv'
<1>1. UNCHANGED streamVars => UNCHANGED Parser!vars
  BY DEF streamVars, Parser!vars
<1>2. [Parser!Next]_(Parser!vars)
  BY <1>1 DEF Parser!Next, Parser!Parse
<1> QED BY <1>2, ParserStep

LEMMA GotType ==
    ASSUME ParserInv
    PROVE  Got \in 0..sent /\ sent \in 0..Frames
<1>1. Parser!FrameOf(last) \in 0..sent
  BY HandedOverIsSent
<1> QED BY <1>1 DEF Got, ParserInv, Parser!TypeOK

LEMMA HandedIsNext ==
    ASSUME ParserInv, Parser!ProcessFrame
    PROVE  Handed = Got + 1 /\ Handed <= sent /\ Got' = Handed /\ sent' = sent
<1>1. step = "process" /\ last' = cut /\ sent' = sent
  BY DEF Parser!ProcessFrame
<1>2. Parser!FrameOf(cut) = Parser!FrameOf(last) + 1 /\ Parser!FrameOf(cut) <= sent
  BY <1>1, CutIsNext
<1>3. Got' = Parser!FrameOf(cut)
  BY <1>1 DEF Got, Parser!FrameOf, Parser!Payload, Parser!NoBytes, Parser!Size
<1> QED BY <1>1, <1>2, <1>3 DEF Handed, Got

LEMMA GotKept ==
    ASSUME UNCHANGED last PROVE Got' = Got
BY DEF Got, Parser!FrameOf, Parser!Payload, Parser!NoBytes, Parser!Size

(***************************************************************************)
(* Sequences and sets.                                                     *)
(***************************************************************************)
LEMMA Appended ==
    ASSUME NEW S, NEW list \in Seq(S), NEW e \in S
    PROVE  /\ Append(list, e) \in Seq(S)
           /\ Len(Append(list, e)) = Len(list) + 1
           /\ \A i \in 1..Len(list) : Append(list, e)[i] = list[i]
           /\ Append(list, e)[Len(list) + 1] = e
BY AppendProperties

LEMMA Rest ==
    ASSUME NEW S, NEW list \in Seq(S), list # << >>
    PROVE  /\ Tail(list) \in Seq(S)
           /\ Len(list) \in Nat /\ 1 \in 1..Len(list)
           /\ Len(Tail(list)) = Len(list) - 1
           /\ \A i \in 1..Len(Tail(list)) : Tail(list)[i] = list[i + 1]
           /\ Head(list) \in S /\ Head(list) = list[1]
BY HeadTailProperties, LenProperties

LEMMA AtMostOne ==
    ASSUME NEW S, \A x, y \in S : x = y
    PROVE  IsFiniteSet(S) /\ Cardinality(S) = IF S = {} THEN 0 ELSE 1
<1>1. CASE S = {}
  BY <1>1, FS_EmptySet
<1>2. CASE S # {}
  <2>1. PICK x : S = {x}
    BY <1>2
  <2> QED BY <2>1, FS_Singleton
<1> QED BY <1>1, <1>2

\* Where the elements of a sequence are without the first.
LEMMA RestPlaces ==
    ASSUME NEW S, NEW list \in Seq(S), list # << >>
    PROVE  /\ \A i \in 1..Len(list) :
                 i # 1 => i - 1 \in 1..Len(Tail(list)) /\ Tail(list)[i - 1] = list[i]
           /\ \A i \in 1..Len(Tail(list)) :
                 i + 1 \in 1..Len(list) /\ Tail(list)[i] = list[i + 1]
<1> DEFINE rest == Tail(list)
<1>1. /\ Len(list) \in Nat /\ Len(rest) = Len(list) - 1
      /\ \A i \in 1..Len(rest) : rest[i] = list[i + 1]
  BY Rest
<1> HIDE DEF rest
<1>2. ASSUME NEW i \in 1..Len(list), i # 1
      PROVE  i - 1 \in 1..Len(rest) /\ rest[i - 1] = list[i]
  <2>1. i - 1 \in 1..Len(rest) /\ (i - 1) + 1 = i
    BY <1>1, <1>2
  <2> QED BY <1>1, <2>1
<1>3. ASSUME NEW i \in 1..Len(rest)
      PROVE  i + 1 \in 1..Len(list) /\ rest[i] = list[i + 1]
  BY <1>1
<1> QED BY <1>2, <1>3 DEF rest

\* A set of natural numbers has a least element.
LEMMA LeastElement ==
    ASSUME NEW S \in SUBSET Nat, S # {}
    PROVE  \E x \in S : \A y \in S : x <= y
<1> DEFINE Less == OpToRel(<, Nat)
<1>1. IsWellFoundedOn(Less, Nat)
  BY NatLessThanWellFounded, Zenon
<1>2. \A x, y \in Nat : y < x => <<y, x>> \in Less
  BY DEF OpToRel
<1> HIDE DEF Less
<1>3. PICK x \in S : \A y \in S : <<y, x>> \notin Less
  BY <1>1, WFMin
<1>4. ASSUME NEW y \in S PROVE x <= y
  <2>1. x \in Nat /\ y \in Nat /\ ~(y < x)
    BY <1>2, <1>3
  <2> QED BY <2>1
<1> QED BY <1>4

(***************************************************************************)
(* What a step leaves alone.                                               *)
(***************************************************************************)
LEMMA StreamSame ==
    ASSUME StreamOK, UNCHANGED <<answers, streamVars>>
    PROVE  /\ StreamOK'
           /\ Pending' = Pending
           /\ \A c : OnItsWay(c)' <=> OnItsWay(c)
<1>1. ParserInv' /\ sent' = sent
  BY FrameKept DEF StreamOK, streamVars
<1>2. Got' = Got
  BY GotKept DEF streamVars
<1> QED BY <1>1, <1>2 DEF StreamOK, Pending, OnItsWay

LEMMA RequestsSame ==
    ASSUME RequestsOK, UNCHANGED requestVars, UNCHANGED <<commands, running, answers>>
    PROVE  RequestsOK'
BY DEF RequestsOK, requestVars

LEMMA OneEachSame ==
    ASSUME OneEach, UNCHANGED <<sender, responseHandlers, callbacks>>
    PROVE  OneEach'
BY DEF OneEach, Asked, Told

\* The senders are left alone, but their process may end.
LEMMA SendersSame ==
    ASSUME SendersOK, UNCHANGED childVars, closing' = closing,
           process' \in {process, "exited"},
           link' \in {"none", "up", "ended", "lost"},
           client' \in {"null", "unnamed", "named"}
    PROVE  SendersOK'
<1>1. Spawned' = Spawned
  BY DEF Spawned, childVars
<1>2. EnoughSenders'
  BY DEF EnoughSenders, SendersOK, childVars
<1> QED BY <1>1, <1>2 DEF SendersOK, childVars

(***************************************************************************)
(* Writing an answer, and taking a command.                                *)
(***************************************************************************)
LEMMA PendingType ==
    ASSUME StreamOK
    PROVE  /\ Len(answers) \in Nat /\ Got \in Nat /\ Got <= Len(answers)
           /\ Pending \subseteq 1..Len(answers)
BY GotType, LenProperties DEF StreamOK, Pending

LEMMA WriteAnswer ==
    ASSUME StreamOK, NEW message \in Answers, Write(message)
    PROVE  /\ StreamOK'
           /\ Len(answers') = Len(answers) + 1
           /\ \A i \in 1..Len(answers) : answers'[i] = answers[i]
           /\ answers'[Len(answers) + 1] = message
           /\ Pending' = Pending \cup {Len(answers) + 1}
           /\ \A c : OnItsWay(c)' <=> OnItsWay(c) \/ c = message.req
<1>1. answers' = Append(answers, message) /\ Parser!Send
  BY DEF Write
<1>2. sent' = sent + 1 /\ last' = last
  BY <1>1 DEF Parser!Send, Parser!parserVars
<1>3. ParserInv'
  BY <1>1, FrameKept DEF StreamOK
<1>4. /\ answers' \in Seq(Answers) /\ Len(answers') = Len(answers) + 1
      /\ \A i \in 1..Len(answers) : answers'[i] = answers[i]
      /\ answers'[Len(answers) + 1] = message
  BY <1>1, Appended DEF StreamOK
<1>5. StreamOK'
  BY <1>2, <1>3, <1>4 DEF StreamOK
<1>6. Got' = Got
  BY <1>2, GotKept
<1>7. Pending' = Pending \cup {Len(answers) + 1}
  BY <1>4, <1>6, PendingType DEF Pending
<1>8. ASSUME NEW c
      PROVE  OnItsWay(c)' <=> OnItsWay(c) \/ c = message.req
  BY <1>4, <1>7, PendingType DEF OnItsWay
<1> QED BY <1>4, <1>5, <1>7, <1>8

LEMMA TakeCommand ==
    ASSUME RequestsOK, commands # << >>, commands' = Tail(commands)
    PROVE  /\ commands' \in Seq({Hello} \cup Requests)
           /\ Head(commands) \in {Hello} \cup Requests
           /\ Head(commands).req <= cmdId
           /\ \A i \in 1..Len(commands') : commands'[i].req <= cmdId
           /\ \A c : Written(c)' => Written(c)
           /\ Written(Head(commands).req)
           /\ (\A i, j \in 1..Len(commands) : commands[i].req = commands[j].req => i = j)
              => /\ \A i, j \in 1..Len(commands') :
                       commands'[i].req = commands'[j].req => i = j
                 /\ \A c : Written(c)' <=> Written(c) /\ c # Head(commands).req
<1> DEFINE rest == Tail(commands)
<1>1. commands \in Seq({Hello} \cup Requests) /\ Len(commands) \in Nat
  BY LenProperties DEF RequestsOK
<1>2. /\ rest \in Seq({Hello} \cup Requests) /\ 1 \in 1..Len(commands)
      /\ Head(commands) \in {Hello} \cup Requests /\ Head(commands) = commands[1]
      /\ Len(rest) \in Nat
  BY <1>1, Rest, LenProperties
<1>3. /\ \A i \in 1..Len(commands) :
            i # 1 => i - 1 \in 1..Len(rest) /\ rest[i - 1] = commands[i]
      /\ \A i \in 1..Len(rest) : i + 1 \in 1..Len(commands) /\ rest[i] = commands[i + 1]
  BY <1>1, RestPlaces
<1>4. commands' = rest
  OBVIOUS
<1> HIDE DEF rest
<1>5. \A i \in 1..Len(rest) : rest[i].req <= cmdId
  BY <1>3 DEF RequestsOK
<1>6. \A c : Written(c)' => Written(c)
  BY <1>3, <1>4 DEF Written
<1>7. ASSUME \A i, j \in 1..Len(commands) : commands[i].req = commands[j].req => i = j
      PROVE  /\ \A i, j \in 1..Len(rest) : rest[i].req = rest[j].req => i = j
             /\ \A c : Written(c)' <=> Written(c) /\ c # commands[1].req
  <2>1. ASSUME NEW i \in 1..Len(rest), NEW j \in 1..Len(rest), rest[i].req = rest[j].req
        PROVE  i = j
    <3>1. /\ i + 1 \in 1..Len(commands) /\ j + 1 \in 1..Len(commands)
          /\ commands[i + 1].req = commands[j + 1].req
      BY <1>3, <2>1
    <3>2. i + 1 = j + 1
      BY <1>7, <3>1
    <3> QED BY <1>2, <3>2
  <2>2. ASSUME NEW c, Written(c)'
        PROVE  c # commands[1].req
    <3>1. PICK i \in 1..Len(rest) : rest[i].req = c
      BY <1>4, <2>2 DEF Written
    <3>2. i + 1 \in 1..Len(commands) /\ commands[i + 1].req = c /\ i + 1 # 1
      BY <1>2, <1>3, <3>1
    <3> QED BY <1>2, <1>7, <3>2
  <2>3. ASSUME NEW c, Written(c), c # commands[1].req
        PROVE  Written(c)'
    <3>1. PICK i \in 1..Len(commands) : commands[i].req = c
      BY <2>3 DEF Written
    <3>2. i # 1
      BY <2>3, <3>1
    <3> QED BY <1>3, <1>4, <3>1, <3>2 DEF Written
  <2> QED BY <1>6, <2>1, <2>2, <2>3
<1>8. Written(Head(commands).req)
  BY <1>2 DEF Written
<1>9. Head(commands).req <= cmdId
  BY <1>2 DEF RequestsOK
<1> QED BY <1>2, <1>4, <1>5, <1>6, <1>7, <1>8, <1>9

(***************************************************************************)
(* The start of the process, and its senders.                              *)
(***************************************************************************)
LEMMA InitInv ==
    ASSUME Init
    PROVE  Inv
<1>1. ParserInv
  BY ParserInit DEF Init
<1>2. StreamOK
  BY <1>1, EmptySeq DEF StreamOK, Init, Parser!Init
<1>3. RequestsOK
  BY EmptySeq, ServiceAssumption DEF RequestsOK, Init
<1>4. OneEach
  BY DEF OneEach, Asked, Told, Init
<1>5. SendersOK
  <2>1. Spawned = 1..0
    BY DEF Spawned, Init
  <2>2. 0 \in 0..MaxSenders /\ zoneConnections \in Connections
    BY ServiceAssumption DEF Init
  <2>3. \E n \in 0..MaxSenders : Spawned = 1..n
    BY <2>1, <2>2
  <2> QED BY <2>2, <2>3 DEF SendersOK, EnoughSenders, Init
<1> QED BY <1>2, <1>3, <1>4, <1>5 DEF Inv, StartOK, Open, Running, Init

LEMMA StepConnect ==
    ASSUME Inv, Connect
    PROVE  Inv'
<1>1. /\ process = "new" /\ process' = "init"
      /\ commands' = <<Hello>> /\ link' = "up" /\ client' = "unnamed"
      /\ UNCHANGED <<closing, childVars, requestVars, running, answers, streamVars>>
  BY DEF Connect
<1>2. /\ running = {} /\ answers = << >> /\ cmdId = 0
  BY <1>1 DEF Inv, StartOK
<1>3. /\ commands' \in Seq({Hello} \cup Requests) /\ Len(commands') = 1
      /\ commands'[1].req = 0
  BY <1>1 DEF Hello
<1>4. RequestsOK'
  BY <1>1, <1>2, <1>3 DEF Inv, RequestsOK, requestVars
<1>5. StreamOK' /\ Pending' = Pending
  BY <1>1, StreamSame DEF Inv
<1>6. UnderWay'
  <2>1. cmdId' = 0 /\ running' = {}
    BY <1>1, <1>2 DEF requestVars
  <2>2. Pending' = {}
    BY <1>2, <1>5, PendingType DEF Inv
  <2> QED BY <1>3, <2>1, <2>2 DEF UnderWay
<1>7. OneEach'
  BY <1>1, OneEachSame DEF Inv, childVars, requestVars
<1>8. SendersOK'
  <2>1. Spawned' = Spawned
    BY <1>1 DEF Spawned, childVars
  <2> QED BY <1>1, <2>1 DEF Inv, SendersOK, EnoughSenders, childVars
<1> QED BY <1>1, <1>4, <1>5, <1>6, <1>7, <1>8 DEF Inv, StartOK

\* Steps by which only the senders, or their process, change.
LEMMA CommandsSame ==
    ASSUME Inv,
           UNCHANGED <<requestVars, commands, link, masterVars, answers, streamVars>>,
           process # "new", process' # "new",
           process = "exited" => process' = "exited"
    PROVE  StreamOK' /\ StartOK' /\ RequestsOK' /\ (Open' => UnderWay')
<1>1. /\ StreamOK' /\ Pending' = Pending
      /\ \A c : OnItsWay(c)' <=> OnItsWay(c)
  BY StreamSame DEF Inv
<1>2. RequestsOK'
  BY RequestsSame DEF Inv, masterVars
<1>3. Open' => Open
  BY DEF Open, Running, masterVars, Inv, SendersOK
<1>4. UnderWay => UnderWay'
  BY <1>1 DEF UnderWay, Written, AtWork, requestVars, masterVars
<1> QED BY <1>1, <1>2, <1>3, <1>4 DEF StartOK, Inv

LEMMA SendersFinite ==
    ASSUME SendersOK
    PROVE  /\ IsFiniteSet(senders) /\ Cardinality(senders) \in Nat
           /\ senders \subseteq Nat
           /\ zoneConnections \in Nat
<1>1. PICK n \in 0..MaxSenders : Spawned = 1..n
  BY DEF SendersOK
<1>2. n \in Nat /\ senders \subseteq 1..n
  BY <1>1, ServiceAssumption DEF SendersOK
<1>3. IsFiniteSet(senders)
  <2>1. IsFiniteSet(1..n)
    BY <1>2, FS_Interval
  <2>2. senders \in SUBSET (1..n)
    BY <1>2
  <2> QED BY <2>1, <2>2, FS_Subset
<1> QED BY <1>2, <1>3, FS_CardinalityType, ServiceAssumption DEF SendersOK

LEMMA StepQueueReady ==
    ASSUME Inv, QueueReady
    PROVE  Inv'
<1>1. /\ process = "init" /\ process' = "up" /\ due' = zoneConnections
      /\ UNCHANGED <<closing, sender, senders, zoneConnections, requestVars,
                     commands, link, masterVars, answers, streamVars>>
  BY DEF QueueReady
<1>2. StreamOK' /\ StartOK' /\ RequestsOK' /\ (Open' => UnderWay')
  BY <1>1, CommandsSame
<1>3. OneEach'
  BY <1>1, OneEachSame DEF Inv, requestVars
<1>4. SendersOK'
  <2>1. Spawned' = Spawned
    BY <1>1 DEF Spawned
  <2>2. zoneConnections \in Nat
    BY ServiceAssumption DEF Inv, SendersOK
  <2>3. Cardinality(senders) \in Nat
    BY SendersFinite DEF Inv
  <2>4. EnoughSenders'
    BY <1>1, <2>2, <2>3 DEF EnoughSenders
  <2> QED BY <1>1, <2>1, <2>2, <2>4 DEF Inv, SendersOK, masterVars
<1> QED BY <1>1, <1>2, <1>3, <1>4 DEF Inv

LEMMA StepSpawnSender ==
    ASSUME Inv, SpawnSender
    PROVE  Inv'
<1> DEFINE new == Cardinality(Spawned) + 1
<1>1. /\ process = "up" /\ due > 0 /\ Spawned # Senders
      /\ due' = due - 1
      /\ sender' = [sender EXCEPT ![new] = "idle"]
      /\ senders' = senders \cup {new}
      /\ UNCHANGED <<process, closing, zoneConnections, reloads, requestVars, commands,
                     link, masterVars, answers, streamVars>>
  BY DEF SpawnSender
<1>2. PICK n \in 0..MaxSenders : Spawned = 1..n
  BY DEF Inv, SendersOK
<1>3. n \in Nat /\ MaxSenders \in Nat
  BY ServiceAssumption
<1>4. new = n + 1
  <2>1. Cardinality(1..n) = n
    BY <1>3, FS_Interval
  <2> QED BY <1>2, <2>1
<1> HIDE DEF new
<1>5. new \in Senders /\ new \notin Spawned /\ n + 1 \in 0..MaxSenders
  BY <1>1, <1>2, <1>3, <1>4 DEF Senders
<1>6. /\ sender' \in [Senders -> {"none", "idle", "get", "work", "release"}]
      /\ sender[new] = "none" /\ sender'[new] = "idle"
      /\ \A s \in Senders : s # new => sender'[s] = sender[s]
  BY <1>1, <1>5 DEF Inv, SendersOK, Spawned
<1>7. Spawned' = 1..(n + 1)
  <2>1. Spawned' = Spawned \cup {new}
    BY <1>5, <1>6 DEF Spawned
  <2> QED BY <1>2, <1>3, <1>4, <2>1
<1>8. SendersOK'
  <2>1. senders' \subseteq Spawned'
    BY <1>1, <1>2, <1>3, <1>4, <1>7 DEF Inv, SendersOK
  <2>2. EnoughSenders'
    <3>1. Cardinality(senders') = Cardinality(senders) + 1
      BY <1>1, <1>5, SendersFinite, FS_AddElement DEF Inv, SendersOK
    <3> QED BY <1>1, <3>1, SendersFinite DEF Inv, SendersOK, EnoughSenders
  <2> QED BY <1>1, <1>5, <1>6, <1>7, <2>1, <2>2 DEF Inv, SendersOK, masterVars
<1>9. OneEach'
  BY <1>1, <1>6 DEF Inv, OneEach, Asked, Told, requestVars
<1> QED BY <1>1, <1>8, <1>9, CommandsSame DEF Inv

\* A reload that takes connections away keeps a sender for each that is left.
LEMMA KeptEnough ==
    ASSUME SendersOK, NEW c \in Nat
    PROVE  LET kept == KeptOnReload(c)
           IN  /\ kept \subseteq senders
               /\ kept = senders \/ Cardinality(kept) >= c
               /\ Cardinality(kept) \in Nat
<1> DEFINE kept == KeptOnReload(c)
           before(s) == {t \in senders : t < s}
<1>1. kept = {s \in senders : Cardinality(before(s)) <= c}
  BY DEF KeptOnReload
<1>2. /\ IsFiniteSet(kept) /\ Cardinality(kept) \in Nat
      /\ \A s \in senders : IsFiniteSet(before(s)) /\ Cardinality(before(s)) \in Nat
  <2>1. kept \subseteq senders /\ \A s \in senders : before(s) \subseteq senders
    BY <1>1
  <2> HIDE DEF before, kept
  <2> QED BY <2>1, SendersFinite, FS_Subset, FS_CardinalityType
<1>3. CASE kept # senders
  <2>1. senders \ kept \in SUBSET Nat /\ senders \ kept # {}
    BY <1>1, <1>3, SendersFinite
  <2>2. PICK s \in senders \ kept : \A t \in senders \ kept : s <= t
    BY <2>1, LeastElement
  <2>3. before(s) \subseteq kept
    <3>1. \A t \in senders : t < s => t \in kept
      BY <2>1, <2>2, SendersFinite
    <3> QED BY <3>1
  <2>4. Cardinality(before(s)) > c
    BY <1>1, <1>2, <2>2
  <2>5. Cardinality(before(s)) <= Cardinality(kept)
    <3>1. before(s) \in SUBSET kept
      BY <2>3
    <3> HIDE DEF before, kept
    <3> QED BY <1>2, <3>1, FS_Subset
  <2>6. Cardinality(kept) >= c
    <3> HIDE DEF before, kept
    <3> QED BY <1>2, <2>2, <2>4, <2>5
  <2>7. kept \subseteq senders
    BY <1>1
  <2> QED BY <1>2, <2>6, <2>7
<1> QED BY <1>1, <1>2, <1>3

LEMMA StepReload ==
    ASSUME Inv, NEW c \in Connections, Reload(c)
    PROVE  Inv'
<1>1. /\ process = "up" /\ process' = "up"
      /\ zoneConnections' = c
      /\ due' = IF c > zoneConnections THEN due + c - zoneConnections ELSE due
      /\ senders' = IF c < zoneConnections THEN KeptOnReload(c) ELSE senders
      /\ UNCHANGED <<closing, sender, requestVars, commands, link, masterVars,
                     answers, streamVars>>
  BY DEF Reload
<1>2. c \in Nat /\ zoneConnections \in Nat /\ due \in Nat
      /\ Cardinality(senders) \in Nat
  BY ServiceAssumption, SendersFinite DEF Inv, SendersOK
<1>3. OneEach'
  BY <1>1, OneEachSame DEF Inv, requestVars
<1>4. SendersOK'
  <2>1. Spawned' = Spawned
    BY <1>1 DEF Spawned
  <2>2. senders' \subseteq senders
    BY <1>1, <1>2, KeptEnough DEF Inv
  <2>3. EnoughSenders'
    <3>1. CASE c < zoneConnections
      <4>1. /\ senders' = senders \/ Cardinality(senders') >= c
            /\ Cardinality(senders') \in Nat
        BY <1>1, <1>2, <3>1, KeptEnough DEF Inv
      <4> QED BY <1>1, <1>2, <3>1, <4>1 DEF EnoughSenders, Inv, SendersOK
    <3>2. CASE ~(c < zoneConnections)
      BY <1>1, <1>2, <3>2 DEF EnoughSenders, Inv, SendersOK
    <3> QED BY <3>1, <3>2
  <2>4. due' \in Nat
    BY <1>1, <1>2
  <2> QED BY <1>1, <2>1, <2>2, <2>3, <2>4 DEF Inv, SendersOK, masterVars
<1> QED BY <1>1, <1>3, <1>4, CommandsSame DEF Inv

(***************************************************************************)
(* A sender writes a command.                                              *)
(***************************************************************************)
LEMMA StepSend ==
    ASSUME Inv, NEW s \in Senders, NEW cmd \in {"GET", "RELEASE"},
           NEW w \in {"get", "release"},
           process = "up", sender[s] \in {"idle", "work"},
           sender' = [sender EXCEPT ![s] = w], SendCommand(s, cmd)
    PROVE  Inv'
<1> DEFINE id == cmdId + 1
           message == Request(cmd, id)
<1>1. /\ cmdId < MaxCommands /\ cmdId' = id
      /\ responseHandlers' = [c \in DOMAIN responseHandlers \cup {id} |->
                                IF c = id THEN s ELSE responseHandlers[c]]
      /\ commands' = IF link = "up" THEN Append(commands, message) ELSE commands
      /\ UNCHANGED <<process, closing, due, senders, zoneConnections, reloads,
                     callbacks, link, masterVars, answers, streamVars>>
  BY DEF SendCommand
<1>2. cmdId \in Nat /\ id \in 1..MaxCommands /\ MaxCommands \in Nat
  BY <1>1, ServiceAssumption DEF Inv, RequestsOK
<1>3. message \in Requests /\ message.req = id
  BY <1>2 DEF Request, Requests
<1> HIDE DEF message
<1>4. /\ commands \in Seq({Hello} \cup Requests) /\ Len(commands) \in Nat
      /\ \A i \in 1..Len(commands) : commands[i].req \in Nat /\ commands[i].req <= cmdId
      /\ \A m \in running : m.req \in Nat /\ m.req <= cmdId
      /\ \A i \in 1..Len(answers) : answers[i].req \in Nat /\ answers[i].req <= cmdId
  <2>1. /\ commands \in Seq({Hello} \cup Requests) /\ Len(commands) \in Nat
        /\ \A i \in 1..Len(commands) : commands[i] \in {Hello} \cup Requests
        /\ \A i \in 1..Len(answers) : answers[i] \in Answers
    BY LenProperties, ElementOfSeq DEF Inv, RequestsOK, StreamOK
  <2> QED BY <2>1 DEF Inv, RequestsOK, Hello, Requests, Answers
<1>5. /\ Append(commands, message) \in Seq({Hello} \cup Requests)
      /\ Len(Append(commands, message)) = Len(commands) + 1
      /\ \A i \in 1..Len(commands) : Append(commands, message)[i] = commands[i]
      /\ Append(commands, message)[Len(commands) + 1] = message
  BY <1>3, <1>4, Appended
<1>6. /\ DOMAIN responseHandlers' = DOMAIN responseHandlers \cup {id}
      /\ responseHandlers'[id] = s
      /\ \A c \in DOMAIN responseHandlers : c # id /\ responseHandlers'[c] = responseHandlers[c]
  BY <1>1, <1>2 DEF Inv, RequestsOK
<1>7. /\ StreamOK' /\ Pending' = Pending
      /\ \A c : OnItsWay(c)' <=> OnItsWay(c)
  BY <1>1, StreamSame DEF Inv
<1>8. RequestsOK'
  <2>1. responseHandlers' \in [DOMAIN responseHandlers' -> Senders]
    BY <1>1, <1>6 DEF Inv, RequestsOK
  <2>2. \A i \in 1..Len(commands') : commands'[i].req <= id
    <3>1. CASE link = "up"
      <4>1. ASSUME NEW i \in 1..(Len(commands) + 1)
            PROVE  Append(commands, message)[i].req <= id
        <5>1. CASE i = Len(commands) + 1
          BY <1>2, <1>3, <1>5, <5>1
        <5>2. CASE i \in 1..Len(commands)
          BY <1>2, <1>4, <1>5, <5>2
        <5> QED BY <1>4, <5>1, <5>2
      <4> QED BY <1>1, <1>5, <3>1, <4>1
    <3>2. CASE link # "up"
      BY <1>1, <1>2, <1>4, <3>2
    <3> QED BY <3>1, <3>2
  <2>3. /\ commands' \in Seq({Hello} \cup Requests)
        /\ DOMAIN responseHandlers' \subseteq 1..id
    BY <1>1, <1>2, <1>4, <1>5, <1>6 DEF Inv, RequestsOK
  <2>4. /\ \A m \in running' : m.req <= id
        /\ \A i \in 1..Len(answers') : answers'[i].req <= id
    BY <1>1, <1>2, <1>4 DEF masterVars
  <2> QED BY <1>1, <1>2, <2>1, <2>2, <2>3, <2>4 DEF Inv, RequestsOK, masterVars
<1>9. ASSUME Open'
      PROVE  UnderWay'
  <2>1. UnderWay /\ commands' = Append(commands, message)
    BY <1>1, <1>9 DEF Inv, Open, Running, masterVars
  <2>2. ~Written(id) /\ ~AtWork(id) /\ ~OnItsWay(id)
    <3>1. Pending \subseteq 1..Len(answers)
      BY PendingType DEF Inv
    <3> QED BY <1>2, <1>4, <3>1 DEF Written, AtWork, OnItsWay
  <2>3. \A c : Written(c)' <=> Written(c) \/ c = id
    <3> TAKE c
    <3>1. ASSUME Written(c)' PROVE Written(c) \/ c = id
      <4>1. PICK i \in 1..(Len(commands) + 1) : Append(commands, message)[i].req = c
        BY <1>5, <2>1, <3>1 DEF Written
      <4>2. CASE i = Len(commands) + 1
        BY <1>3, <1>5, <4>1, <4>2
      <4>3. CASE i \in 1..Len(commands)
        BY <1>5, <4>1, <4>3 DEF Written
      <4> QED BY <1>4, <4>2, <4>3
    <3>2. ASSUME Written(c) PROVE Written(c)'
      <4>1. PICK i \in 1..Len(commands) : commands[i].req = c
        BY <3>2 DEF Written
      <4>2. i \in 1..(Len(commands) + 1) /\ Append(commands, message)[i].req = c
        BY <1>4, <1>5, <4>1
      <4> QED BY <1>5, <2>1, <4>2 DEF Written
    <3>3. ASSUME c = id PROVE Written(c)'
      <4>1. Len(commands) + 1 \in 1..(Len(commands) + 1)
        BY <1>4
      <4> QED BY <1>3, <1>5, <2>1, <3>3, <4>1 DEF Written
    <3> QED BY <3>1, <3>2, <3>3
  <2>4. ASSUME NEW i \in 1..(Len(commands) + 1), NEW j \in 1..(Len(commands) + 1),
               Append(commands, message)[i].req = Append(commands, message)[j].req
        PROVE  i = j
    <3>1. CASE i \in 1..Len(commands) /\ j \in 1..Len(commands)
      BY <1>5, <2>1, <2>4, <3>1 DEF UnderWay
    <3>2. CASE i = Len(commands) + 1 /\ j \in 1..Len(commands)
      BY <1>3, <1>5, <2>2, <2>4, <3>2 DEF Written
    <3>3. CASE j = Len(commands) + 1 /\ i \in 1..Len(commands)
      BY <1>3, <1>5, <2>2, <2>4, <3>3 DEF Written
    <3> QED BY <1>4, <3>1, <3>2, <3>3
  <2>5. /\ running' = running /\ answers' = answers /\ cmdId' = id
        /\ \A c : AtWork(c)' <=> AtWork(c)
    BY <1>1 DEF masterVars, AtWork
  <2>6. ASSUME NEW c \in 1..id
        PROVE  /\ ~(Written(c)' /\ AtWork(c)')
               /\ ~(Written(c)' /\ OnItsWay(c)')
               /\ ~(AtWork(c)' /\ OnItsWay(c)')
               /\ c \in DOMAIN responseHandlers' <=> Written(c)' \/ AtWork(c)' \/ OnItsWay(c)'
    <3>1. CASE c = id
      BY <1>6, <1>7, <2>2, <2>3, <2>5, <3>1
    <3>2. CASE c \in 1..cmdId
      BY <1>2, <1>6, <1>7, <2>1, <2>3, <2>5, <3>2 DEF UnderWay
    <3> QED BY <1>2, <3>1, <3>2
  <2>7. \A i, j \in 1..Len(commands') : commands'[i].req = commands'[j].req => i = j
    BY <1>5, <2>1, <2>4
  <2>8. /\ \A m, n \in running' : m.req = n.req => m = n
        /\ \A i, j \in Pending' : answers'[i].req = answers'[j].req => i = j
    BY <1>7, <2>1, <2>5 DEF UnderWay
  <2> QED BY <2>5, <2>6, <2>7, <2>8 DEF UnderWay
<1>10. /\ sender' \in [Senders -> {"none", "idle", "get", "work", "release"}]
       /\ sender'[s] = w
       /\ \A t \in Senders : t # s => sender'[t] = sender[t]
  BY DEF Inv, SendersOK
<1>11. OneEach'
  <2>1. OneEach /\ ~Asked(s) /\ ~Told(s)
    BY DEF Inv, OneEach
  <2>2. \A t : Told(t)' <=> Told(t)
    BY <1>1 DEF Told
  <2>3. \A t : Asked(t)' <=> Asked(t) \/ t = s
    BY <1>6 DEF Asked
  <2>4. \A c, d \in DOMAIN responseHandlers' :
           responseHandlers'[c] = responseHandlers'[d] => c = d
    BY <1>6, <2>1 DEF OneEach, Asked
  <2>5. \A i, j \in 1..Len(callbacks') : callbacks'[i].to = callbacks'[j].to => i = j
    BY <1>1, <2>1 DEF OneEach
  <2>6. ASSUME NEW t \in Senders
        PROVE  /\ ~(Asked(t)' /\ Told(t)')
               /\ sender'[t] \in {"get", "release"} <=> Asked(t)' \/ Told(t)'
    BY <1>10, <2>1, <2>2, <2>3 DEF OneEach
  <2> QED BY <2>4, <2>5, <2>6 DEF OneEach
<1>12. SendersOK'
  <2>1. Spawned' = Spawned
    BY <1>10 DEF Spawned
  <2>2. EnoughSenders'
    BY <1>1 DEF EnoughSenders, Inv, SendersOK
  <2> QED BY <1>1, <1>10, <2>1, <2>2 DEF Inv, SendersOK, masterVars
<1> QED BY <1>1, <1>7, <1>8, <1>9, <1>11, <1>12 DEF Inv, StartOK

LEMMA StepGet ==
    ASSUME Inv, NEW s \in Senders, Get(s)
    PROVE  Inv'
BY StepSend DEF Get

LEMMA StepRelease ==
    ASSUME Inv, NEW s \in Senders, Release(s)
    PROVE  Inv'
BY StepSend DEF Release

(***************************************************************************)
(* The master.                                                             *)
(***************************************************************************)
\* An answer to a command that is neither answered nor under way elsewhere.
LEMMA PendingDiffer ==
    ASSUME StreamOK, NEW message \in Answers, Write(message),
           \A i, j \in Pending : answers[i].req = answers[j].req => i = j,
           ~OnItsWay(message.req)
    PROVE  \A i, j \in Pending' : answers'[i].req = answers'[j].req => i = j
<1> DEFINE new == Len(answers) + 1
<1>1. /\ \A i \in 1..Len(answers) : answers'[i] = answers[i]
      /\ answers'[new] = message
      /\ Pending' = Pending \cup {new}
  BY WriteAnswer
<1>2. Pending \subseteq 1..Len(answers)
  BY PendingType
<1>3. \A i \in Pending : answers'[i] = answers[i] /\ answers[i].req # message.req
  BY <1>1, <1>2 DEF OnItsWay
<1> HIDE DEF new
<1> QED BY <1>1, <1>3

LEMMA AnswerType ==
    ASSUME NEW id \in Nat, NEW answer \in Replies
    PROVE  Answer(id, answer) \in Answers /\ Answer(id, answer).req = id
BY DEF Answer, Answers

\* What a written answer does to the bounds of the commands.
LEMMA AnswerBound ==
    ASSUME StreamOK, RequestsOK, NEW message \in Answers, message.req <= cmdId,
           Write(message)
    PROVE  \A i \in 1..Len(answers') : answers'[i].req <= cmdId
<1>1. /\ Len(answers') = Len(answers) + 1
      /\ \A i \in 1..Len(answers) : answers'[i] = answers[i]
      /\ answers'[Len(answers) + 1] = message
  BY WriteAnswer
<1>2. Len(answers) \in Nat
  BY PendingType
<1> SUFFICES ASSUME NEW i \in 1..(Len(answers) + 1) PROVE answers'[i].req <= cmdId
  BY <1>1
<1>3. CASE i = Len(answers) + 1
  BY <1>1, <1>3
<1>4. CASE i \in 1..Len(answers)
  BY <1>1, <1>4 DEF RequestsOK
<1> QED BY <1>2, <1>3, <1>4

LEMMA StepServe ==
    ASSUME Inv, Serve
    PROVE  Inv'
<1> DEFINE message == Head(commands)
<1>1. /\ commands # << >> /\ commands' = Tail(commands)
      /\ UNCHANGED <<process, closing, childVars, requestVars, link>>
  BY DEF Serve
<1>2. /\ \/ client = "null" /\ UNCHANGED <<masterVars, answers, streamVars>>
         \/ /\ client # "null" /\ message = Hello /\ client' = "named"
            /\ UNCHANGED <<running, answers, streamVars>>
         \/ /\ client = "named" /\ message # Hello
            /\ running' = running \cup {message}
            /\ UNCHANGED <<client, answers, streamVars>>
         \/ /\ client = "unnamed" /\ message # Hello
            /\ Write(Answer(message.req, "zone not set"))
            /\ UNCHANGED masterVars
  BY DEF Serve
<1>3. /\ commands' \in Seq({Hello} \cup Requests)
      /\ message \in {Hello} \cup Requests
      /\ message.req <= cmdId
      /\ \A i \in 1..Len(commands') : commands'[i].req <= cmdId
      /\ \A c : Written(c)' => Written(c)
      /\ Written(message.req)
      /\ UnderWay =>
            /\ \A i, j \in 1..Len(commands') :
                  commands'[i].req = commands'[j].req => i = j
            /\ \A c : Written(c)' <=> Written(c) /\ c # message.req
  BY <1>1, TakeCommand DEF Inv, UnderWay
<1> HIDE DEF message
<1>4. /\ Hello.req = 0
      /\ \A m \in Requests : m.req \in Nat \ {0}
      /\ cmdId \in Nat
  BY ServiceAssumption DEF Hello, Requests, Inv, RequestsOK
<1>5. process # "new" /\ process' = process
  BY <1>1 DEF Inv, StartOK
<1>6. SendersOK'
  <2>1. client' \in {"null", "unnamed", "named"} /\ link' \in {"none", "up", "ended", "lost"}
    BY <1>1, <1>2 DEF Inv, SendersOK, masterVars
  <2> QED BY <1>1, <2>1, SendersSame DEF Inv
<1>7. process' # "exited" => OneEach'
  BY <1>1, <1>5, OneEachSame DEF Inv, childVars, requestVars
<1>8. Open' => Open /\ UnderWay
  BY <1>1, <1>2, <1>5 DEF Inv, Open, Running, masterVars
<1>9. cmdId' = cmdId /\ responseHandlers' = responseHandlers /\ callbacks' = callbacks
  BY <1>1 DEF requestVars
<1>10. CASE client = "null" /\ UNCHANGED <<masterVars, answers, streamVars>>
  <2>1. StreamOK'
    BY <1>10, StreamSame DEF Inv
  <2>2. RequestsOK'
    BY <1>3, <1>9, <1>10 DEF Inv, RequestsOK, masterVars
  <2>3. ~Open'
    BY <1>10 DEF Open, masterVars
  <2> QED BY <1>5, <1>6, <1>7, <2>1, <2>2, <2>3 DEF Inv, StartOK
<1>11. CASE /\ message = Hello
            /\ UNCHANGED <<running, answers, streamVars>>
  <2>1. /\ StreamOK' /\ Pending' = Pending
        /\ \A c : OnItsWay(c)' <=> OnItsWay(c)
    BY <1>11, StreamSame DEF Inv
  <2>2. RequestsOK'
    BY <1>3, <1>9, <1>11 DEF Inv, RequestsOK
  <2>3. Open' => UnderWay'
    <3> SUFFICES ASSUME Open' PROVE UnderWay'
      OBVIOUS
    <3>1. \A c \in 1..cmdId : (Written(c)' <=> Written(c)) /\ (AtWork(c)' <=> AtWork(c))
      BY <1>3, <1>4, <1>8, <1>11 DEF AtWork
    <3> QED BY <1>3, <1>8, <1>9, <1>11, <2>1, <3>1 DEF UnderWay
  <2> QED BY <1>5, <1>6, <1>7, <2>1, <2>2, <2>3 DEF Inv, StartOK
<1>12. CASE /\ message # Hello
            /\ running' = running \cup {message}
            /\ UNCHANGED <<client, answers, streamVars>>
  <2>1. /\ StreamOK' /\ Pending' = Pending
        /\ \A c : OnItsWay(c)' <=> OnItsWay(c)
    BY <1>12, StreamSame DEF Inv
  <2>2. message \in Requests /\ message.req \in 1..cmdId
    BY <1>3, <1>4, <1>12
  <2>3. RequestsOK'
    BY <1>3, <1>9, <1>12, <2>2 DEF Inv, RequestsOK
  <2>4. Open' => UnderWay'
    <3> SUFFICES ASSUME Open' PROVE UnderWay'
      OBVIOUS
    <3>1. \A c : AtWork(c)' <=> AtWork(c) \/ c = message.req
      BY <1>12 DEF AtWork
    <3>2. ~AtWork(message.req) /\ ~OnItsWay(message.req)
      BY <1>3, <1>8, <2>2 DEF UnderWay
    <3>3. \A m, n \in running' : m.req = n.req => m = n
      BY <1>8, <1>12, <3>2 DEF UnderWay, AtWork
    <3>4. \A c \in 1..cmdId :
            /\ ~(Written(c)' /\ AtWork(c)')
            /\ ~(Written(c)' /\ OnItsWay(c)')
            /\ ~(AtWork(c)' /\ OnItsWay(c)')
            /\ c \in DOMAIN responseHandlers' <=> Written(c)' \/ AtWork(c)' \/ OnItsWay(c)'
      BY <1>3, <1>8, <1>9, <2>1, <3>1, <3>2 DEF UnderWay
    <3>5. \A i, j \in Pending' : answers'[i].req = answers'[j].req => i = j
      BY <1>8, <1>12, <2>1 DEF UnderWay
    <3> QED BY <1>3, <1>8, <1>9, <3>3, <3>4, <3>5 DEF UnderWay
  <2> QED BY <1>5, <1>6, <1>7, <2>1, <2>3, <2>4 DEF Inv, StartOK
<1>13. CASE /\ message # Hello
            /\ Write(Answer(message.req, "zone not set"))
            /\ UNCHANGED masterVars
  <2> DEFINE answer == Answer(message.req, "zone not set")
  <2>1. message \in Requests /\ message.req \in 1..cmdId
    <3>1. message # Hello
      BY <1>13
    <3> QED BY <1>3, <1>4, <3>1
  <2>2. answer \in Answers /\ answer.req = message.req /\ Write(answer)
    <3>1. message.req \in Nat /\ "zone not set" \in Replies
      BY <2>1 DEF Replies
    <3> QED BY <1>13, <3>1, AnswerType
  <2> HIDE DEF answer
  <2>3. /\ StreamOK'
        /\ \A c : OnItsWay(c)' <=> OnItsWay(c) \/ c = message.req
    BY <2>2, WriteAnswer DEF Inv
  <2>4. RequestsOK'
    <3>1. \A i \in 1..Len(answers') : answers'[i].req <= cmdId
      BY <1>3, <2>2, AnswerBound DEF Inv
    <3> QED BY <1>3, <1>9, <1>13, <3>1 DEF Inv, RequestsOK, masterVars
  <2>5. Open' => UnderWay'
    <3> SUFFICES ASSUME Open' PROVE UnderWay'
      OBVIOUS
    <3>1. ~AtWork(message.req) /\ ~OnItsWay(message.req)
      BY <1>3, <1>8, <2>1 DEF UnderWay
    <3>2. \A c : AtWork(c)' <=> AtWork(c)
      BY <1>13 DEF AtWork, masterVars
    <3>3. \A i, j \in Pending' : answers'[i].req = answers'[j].req => i = j
      BY <1>8, <2>2, <3>1, PendingDiffer DEF Inv, UnderWay
    <3>4. \A c \in 1..cmdId :
            /\ ~(Written(c)' /\ AtWork(c)')
            /\ ~(Written(c)' /\ OnItsWay(c)')
            /\ ~(AtWork(c)' /\ OnItsWay(c)')
            /\ c \in DOMAIN responseHandlers' <=> Written(c)' \/ AtWork(c)' \/ OnItsWay(c)'
      BY <1>3, <1>8, <1>9, <2>3, <3>1, <3>2 DEF UnderWay
    <3> QED BY <1>3, <1>8, <1>9, <1>13, <3>3, <3>4 DEF UnderWay, masterVars
  <2> QED BY <1>5, <1>6, <1>7, <2>3, <2>4, <2>5 DEF Inv, StartOK
<1> QED BY <1>2, <1>10, <1>11, <1>12, <1>13

LEMMA StepFinish ==
    ASSUME Inv, NEW message \in running, Finish(message)
    PROVE  Inv'
<1>1. /\ running' = running \ {message}
      /\ UNCHANGED <<process, closing, childVars, requestVars, commands, link, client>>
  BY DEF Finish
<1>2. message \in Requests /\ message.req \in 1..cmdId /\ cmdId \in Nat
  BY ServiceAssumption DEF Inv, RequestsOK, Requests
<1>3. process # "new" /\ process' = process
  BY <1>1 DEF Inv, StartOK
<1>4. SendersOK'
  BY <1>1, SendersSame DEF Inv, SendersOK
<1>5. process' # "exited" => OneEach'
  BY <1>1, <1>3, OneEachSame DEF Inv, childVars, requestVars
<1>6. cmdId' = cmdId /\ responseHandlers' = responseHandlers /\ callbacks' = callbacks
  BY <1>1 DEF requestVars
<1>7. \A c : Written(c)' <=> Written(c)
  BY <1>1 DEF Written
<1>8. CASE client = "null"
  <2>1. UNCHANGED <<answers, streamVars>>
    BY <1>8 DEF Finish
  <2>2. StreamOK'
    BY <2>1, StreamSame DEF Inv
  <2>3. RequestsOK'
    BY <1>1, <1>6, <2>1 DEF Inv, RequestsOK
  <2>4. ~Open'
    BY <1>1, <1>8 DEF Open
  <2> QED BY <1>3, <1>4, <1>5, <2>2, <2>3, <2>4 DEF Inv, StartOK
<1>9. CASE client # "null"
  <2>1. PICK outcome \in Outcomes(message.cmd) : Write(Answer(message.req, outcome))
    BY <1>9 DEF Finish
  <2> DEFINE answer == Answer(message.req, outcome)
  <2>2. answer \in Answers /\ answer.req = message.req /\ Write(answer)
    <3>1. outcome \in Replies
      BY DEF Outcomes, Replies
    <3> QED BY <1>2, <2>1, <3>1, AnswerType
  <2> HIDE DEF answer
  <2>3. /\ StreamOK'
        /\ \A c : OnItsWay(c)' <=> OnItsWay(c) \/ c = message.req
    BY <2>2, WriteAnswer DEF Inv
  <2>4. RequestsOK'
    <3>1. \A i \in 1..Len(answers') : answers'[i].req <= cmdId
      BY <1>2, <2>2, AnswerBound DEF Inv
    <3> QED BY <1>1, <1>6, <3>1 DEF Inv, RequestsOK
  <2>5. Open' => UnderWay'
    <3> SUFFICES ASSUME Open' PROVE UnderWay'
      OBVIOUS
    <3>1. UnderWay /\ AtWork(message.req)
      BY <1>1 DEF Inv, Open, Running, AtWork
    <3>2. ~Written(message.req) /\ ~OnItsWay(message.req)
      BY <1>2, <3>1 DEF UnderWay
    <3>3. \A c : AtWork(c)' <=> AtWork(c) /\ c # message.req
      BY <1>1, <3>1 DEF AtWork, UnderWay
    <3>4. \A i, j \in Pending' : answers'[i].req = answers'[j].req => i = j
      BY <2>2, <3>1, <3>2, PendingDiffer DEF Inv, UnderWay
    <3>5. \A c \in 1..cmdId :
            /\ ~(Written(c)' /\ AtWork(c)')
            /\ ~(Written(c)' /\ OnItsWay(c)')
            /\ ~(AtWork(c)' /\ OnItsWay(c)')
            /\ c \in DOMAIN responseHandlers' <=> Written(c)' \/ AtWork(c)' \/ OnItsWay(c)'
      BY <1>6, <1>7, <2>3, <3>1, <3>2, <3>3 DEF UnderWay
    <3>6. /\ \A m, n \in running' : m.req = n.req => m = n
          /\ \A i, j \in 1..Len(commands') : commands'[i].req = commands'[j].req => i = j
      BY <1>1, <3>1 DEF UnderWay
    <3> QED BY <1>6, <3>4, <3>5, <3>6 DEF UnderWay
  <2> QED BY <1>3, <1>4, <1>5, <2>3, <2>4, <2>5 DEF Inv, StartOK
<1> QED BY <1>8, <1>9

LEMMA StepMasterStops ==
    ASSUME Inv, MasterStops
    PROVE  Inv'
<1>1. /\ client # "null" /\ Write(CloseFrame) /\ client' = "null" /\ link' = "ended"
      /\ UNCHANGED <<process, closing, childVars, requestVars, commands, running>>
  BY DEF MasterStops
<1>2. CloseFrame \in Answers /\ CloseFrame.req = 0 /\ cmdId \in Nat
  <2>1. cmdId \in Nat
    BY ServiceAssumption DEF Inv, RequestsOK
  <2>2. CloseFrame \in Answers /\ CloseFrame.req = 0
    BY DEF CloseFrame, Answers, Replies
  <2> QED BY <2>1, <2>2
<1>3. StreamOK'
  BY <1>1, <1>2, WriteAnswer DEF Inv
<1>4. RequestsOK'
  <2>1. \A i \in 1..Len(answers') : answers'[i].req <= cmdId
    <3>1. CloseFrame.req <= cmdId
      BY <1>2
    <3> QED BY <1>1, <1>2, <3>1, AnswerBound DEF Inv
  <2> QED BY <1>1, <2>1 DEF Inv, RequestsOK, requestVars
<1>5. process # "new" /\ process' = process
  BY <1>1 DEF Inv, StartOK
<1>6. SendersOK'
  BY <1>1, SendersSame DEF Inv
<1>7. process' # "exited" => OneEach'
  BY <1>1, <1>5, OneEachSame DEF Inv, childVars, requestVars
<1>8. ~Open'
  BY <1>1 DEF Open
<1> QED BY <1>3, <1>4, <1>5, <1>6, <1>7, <1>8 DEF Inv, StartOK

(***************************************************************************)
(* The end of the connection or of the process.                            *)
(***************************************************************************)
LEMMA StepEnds ==
    ASSUME Inv, ChildSeesEnd \/ LinkLost \/ MasterSeesEnd
    PROVE  Inv'
<1>1. /\ link' = "lost" /\ commands' = << >>
      /\ UNCHANGED <<closing, childVars, requestVars, running, answers, streamVars>>
      /\ client' \in {client, "null"}
      /\ process' \in {process, "exited"}
  BY DEF ChildSeesEnd, LinkLost, MasterSeesEnd, masterVars
<1>2. process # "new" /\ process' # "new"
  BY <1>1 DEF ChildSeesEnd, LinkLost, MasterSeesEnd, Running, Inv, StartOK
<1>3. StreamOK'
  BY <1>1, StreamSame DEF Inv
<1>4. RequestsOK'
  <2>1. commands' \in Seq({Hello} \cup Requests) /\ Len(commands') = 0
    BY <1>1, EmptySeq
  <2> QED BY <1>1, <2>1 DEF Inv, RequestsOK, requestVars
<1>5. SendersOK'
  BY <1>1, SendersSame DEF Inv, SendersOK
<1>6. process' # "exited" => OneEach'
  BY <1>1, OneEachSame DEF Inv, childVars, requestVars
<1>7. ~Open'
  BY <1>1 DEF Open
<1> QED BY <1>2, <1>3, <1>4, <1>5, <1>6, <1>7 DEF Inv, StartOK

LEMMA StepQueueFails ==
    ASSUME Inv, QueueFails
    PROVE  Inv'
<1>1. /\ process = "init" /\ process' = "exited"
      /\ UNCHANGED <<closing, childVars, requestVars, commands, link, masterVars,
                     answers, streamVars>>
  BY DEF QueueFails, Exit
<1>2. SendersOK'
  BY <1>1, SendersSame DEF Inv, SendersOK, masterVars
<1> QED BY <1>1, <1>2, CommandsSame DEF Inv

\* Bytes of the answers arrive and are read; no frame is handed over.
LEMMA StepBytes ==
    ASSUME Inv, Arrive \/ Parse
    PROVE  Inv'
<1>1. UNCHANGED <<process, closing, childVars, requestVars, commands, link, masterVars,
                  answers>>
  BY DEF Arrive, Parse
<1>2. Parser!ArriveSome \/ Parser!Read \/ Parser!ReadNothing
  BY DEF Arrive, Parse
<1>3. sent' = sent /\ last' = last
  BY <1>2 DEF Parser!ArriveSome, Parser!Arrive, Parser!parserVars, Parser!Read,
              Parser!ReadNothing
<1>4. StreamOK'
  BY <1>1, <1>2, <1>3, FrameKept DEF Inv, StreamOK
<1>5. Pending' = Pending /\ \A c : OnItsWay(c)' <=> OnItsWay(c)
  BY <1>1, <1>3, GotKept DEF Pending, OnItsWay
<1>6. process # "new" /\ process' = process
  BY <1>1 DEF Arrive, Parse, Running, Inv, StartOK
<1>7. RequestsOK'
  BY <1>1, RequestsSame DEF Inv, masterVars
<1>8. Open' => UnderWay'
  <2>1. Open' => UnderWay
    BY <1>1 DEF Inv, Open, Running, masterVars
  <2>2. UnderWay => UnderWay'
    BY <1>1, <1>5 DEF UnderWay, Written, AtWork, requestVars, masterVars
  <2> QED BY <2>1, <2>2
<1>9. SendersOK'
  BY <1>1, SendersSame DEF Inv, SendersOK, masterVars
<1>10. process' # "exited" => OneEach'
  BY <1>1, <1>6, OneEachSame DEF Inv, childVars, requestVars
<1> QED BY <1>4, <1>6, <1>7, <1>8, <1>9, <1>10 DEF Inv, StartOK

(***************************************************************************)
(* An answer.                                                              *)
(***************************************************************************)
LEMMA StepOnData ==
    ASSUME Inv, Running, OnData
    PROVE  Inv'
<1> DEFINE id == answers[Handed].req
           call == [to |-> responseHandlers[id], answer |-> answers[Handed].answer]
<1>1. /\ Parser!ProcessFrame
      /\ UNCHANGED <<process, closing, childVars, cmdId, commands, link, masterVars,
                     answers>>
  BY DEF OnData
<1>2. Handed = Got + 1 /\ Handed <= sent /\ Got' = Handed /\ sent' = sent
  BY <1>1, HandedIsNext DEF Inv, StreamOK
<1>3. /\ answers \in Seq(Answers) /\ Len(answers) \in Nat /\ Len(answers) = sent
      /\ Got \in Nat /\ DOMAIN answers = 1..Len(answers)
  BY PendingType, LenProperties DEF Inv, StreamOK
<1>4. Handed \in 1..Len(answers) /\ Handed \in Pending /\ Pending' = Pending \ {Handed}
  BY <1>1, <1>2, <1>3 DEF Pending
<1>5. answers[Handed] \in Answers
  BY <1>3, <1>4, ElementOfSeq
<1>6. id \in 0..cmdId /\ cmdId \in Nat /\ answers[Handed].answer \in Replies
  BY <1>4, <1>5, ServiceAssumption DEF Inv, RequestsOK, Answers
<1>7. IF id \in DOMAIN responseHandlers
      THEN responseHandlers' = Without(id) /\ callbacks' = Append(callbacks, call)
      ELSE UNCHANGED <<responseHandlers, callbacks>>
  BY <1>3, <1>4 DEF OnData
<1>8. StreamOK'
  BY <1>1, <1>2, FrameKept DEF Inv, StreamOK
<1> HIDE DEF id, call
<1>9. SendersOK'
  BY <1>1, SendersSame DEF Inv, SendersOK, masterVars
<1>10. process # "new" /\ process # "exited" /\ process' = process
  BY <1>1 DEF Running
<1>11. /\ DOMAIN responseHandlers' = DOMAIN responseHandlers \ {id}
       /\ \A c \in DOMAIN responseHandlers' : responseHandlers'[c] = responseHandlers[c]
       /\ responseHandlers' \in [DOMAIN responseHandlers' -> Senders]
  <2>1. CASE id \in DOMAIN responseHandlers
    BY <1>7, <2>1 DEF Without, Inv, RequestsOK
  <2>2. CASE id \notin DOMAIN responseHandlers
    BY <1>7, <2>2 DEF Inv, RequestsOK
  <2> QED BY <2>1, <2>2
<1>12. ASSUME Open'
       PROVE  UnderWay'
  <2>1. UnderWay
    BY <1>1, <1>12 DEF Inv, Open, Running, masterVars
  <2>2. OnItsWay(id)
    BY <1>4 DEF OnItsWay, id
  <2>3. \A c : OnItsWay(c)' <=> OnItsWay(c) /\ c # id
    BY <1>1, <1>4, <2>1 DEF OnItsWay, UnderWay, id
  <2>4. /\ \A c : (Written(c)' <=> Written(c)) /\ (AtWork(c)' <=> AtWork(c))
        /\ cmdId' = cmdId /\ commands' = commands /\ running' = running
        /\ answers' = answers
    BY <1>1 DEF Written, AtWork, masterVars
  <2>5. \A c \in 1..cmdId :
           /\ ~(Written(c)' /\ AtWork(c)')
           /\ ~(Written(c)' /\ OnItsWay(c)')
           /\ ~(AtWork(c)' /\ OnItsWay(c)')
           /\ c \in DOMAIN responseHandlers' <=> Written(c)' \/ AtWork(c)' \/ OnItsWay(c)'
    BY <1>11, <2>1, <2>2, <2>3, <2>4 DEF UnderWay
  <2>6. \A i, j \in Pending' : answers'[i].req = answers'[j].req => i = j
    BY <1>4, <2>1, <2>4 DEF UnderWay
  <2> QED BY <2>1, <2>4, <2>5, <2>6 DEF UnderWay
<1>13. CASE id \notin DOMAIN responseHandlers
  <2>1. UNCHANGED <<responseHandlers, callbacks>>
    BY <1>7, <1>13
  <2>2. RequestsOK'
    BY <1>1, <2>1 DEF Inv, RequestsOK, masterVars
  <2>3. OneEach'
    BY <1>1, <1>10, <2>1, OneEachSame DEF Inv, childVars
  <2> QED BY <1>8, <1>9, <1>10, <1>12, <2>2, <2>3 DEF Inv, StartOK
<1>14. CASE id \in DOMAIN responseHandlers
  <2>1. call \in [to : Senders, answer : Replies] /\ call.to = responseHandlers[id]
    BY <1>6, <1>14 DEF call, Inv, RequestsOK
  <2>2. callbacks \in Seq([to : Senders, answer : Replies]) /\ Len(callbacks) \in Nat
    BY LenProperties DEF Inv, RequestsOK
  <2>3. /\ callbacks' \in Seq([to : Senders, answer : Replies])
        /\ Len(callbacks') = Len(callbacks) + 1
        /\ \A i \in 1..Len(callbacks) : callbacks'[i] = callbacks[i]
        /\ callbacks'[Len(callbacks) + 1] = call
    <3>1. callbacks' = Append(callbacks, call)
      BY <1>7, <1>14
    <3> QED BY <2>1, <2>2, <3>1, Appended
  <2>4. RequestsOK'
    BY <1>1, <1>11, <2>3 DEF Inv, RequestsOK, masterVars
  <2>5. OneEach /\ Asked(call.to) /\ ~Told(call.to)
    BY <1>10, <1>14, <2>1 DEF Inv, OneEach, Asked
  <2>6. \A s : Asked(s)' <=> Asked(s) /\ s # call.to
    BY <1>11, <1>14, <2>1, <2>5 DEF Asked, OneEach
  <2>7. ASSUME NEW s
        PROVE  Told(s)' <=> Told(s) \/ s = call.to
    <3>1. ASSUME Told(s)' PROVE Told(s) \/ s = call.to
      <4>1. PICK i \in 1..(Len(callbacks) + 1) : callbacks'[i].to = s
        BY <2>3, <3>1 DEF Told
      <4>2. CASE i = Len(callbacks) + 1
        BY <2>3, <4>1, <4>2
      <4>3. CASE i \in 1..Len(callbacks)
        BY <2>3, <4>1, <4>3 DEF Told
      <4> QED BY <2>2, <4>2, <4>3
    <3>2. ASSUME Told(s) PROVE Told(s)'
      <4>1. PICK i \in 1..Len(callbacks) : callbacks[i].to = s
        BY <3>2 DEF Told
      <4>2. i \in 1..Len(callbacks') /\ callbacks'[i].to = s
        BY <2>2, <2>3, <4>1
      <4> QED BY <4>2 DEF Told
    <3>3. ASSUME s = call.to PROVE Told(s)'
      <4>1. Len(callbacks) + 1 \in 1..Len(callbacks')
        BY <2>2, <2>3
      <4> QED BY <2>3, <3>3, <4>1 DEF Told
    <3> QED BY <3>1, <3>2, <3>3
  <2>8. ASSUME NEW i \in 1..(Len(callbacks) + 1), NEW j \in 1..(Len(callbacks) + 1),
               callbacks'[i].to = callbacks'[j].to
        PROVE  i = j
    <3>1. CASE i \in 1..Len(callbacks) /\ j \in 1..Len(callbacks)
      BY <2>3, <2>5, <2>8, <3>1 DEF OneEach
    <3>2. CASE i = Len(callbacks) + 1 /\ j \in 1..Len(callbacks)
      BY <2>3, <2>5, <2>8, <3>2 DEF Told
    <3>3. CASE j = Len(callbacks) + 1 /\ i \in 1..Len(callbacks)
      BY <2>3, <2>5, <2>8, <3>3 DEF Told
    <3> QED BY <2>2, <3>1, <3>2, <3>3
  <2>9. \A c, d \in DOMAIN responseHandlers' :
           responseHandlers'[c] = responseHandlers'[d] => c = d
    BY <1>11, <2>5 DEF OneEach
  <2>10. sender' = sender
    BY <1>1 DEF childVars
  <2>11. OneEach'
    BY <2>3, <2>5, <2>6, <2>7, <2>8, <2>9, <2>10 DEF OneEach
  <2> QED BY <1>8, <1>9, <1>10, <1>12, <2>4, <2>11 DEF Inv, StartOK
<1> QED BY <1>13, <1>14

\* The sender that an answer is given to waits for one, and for no other.
LEMMA StepCallback ==
    ASSUME Inv, Callback
    PROVE  Inv'
<1> DEFINE call == Head(callbacks)
<1>1. /\ Running /\ callbacks # << >> /\ callbacks' = Tail(callbacks)
      /\ UNCHANGED <<due, zoneConnections, reloads, cmdId, responseHandlers, commands,
                     link, masterVars, answers, streamVars>>
      /\ \/ Answered(call.to, call.answer)
         \/ SenderError(call.to, call.answer)
         \/ UnheardError(call.to, call.answer)
  BY DEF Callback
<1>2. /\ callbacks \in Seq([to : Senders, answer : Replies])
      /\ Len(callbacks) \in Nat
  BY LenProperties DEF Inv, RequestsOK
<1>3. /\ callbacks' \in Seq([to : Senders, answer : Replies])
      /\ call \in [to : Senders, answer : Replies] /\ call = callbacks[1]
      /\ 1 \in 1..Len(callbacks) /\ Len(callbacks') \in Nat
  BY <1>1, <1>2, Rest, LenProperties
<1>4. /\ \A i \in 1..Len(callbacks) :
            i # 1 => i - 1 \in 1..Len(callbacks') /\ callbacks'[i - 1] = callbacks[i]
      /\ \A i \in 1..Len(callbacks') :
            i + 1 \in 1..Len(callbacks) /\ callbacks'[i] = callbacks[i + 1]
  BY <1>1, <1>2, RestPlaces
<1> HIDE DEF call
<1>5. process # "new" /\ process # "exited"
  BY <1>1 DEF Running
<1>6. /\ OneEach /\ Told(call.to) /\ ~Asked(call.to)
      /\ sender[call.to] \in {"get", "release"}
  BY <1>3, <1>5 DEF Inv, OneEach, Told
<1>7. ASSUME NEW s
      PROVE  Told(s)' <=> Told(s) /\ s # call.to
  <2>1. ASSUME Told(s)' PROVE Told(s) /\ s # call.to
    <3>1. PICK i \in 1..Len(callbacks') : callbacks'[i].to = s
      BY <2>1 DEF Told
    <3>2. i + 1 \in 1..Len(callbacks) /\ callbacks[i + 1].to = s /\ i + 1 # 1
      BY <1>3, <1>4, <3>1
    <3>3. s # call.to
      BY <1>3, <1>6, <3>2 DEF OneEach
    <3> QED BY <3>2, <3>3 DEF Told
  <2>2. ASSUME Told(s), s # call.to PROVE Told(s)'
    <3>1. PICK i \in 1..Len(callbacks) : callbacks[i].to = s
      BY <2>2 DEF Told
    <3>2. i # 1
      BY <1>3, <2>2, <3>1
    <3> QED BY <1>4, <3>1, <3>2 DEF Told
  <2> QED BY <2>1, <2>2
<1>8. ASSUME NEW i \in 1..Len(callbacks'), NEW j \in 1..Len(callbacks'),
             callbacks'[i].to = callbacks'[j].to
      PROVE  i = j
  <2>1. /\ i + 1 \in 1..Len(callbacks) /\ j + 1 \in 1..Len(callbacks)
        /\ callbacks[i + 1].to = callbacks[j + 1].to
    BY <1>4, <1>8
  <2>2. i + 1 = j + 1
    BY <1>6, <2>1 DEF OneEach
  <2> QED BY <1>3, <2>2
<1>9. \A s : Asked(s)' <=> Asked(s)
  BY <1>1 DEF Asked
<1>10. RequestsOK'
  BY <1>1, <1>3 DEF Inv, RequestsOK, masterVars
<1>11. /\ StreamOK' /\ Pending' = Pending
       /\ \A c : OnItsWay(c)' <=> OnItsWay(c)
  BY <1>1, StreamSame DEF Inv
<1>12. Open' => UnderWay'
  <2>1. Open' => UnderWay
    BY <1>1 DEF Inv, Open, masterVars
  <2>2. UnderWay => UnderWay'
    BY <1>1, <1>11 DEF UnderWay, Written, AtWork, masterVars
  <2> QED BY <2>1, <2>2
<1>13. CASE Answered(call.to, call.answer) \/ SenderError(call.to, call.answer)
  <2>1. PICK w \in {"work", "idle"} : sender' = [sender EXCEPT ![call.to] = w]
    BY <1>13 DEF Answered, SenderError, NextState
  <2>2. /\ sender' \in [Senders -> {"none", "idle", "get", "work", "release"}]
        /\ sender'[call.to] = w
        /\ \A s \in Senders : s # call.to => sender'[s] = sender[s]
    BY <1>3, <2>1 DEF Inv, SendersOK
  <2>3. process' = process
    BY <1>13 DEF Answered, SenderError
  <2>4. OneEach'
    BY <1>1, <1>3, <1>6, <1>7, <1>8, <1>9, <2>2 DEF OneEach
  <2>5. SendersOK'
    <3>1. Spawned' = Spawned
      BY <1>3, <1>6, <2>2 DEF Spawned
    <3>2. senders' \subseteq senders /\ closing' \in BOOLEAN
      BY <1>13 DEF Answered, SenderError, Inv, SendersOK
    <3>3. EnoughSenders'
      BY <1>1, <1>13 DEF Answered, SenderError, Inv, SendersOK, EnoughSenders
    <3> QED BY <1>1, <2>2, <2>3, <3>1, <3>2, <3>3 DEF Inv, SendersOK, masterVars
  <2> QED BY <1>5, <1>10, <1>11, <1>12, <2>3, <2>4, <2>5 DEF Inv, StartOK
<1>14. CASE UnheardError(call.to, call.answer)
  <2>1. process' = "exited" /\ UNCHANGED <<sender, closing, senders>>
    BY <1>14 DEF UnheardError
  <2>2. SendersOK'
    BY <1>1, <2>1, SendersSame DEF Inv, SendersOK, childVars, masterVars
  <2> QED BY <1>10, <1>11, <1>12, <2>1, <2>2 DEF Inv, StartOK
<1> QED BY <1>1, <1>13, <1>14

LEMMA StepStutter ==
    ASSUME Inv, UNCHANGED vars
    PROVE  Inv'
<1>1. UNCHANGED <<process, closing, childVars, requestVars, commands, link, masterVars,
                  answers, streamVars>>
  BY DEF vars
<1>2. /\ StreamOK' /\ Pending' = Pending
      /\ \A c : OnItsWay(c)' <=> OnItsWay(c)
  BY <1>1, StreamSame DEF Inv
<1>3. RequestsOK'
  BY <1>1, RequestsSame DEF Inv, masterVars
<1>4. Open' => UnderWay'
  <2>1. Open' => UnderWay
    BY <1>1 DEF Inv, Open, Running, masterVars
  <2>2. UnderWay => UnderWay'
    BY <1>1, <1>2 DEF UnderWay, Written, AtWork, requestVars, masterVars
  <2> QED BY <2>1, <2>2
<1>5. SendersOK'
  BY <1>1, SendersSame DEF Inv, SendersOK, masterVars
<1>6. process' # "exited" => OneEach'
  BY <1>1, OneEachSame DEF Inv, childVars, requestVars
<1>7. StartOK'
  BY <1>1 DEF Inv, StartOK, requestVars, masterVars
<1> QED BY <1>2, <1>3, <1>4, <1>5, <1>6, <1>7 DEF Inv

(***************************************************************************)
(* The theorems.                                                           *)
(***************************************************************************)
LEMMA NextInv ==
    ASSUME Inv, [Next]_vars
    PROVE  Inv'
<1>1. CASE Child
  <2>1. CASE Connect \/ QueueReady \/ SpawnSender \/ Callback \/ ChildSeesEnd
    BY <2>1, StepConnect, StepQueueReady, StepSpawnSender, StepCallback, StepEnds
  <2>2. CASE \E s \in Senders : Get(s) \/ Release(s)
    BY <2>2, StepGet, StepRelease
  <2> QED BY <1>1, <2>1, <2>2 DEF Child
<1>2. CASE Master
  BY <1>2, StepServe, StepFinish, StepEnds DEF Master
<1>3. CASE Stream
  BY <1>3, StepBytes, StepOnData DEF Stream
<1>4. CASE QueueFails \/ MasterStops \/ LinkLost
  BY <1>4, StepQueueFails, StepMasterStops, StepEnds
<1>5. CASE \E c \in Connections : Reload(c)
  BY <1>5, StepReload
<1>6. CASE UNCHANGED vars
  BY <1>6, StepStutter
<1> QED BY <1>1, <1>2, <1>3, <1>4, <1>5, <1>6 DEF Next

LEMMA Invariant == Spec => []Inv
<1>1. Init => Inv
  BY InitInv
<1>2. Inv /\ [Next]_vars => Inv'
  BY NextInv
<1> QED BY <1>1, <1>2, PTL DEF Spec

\* The variables keep their shape and no reload closes a sender that is needed:
\* process.on('message') of services/sender.js may close senders while the
\* timers of spawnConnections are still to start others.
THEOREM ConsistentHolds == Spec => []Consistent
<1>1. Inv => Consistent
  <2> SUFFICES ASSUME Inv PROVE Consistent
    OBVIOUS
  <2>1. Parser!TypeOK
    BY DEF Inv, StreamOK, ParserInv
  <2> QED BY <2>1 DEF Inv, StreamOK, RequestsOK, SendersOK, Consistent, TypeOK
<1> QED BY <1>1, Invariant, PTL

\* How often a command is at each of its places.
LEMMA PlacesOf ==
    ASSUME Inv, UnderWay, NEW c \in 1..cmdId
    PROVE  Places(c) = IF Written(c) \/ AtWork(c) \/ OnItsWay(c) THEN 1 ELSE 0
<1> DEFINE W == {i \in DOMAIN commands : commands[i].req = c}
           R == {m \in running : m.req = c}
           A == {i \in DOMAIN answers : i > Parser!FrameOf(last) /\ answers[i].req = c}
<1>1. DOMAIN commands = 1..Len(commands) /\ DOMAIN answers = 1..Len(answers)
  BY LenProperties DEF Inv, StreamOK, RequestsOK
<1>2. A = {i \in Pending : answers[i].req = c}
  BY <1>1, PendingType DEF Inv, StreamOK, Pending, Got
<1>3. Cardinality(W) = IF Written(c) THEN 1 ELSE 0
  <2>1. \A i, j \in W : i = j
    BY <1>1 DEF UnderWay
  <2>2. W = {} <=> ~Written(c)
    BY <1>1 DEF Written
  <2> QED BY <2>1, <2>2, AtMostOne
<1>4. Cardinality(R) = IF AtWork(c) THEN 1 ELSE 0
  <2>1. \A m, n \in R : m = n
    BY DEF UnderWay
  <2>2. R = {} <=> ~AtWork(c)
    BY DEF AtWork
  <2> QED BY <2>1, <2>2, AtMostOne
<1>5. Cardinality(A) = IF OnItsWay(c) THEN 1 ELSE 0
  <2>1. \A i, j \in A : i = j
    BY <1>2 DEF UnderWay
  <2>2. A = {} <=> ~OnItsWay(c)
    BY <1>2 DEF OnItsWay
  <2> QED BY <2>1, <2>2, AtMostOne
<1>6. Places(c) = Cardinality(W) + Cardinality(R) + Cardinality(A)
  BY DEF Places
<1> HIDE DEF W, R, A
<1>7. /\ ~(Written(c) /\ AtWork(c)) /\ ~(Written(c) /\ OnItsWay(c))
      /\ ~(AtWork(c) /\ OnItsWay(c))
  BY DEF UnderWay
<1> QED BY <1>3, <1>4, <1>5, <1>6, <1>7

\* While the connection is open, a command of sendCommand waits in
\* responseHandlers exactly as long as it or its answer is under way, and every
\* sender waits for one answer at most: the answers of onData reach the senders
\* that asked, once each, in whatever order the master is done.
THEOREM CommandsOnceHolds == Spec => []CommandsOnce
<1>1. ASSUME Inv PROVE WaitingIsUnderWay
  <2> SUFFICES ASSUME Open, NEW c \in 1..cmdId
               PROVE  Places(c) = IF c \in DOMAIN responseHandlers THEN 1 ELSE 0
    BY DEF WaitingIsUnderWay, Open
  <2>1. UnderWay
    BY <1>1 DEF Inv
  <2>2. c \in DOMAIN responseHandlers <=> Written(c) \/ AtWork(c) \/ OnItsWay(c)
    BY <2>1 DEF UnderWay
  <2> QED BY <1>1, <2>1, <2>2, PlacesOf
<1>2. ASSUME Inv PROVE OneCommandEach
  <2> SUFFICES ASSUME Running, NEW s \in Senders
               PROVE  Cardinality({c \in DOMAIN responseHandlers :
                                      responseHandlers[c] = s})
                      + Cardinality({i \in DOMAIN callbacks : callbacks[i].to = s})
                          = IF sender[s] \in {"get", "release"} THEN 1 ELSE 0
    BY DEF OneCommandEach
  <2> DEFINE C == {c \in DOMAIN responseHandlers : responseHandlers[c] = s}
             B == {i \in DOMAIN callbacks : callbacks[i].to = s}
  <2>1. OneEach
    BY <1>2 DEF Inv, Running
  <2>2. DOMAIN callbacks = 1..Len(callbacks)
    BY <1>2, LenProperties DEF Inv, RequestsOK
  <2>3. Cardinality(C) = IF Asked(s) THEN 1 ELSE 0
    <3>1. \A c, d \in C : c = d
      BY <2>1 DEF OneEach
    <3>2. C = {} <=> ~Asked(s)
      BY DEF Asked
    <3> QED BY <3>1, <3>2, AtMostOne
  <2>4. Cardinality(B) = IF Told(s) THEN 1 ELSE 0
    <3>1. \A i, j \in B : i = j
      BY <2>1, <2>2 DEF OneEach
    <3>2. B = {} <=> ~Told(s)
      BY <2>2 DEF Told
    <3> QED BY <3>1, <3>2, AtMostOne
  <2>5. /\ ~(Asked(s) /\ Told(s))
        /\ sender[s] \in {"get", "release"} <=> Asked(s) \/ Told(s)
    BY <2>1 DEF OneEach
  <2> HIDE DEF C, B
  <2>6. Cardinality(C) + Cardinality(B)
            = IF sender[s] \in {"get", "release"} THEN 1 ELSE 0
    BY <2>3, <2>4, <2>5
  <2> QED BY <2>6 DEF C, B
<1>3. Inv => CommandsOnce
  BY <1>1, <1>2 DEF CommandsOnce
<1> QED BY <1>3, Invariant, PTL

\* What happens to the stream of the answers is what happens to a FrameParser.
LEMMA StreamStep ==
    ASSUME [Next]_vars
    PROVE  \/ Parser!Send \/ Parser!ArriveSome \/ Parser!Read \/ Parser!ReadNothing
           \/ Parser!ProcessFrame
           \/ UNCHANGED streamVars
<1>1. CASE Child
  BY <1>1 DEF Child, Connect, QueueReady, SpawnSender, Callback, ChildSeesEnd, Get,
              Release, SendCommand
<1>2. CASE Master
  BY <1>2 DEF Master, Serve, Finish, MasterSeesEnd, Write
<1>3. CASE Stream
  BY <1>3 DEF Stream, Arrive, Parse, OnData
<1>4. CASE QueueFails \/ MasterStops \/ LinkLost \/ \E c \in Connections : Reload(c)
  BY <1>4 DEF QueueFails, Exit, MasterStops, Write, LinkLost, Reload
<1>5. CASE UNCHANGED vars
  BY <1>5 DEF vars
<1> QED BY <1>1, <1>2, <1>3, <1>4, <1>5 DEF Next

\* Whatever commands and answers the two processes exchange, the frames of the
\* answers reach onData whole, in order and once each: the channel of
\* FrameChannel, which takes what ParserImplementsChannel says of a parser by
\* itself to the connection that lib/transport/connection.js makes of it.
THEOREM FramesInOrderHolds == Spec => FramesInOrder
<1>1. Init => Parser!Init
  BY DEF Init
<1>2. [Next]_vars => [Parser!Next]_(Parser!vars)
  BY StreamStep DEF Parser!Next, Parser!Parse, streamVars, Parser!vars
<1>3. Spec => Parser!Spec
  BY <1>1, <1>2, PTL DEF Spec, Parser!Spec
<1> QED BY <1>3, ParserImplementsChannel, PTL DEF FramesInOrder
=============================================================================
