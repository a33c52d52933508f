------------------------- MODULE JitterBufferProofs -------------------------
(***************************************************************************)
(* Proofs about JitterBuffer for every buffer size, every sequence-number  *)
(* and timestamp width and every stream a peer may send: the type          *)
(* invariant, the consistency of the slots, that Free releases everything, *)
(* and that what reaches the application is well formed.  For streams in   *)
(* which no counter wraps also that frames are delivered whole, once and   *)
(* in order, and that nothing stale stays in the buffer.                   *)
(***************************************************************************)
EXTENDS JitterBuffer, TLAPS

\* The index of a sequence number is an index of rtpPackets[].
LEMMA IndexType == \A s \in SeqNum : Index(s) \in Indexes
  BY SizesAssumption DEF SeqNum, Index, Indexes

\* The first MaxEntries sequence numbers select every slot (what the last
\* discard of Free relies on).
LEMMA IndexSmall == \A k \in Indexes : Index(k) = k
  BY SizesAssumption DEF Index, Indexes

\* The successor of a uint16_t is a uint16_t, and differs from it.
LEMMA IncType == \A s \in SeqNum : Inc(s) \in SeqNum /\ Inc(s) # s
  BY SizesAssumption DEF SeqNum, Inc

\* A range of sequence numbers contains only sequence numbers.
LEMMA SeqRangeType == \A a, b \in SeqNum : SeqRange(a, b) \subseteq SeqNum
  BY SizesAssumption DEF SeqNum, SeqRange, Inc

\* A range of one.
LEMMA SeqRangeOne == \A a \in SeqNum : SeqRange(a, a) = {a}
  BY SizesAssumption DEF SeqNum, SeqRange, Inc

\* A range grows by one packet when the scan advances.
LEMMA SeqRangeGrows ==
    \A a, b \in SeqNum : SeqRange(a, Inc(b)) \subseteq SeqRange(a, b) \cup {Inc(b)}
  BY SizesAssumption DEF SeqNum, SeqRange, Inc

\* The range 0 .. MaxEntries - 1 covers the indexes.
LEMMA SeqRangeAll == SeqRange(0, MaxEntries - 1) = Indexes
  BY SizesAssumption DEF SeqRange, Inc, Indexes

\* An empty slot has the type of a slot.
LEMMA EmptyType == Empty \in Slot /\ Empty.buf = 0
  BY SizesAssumption DEF Empty, Slot, SeqNum, Timestamp

\* Packet n of a stream is a packet.
LEMMA StreamType ==
    ASSUME stream \in Streams
    PROVE  /\ Len(stream) \in Nat
           /\ \A n \in 1 .. Len(stream) : stream[n] \in Packet
  BY StreamsAssumption

\* DiscardPackets leaves each slot as it is or empties it, and empties those
\* the range selects.
LEMMA DiscardPacketsResult ==
    ASSUME TypeOK, SlotsConsistent, NEW a \in SeqNum, NEW b \in SeqNum
    PROVE  /\ DiscardPackets(a, b) \in [Indexes -> Slot]
           /\ \A k \in Indexes : DiscardPackets(a, b)[k] \in {slots[k], Empty}
           /\ \A s \in SeqRange(a, b) : DiscardPackets(a, b)[Index(s)] = Empty
<1>1. \A k \in Indexes : slots[k] \in Slot
  BY DEF TypeOK
<1>2. \A k \in Indexes : DiscardPacket(slots[k]) = Empty
  BY <1>1, StreamType, EmptyType DEF SlotsConsistent, DiscardPacket, TypeOK
<1>3. \A s \in SeqRange(a, b) : Index(s) \in Indexes
  BY SeqRangeType, IndexType
<1> QED
  BY <1>1, <1>2, <1>3, EmptyType DEF DiscardPackets

\* SlotsConsistent only depends on the slots and the stream, and survives
\* emptying slots.
LEMMA SlotsEmptied ==
    ASSUME SlotsConsistent, stream' = stream,
           \A k \in Indexes : slots'[k] \in {slots[k], Empty}
    PROVE  SlotsConsistent'
  BY DEF SlotsConsistent, Empty, Index

\* The initial state satisfies the invariant.
LEMMA InitReceiverInv == Init => ReceiverInv
<1> SUFFICES ASSUME Init PROVE ReceiverInv
  OBVIOUS
<1>1. 0 \in SeqNum /\ 0 \in Timestamp
  BY SizesAssumption DEF SeqNum, Timestamp
<1>2. TypeOK
  <2>1. slots \in [Indexes -> Slot]
    BY EmptyType DEF Init
  <2>2. delivered \in Seq(SUBSET Nat)
    BY DEF Init
  <2> QED
    BY <1>1, <2>1, <2>2 DEF Init, TypeOK
<1>3. SlotsConsistent /\ FreeReleasesAll /\ ScanMode /\ ScanFrame /\ FramesWellFormed
  BY DEF Init, SlotsConsistent, FreeReleasesAll, ScanMode, ScanFrame, FramesWellFormed
<1> QED
  BY <1>2, <1>3 DEF ReceiverInv

\* Every step of the receiver keeps the invariant.
LEMMA NextReceiverInv == ReceiverInv /\ [Next]_vars => ReceiverInv'
<1> SUFFICES ASSUME ReceiverInv, [Next]_vars PROVE ReceiverInv'
  OBVIOUS
<1> USE DEF ReceiverInv
<1>0. /\ Len(stream) \in Nat
      /\ \A n \in 1 .. Len(stream) : stream[n] \in Packet
      /\ 0 \in SeqNum /\ SeqMod - 1 \in SeqNum
      /\ 0 \in Timestamp /\ TsMod - 1 \in Timestamp
  BY StreamType, SizesAssumption DEF SeqNum, Timestamp, TypeOK
<1>1. ASSUME NEW ok \in BOOLEAN, PeerConnectionJitterBuffer_Create(ok)
      PROVE  ReceiverInv'
  <2>1. TypeOK'
    <3>1. slots' \in [Indexes -> Slot]
      BY <1>1, EmptyType DEF PeerConnectionJitterBuffer_Create
    <3>2. isInit' \in BOOLEAN /\ isStart' \in BOOLEAN
      BY <1>1, Zenon DEF PeerConnectionJitterBuffer_Create
    <3>3. /\ creates' \in Nat
          /\ newestSeq' \in SeqNum /\ oldestSeq' \in SeqNum
          /\ newestTs' \in Timestamp /\ lastPopTs' \in Timestamp
      BY <1>0, <1>1 DEF PeerConnectionJitterBuffer_Create, TypeOK
    <3>4. UNCHANGED <<netVars, scanVars, obsVars>>
      BY <1>1 DEF PeerConnectionJitterBuffer_Create
    <3> QED
      BY <3>1, <3>2, <3>3, <3>4 DEF TypeOK, netVars, scanVars, obsVars
  <2>2. SlotsConsistent' /\ FreeReleasesAll'
    BY <1>1 DEF PeerConnectionJitterBuffer_Create, SlotsConsistent, FreeReleasesAll
  <2>3. ScanMode' /\ ScanFrame'
    BY <1>1 DEF PeerConnectionJitterBuffer_Create, ScanMode, ScanFrame, scanVars
  <2>4. FramesWellFormed'
    BY <1>1 DEF PeerConnectionJitterBuffer_Create, FramesWellFormed, netVars, obsVars
  <2> QED
    BY <2>1, <2>2, <2>3, <2>4
<1>2. ASSUME NEW n \in pending, PeerConnectionSrtp_HandleSrtpPacket(n)
      PROVE  ReceiverInv'
  <2>0. n \in 1 .. Len(stream) /\ n # 0 /\ stream[n] \in Packet
    BY <1>0 DEF TypeOK
  <2>1. /\ pc = "idle" /\ stream' = stream /\ delivered' = delivered
        /\ creates' = creates /\ nullRead' = nullRead
        /\ pending' \subseteq 1 .. Len(stream) /\ tardy' \subseteq 1 .. Len(stream)
    BY <1>2, <2>0 DEF PeerConnectionSrtp_HandleSrtpPacket, TypeOK
  <2>2. FramesWellFormed'
    BY <2>1 DEF FramesWellFormed
  <2>3. CASE AllocateRefused(n)
    <3>1. TypeOK'
      BY <2>1, <2>3 DEF AllocateRefused, TypeOK, bufVars, scanVars
    <3>2. SlotsConsistent' /\ FreeReleasesAll'
      BY <2>1, <2>3 DEF AllocateRefused, SlotsConsistent, FreeReleasesAll, bufVars, scanVars
    <3>3. ScanMode' /\ ScanFrame'
      BY <2>1, <2>3 DEF AllocateRefused, ScanMode, ScanFrame, bufVars, scanVars
    <3> QED
      BY <2>2, <3>1, <3>2, <3>3
  <2>4. CASE PushPacket(n)
    <3> DEFINE p == stream[n]
               newest == IF isStart THEN newestSeq ELSE p.seq
               newestT == IF isStart THEN newestTs ELSE p.ts
               oldest == IF isStart THEN oldestSeq ELSE p.seq
               new == [buf |-> n, isPushed |-> TRUE, seq |-> p.seq, ts |-> p.ts]
    <3>0. /\ p.seq \in SeqNum /\ p.ts \in Timestamp
          /\ newest \in SeqNum /\ oldest \in SeqNum /\ newestT \in Timestamp
          /\ Index(p.seq) \in Indexes
      BY <2>0, IndexType DEF Packet, TypeOK
    <3>1. new \in Slot
      BY <3>0, <2>0 DEF Slot
    <3>2. isInit /\ isInit' = isInit /\ isStart' = TRUE
      BY <2>4 DEF PushPacket
    <3>3. CASE ShouldAcceptPacket(newest, p.seq)
      <4>1. /\ slots' = [slots EXCEPT ![Index(p.seq)] = new]
            /\ newestSeq' = NewestSeqAfter(newest, oldest, p.seq)
            /\ oldestSeq' = OldestSeqAfter(oldest, p.seq)
            /\ newestTs' = NewestTsAfter(newestT, p.ts)
            /\ lastPopTs' = LastPopTsAfter(lastPopTs, p.ts)
            /\ StartScan(oldestSeq', FALSE)
        BY <2>4, <3>3 DEF PushPacket
      <4>2. newestSeq' \in SeqNum /\ oldestSeq' \in SeqNum
        BY <3>0, <4>1 DEF NewestSeqAfter, NewestBlock, OldestSeqAfter
      <4>3. newestTs' \in Timestamp /\ lastPopTs' \in Timestamp
        BY <3>0, <4>1 DEF NewestTsAfter, LastPopTsAfter, TypeOK
      <4>4. slots' \in [Indexes -> Slot]
        BY <3>0, <3>1, <4>1 DEF TypeOK
      <4>5. TypeOK'
        BY <2>1, <3>2, <4>1, <4>2, <4>3, <4>4 DEF TypeOK, StartScan
      <4>6. SlotsConsistent'
        BY <2>0, <2>1, <3>0, <4>1 DEF SlotsConsistent, TypeOK
      <4>7. FreeReleasesAll' /\ ScanMode' /\ ScanFrame'
        BY <3>2, <4>1 DEF FreeReleasesAll, ScanMode, ScanFrame, StartScan
      <4> QED
        BY <2>2, <4>5, <4>6, <4>7
    <3>4. CASE ~ShouldAcceptPacket(newest, p.seq)
      <4>1. /\ slots' = [slots EXCEPT ![Index(p.seq)] = Empty]
            /\ newestSeq' = newest /\ newestTs' = newestT /\ oldestSeq' = oldest
            /\ lastPopTs' = lastPopTs /\ UNCHANGED scanVars
        BY <2>4, <3>4 DEF PushPacket
      <4>2. slots' \in [Indexes -> Slot] /\ \A k \in Indexes : slots'[k] \in {slots[k], Empty}
        BY <3>0, <4>1, EmptyType DEF TypeOK
      <4>3. TypeOK'
        BY <2>1, <3>0, <3>2, <4>1, <4>2 DEF TypeOK, scanVars
      <4>4. SlotsConsistent'
        BY <2>1, <4>2, SlotsEmptied
      <4>5. FreeReleasesAll' /\ ScanMode' /\ ScanFrame'
        BY <2>1, <3>2, <4>1 DEF FreeReleasesAll, ScanMode, ScanFrame, scanVars
      <4> QED
        BY <2>2, <4>3, <4>4, <4>5
    <3> QED
      BY <3>3, <3>4
  <2> QED
    BY <1>2, <2>3, <2>4 DEF PeerConnectionSrtp_HandleSrtpPacket
<1>3. CASE PeerConnectionJitterBuffer_Free
  <2>1. TypeOK'
    BY <1>3 DEF PeerConnectionJitterBuffer_Free, StartScan, TypeOK, netVars, obsVars
  <2>2. SlotsConsistent' /\ FramesWellFormed'
    BY <1>3 DEF PeerConnectionJitterBuffer_Free, SlotsConsistent, FramesWellFormed,
                netVars, obsVars
  <2>3. FreeReleasesAll' /\ ScanMode' /\ ScanFrame'
    BY <1>3 DEF PeerConnectionJitterBuffer_Free, StartScan, FreeReleasesAll, ScanMode,
                ScanFrame
  <2> QED
    BY <2>1, <2>2, <2>3
<1>4. CASE ScanEnd
  <2> USE <1>4 DEF ScanEnd, EndScan, netVars, bufVars, obsVars
  <2>1. TypeOK'
    BY DEF TypeOK
  <2>2. SlotsConsistent' /\ FramesWellFormed'
    BY DEF SlotsConsistent, FramesWellFormed
  <2>3. FreeReleasesAll' /\ ScanMode' /\ ScanFrame'
    BY DEF FreeReleasesAll, ScanMode, ScanFrame, TypeOK
  <2> QED
    BY <2>1, <2>2, <2>3
<1>5. CASE ScanMissing
  <2> USE <1>5 DEF ScanMissing, netVars, bufVars, obsVars
  <2>1. TypeOK'
    BY IncType DEF TypeOK, EndScan, InspectOrAdvance, NextIteration
  <2>2. SlotsConsistent' /\ FramesWellFormed'
    BY DEF SlotsConsistent, FramesWellFormed
  <2>3. FreeReleasesAll' /\ ScanMode'
    BY DEF FreeReleasesAll, ScanMode, TypeOK, EndScan, InspectOrAdvance, NextIteration
  <2>4. ScanFrame'
    BY DEF ScanFrame, cur, EndScan, InspectOrAdvance, NextIteration
  <2> QED
    BY <2>1, <2>2, <2>3, <2>4
<1>6. CASE ScanSameFrame
  <2> USE <1>6 DEF ScanSameFrame, netVars, bufVars, obsVars
  <2>1. TypeOK'
    BY DEF TypeOK
  <2>2. SlotsConsistent' /\ FramesWellFormed'
    BY DEF SlotsConsistent, FramesWellFormed
  <2>3. FreeReleasesAll' /\ ScanMode'
    BY DEF FreeReleasesAll, ScanMode
  <2>4. ScanFrame'
    BY DEF ScanFrame, cur, GoodPacket
  <2> QED
    BY <2>1, <2>2, <2>3, <2>4
<1>7. ASSUME NEW a \in SeqNum, NEW b \in SeqNum, pc = "scan",
             DiscardUpTo(a, b, Index(i)),
             popSeq' = -1, firstSeq' = i, pc' = "inspect", i' = i, stream' = stream,
             isClosing' = isClosing, isInit' = isInit
      PROVE  /\ slots' \in [Indexes -> Slot]
             /\ oldestSeq' \in SeqNum /\ lastPopTs' \in Timestamp
             /\ SlotsConsistent' /\ FreeReleasesAll' /\ ScanMode' /\ ScanFrame'
  <2>1. /\ slots' \in [Indexes -> Slot]
        /\ \A k \in Indexes : slots'[k] \in {slots[k], Empty}
    BY <1>7, DiscardPacketsResult DEF DiscardUpTo
  <2>2. Index(i) \in Indexes
    BY IndexType DEF TypeOK
  <2>3. oldestSeq' \in SeqNum /\ lastPopTs' \in Timestamp
    BY <1>7, <2>1, <2>2 DEF DiscardUpTo, Slot
  <2>4. SlotsConsistent'
    BY <1>7, <2>1, SlotsEmptied
  <2>5. FreeReleasesAll' /\ ScanMode' /\ ScanFrame'
    BY <1>7 DEF DiscardUpTo, FreeReleasesAll, ScanMode, ScanFrame, cur
  <2> QED
    BY <2>1, <2>3, <2>4, <2>5
<1>8. CASE ScanFrameReady
  <2> USE <1>8 DEF ScanFrameReady, netVars
  <2>0. popSeq \in SeqNum /\ prev \in SeqNum /\ i \in SeqNum
    BY DEF FrameIsReady, TypeOK
  <2>1. /\ slots' \in [Indexes -> Slot]
        /\ oldestSeq' \in SeqNum /\ lastPopTs' \in Timestamp
        /\ SlotsConsistent' /\ FreeReleasesAll' /\ ScanMode' /\ ScanFrame'
    BY <1>7, <2>0
  <2>2. \A s \in SeqRange(popSeq, prev) : GoodPacket(s) /\ Index(s) \in Indexes
    BY <2>0, SeqRangeType, IndexType DEF ScanFrame, FrameIsReady
  <2>3. \A m \in Frame(popSeq, prev) :
           m \in 1 .. Len(stream) /\ stream[m].kind # "bad" /\ stream[m].ts = lastPopTs
    BY <2>2, EmptyType DEF Frame, GoodPacket, SlotsConsistent
  <2>4. delivered \in Seq(SUBSET Nat) /\ Frame(popSeq, prev) \in SUBSET Nat
    BY <1>0, <2>3 DEF TypeOK
  <2>5. delivered' \in Seq(SUBSET Nat)
    BY <2>4 DEF OnFrameReady
  <2>6. TypeOK'
    BY <2>0, <2>1, <2>5 DEF TypeOK
  <2>7. FramesWellFormed'
    <3>1. CASE delivered' = delivered
      BY <3>1 DEF FramesWellFormed
    <3>2. CASE delivered' = Append(delivered, Frame(popSeq, prev))
      <4>1. Len(delivered') = Len(delivered) + 1
        BY <2>4, <3>2
      <4>2. \A k \in 1 .. Len(delivered) : delivered'[k] = delivered[k]
        BY <2>4, <3>2
      <4>3. delivered'[Len(delivered) + 1] = Frame(popSeq, prev)
        BY <2>4, <3>2
      <4> SUFFICES ASSUME NEW k \in 1 .. Len(delivered')
                   PROVE  /\ delivered'[k] \subseteq {n \in 1 .. Len(stream) : stream[n].kind # "bad"}
                          /\ \A x, y \in delivered'[k] : stream[x].ts = stream[y].ts
        BY DEF FramesWellFormed
      <4>4. CASE k \in 1 .. Len(delivered)
        BY <4>2, <4>4 DEF FramesWellFormed
      <4>5. CASE k = Len(delivered) + 1
        BY <2>3, <4>3, <4>5
      <4> QED
        BY <2>4, <4>1, <4>4, <4>5
    <3> QED
      BY <3>1, <3>2 DEF OnFrameReady
  <2> QED
    BY <2>1, <2>6, <2>7
<1>9. CASE ScanFrameExpired
  <2> USE <1>9 DEF ScanFrameExpired, netVars, obsVars
  <2>0. firstSeq \in SeqNum /\ prev \in SeqNum /\ i \in SeqNum
    BY DEF TypeOK
  <2>1. /\ slots' \in [Indexes -> Slot]
        /\ oldestSeq' \in SeqNum /\ lastPopTs' \in Timestamp
        /\ SlotsConsistent' /\ FreeReleasesAll' /\ ScanMode' /\ ScanFrame'
    BY <1>7, <2>0
  <2>2. TypeOK'
    BY <2>0, <2>1 DEF TypeOK
  <2>3. FramesWellFormed'
    BY DEF FramesWellFormed
  <2> QED
    BY <2>1, <2>2, <2>3
<1>10. CASE ScanFrameTolerated
  <2> USE <1>10 DEF ScanFrameTolerated, EndScan, netVars, bufVars, obsVars
  <2>1. TypeOK'
    BY DEF TypeOK
  <2>2. SlotsConsistent' /\ FramesWellFormed'
    BY DEF SlotsConsistent, FramesWellFormed
  <2>3. FreeReleasesAll' /\ ScanMode' /\ ScanFrame'
    BY DEF FreeReleasesAll, ScanMode, ScanFrame, TypeOK
  <2> QED
    BY <2>1, <2>2, <2>3
<1>11. CASE InspectGood
  <2> USE <1>11 DEF InspectGood, NextIteration, netVars, bufVars, obsVars
  <2>0. i \in SeqNum /\ Index(i) \in Indexes /\ GoodPacket(i)
    BY IndexType DEF TypeOK, PropertyOK, GoodPacket, ScanFrame, cur
  <2>1. TypeOK'
    BY IncType DEF TypeOK
  <2>2. SlotsConsistent' /\ FramesWellFormed'
    BY DEF SlotsConsistent, FramesWellFormed
  <2>3. FreeReleasesAll' /\ ScanMode'
    BY DEF FreeReleasesAll, ScanMode
  <2>4. \A s : GoodPacket(s)' <=> GoodPacket(s)
    BY DEF GoodPacket
  <2>5. ASSUME popSeq' # -1, isContinuous, NEW s \in SeqRange(popSeq', i)
        PROVE  GoodPacket(s)
    <3>1. CASE popSeq = -1
      BY <2>0, <2>5, <3>1, SeqRangeOne
    <3>2. CASE popSeq # -1
      <4>1. popSeq' = popSeq /\ popSeq \in SeqNum /\ prev \in SeqNum /\ Inc(prev) = i
        BY <3>2 DEF TypeOK, ScanFrame
      <4>2. s \in SeqRange(popSeq, prev) \cup {i}
        BY <2>5, <4>1, SeqRangeGrows
      <4> QED
        BY <2>0, <2>5, <3>2, <4>2 DEF ScanFrame
    <3> QED
      BY <3>1, <3>2
  <2>6. ScanFrame'
    BY <2>4, <2>5 DEF ScanFrame
  <2> QED
    BY <2>1, <2>2, <2>3, <2>6
<1>12. CASE InspectBad
  <2> USE <1>12 DEF InspectBad, netVars
  <2>0. i \in SeqNum /\ Index(i) \in Indexes /\ cur \in Slot
    BY IndexType DEF TypeOK, cur
  <2>1. DiscardPacket(cur) \in {cur, Empty} /\ DiscardPacket(cur) \in Slot
    BY <2>0, EmptyType DEF DiscardPacket
  <2>2. /\ slots' \in [Indexes -> Slot]
        /\ \A k \in Indexes : slots'[k] \in {slots[k], Empty}
    BY <2>0, <2>1 DEF TypeOK, cur
  <2>3. nullRead' \in BOOLEAN
    OBVIOUS
  <2>4. TypeOK'
    BY <2>0, <2>2, <2>3, IncType DEF TypeOK, EndScan, NextIteration
  <2>5. SlotsConsistent'
    BY <2>2, SlotsEmptied
  <2>6. FramesWellFormed'
    BY DEF FramesWellFormed
  <2>7. FreeReleasesAll' /\ ScanMode'
    BY DEF FreeReleasesAll, ScanMode, TypeOK, EndScan, NextIteration
  <2>8. ScanFrame'
    BY DEF ScanFrame, EndScan, NextIteration, TypeOK
  <2> QED
    BY <2>4, <2>5, <2>6, <2>7, <2>8
<1>13. CASE CloseSlot
  <2> USE <1>13 DEF CloseSlot, netVars, obsVars
  <2>1. /\ slots' \in [Indexes -> Slot]
        /\ \A k \in Indexes : slots'[k] \in {slots[k], Empty}
    BY DiscardPacketsResult DEF TypeOK
  <2>2. TypeOK'
    BY <2>1, IncType DEF TypeOK
  <2>3. SlotsConsistent' /\ FramesWellFormed'
    BY <2>1, SlotsEmptied DEF FramesWellFormed
  <2>4. FreeReleasesAll' /\ ScanMode' /\ ScanFrame'
    BY DEF FreeReleasesAll, ScanMode, ScanFrame
  <2> QED
    BY <2>2, <2>3, <2>4
<1>14. CASE CloseEnd
  <2> USE <1>14 DEF CloseEnd, netVars, obsVars
  <2>1. /\ slots' \in [Indexes -> Slot]
        /\ \A k \in Indexes : slots'[k] \in {slots[k], Empty}
    BY DiscardPacketsResult DEF TypeOK
  <2>2. TypeOK'
    BY <2>1 DEF TypeOK
  <2>3. SlotsConsistent' /\ FramesWellFormed'
    BY <2>1, SlotsEmptied DEF FramesWellFormed
  <2>4. FreeReleasesAll' /\ ScanMode' /\ ScanFrame'
    BY DEF FreeReleasesAll, ScanMode, ScanFrame
  <2> QED
    BY <2>2, <2>3, <2>4
<1>15. CASE Release
  <2> USE <1>15 DEF Release, netVars, obsVars
  <2>0. 0 \in SeqNum /\ MaxEntries - 1 \in SeqNum
    BY SizesAssumption DEF SeqNum
  <2>1. /\ slots' \in [Indexes -> Slot]
        /\ \A k \in Indexes : slots'[k] \in {slots[k], Empty}
        /\ \A s \in SeqRange(0, MaxEntries - 1) : slots'[Index(s)] = Empty
    BY <2>0, DiscardPacketsResult
  <2>2. \A k \in Indexes : slots'[k] = Empty
    BY <2>1, SeqRangeAll, IndexSmall
  <2>3. TypeOK'
    BY <2>1 DEF TypeOK
  <2>4. SlotsConsistent' /\ FramesWellFormed'
    BY <2>1, SlotsEmptied DEF FramesWellFormed
  <2>5. FreeReleasesAll' /\ ScanMode' /\ ScanFrame'
    BY <2>2 DEF FreeReleasesAll, ScanMode, ScanFrame
  <2> QED
    BY <2>3, <2>4, <2>5
<1>16. CASE UNCHANGED vars
  <2> USE <1>16 DEF vars, netVars, bufVars, scanVars, obsVars
  <2>1. TypeOK'
    BY DEF TypeOK
  <2>2. SlotsConsistent' /\ FramesWellFormed'
    BY DEF SlotsConsistent, FramesWellFormed
  <2>3. FreeReleasesAll' /\ ScanMode' /\ ScanFrame'
    BY DEF FreeReleasesAll, ScanMode, ScanFrame, GoodPacket, cur
  <2> QED
    BY <2>1, <2>2, <2>3
<1> QED
  BY <1>1, <1>2, <1>3, <1>4, <1>5, <1>6, <1>8, <1>9, <1>10, <1>11, <1>12, <1>13,
     <1>14, <1>15, <1>16 DEF Next, Parse

\* The inductive invariant holds in every reachable state of the receiver.
THEOREM ReceiverInvariant == Spec => []ReceiverInv
  BY InitReceiverInv, NextReceiverInv, PTL DEF Spec

\* Every variable keeps its type, the uint16_t and uint32_t fields their
\* width.
THEOREM TypeCorrect == Spec => []TypeOK
<1>1. ReceiverInv => TypeOK
  BY DEF ReceiverInv
<1> QED
  BY <1>1, ReceiverInvariant, PTL

\* Every entry of rtpPackets[] is empty or holds one accepted packet at its
\* own index.
THEOREM SlotsAreConsistent == Spec => []SlotsConsistent
<1>1. ReceiverInv => SlotsConsistent
  BY DEF ReceiverInv
<1> QED
  BY <1>1, ReceiverInvariant, PTL

\* After PeerConnectionJitterBuffer_Free no payload buffer is left.
THEOREM FreeLeavesNothing == Spec => []FreeReleasesAll
<1>1. ReceiverInv => FreeReleasesAll
  BY DEF ReceiverInv
<1> QED
  BY <1>1, ReceiverInvariant, PTL

\* Whatever the peer sends, each slot is empty or holds the one packet its index selects,
\* and all are empty once Free has returned (PeerConnectionJitterBuffer_Push, DiscardPacket,
\* PeerConnectionJitterBuffer_Free).
THEOREM SlotsAccountedAlways == Spec => []SlotsAccounted
  BY SlotsAreConsistent, FreeLeavesNothing, PTL DEF SlotsAccounted

\* Whatever the peer sends, a frame handed to the application has no hole,
\* no refused payload and one timestamp.
THEOREM DeliveredFramesWellFormed == Spec => []FramesWellFormed
<1>1. ReceiverInv => FramesWellFormed
  BY DEF ReceiverInv
<1> QED
  BY <1>1, ReceiverInvariant, PTL

(***************************************************************************)
(* Whole frames, in order, and nothing stale: for orderly streams that do  *)
(* not outrun the buffer.                                                  *)
(***************************************************************************)

\* Sequence numbers less than MaxEntries apart have different slots.
LEMMA IndexInjective ==
    ASSUME NEW a \in SeqNum, NEW b \in SeqNum, Index(a) = Index(b),
           a - b < MaxEntries, b - a < MaxEntries
    PROVE  a = b
<1> DEFINE d == (b \div MaxEntries) - (a \div MaxEntries)
<1>1. a \in Nat /\ b \in Nat /\ MaxEntries \in Nat \ {0}
  BY SizesAssumption DEF SeqNum
<1>2. /\ a = MaxEntries * (a \div MaxEntries) + (a % MaxEntries)
      /\ b = MaxEntries * (b \div MaxEntries) + (b % MaxEntries)
      /\ d \in Int
  BY <1>1
<1>3. MaxEntries * d = b - a
  BY <1>1, <1>2 DEF Index
<1> HIDE DEF d
<1>4. ASSUME d >= 1 PROVE FALSE
  <2>1. MaxEntries * d >= MaxEntries
    BY <1>1, <1>2, <1>4
  <2> QED
    BY <1>1, <1>3, <2>1
<1>5. ASSUME d <= -1 PROVE FALSE
  <2>1. MaxEntries * d <= -MaxEntries
    BY <1>1, <1>2, <1>5
  <2> QED
    BY <1>1, <1>3, <2>1
<1>6. d = 0
  BY <1>2, <1>4, <1>5
<1> QED
  BY <1>1, <1>3, <1>6

\* The packets of an orderly stream.
LEMMA OrderlyPackets ==
    ASSUME OrderlyStream(stream), TypeOK
    PROVE  /\ Len(stream) \in Nat
           /\ \A n \in 1 .. Len(stream) :
                 /\ stream[n].seq \in Nat /\ stream[n].seq = stream[1].seq + n - 1
                 /\ stream[1].seq \in Nat /\ stream[n].seq < SeqMod - 1
                 /\ stream[n].ts \in Nat /\ stream[n].ts > 0
                 /\ stream[n].ts + TsThreshold < TsMod
                 /\ Number(stream[n].seq) = n
                 /\ n > 1 /\ stream[n].kind = "start" => stream[n - 1].ts # stream[n].ts
           /\ \A m, n \in 1 .. Len(stream) : m <= n => stream[m].ts <= stream[n].ts
<1>1. Len(stream) \in Nat /\ \A n \in 1 .. Len(stream) : stream[n] \in Packet
  BY StreamType DEF TypeOK
<1>2. OrderlyStream(stream)
  OBVIOUS
<1>3. \A n \in 1 .. Len(stream) :
         stream[n].seq \in Nat /\ stream[n].ts \in Nat /\ stream[1].seq \in Nat
  <2>1. \A n \in 1 .. Len(stream) : stream[n].seq \in Nat /\ stream[n].ts \in Nat
    BY <1>1 DEF Packet, SeqNum, Timestamp
  <2> QED
    BY <1>1, <2>1
<1>4. \A n \in 1 .. Len(stream) :
         /\ stream[n].seq = stream[1].seq + n - 1 /\ stream[n].seq < SeqMod - 1
         /\ stream[n].ts > 0 /\ stream[n].ts + TsThreshold < TsMod
         /\ n > 1 /\ stream[n].kind = "start" => stream[n - 1].ts # stream[n].ts
  BY <1>2 DEF OrderlyStream
<1>5. \A m, n \in 1 .. Len(stream) : m <= n => stream[m].ts <= stream[n].ts
  BY <1>2 DEF OrderlyStream
<1>6. \A n \in 1 .. Len(stream) : Number(stream[n].seq) = n
  BY <1>3, <1>4 DEF Number
<1> QED
  BY <1>1, <1>3, <1>4, <1>5, <1>6

\* A held packet is the one of its number.
LEMMA HeldIsNumber ==
    ASSUME OrderlyStream(stream), TypeOK, SlotsConsistent, NEW k \in Indexes, slots[k].isPushed
    PROVE  /\ slots[k].seq \in Nat /\ slots[k].buf = Number(slots[k].seq)
           /\ slots[k].buf \in 1 .. Len(stream)
           /\ slots[k].seq = stream[1].seq + slots[k].buf - 1
           /\ slots[k].ts = stream[slots[k].buf].ts
           /\ slots[k].ts > 0 /\ Index(slots[k].seq) = k
<1>1. /\ slots[k].buf \in 1 .. Len(stream)
      /\ slots[k].seq = stream[slots[k].buf].seq /\ slots[k].ts = stream[slots[k].buf].ts
      /\ Index(slots[k].seq) = k
  BY DEF SlotsConsistent, Empty
<1> QED
  BY <1>1, OrderlyPackets

\* What the scan finds at the number s is the packet s.
LEMMA ScanFinds ==
    ASSUME OrderlyStream(stream), TypeOK, SlotsConsistent, HeadFrame, HeldPackets, InWindow, isStart,
           NEW s \in oldestSeq .. newestSeq, slots[Index(s)].isPushed
    PROVE  /\ s \in SeqNum /\ Index(s) \in Indexes
           /\ slots[Index(s)].seq = s /\ slots[Index(s)].buf = Number(s)
           /\ Number(s) \in 1 .. Len(stream)
           /\ slots[Index(s)].ts = stream[Number(s)].ts
<1> DEFINE q == slots[Index(s)].seq
<1>1. s \in SeqNum /\ oldestSeq \in SeqNum /\ newestSeq \in SeqNum
  BY SizesAssumption DEF TypeOK, SeqNum
<1>2. Index(s) \in Indexes
  BY <1>1, IndexType
<1>3. /\ q \in SeqNum /\ Index(q) = Index(s)
      /\ slots[Index(s)].buf = Number(q) /\ slots[Index(s)].buf \in 1 .. Len(stream)
      /\ slots[Index(s)].ts = stream[slots[Index(s)].buf].ts
  BY <1>2, HeldIsNumber DEF TypeOK, Slot
<1>4. q >= oldestSeq /\ q - oldestSeq < MaxEntries
  BY <1>2 DEF HeldPackets, InWindow
<1>5. newestSeq - oldestSeq < MaxEntries
  BY DEF InWindow
<1>6. q - s < MaxEntries /\ s - q < MaxEntries
  BY <1>1, <1>3, <1>4, <1>5, SizesAssumption DEF SeqNum
<1>7. q = s
  BY <1>1, <1>3, <1>6, IndexInjective
<1> QED
  BY <1>1, <1>2, <1>3, <1>7

\* A head and a newest number that belong to packets do not wrap.
LEMMA HeadTypes ==
    ASSUME OrderlyStream(stream), TypeOK, HeadFrame, isStart
    PROVE  /\ oldestSeq \in Nat /\ newestSeq \in Nat /\ newestSeq < SeqMod - 1
           /\ oldestSeq = stream[1].seq + Number(oldestSeq) - 1
           /\ newestSeq = stream[1].seq + Number(newestSeq) - 1
           /\ stream[1].seq \in Nat
           /\ Inc(newestSeq) = newestSeq + 1
           /\ lastPopTs \in Nat /\ lastPopTs > 0
<1>1. stream[1].seq \in Nat /\ oldestSeq \in Nat /\ newestSeq \in Nat
  BY OrderlyPackets DEF HeadFrame, TypeOK, SeqNum
<1>2. /\ stream[Number(newestSeq)].seq = stream[1].seq + Number(newestSeq) - 1
      /\ stream[Number(newestSeq)].seq < SeqMod - 1
      /\ lastPopTs \in Nat /\ lastPopTs > 0
  BY OrderlyPackets DEF HeadFrame
<1>3. newestSeq = stream[1].seq + Number(newestSeq) - 1
      /\ oldestSeq = stream[1].seq + Number(oldestSeq) - 1
  BY <1>1 DEF Number
<1> QED
  BY <1>1, <1>2, <1>3 DEF Inc

\* Expiry is monotonic: what is not older than a timestamp that has not expired, and not
\* newer than newestTs, has not expired.  An empty slot (timestamp 0) counts as expired
\* unless nothing has.
LEMMA ExpiryMonotonic ==
    ASSUME newestTs \in Timestamp, NEW t \in Nat, ~IsRtpPacketExpired(t),
           NEW u \in Nat, t <= u, u <= newestTs
    PROVE  ~IsRtpPacketExpired(u)
<1>1. newestTs \in Nat /\ (newestTs - Tolerance) % TsMod \in Nat
  BY SizesAssumption DEF Timestamp
<1> QED
  BY <1>1 DEF IsRtpPacketExpired

\* A packet with the newest number is accepted.
LEMMA AcceptsNewest == \A s \in SeqNum : ShouldAcceptPacket(s, s)
<1> SUFFICES ASSUME NEW s \in SeqNum PROVE ShouldAcceptPacket(s, s)
  OBVIOUS
<1> DEFINE h == MaxEntries \div 2
<1>1. h \in Nat /\ 2 * h <= MaxEntries /\ s \in Nat /\ s < SeqMod /\ SeqMod \in Nat \ {0}
  BY SizesAssumption DEF SeqNum
<1>2. h < SeqMod /\ 2 * h < SeqMod
  BY <1>1, SizesAssumption
<1> HIDE DEF h
<1>3. (s - h) % SeqMod = IF s >= h THEN s - h ELSE s - h + SeqMod
  BY <1>1, <1>2
<1>4. (s + h) % SeqMod = IF s + h < SeqMod THEN s + h ELSE s + h - SeqMod
  BY <1>1, <1>2
<1> QED
  BY <1>1, <1>2, <1>3, <1>4 DEF ShouldAcceptPacket, h

\* An empty slot is not pushed.
LEMMA EmptyNotPushed == ~Empty.isPushed /\ Empty.buf = 0 /\ Empty.ts = 0
  BY DEF Empty

\* What does not depend on the place of the scan survives emptying slots.
LEMMA WindowEmptied ==
    ASSUME WindowInv,
           UNCHANGED <<stream, pending, isStart, newestSeq, newestTs, oldestSeq, lastPopTs,
                       delivered, tardy, nullRead>>,
           \A k \in Indexes : slots'[k] \in {slots[k], Empty}
    PROVE  /\ HeadFrame' /\ HeldPackets' /\ DeliveredOnce' /\ FramesAsSent'
           /\ NoNullRead' /\ NoStaleSlot'
           /\ ~isStart' => \A k \in Indexes : slots'[k] = Empty
<1> USE DEF WindowInv
<1>1. HeadFrame'
  BY DEF HeadFrame, Number
<1>2. \A k \in Indexes : slots'[k].isPushed => slots'[k] = slots[k]
  BY EmptyNotPushed
<1>3. HeldPackets'
  BY <1>2 DEF HeldPackets
<1>4. DeliveredOnce'
  BY <1>2 DEF DeliveredOnce
<1>5. FramesAsSent'
  <2>1. \A n : FrameOf(n)' = FrameOf(n)
    BY DEF FrameOf
  <2>2. FramesComplete'
    BY <2>1 DEF FramesAsSent, FramesComplete
  <2>3. FramesInOrder'
    BY DEF FramesAsSent, FramesInOrder
  <2> QED
    BY <2>2, <2>3 DEF FramesAsSent
<1>6. NoNullRead' /\ NoStaleSlot'
  BY <1>3 DEF NothingLeft, NoNullRead, NoStaleSlot, HeldPackets
<1>7. ~isStart' => \A k \in Indexes : slots'[k] = Empty
  BY DEF BeforeStart
<1> QED
  BY <1>1, <1>3, <1>4, <1>5, <1>6, <1>7

\* The numbers from the head to the newest are a range that does not wrap.
LEMMA HeadRange ==
    ASSUME OrderlyStream(stream), TypeOK, HeadFrame, isStart
    PROVE  SeqRange(oldestSeq, newestSeq) = oldestSeq .. newestSeq
  BY HeadTypes DEF SeqRange, HeadFrame

\* A scan that stops leaves no expired frame behind the head, when a timestamp that no
\* packet from the stopping place on precedes has not expired.
LEMMA StopsClean ==
    ASSUME OrderlyStream(stream), TypeOK, SlotsConsistent, WindowInv, InWindow,
           isStart, pc \in {"scan", "inspect"},
           UNCHANGED <<newestSeq, newestTs, oldestSeq, lastPopTs>>,
           \A k \in Indexes : slots'[k] \in {slots[k], Empty},
           NEW t \in Nat, ~IsRtpPacketExpired(t),
           \A s \in i .. newestSeq : slots[Index(s)].isPushed => t <= slots[Index(s)].ts
    PROVE  NoExpiredFrameHeld'
<1> USE DEF WindowInv
<1>1. SeqRange(oldestSeq, newestSeq)' = oldestSeq .. newestSeq
  BY HeadRange DEF SeqRange
<1>2. \A u : IsRtpPacketExpired(u)' = IsRtpPacketExpired(u)
  BY DEF IsRtpPacketExpired
<1>3. ASSUME NEW s \in oldestSeq .. newestSeq, slots'[Index(s)].isPushed,
             slots'[Index(s)].ts # lastPopTs
      PROVE  ~IsRtpPacketExpired(slots'[Index(s)].ts)
  <2>1. s \in SeqNum /\ Index(s) \in Indexes
    <3>1. /\ oldestSeq \in Nat /\ newestSeq \in Nat /\ newestSeq < SeqMod - 1
          /\ SeqMod \in Nat
      BY HeadTypes, SizesAssumption
    <3>2. s \in SeqNum
      BY <3>1 DEF SeqNum
    <3> QED
      BY <3>2, IndexType
  <2>2. slots'[Index(s)] = slots[Index(s)] /\ slots[Index(s)].isPushed
    BY <1>3, <2>1, EmptyNotPushed
  <2>3. slots[Index(s)].seq = s
    BY <2>2, ScanFinds
  <2>4. i <= s
    BY <1>3, <2>1, <2>2, <2>3 DEF ScanPlace, TypeOK, SeqNum
  <2>5. t <= slots[Index(s)].ts
    BY <2>1, <2>2, <2>4 DEF TypeOK, SeqNum
  <2>6. slots[Index(s)].ts \in Nat /\ slots[Index(s)].ts <= newestTs
    BY <2>1, <2>2 DEF HeldPackets, TypeOK, Slot, Timestamp
  <2> QED
    BY <2>2, <2>5, <2>6, ExpiryMonotonic DEF TypeOK
<1> QED
  BY <1>1, <1>2, <1>3 DEF NoExpiredFrameHeld

\* The place of the scan when it goes on to the next number and the slot it leaves is
\* empty or holds a packet of the head frame.
LEMMA NextPlace ==
    ASSUME OrderlyStream(stream), ReceiverInv, WindowInv, InWindow,
           isStart, pc \in {"scan", "inspect"}, i # Inc(newestSeq) \/ pc = "inspect",
           NextIteration,
           UNCHANGED <<stream, isStart, newestSeq, oldestSeq, lastPopTs, firstSeq>>,
           \A k \in Indexes : slots'[k] \in {slots[k], Empty},
           slots'[Index(i)].isPushed => slots'[Index(i)].ts = lastPopTs,
           \/ popSeq' \in {popSeq, -1}
           \/ popSeq' = oldestSeq /\ stream[Number(oldestSeq)].kind = "start"
    PROVE  ScanPlace'
<1> USE DEF ReceiverInv, WindowInv
<1>1. /\ oldestSeq <= i /\ i <= newestSeq /\ i \in Nat /\ oldestSeq \in Nat /\ newestSeq \in Nat
      /\ i' = i + 1 /\ prev' = i
  BY HeadTypes DEF ScanPlace, NextIteration, TypeOK, SeqNum, Inc
<1>2. ASSUME NEW k \in Indexes, slots'[k].isPushed, slots'[k].seq < i + 1
      PROVE  slots'[k].ts = lastPopTs
  <2>1. slots'[k] = slots[k] /\ slots[k].isPushed
    BY <1>2, EmptyNotPushed
  <2>2. slots[k].seq \in Nat /\ Index(slots[k].seq) = k
    BY <2>1, HeldIsNumber
  <2>3. CASE slots[k].seq < i
    BY <2>1, <2>3 DEF ScanPlace
  <2>4. CASE slots[k].seq = i
    BY <1>2, <2>2, <2>4
  <2> QED
    BY <1>1, <1>2, <2>1, <2>2, <2>3, <2>4
<1>3. popSeq' # -1 => popSeq' = oldestSeq /\ stream[Number(oldestSeq)].kind = "start"
  BY DEF ScanPlace
<1>4. Number(oldestSeq)' = Number(oldestSeq)
  BY DEF Number
<1> QED
  BY <1>1, <1>2, <1>3, <1>4 DEF ScanPlace, NextIteration

\* The end of the loop.
LEMMA ScanEndWindow ==
    ASSUME OrderlyStream(stream), ReceiverInv, WindowInv, InWindow, ScanEnd PROVE WindowInv'
<1> USE DEF ReceiverInv, WindowInv
<1>1. /\ pc = "scan" /\ i = Inc(newestSeq) /\ EndScan /\ pc' \in {"close", "idle"}
      /\ UNCHANGED <<stream, pending, isInit, isStart, newestSeq, newestTs, oldestSeq,
                     lastPopTs, slots, delivered, tardy, nullRead>>
  BY DEF ScanEnd, EndScan, netVars, bufVars, obsVars
<1>2. /\ HeadFrame' /\ HeldPackets' /\ DeliveredOnce' /\ FramesAsSent'
      /\ NoNullRead' /\ NoStaleSlot'
  BY <1>1, WindowEmptied
<1>3. BeforeStart' /\ ScanPlace'
  BY <1>1 DEF BeforeStart, ScanPlace
<1>4. NoExpiredFrameHeld'
  <2>1. CASE isStart
    <3>1. newestTs \in Nat /\ ~IsRtpPacketExpired(newestTs)
      BY SizesAssumption DEF IsRtpPacketExpired, TypeOK, Timestamp
    <3>2. i .. newestSeq = {}
      BY <1>1, <2>1, HeadTypes
    <3> QED
      BY <1>1, <2>1, <3>1, <3>2, StopsClean
  <2>2. CASE ~isStart
    BY <1>1, <2>2 DEF NoExpiredFrameHeld
  <2> QED
    BY <2>1, <2>2
<1> QED
  BY <1>2, <1>3, <1>4 DEF NothingLeft

\* A hole in the buffer.
LEMMA ScanMissingWindow ==
    ASSUME OrderlyStream(stream), ReceiverInv, WindowInv, InWindow, ScanMissing PROVE WindowInv'
<1> USE DEF ReceiverInv, WindowInv
<1>1. /\ pc = "scan" /\ i # Inc(newestSeq) /\ ~cur.isPushed
      /\ UNCHANGED <<stream, pending, isInit, isStart, newestSeq, newestTs, oldestSeq,
                     lastPopTs, slots, popSeq, delivered, tardy, nullRead>>
  BY DEF ScanMissing, netVars, bufVars, obsVars
<1>2. /\ HeadFrame' /\ HeldPackets' /\ DeliveredOnce' /\ FramesAsSent'
      /\ NoNullRead' /\ NoStaleSlot'
  BY <1>1, WindowEmptied
<1>3. isStart
  BY <1>1 DEF BeforeStart
<1>4. cur.ts = 0
  BY <1>1, IndexType, EmptyNotPushed DEF cur, TypeOK, SlotsConsistent
<1>5. CASE EndScan /\ ~isClosing /\ ~IsRtpPacketExpired(cur.ts)
  <2>1. pc' = "idle"
    BY <1>5 DEF EndScan
  <2>2. BeforeStart' /\ ScanPlace'
    BY <1>1, <1>3, <2>1 DEF BeforeStart, ScanPlace
  <2>3. \A s \in i .. newestSeq : slots[Index(s)].isPushed => 0 <= slots[Index(s)].ts
    <3>1. \A s \in i .. newestSeq : s \in SeqNum
      <4>1. newestSeq < SeqMod /\ newestSeq \in Nat /\ i \in Nat /\ SeqMod \in Nat
        BY SizesAssumption DEF TypeOK, SeqNum
      <4> QED
        BY <4>1 DEF SeqNum
    <3> QED
      BY <3>1, IndexType DEF TypeOK, Slot, Timestamp
  <2>4. NoExpiredFrameHeld'
    BY <1>1, <1>3, <1>4, <1>5, <2>3, StopsClean
  <2> QED
    BY <1>2, <2>2, <2>4 DEF NothingLeft
<1>6. CASE InspectOrAdvance(cur.ts, lastPopTs) /\ UNCHANGED firstSeq
  <2>1. NextIteration
    BY <1>3, <1>4, <1>6, HeadTypes DEF InspectOrAdvance
  <2>2. ScanPlace'
    <3>1. /\ \A k \in Indexes : slots'[k] \in {slots[k], Empty}
          /\ ~slots'[Index(i)].isPushed /\ popSeq' \in {popSeq, -1}
      BY <1>1 DEF cur
    <3>2. UNCHANGED <<stream, isStart, newestSeq, oldestSeq, lastPopTs, firstSeq>>
      BY <1>1, <1>6
    <3> QED
      BY <1>1, <1>3, <2>1, <3>1, <3>2, NextPlace
  <2>3. BeforeStart' /\ NoExpiredFrameHeld'
    BY <1>1, <1>3, <2>1 DEF BeforeStart, NoExpiredFrameHeld, NextIteration
  <2> QED
    BY <1>2, <2>2, <2>3 DEF NothingLeft
<1> QED
  BY <1>5, <1>6 DEF ScanMissing

\* A packet of the head frame.
LEMMA ScanSameFrameWindow ==
    ASSUME OrderlyStream(stream), ReceiverInv, WindowInv, InWindow, ScanSameFrame PROVE WindowInv'
<1> USE DEF ReceiverInv, WindowInv
<1>1. /\ pc = "scan" /\ i # Inc(newestSeq) /\ pc' = "inspect"
      /\ UNCHANGED <<stream, pending, isInit, isStart, newestSeq, newestTs, oldestSeq,
                     lastPopTs, slots, delivered, tardy, nullRead, i, prev, firstSeq, popSeq>>
  BY DEF ScanSameFrame, netVars, bufVars, obsVars
<1>2. /\ HeadFrame' /\ HeldPackets' /\ DeliveredOnce' /\ FramesAsSent'
      /\ NoNullRead' /\ NoStaleSlot'
  BY <1>1, WindowEmptied
<1>3. isStart /\ Inc(newestSeq) = newestSeq + 1 /\ newestSeq \in Nat /\ i \in Nat
  BY <1>1, HeadTypes DEF BeforeStart, TypeOK, SeqNum
<1>4. i <= newestSeq
  BY <1>1, <1>3 DEF ScanPlace
<1>5. ScanPlace'
  BY <1>1, <1>3, <1>4 DEF ScanPlace, Number
<1>6. BeforeStart' /\ NoExpiredFrameHeld'
  BY <1>1, <1>3 DEF BeforeStart, NoExpiredFrameHeld
<1> QED
  BY <1>2, <1>5, <1>6 DEF NothingLeft

\* A held frame that is not ready and has not expired stops the scan.
LEMMA ScanFrameToleratedWindow ==
    ASSUME OrderlyStream(stream), ReceiverInv, WindowInv, InWindow, ScanFrameTolerated
    PROVE  WindowInv'
<1> USE DEF ReceiverInv, WindowInv
<1>1. /\ pc = "scan" /\ i # Inc(newestSeq) /\ EndScan /\ pc' \in {"close", "idle"}
      /\ cur.isPushed /\ ~IsRtpPacketExpired(cur.ts)
      /\ UNCHANGED <<stream, pending, isInit, isStart, newestSeq, newestTs, oldestSeq,
                     lastPopTs, slots, delivered, tardy, nullRead>>
  BY DEF ScanFrameTolerated, EndScan, netVars, bufVars, obsVars
<1>2. /\ HeadFrame' /\ HeldPackets' /\ DeliveredOnce' /\ FramesAsSent'
      /\ NoNullRead' /\ NoStaleSlot'
  BY <1>1, WindowEmptied
<1>3. /\ isStart /\ Inc(newestSeq) = newestSeq + 1 /\ newestSeq \in Nat
      /\ oldestSeq \in Nat /\ i \in Nat
  BY <1>1, HeadTypes DEF BeforeStart, TypeOK, SeqNum
<1>4. BeforeStart' /\ ScanPlace'
  BY <1>1, <1>3 DEF BeforeStart, ScanPlace
<1>5. oldestSeq <= i /\ i <= newestSeq
  BY <1>1, <1>3 DEF ScanPlace
<1>6. cur.ts = stream[Number(i)].ts /\ cur.ts \in Nat /\ Number(i) \in 1 .. Len(stream)
  BY <1>1, <1>3, <1>5, ScanFinds, OrderlyPackets DEF cur
<1>7. ASSUME NEW s \in i .. newestSeq, slots[Index(s)].isPushed
      PROVE  cur.ts <= slots[Index(s)].ts
  <2>1. s \in oldestSeq .. newestSeq /\ i <= s
    BY <1>3, <1>5
  <2>2. slots[Index(s)].ts = stream[Number(s)].ts /\ Number(s) \in 1 .. Len(stream)
    BY <1>3, <1>7, <2>1, ScanFinds
  <2>3. Number(i) <= Number(s)
    BY <1>3, <2>1, HeadTypes DEF Number
  <2> QED
    BY <1>6, <2>2, <2>3, OrderlyPackets
<1>8. NoExpiredFrameHeld'
  BY <1>1, <1>3, <1>6, <1>7, StopsClean
<1> QED
  BY <1>2, <1>4, <1>8 DEF NothingLeft

\* A good packet: it is the start of the frame only if it is the head.
LEMMA InspectGoodWindow ==
    ASSUME OrderlyStream(stream), ReceiverInv, WindowInv, InWindow, InspectGood PROVE WindowInv'
<1> USE DEF ReceiverInv, WindowInv
<1>1. /\ pc = "inspect" /\ PropertyOK(cur) /\ NextIteration
      /\ popSeq' = IF popSeq = -1 /\ stream[cur.buf].kind = "start" THEN i ELSE popSeq
      /\ UNCHANGED <<stream, pending, isInit, isStart, newestSeq, newestTs, oldestSeq,
                     lastPopTs, slots, delivered, tardy, nullRead, firstSeq>>
  BY DEF InspectGood, netVars, bufVars, obsVars
<1>2. /\ HeadFrame' /\ HeldPackets' /\ DeliveredOnce' /\ FramesAsSent'
      /\ NoNullRead' /\ NoStaleSlot'
  BY <1>1, WindowEmptied
<1>3. /\ isStart /\ newestSeq \in Nat /\ oldestSeq \in Nat /\ i \in Nat
      /\ oldestSeq <= i /\ i <= newestSeq
  BY <1>1, HeadTypes DEF BeforeStart, TypeOK, SeqNum, ScanPlace
<1>4. cur.ts = lastPopTs /\ lastPopTs > 0 /\ lastPopTs \in Nat
  BY <1>1, <1>3, HeadTypes DEF ScanFrame
<1>5. cur.isPushed
  BY <1>1, <1>3, <1>4, EmptyNotPushed, IndexType DEF cur, SlotsConsistent, TypeOK
<1>6. /\ cur.buf = Number(i) /\ Number(i) \in 1 .. Len(stream)
      /\ stream[Number(i)].ts = lastPopTs
  BY <1>3, <1>4, <1>5, ScanFinds DEF cur
<1>7. ASSUME stream[Number(i)].kind = "start" PROVE i = oldestSeq
  <2>1. SUFFICES ASSUME i > oldestSeq PROVE FALSE
    BY <1>3
  <2>2. /\ Number(i) - 1 \in 1 .. Len(stream) /\ Number(oldestSeq) \in 1 .. Len(stream)
        /\ Number(oldestSeq) <= Number(i) - 1 /\ Number(i) > 1
    <3>1. stream[1].seq \in Nat /\ Len(stream) \in Nat /\ Number(oldestSeq) \in 1 .. Len(stream)
      BY <1>3, HeadTypes, StreamType DEF HeadFrame, TypeOK
    <3>2. Number(oldestSeq) <= Number(i) - 1
      BY <1>3, <2>1, <3>1 DEF Number
    <3> QED
      BY <1>6, <3>1, <3>2
  <2>3. /\ stream[Number(oldestSeq)].ts <= stream[Number(i) - 1].ts
        /\ stream[Number(i) - 1].ts <= stream[Number(i)].ts
    BY <1>6, <2>2, OrderlyPackets
  <2>4. stream[Number(oldestSeq)].ts = lastPopTs
    BY <1>3 DEF HeadFrame
  <2>5. stream[Number(i) - 1].ts = stream[Number(i)].ts
    BY <1>4, <1>6, <2>2, <2>3, <2>4, OrderlyPackets
  <2> QED
    BY <1>6, <1>7, <2>2, <2>5, OrderlyPackets
<1>8. ScanPlace'
  <2>1. /\ \A k \in Indexes : slots'[k] \in {slots[k], Empty}
        /\ slots'[Index(i)].ts = lastPopTs
    BY <1>1, <1>4 DEF cur
  <2>2. \/ popSeq' \in {popSeq, -1}
        \/ popSeq' = oldestSeq /\ stream[Number(oldestSeq)].kind = "start"
    BY <1>1, <1>6, <1>7
  <2> QED
    BY <1>1, <1>3, <2>1, <2>2, NextPlace
<1>9. BeforeStart' /\ NoExpiredFrameHeld'
  BY <1>1, <1>3 DEF BeforeStart, NoExpiredFrameHeld, NextIteration
<1> QED
  BY <1>2, <1>8, <1>9 DEF NothingLeft

\* A bad packet: there is one, and it is discarded.
LEMMA InspectBadWindow ==
    ASSUME OrderlyStream(stream), ReceiverInv, WindowInv, InWindow, InspectBad PROVE WindowInv'
<1> USE DEF ReceiverInv, WindowInv
<1>1. /\ pc = "inspect"
      /\ nullRead' = (nullRead \/ cur.buf = 0)
      /\ slots' = [slots EXCEPT ![Index(i)] = DiscardPacket(cur)]
      /\ UNCHANGED <<stream, pending, isInit, isStart, newestSeq, newestTs, oldestSeq,
                     lastPopTs, popSeq, delivered, tardy>>
  BY DEF InspectBad, netVars, obsVars
<1>2. /\ isStart /\ newestSeq \in Nat /\ oldestSeq \in Nat /\ i \in SeqNum /\ i \in Nat
      /\ oldestSeq <= i /\ i <= newestSeq /\ Index(i) \in Indexes
  BY <1>1, HeadTypes, IndexType DEF BeforeStart, TypeOK, SeqNum, ScanPlace
<1>3. cur.ts = lastPopTs /\ lastPopTs > 0 /\ lastPopTs \in Nat
  BY <1>1, <1>2, HeadTypes DEF ScanFrame
<1>4. cur # Empty /\ cur.buf # 0
  BY <1>2, <1>3, EmptyNotPushed, StreamType DEF cur, SlotsConsistent, TypeOK
<1>5. /\ slots'[Index(i)] = Empty
      /\ \A k \in Indexes : slots'[k] \in {slots[k], Empty}
  BY <1>1, <1>2, <1>4 DEF DiscardPacket, TypeOK
<1>6. nullRead' = nullRead
  BY <1>1, <1>4 DEF TypeOK
<1>7. /\ HeadFrame' /\ HeldPackets' /\ DeliveredOnce' /\ FramesAsSent'
      /\ NoNullRead' /\ NoStaleSlot'
  BY <1>1, <1>5, <1>6, WindowEmptied
<1>8. CASE EndScan /\ ~isClosing /\ ~IsRtpPacketExpired(slots'[Index(i)].ts)
  <2>1. pc' = "idle"
    BY <1>8 DEF EndScan
  <2>2. BeforeStart' /\ ScanPlace'
    BY <1>1, <1>2, <2>1 DEF BeforeStart, ScanPlace
  <2>3. \A s \in i .. newestSeq : slots[Index(s)].isPushed => 0 <= slots[Index(s)].ts
    <3>1. \A s \in i .. newestSeq : s \in SeqNum
      <4>1. newestSeq < SeqMod /\ newestSeq \in Nat /\ i \in Nat /\ SeqMod \in Nat
        BY SizesAssumption DEF TypeOK, SeqNum
      <4> QED
        BY <4>1 DEF SeqNum
    <3> QED
      BY <3>1, IndexType DEF TypeOK, Slot, Timestamp
  <2>4. ~IsRtpPacketExpired(0)
    BY <1>5, <1>8, EmptyNotPushed
  <2>5. NoExpiredFrameHeld'
    BY <1>1, <1>2, <1>5, <2>3, <2>4, StopsClean
  <2> QED
    BY <1>7, <2>2, <2>5 DEF NothingLeft
<1>9. CASE NextIteration /\ UNCHANGED firstSeq
  <2>1. ScanPlace'
    <3>1. ~slots'[Index(i)].isPushed /\ popSeq' \in {popSeq, -1}
      BY <1>1, <1>5, EmptyNotPushed
    <3> QED
      BY <1>1, <1>2, <1>5, <1>9, <3>1, NextPlace
  <2>2. BeforeStart' /\ NoExpiredFrameHeld'
    BY <1>1, <1>2, <1>9 DEF BeforeStart, NoExpiredFrameHeld, NextIteration
  <2> QED
    BY <1>7, <2>1, <2>2 DEF NothingLeft
<1> QED
  BY <1>8, <1>9 DEF InspectBad

\* Discarding what is between the head and a held packet makes that packet the head.
LEMMA HeadMoves ==
    ASSUME OrderlyStream(stream), ReceiverInv, WindowInv, InWindow, isStart,
           i \in oldestSeq + 1 .. newestSeq, cur.isPushed,
           DiscardUpTo(oldestSeq, i - 1, Index(i))
    PROVE  /\ oldestSeq' = i /\ lastPopTs' = cur.ts
           /\ Number(i) \in 1 .. Len(stream) /\ cur.ts = stream[Number(i)].ts
           /\ \A k \in Indexes : slots'[k].isPushed => slots'[k] = slots[k] /\ slots[k].seq >= i
           /\ \A s \in oldestSeq .. i - 1 : ~slots'[Index(s)].isPushed
<1> USE DEF ReceiverInv, WindowInv
<1>1. /\ oldestSeq \in Nat /\ newestSeq \in Nat /\ i \in Nat /\ newestSeq < SeqMod - 1
      /\ oldestSeq \in SeqNum /\ i \in SeqNum /\ i - 1 \in SeqNum
  <2>1. /\ oldestSeq \in Nat /\ newestSeq \in Nat /\ newestSeq < SeqMod - 1 /\ SeqMod \in Nat
    BY HeadTypes, SizesAssumption
  <2> QED
    BY <2>1 DEF SeqNum
<1>2. SeqRange(oldestSeq, i - 1) = oldestSeq .. i - 1
  BY <1>1, SizesAssumption DEF SeqRange, Inc
<1>3. /\ \A k \in Indexes : slots'[k] \in {slots[k], Empty}
      /\ \A s \in oldestSeq .. i - 1 : slots'[Index(s)] = Empty
  BY <1>1, <1>2, DiscardPacketsResult DEF DiscardUpTo
<1>4. /\ slots[Index(i)].seq = i /\ Number(i) \in 1 .. Len(stream)
      /\ cur.ts = stream[Number(i)].ts /\ Index(i) \in Indexes
  BY <1>1, ScanFinds DEF cur
<1>5. ASSUME NEW s \in oldestSeq .. i - 1 PROVE Index(s) # Index(i)
  <2>1. s \in SeqNum /\ s \in Nat /\ s < i /\ i - s < MaxEntries
    BY <1>1, <1>5, SizesAssumption DEF InWindow, SeqNum
  <2>2. s - i < MaxEntries
    BY <1>1, <2>1, SizesAssumption
  <2> QED
    BY <1>1, <2>1, <2>2, IndexInjective
<1>6. slots'[Index(i)] = slots[Index(i)]
  <2>1. Index(i) \notin {Index(s) : s \in SeqRange(oldestSeq, i - 1)}
    <3>1. \A s \in SeqRange(oldestSeq, i - 1) : Index(s) # Index(i)
      BY <1>2, <1>5
    <3> QED
      BY <3>1
  <2> QED
    BY <1>4, <2>1 DEF DiscardUpTo, DiscardPackets
<1>7. oldestSeq' = i /\ lastPopTs' = cur.ts
  BY <1>4, <1>6 DEF DiscardUpTo, cur
<1>8. ASSUME NEW k \in Indexes, slots'[k].isPushed
      PROVE  slots'[k] = slots[k] /\ slots[k].seq >= i
  <2>1. slots'[k] = slots[k] /\ slots[k].isPushed
    BY <1>3, <1>8, EmptyNotPushed
  <2>2. slots[k].seq \in Nat /\ Index(slots[k].seq) = k /\ slots[k].seq >= oldestSeq
    BY <2>1, HeldIsNumber DEF HeldPackets
  <2>3. slots[k].seq \notin oldestSeq .. i - 1
    BY <1>3, <1>8, <2>2, EmptyNotPushed
  <2> QED
    BY <1>1, <2>1, <2>2, <2>3
<1>9. \A s \in oldestSeq .. i - 1 : ~slots'[Index(s)].isPushed
  BY <1>3, EmptyNotPushed
<1> QED
  BY <1>4, <1>7, <1>8, <1>9

\* A scan that finds a held packet of another frame is past the head.
LEMMA OtherFrame ==
    ASSUME OrderlyStream(stream), ReceiverInv, WindowInv, InWindow,
           pc = "scan", i # Inc(newestSeq), cur.isPushed, cur.ts # lastPopTs
    PROVE  /\ isStart /\ i \in oldestSeq + 1 .. newestSeq /\ prev = i - 1
           /\ firstSeq = oldestSeq
<1> USE DEF ReceiverInv, WindowInv
<1>1. isStart
  BY DEF BeforeStart
<1>2. /\ oldestSeq \in Nat /\ newestSeq \in Nat /\ i \in Nat /\ oldestSeq <= i /\ i <= newestSeq
      /\ firstSeq = oldestSeq /\ (i > oldestSeq => prev = i - 1)
  BY <1>1, HeadTypes DEF ScanPlace, TypeOK, SeqNum
<1>3. i # oldestSeq
  <2>1. SUFFICES ASSUME i = oldestSeq PROVE FALSE
    OBVIOUS
  <2>2. cur.ts = stream[Number(oldestSeq)].ts
    BY <1>1, <1>2, <2>1, ScanFinds DEF cur
  <2> QED
    BY <1>1, <2>2 DEF HeadFrame
<1> QED
  BY <1>1, <1>2, <1>3

\* The state of the window after the head has moved to the number the scan is at.
LEMMA WindowMoved ==
    ASSUME OrderlyStream(stream), ReceiverInv, WindowInv, InWindow,
           pc = "scan", i # Inc(newestSeq), cur.isPushed, cur.ts # lastPopTs,
           DiscardUpTo(oldestSeq, i - 1, Index(i)),
           popSeq' = -1, firstSeq' = i, pc' = "inspect",
           UNCHANGED <<stream, isStart, newestSeq, newestTs, i, prev, nullRead>>
    PROVE  /\ BeforeStart' /\ HeadFrame' /\ HeldPackets' /\ ScanPlace' /\ NothingLeft'
<1> USE DEF ReceiverInv, WindowInv
<1>1. isStart /\ i \in oldestSeq + 1 .. newestSeq /\ prev = i - 1
  BY OtherFrame
<1>2. /\ oldestSeq' = i /\ lastPopTs' = cur.ts
      /\ Number(i) \in 1 .. Len(stream) /\ cur.ts = stream[Number(i)].ts
      /\ \A k \in Indexes : slots'[k].isPushed => slots'[k] = slots[k] /\ slots[k].seq >= i
  BY <1>1, HeadMoves
<1>3. /\ oldestSeq \in Nat /\ newestSeq \in Nat /\ i \in Nat /\ i <= newestSeq
  BY <1>1, HeadTypes
<1>4. BeforeStart'
  BY <1>1 DEF BeforeStart
<1>5. HeadFrame'
  <2>1. \E m \in 1 .. Len(stream) : newestTs = stream[m].ts
    BY <1>1 DEF HeadFrame
  <2>2. Number(newestSeq) \in 1 .. Len(stream)
    BY <1>1 DEF HeadFrame
  <2>3. \A s : Number(s)' = Number(s)
    BY DEF Number
  <2> QED
    BY <1>1, <1>2, <1>3, <2>1, <2>2, <2>3 DEF HeadFrame
<1>6. HeldPackets'
  BY <1>2 DEF HeldPackets
<1>7. ScanPlace'
  <2>1. \A k \in Indexes : slots'[k].isPushed => ~(slots'[k].seq < i)
    <3>1. \A k \in Indexes : slots[k].seq \in Nat
      BY DEF TypeOK, Slot, SeqNum
    <3> QED
      BY <1>2, <1>3, <3>1
  <2> QED
    BY <1>1, <1>2, <1>3, <2>1 DEF ScanPlace
<1>8. NothingLeft'
  BY DEF NothingLeft, NoNullRead, NoExpiredFrameHeld, NoStaleSlot
<1> QED
  BY <1>4, <1>5, <1>6, <1>7, <1>8

\* The head frame is given up.
LEMMA ScanFrameExpiredWindow ==
    ASSUME OrderlyStream(stream), ReceiverInv, WindowInv, InWindow, ScanFrameExpired PROVE WindowInv'
<1> USE DEF ReceiverInv, WindowInv
<1>1. /\ pc = "scan" /\ i # Inc(newestSeq) /\ cur.isPushed /\ cur.ts # lastPopTs
      /\ DiscardUpTo(firstSeq, prev, Index(i))
      /\ popSeq' = -1 /\ firstSeq' = i /\ pc' = "inspect"
      /\ UNCHANGED <<stream, pending, isStart, newestSeq, newestTs, i, prev,
                     delivered, tardy, nullRead>>
  BY DEF ScanFrameExpired, netVars, obsVars
<1>2. isStart /\ i \in oldestSeq + 1 .. newestSeq /\ prev = i - 1 /\ firstSeq = oldestSeq
  BY <1>1, OtherFrame
<1>3. BeforeStart' /\ HeadFrame' /\ HeldPackets' /\ ScanPlace' /\ NothingLeft'
  BY <1>1, <1>2, WindowMoved
<1>4. \A k \in Indexes : slots'[k].isPushed => slots'[k] = slots[k]
  BY <1>1, <1>2, HeadMoves
<1>5. DeliveredOnce'
  BY <1>1, <1>4 DEF DeliveredOnce
<1>6. FramesAsSent'
  <2>1. \A n : FrameOf(n)' = FrameOf(n)
    BY <1>1 DEF FrameOf
  <2>2. FramesComplete'
    BY <1>1, <2>1 DEF FramesAsSent, FramesComplete
  <2>3. FramesInOrder'
    BY <1>1 DEF FramesAsSent, FramesInOrder
  <2> QED
    BY <2>2, <2>3 DEF FramesAsSent
<1> QED
  BY <1>3, <1>5, <1>6

\* Numbers of packets and sequence numbers are the same distance apart.
LEMMA NumberShift ==
    ASSUME stream[1].seq \in Nat, NEW a \in Nat, NEW b \in Nat
    PROVE  /\ Number(a) \in Int /\ Number(b) \in Int /\ Number(b) = Number(a) + (b - a)
           /\ \A s \in a .. b - 1 : Number(s) \in Number(a) .. Number(b) - 1
           /\ \A m \in Number(a) .. Number(b) - 1 :
                 \E s \in a .. b - 1 : Number(s) = m
<1>1. /\ Number(a) \in Int /\ Number(b) \in Int /\ Number(b) = Number(a) + (b - a)
      /\ \A s \in a .. b - 1 : Number(s) \in Number(a) .. Number(b) - 1
  BY DEF Number
<1>2. ASSUME NEW m \in Number(a) .. Number(b) - 1
      PROVE  \E s \in a .. b - 1 : Number(s) = m
  <2>1. m + stream[1].seq - 1 \in a .. b - 1 /\ Number(m + stream[1].seq - 1) = m
    BY <1>2 DEF Number
  <2> QED
    BY <2>1
<1> QED
  BY <1>1, <1>2

\* A ready frame is one whole frame of the stream, and it is what the head holds.
LEMMA ReadyIsWhole ==
    ASSUME OrderlyStream(stream), ReceiverInv, WindowInv, InWindow,
           pc = "scan", i # Inc(newestSeq), cur.isPushed, cur.ts # lastPopTs, FrameIsReady
    PROVE  /\ popSeq = oldestSeq
           /\ Frame(popSeq, prev) = Number(oldestSeq) .. Number(i) - 1
           /\ Frame(popSeq, prev) = FrameOf(Number(oldestSeq))
           /\ Number(oldestSeq) \in 1 .. Len(stream) /\ Number(i) \in 1 .. Len(stream)
           /\ \A s \in oldestSeq .. i - 1 :
                 /\ Index(s) \in Indexes /\ slots[Index(s)].isPushed
                 /\ slots[Index(s)].buf = Number(s)
<1> USE DEF ReceiverInv, WindowInv
<1>1. /\ isStart /\ i \in oldestSeq + 1 .. newestSeq /\ prev = i - 1
      /\ popSeq = oldestSeq /\ popSeq # -1 /\ isContinuous
      /\ stream[Number(oldestSeq)].kind = "start"
  BY OtherFrame DEF FrameIsReady, ScanPlace
<1>2. /\ oldestSeq \in Nat /\ newestSeq \in Nat /\ i \in Nat /\ newestSeq < SeqMod - 1
      /\ stream[1].seq \in Nat /\ lastPopTs \in Nat
  BY <1>1, HeadTypes
<1>3. SeqRange(popSeq, prev) = oldestSeq .. i - 1
  BY <1>1, <1>2, SizesAssumption DEF SeqRange, Inc
<1>4. ASSUME NEW s \in oldestSeq .. i - 1
      PROVE  /\ Index(s) \in Indexes /\ slots[Index(s)].isPushed
             /\ slots[Index(s)].buf = Number(s) /\ slots[Index(s)].ts = lastPopTs
             /\ Number(s) \in 1 .. Len(stream) /\ stream[Number(s)].ts = lastPopTs
  <2>1. s \in oldestSeq .. newestSeq /\ s \in SeqNum
    <3>1. newestSeq < SeqMod /\ SeqMod \in Nat
      BY <1>2, SizesAssumption
    <3> QED
      BY <1>1, <1>2, <1>4, <3>1 DEF SeqNum
  <2>2. GoodPacket(s)
    BY <1>1, <1>3, <1>4 DEF ScanFrame
  <2>3. Index(s) \in Indexes
    BY <2>1, IndexType
  <2>4. slots[Index(s)].isPushed /\ slots[Index(s)].ts = lastPopTs
    BY <2>2, <2>3, EmptyNotPushed DEF GoodPacket, SlotsConsistent
  <2> QED
    BY <1>1, <2>1, <2>3, <2>4, ScanFinds
<1>5. /\ Number(oldestSeq) \in 1 .. Len(stream) /\ Number(i) \in 1 .. Len(stream)
      /\ Number(i) = Number(oldestSeq) + (i - oldestSeq)
      /\ stream[Number(i)].ts # lastPopTs /\ stream[Number(oldestSeq)].ts = lastPopTs
  <2>1. cur.ts = stream[Number(i)].ts /\ Number(i) \in 1 .. Len(stream)
    BY <1>1, <1>2, ScanFinds DEF cur
  <2>2. Number(i) = Number(oldestSeq) + (i - oldestSeq)
    BY <1>2, NumberShift
  <2>3. cur.ts # lastPopTs /\ lastPopTs = stream[Number(oldestSeq)].ts
    BY <1>1 DEF HeadFrame
  <2> QED
    BY <1>1, <2>1, <2>2, <2>3 DEF HeadFrame
<1>6. Frame(popSeq, prev) = Number(oldestSeq) .. Number(i) - 1
  <2>1. Frame(popSeq, prev) = {Number(s) : s \in oldestSeq .. i - 1}
    BY <1>3, <1>4 DEF Frame
  <2>2. \A m \in Number(oldestSeq) .. Number(i) - 1 :
           \E s \in oldestSeq .. i - 1 : Number(s) = m
    BY <1>2, NumberShift
  <2>3. \A s \in oldestSeq .. i - 1 : Number(s) \in Number(oldestSeq) .. Number(i) - 1
    BY <1>2, NumberShift
  <2> QED
    BY <2>1, <2>2, <2>3
<1>7. ASSUME NEW m \in 1 .. Len(stream)
      PROVE  stream[m].ts = lastPopTs <=> m \in Number(oldestSeq) .. Number(i) - 1
  <2>0. m \in Nat /\ Len(stream) \in Nat /\ Number(i) \in Nat /\ Number(oldestSeq) \in Nat
        /\ \A n \in 1 .. Len(stream) : stream[n].ts \in Nat
    BY <1>5, <1>7, OrderlyPackets
  <2>1. CASE m < Number(oldestSeq)
    <3>1. /\ Number(oldestSeq) - 1 \in 1 .. Len(stream)
          /\ m <= Number(oldestSeq) - 1 /\ Number(oldestSeq) > 1
      BY <1>5, <1>7, <2>0, <2>1
    <3>2. stream[Number(oldestSeq) - 1].ts # lastPopTs
      BY <1>1, <1>5, <3>1, OrderlyPackets
    <3>3. /\ stream[m].ts <= stream[Number(oldestSeq) - 1].ts
          /\ stream[Number(oldestSeq) - 1].ts <= lastPopTs
      BY <1>5, <2>0, <3>1, OrderlyPackets
    <3> QED
      BY <1>2, <2>0, <2>1, <3>1, <3>2, <3>3
  <2>2. CASE m >= Number(i)
    <3>0. Number(oldestSeq) <= Number(i)
      <4>1. i - oldestSeq \in Nat
        BY <1>1, <1>2
      <4> QED
        BY <1>5, <2>0, <4>1, SMTT(30)
    <3>1. lastPopTs <= stream[Number(i)].ts /\ stream[Number(i)].ts <= stream[m].ts
      BY <1>5, <1>7, <2>2, <3>0, OrderlyPackets
    <3> QED
      BY <1>2, <1>5, <2>0, <2>2, <3>1, SMTT(30)
  <2>3. CASE m \in Number(oldestSeq) .. Number(i) - 1
    <3>1. \A n \in Number(oldestSeq) .. Number(i) - 1 :
             \E s \in oldestSeq .. i - 1 : Number(s) = n
      BY <1>2, NumberShift
    <3>2. PICK s \in oldestSeq .. i - 1 : Number(s) = m
      BY <2>3, <3>1
    <3> QED
      BY <1>4, <2>3, <3>2
  <2> QED
    BY <2>0, <2>1, <2>2, <2>3
<1>8. Frame(popSeq, prev) = FrameOf(Number(oldestSeq))
  <2>1. Number(oldestSeq) .. Number(i) - 1 \subseteq 1 .. Len(stream)
    BY <1>5, OrderlyPackets
  <2> QED
    BY <1>5, <1>6, <1>7, <2>1 DEF FrameOf
<1> QED
  BY <1>1, <1>4, <1>5, <1>6, <1>8

\* The head frame is delivered: it is whole, none of it was delivered before or is held
\* afterwards, and it is later than what was delivered unless one of its packets was tardy.
LEMMA ScanFrameReadyWindow ==
    ASSUME OrderlyStream(stream), ReceiverInv, WindowInv, InWindow, ScanFrameReady PROVE WindowInv'
<1> USE DEF ReceiverInv, WindowInv
<1>1. /\ pc = "scan" /\ i # Inc(newestSeq) /\ cur.isPushed /\ cur.ts # lastPopTs
      /\ FrameIsReady /\ OnFrameReady(popSeq, prev)
      /\ DiscardUpTo(popSeq, prev, Index(i))
      /\ popSeq' = -1 /\ firstSeq' = i /\ pc' = "inspect"
      /\ UNCHANGED <<stream, pending, isStart, newestSeq, newestTs, i, prev, tardy, nullRead>>
  BY DEF ScanFrameReady, netVars
<1>2. isStart /\ i \in oldestSeq + 1 .. newestSeq /\ prev = i - 1 /\ popSeq = oldestSeq
  BY <1>1, OtherFrame, ReadyIsWhole
<1>3. BeforeStart' /\ HeadFrame' /\ HeldPackets' /\ ScanPlace' /\ NothingLeft'
  BY <1>1, <1>2, WindowMoved
<1> DEFINE F == Frame(popSeq, prev)
<1>4. /\ F = Number(oldestSeq) .. Number(i) - 1 /\ F = FrameOf(Number(oldestSeq))
      /\ Number(oldestSeq) \in 1 .. Len(stream) /\ Number(i) \in 1 .. Len(stream)
      /\ \A s \in oldestSeq .. i - 1 :
            /\ Index(s) \in Indexes /\ slots[Index(s)].isPushed
            /\ slots[Index(s)].buf = Number(s)
  BY <1>1, ReadyIsWhole
<1>5. /\ oldestSeq \in Nat /\ i \in Nat /\ stream[1].seq \in Nat
  BY <1>2, HeadTypes
<1>6. ASSUME NEW m \in F
      PROVE  \E x \in Indexes : slots[x].isPushed /\ slots[x].buf = m
  <2>1. \A n \in Number(oldestSeq) .. Number(i) - 1 :
           \E s \in oldestSeq .. i - 1 : Number(s) = n
    BY <1>5, NumberShift
  <2>2. PICK s \in oldestSeq .. i - 1 : Number(s) = m
    BY <1>4, <1>6, <2>1
  <2> QED
    BY <1>4, <2>2
<1>7. ASSUME NEW m \in F
      PROVE  /\ m \notin pending
             /\ \A k \in 1 .. Len(delivered) : m \notin delivered[k]
             /\ m \in tardy \/ \A k \in 1 .. Len(delivered) : \A d \in delivered[k] : d < m
  BY <1>6, <1>7 DEF DeliveredOnce
<1>8. ASSUME NEW x \in Indexes, slots'[x].isPushed
      PROVE  /\ slots[x].isPushed /\ slots'[x] = slots[x]
             /\ \A m \in F : m < slots[x].buf
  <2>1. slots'[x] = slots[x] /\ slots[x].seq >= i
    BY <1>1, <1>2, <1>8, HeadMoves
  <2>2. /\ slots[x].seq \in Nat /\ slots[x].buf = Number(slots[x].seq)
    BY <1>8, <2>1, HeldIsNumber
  <2>3. Number(i) <= slots[x].buf /\ slots[x].buf \in Int /\ Number(i) \in Int
    BY <1>5, <2>1, <2>2 DEF Number
  <2> QED
    BY <1>4, <1>5, <1>8, <2>1, <2>3
<1>9. delivered \in Seq(SUBSET Nat) /\ delivered' \in Seq(SUBSET Nat)
  <2>1. F \in SUBSET Nat
    BY <1>4
  <2> QED
    BY <1>1, <2>1 DEF OnFrameReady, TypeOK
<1>10. /\ \A n : FrameOf(n)' = FrameOf(n)
  BY <1>1 DEF FrameOf
<1>11. CASE delivered' = delivered
  <2>1. DeliveredOnce'
    BY <1>1, <1>8, <1>11 DEF DeliveredOnce
  <2>2. FramesComplete'
    BY <1>1, <1>10, <1>11 DEF FramesAsSent, FramesComplete
  <2>3. FramesInOrder'
    BY <1>1, <1>11 DEF FramesAsSent, FramesInOrder
  <2> QED
    BY <1>3, <2>1, <2>2, <2>3 DEF FramesAsSent
<1>12. CASE delivered' = Append(delivered, F)
  <2>1. /\ Len(delivered) \in Nat /\ Len(delivered') = Len(delivered) + 1
        /\ \A k \in 1 .. Len(delivered) : delivered'[k] = delivered[k]
        /\ delivered'[Len(delivered) + 1] = F
    <3>1. F \in SUBSET Nat
      BY <1>4
    <3> HIDE DEF F
    <3> QED
      BY <1>9, <1>12, <3>1
  <2>2. \A k \in 1 .. Len(delivered') : k \in 1 .. Len(delivered) \/ k = Len(delivered) + 1
    BY <2>1
  <2> HIDE DEF F
  <2>3. FramesComplete'
    BY <1>1, <1>4, <1>10, <2>1, <2>2 DEF FramesAsSent, FramesComplete
  <2>4. ASSUME NEW j \in 1 .. Len(delivered'), NEW k \in 1 .. Len(delivered'), j < k
        PROVE  /\ delivered'[j] \cap delivered'[k] = {}
               /\ \/ \A a \in delivered'[j], b \in delivered'[k] : a < b
                  \/ delivered'[k] \cap tardy # {}
    <3>1. j \in 1 .. Len(delivered)
      BY <2>1, <2>2, <2>4
    <3>2. CASE k \in 1 .. Len(delivered)
      BY <2>1, <2>4, <3>1, <3>2 DEF FramesAsSent, FramesInOrder
    <3>3. CASE k = Len(delivered) + 1
      BY <1>7, <2>1, <3>1, <3>3
    <3> QED
      BY <2>2, <3>2, <3>3
  <2>5. FramesInOrder'
    BY <1>1, <2>4 DEF FramesInOrder
  <2>6. \A k \in 1 .. Len(delivered') : delivered'[k] \cap pending = {}
    BY <1>7, <2>1, <2>2 DEF DeliveredOnce
  <2>7. ASSUME NEW x \in Indexes, slots'[x].isPushed
        PROVE  LET m == slots'[x].buf
               IN  /\ m \notin pending
                   /\ \A k \in 1 .. Len(delivered') : m \notin delivered'[k]
                   /\ m \in tardy \/ \A k \in 1 .. Len(delivered') : \A d \in delivered'[k] : d < m
    <3>1. /\ slots[x].isPushed /\ slots'[x] = slots[x]
          /\ \A m \in F : m < slots[x].buf
      BY <1>8, <2>7
    <3>2. slots[x].buf \notin F
      <4>1. F \in SUBSET Nat
        BY <1>4 DEF F
      <4> QED
        BY <3>1, <4>1
    <3> QED
      BY <2>1, <2>2, <3>1, <3>2 DEF DeliveredOnce
  <2>8. DeliveredOnce'
    BY <1>1, <2>6, <2>7 DEF DeliveredOnce
  <2> QED
    BY <1>3, <2>3, <2>5, <2>8 DEF FramesAsSent
<1> QED
  BY <1>1, <1>11, <1>12 DEF OnFrameReady

\* A receiver is set up: nothing is held.
LEMMA CreateWindow ==
    ASSUME WindowInv, NEW ok \in BOOLEAN, PeerConnectionJitterBuffer_Create(ok)
    PROVE  WindowInv'
<1> USE DEF WindowInv
<1>1. /\ pc = "idle" /\ ~isStart'
      /\ oldestSeq' = 0 /\ newestSeq' = SeqMod - 1 /\ lastPopTs' = TsMod - 1
      /\ slots' = [k \in Indexes |-> Empty]
      /\ UNCHANGED <<stream, pending, pc, delivered, tardy, nullRead>>
  BY DEF PeerConnectionJitterBuffer_Create, netVars, scanVars, obsVars
<1>2. \A k \in Indexes : slots'[k] = Empty /\ ~slots'[k].isPushed
  BY <1>1, EmptyNotPushed
<1>3. BeforeStart' /\ HeadFrame' /\ ScanPlace'
  BY <1>1, <1>2 DEF BeforeStart, HeadFrame, ScanPlace
<1>4. HeldPackets' /\ DeliveredOnce'
  BY <1>1, <1>2 DEF HeldPackets, DeliveredOnce
<1>5. FramesAsSent'
  <2>1. \A n : FrameOf(n)' = FrameOf(n)
    BY <1>1 DEF FrameOf
  <2>2. FramesComplete'
    BY <1>1, <2>1 DEF FramesAsSent, FramesComplete
  <2>3. FramesInOrder'
    BY <1>1 DEF FramesAsSent, FramesInOrder
  <2> QED
    BY <2>2, <2>3 DEF FramesAsSent
<1>6. NothingLeft'
  BY <1>1, <1>2 DEF NothingLeft, NoNullRead, NoExpiredFrameHeld, NoStaleSlot
<1> QED
  BY <1>3, <1>4, <1>5, <1>6

\* What the arrival of packet n does to what was delivered and what is held: n is not
\* delivered yet, and it is later than everything delivered or tardy.
LEMMA ArrivalWindow ==
    ASSUME WindowInv, NEW n \in pending, PeerConnectionSrtp_HandleSrtpPacket(n),
           \A k \in Indexes :
               slots'[k].isPushed => slots'[k] = slots[k] \/ slots'[k].buf = n
    PROVE  /\ n \in Nat /\ delivered \in Seq(SUBSET Nat) => DeliveredOnce'
           /\ FramesAsSent' /\ NoNullRead'
<1> USE DEF WindowInv
<1>1. /\ pending' = pending \ {n}
      /\ tardy' = IF \E k \in 1 .. Len(delivered) : \E m \in delivered[k] : m > n
                  THEN tardy \cup {n} ELSE tardy
      /\ UNCHANGED <<stream, delivered, nullRead>>
  BY DEF PeerConnectionSrtp_HandleSrtpPacket
<1>2. tardy \subseteq tardy'
  BY <1>1
<1>3. FramesAsSent'
  <2>1. \A m : FrameOf(m)' = FrameOf(m)
    BY <1>1 DEF FrameOf
  <2>2. FramesComplete'
    BY <1>1, <2>1 DEF FramesAsSent, FramesComplete
  <2>3. FramesInOrder'
    BY <1>1, <1>2 DEF FramesAsSent, FramesInOrder
  <2> QED
    BY <2>2, <2>3 DEF FramesAsSent
<1>4. NoNullRead'
  BY <1>1 DEF NothingLeft, NoNullRead
<1>5. ASSUME n \in Nat, delivered \in Seq(SUBSET Nat) PROVE DeliveredOnce'
  <2>1. \A k \in 1 .. Len(delivered) : n \notin delivered[k] /\ delivered[k] \subseteq Nat
    BY <1>5 DEF DeliveredOnce
  <2>2. n \in tardy' \/ \A k \in 1 .. Len(delivered) : \A d \in delivered[k] : d < n
    BY <1>1, <1>5, <2>1
  <2>3. ASSUME NEW x \in Indexes, slots'[x].isPushed
        PROVE  LET m == slots'[x].buf
               IN  /\ m \notin pending'
                   /\ \A k \in 1 .. Len(delivered) : m \notin delivered[k]
                   /\ m \in tardy' \/ \A k \in 1 .. Len(delivered) : \A d \in delivered[k] : d < m
    <3>1. CASE slots'[x] = slots[x]
      BY <1>1, <1>2, <2>3, <3>1 DEF DeliveredOnce
    <3>2. CASE slots'[x].buf = n
      BY <1>1, <2>1, <2>2, <3>2
    <3> QED
      BY <2>3, <3>1, <3>2
  <2> QED
    BY <1>1, <2>3 DEF DeliveredOnce
<1> QED
  BY <1>3, <1>4, <1>5

\* A packet that arrives: it is accepted, refused by the window, or dropped before.
LEMMA HandleSrtpPacketWindow ==
    ASSUME OrderlyStream(stream), ReceiverInv, ReceiverInv', WindowInv, NEW n \in pending,
           PeerConnectionSrtp_HandleSrtpPacket(n)
    PROVE  WindowInv'
<1> USE DEF ReceiverInv, WindowInv
<1>1. /\ pc = "idle" /\ stream' = stream
      /\ n \in 1 .. Len(stream) /\ n \in Nat /\ delivered \in Seq(SUBSET Nat)
  BY StreamType DEF PeerConnectionSrtp_HandleSrtpPacket, TypeOK
<1>2. CASE AllocateRefused(n)
  <2>1. /\ UNCHANGED <<pc, isInit, isStart, newestSeq, newestTs, oldestSeq, lastPopTs, slots, i>>
    BY <1>2 DEF AllocateRefused, bufVars, scanVars
  <2>2. DeliveredOnce' /\ FramesAsSent' /\ NoNullRead'
    BY <1>1, <2>1, ArrivalWindow
  <2>3. BeforeStart' /\ HeadFrame' /\ HeldPackets' /\ ScanPlace'
    BY <1>1, <2>1 DEF BeforeStart, HeadFrame, HeldPackets, ScanPlace, Number
  <2>4. NoExpiredFrameHeld' /\ NoStaleSlot'
    BY <1>1, <2>1 DEF NothingLeft, NoExpiredFrameHeld, NoStaleSlot, IsRtpPacketExpired
  <2> QED
    BY <2>2, <2>3, <2>4 DEF NothingLeft
<1>3. CASE PushPacket(n)
  <2> DEFINE p == stream[n]
             newest == IF isStart THEN newestSeq ELSE p.seq
             newestT == IF isStart THEN newestTs ELSE p.ts
             oldest == IF isStart THEN oldestSeq ELSE p.seq
             new == [buf |-> n, isPushed |-> TRUE, seq |-> p.seq, ts |-> p.ts]
  <2>0. /\ p.seq \in SeqNum /\ p.seq \in Nat /\ p.ts \in Timestamp /\ p.ts \in Nat
        /\ Index(p.seq) \in Indexes /\ Number(p.seq) = n
        /\ p.ts + TsThreshold < TsMod /\ TsMod \in Nat /\ TsThreshold \in Nat
        /\ p.seq = stream[1].seq + n - 1 /\ stream[1].seq \in Nat
    <3>1. p \in Packet
      BY <1>1, StreamType DEF TypeOK
    <3> QED
      BY <1>1, <3>1, IndexType, OrderlyPackets, SizesAssumption DEF Packet, SeqNum, Timestamp
  <2>1. isInit /\ isInit' = isInit /\ isStart'
    BY <1>3 DEF PushPacket
  <2>2. CASE ShouldAcceptPacket(newest, p.seq)
    <3>1. /\ slots' = [slots EXCEPT ![Index(p.seq)] = new]
          /\ newestSeq' = NewestSeqAfter(newest, oldest, p.seq)
          /\ oldestSeq' = OldestSeqAfter(oldest, p.seq)
          /\ newestTs' = NewestTsAfter(newestT, p.ts)
          /\ lastPopTs' = LastPopTsAfter(lastPopTs, p.ts)
          /\ pc' = "scan" /\ i' = oldestSeq' /\ prev' = oldestSeq' /\ firstSeq' = oldestSeq'
          /\ popSeq' = -1
      BY <1>3, <2>2 DEF PushPacket, StartScan
    <3>2. /\ slots'[Index(p.seq)] = new
          /\ \A k \in Indexes : k # Index(p.seq) => slots'[k] = slots[k]
      BY <2>0, <3>1 DEF TypeOK
    <3>3. DeliveredOnce' /\ FramesAsSent' /\ NoNullRead'
      BY <1>1, <3>2, ArrivalWindow
    <3>4. /\ oldestSeq' <= p.seq /\ oldestSeq' \in Nat /\ newestSeq' \in Nat
          /\ oldestSeq' <= newestSeq'
          /\ isStart => oldestSeq' <= oldestSeq /\ oldestSeq' \in {oldestSeq, p.seq}
                        /\ newestSeq' \in {newestSeq, p.seq}
          /\ ~isStart => oldestSeq' = p.seq /\ newestSeq' = p.seq
      <4>1. CASE isStart
        <5>1. oldestSeq \in Nat /\ newestSeq \in Nat /\ oldestSeq <= newestSeq
          BY <4>1, HeadTypes DEF HeadFrame
        <5>2. newestSeq' \in {newestSeq, p.seq}
          BY <3>1, <4>1 DEF NewestSeqAfter, NewestBlock
        <5>3. oldestSeq' = IF p.seq < oldestSeq THEN p.seq ELSE oldestSeq
          BY <3>1, <4>1 DEF OldestSeqAfter
        <5> QED
          BY <2>0, <4>1, <5>1, <5>2, <5>3
      <4>2. CASE ~isStart
        BY <2>0, <3>1, <4>2 DEF NewestSeqAfter, NewestBlock, OldestSeqAfter
      <4> QED
        BY <4>1, <4>2
    <3>5. /\ p.ts <= newestTs' /\ newestTs' \in Nat
          /\ isStart => newestTs <= newestTs'
      <4>1. CASE isStart
        <5>1. newestTs' = NewestTsAfter(newestTs, p.ts)
          BY <3>1, <4>1
        <5>2. newestTs \in Nat /\ newestTs + TsThreshold < TsMod
          BY <4>1, OrderlyPackets DEF HeadFrame
        <5>3. (newestTs + TsThreshold) % TsMod = newestTs + TsThreshold
          BY <2>0, <5>2
        <5> QED
          BY <2>0, <5>1, <5>2, <5>3 DEF NewestTsAfter
      <4>2. CASE ~isStart
        BY <2>0, <3>1, <4>2 DEF NewestTsAfter
      <4> QED
        BY <4>1, <4>2
    <3>6. lastPopTs' = stream[Number(oldestSeq')].ts /\ Number(oldestSeq') \in 1 .. Len(stream)
      <4>1. CASE ~isStart
        <5>1. lastPopTs = TsMod - 1
          BY <2>1, <4>1 DEF BeforeStart
        <5>2. lastPopTs' = p.ts
          BY <2>0, <3>1, <5>1 DEF LastPopTsAfter
        <5> QED
          BY <1>1, <2>0, <3>4, <4>1, <5>2
      <4>2. CASE isStart
        <5>1. /\ lastPopTs = stream[Number(oldestSeq)].ts /\ lastPopTs \in Nat
              /\ Number(oldestSeq) \in 1 .. Len(stream) /\ oldestSeq \in Nat
              /\ oldestSeq = stream[1].seq + Number(oldestSeq) - 1
          BY <4>2, HeadTypes DEF HeadFrame
        <5>2. CASE p.seq < oldestSeq
          <6>1. oldestSeq' = p.seq
            BY <3>1, <4>2, <5>2 DEF OldestSeqAfter
          <6>2. n <= Number(oldestSeq)
            BY <1>1, <2>0, <5>1, <5>2, SMTT(30)
          <6>3. p.ts <= lastPopTs
            BY <1>1, <5>1, <6>2, OrderlyPackets
          <6>4. lastPopTs' = p.ts
            BY <2>0, <3>1, <5>1, <6>3 DEF LastPopTsAfter
          <6> QED
            BY <1>1, <2>0, <6>1, <6>4
        <5>3. CASE ~(p.seq < oldestSeq)
          <6>1. oldestSeq' = oldestSeq
            BY <3>1, <4>2, <5>3 DEF OldestSeqAfter
          <6>2. Number(oldestSeq) <= n
            BY <1>1, <2>0, <5>1, <5>3
          <6>3. lastPopTs <= p.ts
            BY <1>1, <5>1, <6>2, OrderlyPackets
          <6>4. lastPopTs' = lastPopTs
            BY <2>0, <3>1, <5>1, <6>3 DEF LastPopTsAfter
          <6> QED
            BY <5>1, <6>1, <6>4
        <5> QED
          BY <5>2, <5>3
      <4> QED
        BY <4>1, <4>2
    <3>7. HeadFrame'
      <4>1. Number(newestSeq') \in 1 .. Len(stream)
        BY <1>1, <2>0, <3>4 DEF HeadFrame
      <4>2. \E m \in 1 .. Len(stream) : newestTs' = stream[m].ts
        <5>1. CASE isStart
          BY <1>1, <3>1, <5>1 DEF HeadFrame, NewestTsAfter
        <5>2. CASE ~isStart
          BY <1>1, <3>1, <5>2 DEF NewestTsAfter
        <5> QED
          BY <5>1, <5>2
      <4>3. Number(newestSeq)' = Number(newestSeq') /\ Number(oldestSeq)' = Number(oldestSeq')
        BY <1>1 DEF Number
      <4> QED
        BY <1>1, <3>4, <3>6, <4>1, <4>2, <4>3 DEF HeadFrame
    <3>8. HeldPackets'
      <4> SUFFICES ASSUME NEW k \in Indexes, slots'[k].isPushed
                   PROVE  slots'[k].seq >= oldestSeq' /\ slots'[k].ts <= newestTs'
        BY DEF HeldPackets
      <4>1. CASE k = Index(p.seq)
        BY <2>0, <3>2, <3>4, <3>5, <4>1
      <4>2. CASE k # Index(p.seq)
        <5>1. slots'[k] = slots[k] /\ slots[k].isPushed
          BY <3>2, <4>2
        <5>2. isStart
          BY <5>1, EmptyNotPushed DEF BeforeStart
        <5>3. slots[k].seq >= oldestSeq /\ slots[k].ts <= newestTs
          BY <5>1 DEF HeldPackets
        <5>4. /\ slots[k].seq \in Nat /\ slots[k].ts \in Nat
              /\ oldestSeq \in Nat /\ newestTs \in Nat
          <6>1. slots[k] \in Slot /\ oldestSeq \in SeqNum /\ newestTs \in Timestamp
            BY DEF TypeOK
          <6> QED
            BY <6>1 DEF Slot, SeqNum, Timestamp
        <5> QED
          BY <3>4, <3>5, <5>1, <5>2, <5>3, <5>4
      <4> QED
        BY <4>1, <4>2
    <3>9. ScanPlace'
      <4>1. \A k \in Indexes : slots'[k].isPushed => ~(slots'[k].seq < i')
        <5>1. \A k \in Indexes : slots'[k].seq \in Nat
          BY DEF TypeOK, Slot, SeqNum
        <5> QED
          BY <3>1, <3>4, <3>8, <5>1 DEF HeldPackets
      <4> QED
        BY <3>1, <3>4, <4>1 DEF ScanPlace
    <3>10. BeforeStart' /\ NoExpiredFrameHeld' /\ NoStaleSlot'
      BY <2>1, <3>1 DEF BeforeStart, NoExpiredFrameHeld, NoStaleSlot
    <3> QED
      BY <3>3, <3>7, <3>8, <3>9, <3>10 DEF NothingLeft
  <2>3. CASE ~ShouldAcceptPacket(newest, p.seq)
    <3>1. isStart
      BY <2>0, <2>3, AcceptsNewest
    <3>2. /\ slots' = [slots EXCEPT ![Index(p.seq)] = Empty]
          /\ newestSeq' = newestSeq /\ newestTs' = newestTs /\ oldestSeq' = oldestSeq
          /\ lastPopTs' = lastPopTs /\ UNCHANGED <<pc, i>>
      BY <1>3, <2>3, <3>1 DEF PushPacket, scanVars
    <3>3. /\ \A k \in Indexes : slots'[k] \in {slots[k], Empty}
          /\ \A k \in Indexes : slots'[k].isPushed => slots'[k] = slots[k]
      BY <2>0, <3>2, EmptyNotPushed DEF TypeOK
    <3>4. DeliveredOnce' /\ FramesAsSent' /\ NoNullRead'
      BY <1>1, <3>3, ArrivalWindow
    <3>5. BeforeStart' /\ HeadFrame' /\ HeldPackets' /\ ScanPlace'
      BY <1>1, <2>1, <3>1, <3>2, <3>3 DEF BeforeStart, HeadFrame, HeldPackets, ScanPlace, Number
    <3>6. NoStaleSlot'
      BY <3>5 DEF HeldPackets, NoStaleSlot
    <3>7. NoExpiredFrameHeld'
      <4>1. \A u : IsRtpPacketExpired(u)' = IsRtpPacketExpired(u)
        BY <3>2 DEF IsRtpPacketExpired
      <4>2. \A s \in SeqRange(oldestSeq, newestSeq) : Index(s) \in Indexes
        BY SeqRangeType, IndexType DEF TypeOK
      <4>3. SeqRange(oldestSeq, newestSeq)' = SeqRange(oldestSeq, newestSeq)
        BY <3>2 DEF SeqRange
      <4>4. NoExpiredFrameHeld
        BY DEF NothingLeft
      <4> SUFFICES ASSUME NEW s \in SeqRange(oldestSeq, newestSeq), slots'[Index(s)].isPushed,
                          slots'[Index(s)].ts # lastPopTs
                   PROVE  ~IsRtpPacketExpired(slots'[Index(s)].ts)
        BY <3>2, <4>1, <4>3 DEF NoExpiredFrameHeld
      <4>5. slots'[Index(s)] = slots[Index(s)]
        BY <3>3, <4>2
      <4> QED
        BY <1>1, <2>1, <3>1, <4>4, <4>5 DEF NoExpiredFrameHeld
    <3> QED
      BY <3>4, <3>5, <3>6, <3>7 DEF NothingLeft
  <2> QED
    BY <2>2, <2>3
<1> QED
  BY <1>2, <1>3 DEF PeerConnectionSrtp_HandleSrtpPacket

\* The steps of a close: they only empty slots, and no task waits for the scan's result.
LEMMA CloseWindow ==
    ASSUME OrderlyStream(stream), ReceiverInv, WindowInv,
           \/ PeerConnectionJitterBuffer_Free
           \/ CloseSlot \/ CloseEnd \/ Release
    PROVE  WindowInv'
<1> USE DEF ReceiverInv, WindowInv
<1>1. /\ UNCHANGED <<stream, pending, isStart, newestSeq, newestTs, oldestSeq, lastPopTs,
                     delivered, tardy, nullRead>>
      /\ ~isInit' /\ pc' # "inspect"
  <2>1. CASE PeerConnectionJitterBuffer_Free
    BY <2>1 DEF PeerConnectionJitterBuffer_Free, StartScan, netVars, obsVars
  <2>2. CASE CloseSlot
    BY <2>2 DEF CloseSlot, netVars, obsVars, ScanMode
  <2>3. CASE CloseEnd
    BY <2>3 DEF CloseEnd, netVars, obsVars, ScanMode
  <2>4. CASE Release
    BY <2>4 DEF Release, netVars, obsVars, ScanMode
  <2> QED
    BY <2>1, <2>2, <2>3, <2>4
<1>2. \A k \in Indexes : slots'[k] \in {slots[k], Empty}
  <2>1. CASE PeerConnectionJitterBuffer_Free
    BY <2>1 DEF PeerConnectionJitterBuffer_Free
  <2>2. CASE CloseSlot
    BY <2>2, DiscardPacketsResult DEF CloseSlot, TypeOK
  <2>3. CASE CloseEnd
    BY <2>3, DiscardPacketsResult DEF CloseEnd, TypeOK
  <2>4. CASE Release
    <3>1. 0 \in SeqNum /\ MaxEntries - 1 \in SeqNum
      BY SizesAssumption DEF SeqNum
    <3> QED
      BY <2>4, <3>1, DiscardPacketsResult DEF Release
  <2> QED
    BY <2>1, <2>2, <2>3, <2>4
<1>3. /\ HeadFrame' /\ HeldPackets' /\ DeliveredOnce' /\ FramesAsSent'
      /\ NoNullRead' /\ NoStaleSlot'
      /\ ~isStart' => \A k \in Indexes : slots'[k] = Empty
  BY <1>1, <1>2, WindowEmptied
<1>4. NoExpiredFrameHeld'
  BY <1>1 DEF NoExpiredFrameHeld
<1>5. BeforeStart' /\ ScanPlace'
  <2>1. CASE PeerConnectionJitterBuffer_Free
    <3>1. /\ pc' = "scan" /\ i' = oldestSeq /\ firstSeq' = oldestSeq /\ popSeq' = -1 /\ isInit
          /\ slots' = slots
      BY <2>1 DEF PeerConnectionJitterBuffer_Free, StartScan
    <3>2. BeforeStart'
      <4>1. 0 = Inc(SeqMod - 1)
        BY DEF Inc
      <4> QED
        BY <1>1, <1>3, <3>1, <4>1 DEF BeforeStart, Inc
    <3>3. ScanPlace'
      <4> SUFFICES ASSUME isStart PROVE ScanPlace'
        BY <1>1 DEF ScanPlace
      <4>1. oldestSeq \in Nat /\ newestSeq \in Nat /\ oldestSeq <= newestSeq
        BY HeadTypes DEF HeadFrame
      <4>2. \A k \in Indexes : slots[k].isPushed => ~(slots[k].seq < oldestSeq)
        <5>1. \A k \in Indexes : slots[k] \in Slot
          BY DEF TypeOK
        <5>2. \A k \in Indexes : slots[k].seq \in Nat
          BY <5>1 DEF Slot, SeqNum
        <5> QED
          BY <4>1, <5>2 DEF HeldPackets
      <4> QED
        BY <1>1, <3>1, <4>1, <4>2 DEF ScanPlace
    <3> QED
      BY <3>2, <3>3
  <2>2. CASE CloseSlot \/ CloseEnd \/ Release
    <3>1. pc' \notin {"scan", "inspect"}
      BY <2>2 DEF CloseSlot, CloseEnd, Release
    <3> QED
      BY <1>1, <1>3, <3>1 DEF BeforeStart, ScanPlace
  <2> QED
    BY <2>1, <2>2
<1> QED
  BY <1>3, <1>4, <1>5 DEF NothingLeft

\* The initial state satisfies the invariant.
LEMMA InitWindowInv == Init => WindowInv
<1> SUFFICES ASSUME Init PROVE WindowInv
  OBVIOUS
<1>1. /\ \A k \in Indexes : slots[k] = Empty /\ ~slots[k].isPushed
      /\ ~isInit /\ ~isStart /\ pc = "idle" /\ delivered = <<>> /\ ~nullRead
  BY EmptyNotPushed DEF Init
<1>2. Len(delivered) = 0
  BY <1>1
<1>3. BeforeStart /\ HeadFrame /\ HeldPackets /\ ScanPlace
  BY <1>1 DEF BeforeStart, HeadFrame, HeldPackets, ScanPlace
<1>4. DeliveredOnce /\ FramesComplete /\ FramesInOrder
  BY <1>1, <1>2 DEF DeliveredOnce, FramesComplete, FramesInOrder
<1>5. NothingLeft
  BY <1>1 DEF NothingLeft, NoNullRead, NoExpiredFrameHeld, NoStaleSlot
<1> QED
  BY <1>3, <1>4, <1>5 DEF WindowInv, FramesAsSent

\* Every step of the receiver from a state in the window keeps the invariant.
LEMMA NextWindowInv ==
    ASSUME OrderlyStream(stream), ReceiverInv, ReceiverInv', WindowInv, InWindow, [Next]_vars
    PROVE  WindowInv'
<1>1. CASE UNCHANGED vars
  <2>1. UNCHANGED <<stream, pending, isStart, newestSeq, newestTs, oldestSeq, lastPopTs,
                    delivered, tardy, nullRead>> /\ slots' = slots
    BY <1>1 DEF vars, netVars, bufVars, obsVars
  <2>2. UNCHANGED <<pc, i, prev, firstSeq, popSeq, isInit>>
    BY <1>1 DEF vars, bufVars, scanVars
  <2>3. /\ HeadFrame' /\ HeldPackets' /\ DeliveredOnce' /\ FramesAsSent'
        /\ NoNullRead' /\ NoStaleSlot'
    BY <2>1, WindowEmptied
  <2>4. BeforeStart' /\ ScanPlace'
    BY <2>1, <2>2 DEF WindowInv, BeforeStart, ScanPlace, Number
  <2>5. NoExpiredFrameHeld'
    BY <2>1, <2>2 DEF WindowInv, NothingLeft, NoExpiredFrameHeld, IsRtpPacketExpired
  <2> QED
    BY <2>3, <2>4, <2>5 DEF WindowInv, NothingLeft
<1> QED
  BY <1>1, CreateWindow, HandleSrtpPacketWindow, CloseWindow, ScanEndWindow, ScanMissingWindow,
     ScanSameFrameWindow, ScanFrameReadyWindow, ScanFrameExpiredWindow,
     ScanFrameToleratedWindow, InspectGoodWindow, InspectBadWindow DEF Next, Parse

\* A stream that fits the buffer cannot outrun it.
LEMMA BurstInWindow ==
    ASSUME OrderlyStream(stream), Len(stream) <= MaxEntries, ReceiverInv, WindowInv
    PROVE  InWindow
<1> USE DEF ReceiverInv, WindowInv
<1> SUFFICES ASSUME isStart PROVE InWindow
  BY DEF InWindow
<1>1. /\ Len(stream) \in Nat /\ Len(stream) <= MaxEntries /\ MaxEntries \in Nat
      /\ Number(oldestSeq) \in 1 .. Len(stream) /\ Number(newestSeq) \in 1 .. Len(stream)
      /\ oldestSeq = stream[1].seq + Number(oldestSeq) - 1
      /\ newestSeq = stream[1].seq + Number(newestSeq) - 1
      /\ stream[1].seq \in Nat
  BY HeadTypes, StreamType, SizesAssumption DEF HeadFrame, TypeOK
<1>2. newestSeq - oldestSeq < MaxEntries
  BY <1>1
<1>3. ASSUME NEW k \in Indexes, slots[k].isPushed PROVE slots[k].seq - oldestSeq < MaxEntries
  <2>1. slots[k].buf \in 1 .. Len(stream) /\ slots[k].seq = stream[1].seq + slots[k].buf - 1
    BY <1>3, HeldIsNumber
  <2>2. slots[k].seq - oldestSeq = slots[k].buf - Number(oldestSeq)
    BY <1>1, <2>1, SMTT(30)
  <2>3. slots[k].buf <= MaxEntries /\ Number(oldestSeq) >= 1 /\ slots[k].buf \in Nat
    BY <1>1, <2>1, SMTT(30)
  <2> QED
    BY <1>1, <2>2, <2>3, SMTT(30)
<1> QED
  BY <1>2, <1>3 DEF InWindow

\* The stream stays the one the behaviour began with.
LEMMA StreamStays == [Next]_vars => stream' = stream
<1> SUFFICES ASSUME [Next]_vars PROVE stream' = stream
  OBVIOUS
<1>1. CASE Parse
  BY <1>1 DEF Parse, ScanEnd, ScanMissing, ScanSameFrame, ScanFrameReady, ScanFrameExpired,
     ScanFrameTolerated, InspectGood, InspectBad, CloseSlot, CloseEnd, Release, netVars
<1>2. CASE ~Parse
  BY <1>2 DEF Next, PeerConnectionJitterBuffer_Create, PeerConnectionSrtp_HandleSrtpPacket,
     PeerConnectionJitterBuffer_Free, netVars, vars
<1> QED
  BY <1>1, <1>2

\* What the two theorems below are the parts of.
OrderlyWindowInv == OrderlyStream(stream) => WindowInv

\* While the sender does not outrun the buffer, the invariant holds of an orderly stream.
THEOREM WindowInvariant == Spec /\ []InWindow => []OrderlyWindowInv
<1>1. Init => OrderlyWindowInv
  BY InitWindowInv DEF OrderlyWindowInv
<1>2. ReceiverInv /\ ReceiverInv' /\ OrderlyWindowInv /\ InWindow /\ [Next]_vars => OrderlyWindowInv'
  BY NextWindowInv, StreamStays DEF OrderlyWindowInv, OrderlyStream
<1> QED
  BY <1>1, <1>2, ReceiverInvariant, PTL DEF Spec

\* However packets of an orderly stream are lost and reordered: as long as the sender does
\* not outrun the buffer, the application gets whole frames, each packet once, in order.
THEOREM FramesAreWhole == Spec /\ []InWindow => []WholeFramesInOrder
<1>1. OrderlyWindowInv => WholeFramesInOrder
  BY DEF OrderlyWindowInv, WindowInv, WholeFramesInOrder
<1> QED
  BY <1>1, WindowInvariant, PTL

\* Likewise, the scan reads no empty slot and leaves neither an expired frame behind the
\* head nor a packet in front of it.
THEOREM NothingStaleIsLeft == Spec /\ []InWindow => []NothingStale
<1>1. OrderlyWindowInv => NothingStale
  BY DEF OrderlyWindowInv, WindowInv, NothingStale
<1> QED
  BY <1>1, WindowInvariant, PTL

\* For streams of at most MaxEntries packets nothing has to be assumed of the behaviour.
THEOREM BurstsAreWhole ==
    (\A st \in Streams : Len(st) <= MaxEntries)
        => (Spec => [](WholeFramesInOrder /\ NothingStale))
<1> SUFFICES ASSUME \A st \in Streams : Len(st) <= MaxEntries
             PROVE  Spec => [](WholeFramesInOrder /\ NothingStale)
  OBVIOUS
<1>1. Init => OrderlyWindowInv
  BY InitWindowInv DEF OrderlyWindowInv
<1>2. ReceiverInv => Len(stream) <= MaxEntries
  BY DEF ReceiverInv, TypeOK
<1>3. ReceiverInv /\ ReceiverInv' /\ OrderlyWindowInv /\ [Next]_vars => OrderlyWindowInv'
  BY <1>2, NextWindowInv, BurstInWindow, StreamStays DEF OrderlyWindowInv, OrderlyStream
<1>4. OrderlyWindowInv => WholeFramesInOrder /\ NothingStale
  BY DEF OrderlyWindowInv, WindowInv, WholeFramesInOrder, NothingStale
<1> QED
  BY <1>1, <1>3, <1>4, ReceiverInvariant, PTL DEF Spec
=============================================================================
