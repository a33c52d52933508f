---------------------------- MODULE JitterBuffer ----------------------------
(***************************************************************************)
(* The receive jitter buffer of one SRTP receiver:                         *)
(* examples/peer_connection/peer_connection_jitter_buffer.c, driven by     *)
(* PeerConnectionSrtp_HandleSrtpPacket and PeerConnectionSrtp_DeInit       *)
(* (peer_connection_srtp.c).                                               *)
(*                                                                         *)
(* The packets the remote peer sends are the sequence `stream'; packet n   *)
(* may be lost, and packets may arrive in any order, but the replay check  *)
(* of libsrtp (external) lets each one in at most once.  A payload buffer  *)
(* is named by the number of the packet whose payload it holds, 0 is NULL. *)
(*                                                                         *)
(* PeerConnectionJitterBuffer_Push and _Free scan the buffer with          *)
(* ParseFramesInJitterBuffer.  The scan is a loop, so it is modelled one   *)
(* iteration at a time: `pc' says where the scan is, and the loop's local  *)
(* variables keep their names.  All of it runs in one task.                *)
(***************************************************************************)
EXTENDS Integers, Sequences, FiniteSets

CONSTANTS
    Streams,            \* the packet sequences a remote peer may send
    SeqMod,             \* 2^16: RTP sequence numbers are uint16_t
    TsMod,              \* 2^32: RTP timestamps are uint32_t
    MaxEntries,         \* PEER_CONNECTION_JITTER_BUFFER_MAX_ENTRY_NUM, 1000
    SeqThreshold,       \* .._SEQ_WRAPPER_THRESHOLD, 10
    TsThreshold,        \* .._TIMESTAMP_WRAPPER_THRESHOLD_SEC * clockRate
    Tolerance,          \* tolerenceRtpTimeStamp
    MaxFramePackets,    \* .._MAX_PACKETS_NUM_IN_A_FRAME, 32
    MaxCreates          \* bound: how often the receiver is set up

SeqNum == 0 .. SeqMod - 1
Timestamp == 0 .. TsMod - 1
Indexes == 0 .. MaxEntries - 1
Kinds == {"start", "cont", "bad", "empty"}
Packet == [seq : SeqNum, ts : Timestamp, kind : Kinds]

ASSUME SizesAssumption ==
    /\ SeqMod \in Nat \ {0, 1}
    /\ TsMod \in Nat \ {0}
    /\ MaxEntries \in Nat \ {0}
    /\ MaxEntries < SeqMod
    /\ SeqThreshold \in Nat
    /\ TsThreshold \in Nat
    /\ Tolerance \in Nat
    /\ MaxFramePackets \in Nat
    /\ MaxCreates \in Nat

ASSUME StreamsAssumption == Streams \subseteq Seq(Packet)

VARIABLES
    stream,     \* what the remote peer sends
    pending,    \* the packets that have not arrived (they may be lost)
    creates,    \* how often Create ran
    isInit, isStart, newestSeq, newestTs, oldestSeq, lastPopTs,
    slots,      \* rtpPackets[]
    pc, isClosing, i, prev, firstSeq, popSeq, isContinuous,  \* the scan
    delivered,  \* the frames given to onFrameReadyCallbackFunc, in order
    tardy,      \* the packets that arrived after a later frame was delivered
    nullRead    \* a payload was read through a NULL pPacketBuffer

netVars == <<stream, pending>>
bufVars == <<isInit, isStart, newestSeq, newestTs, oldestSeq, lastPopTs, slots>>
scanVars == <<pc, isClosing, i, prev, firstSeq, popSeq, isContinuous>>
obsVars == <<delivered, tardy, nullRead>>
vars == <<netVars, creates, bufVars, scanVars, obsVars>>

(***************************************************************************)
(* Slots and ranges of sequence numbers.                                   *)
(***************************************************************************)
Empty == [buf |-> 0, isPushed |-> FALSE, seq |-> 0, ts |-> 0]
Slot == [buf : Nat, isPushed : BOOLEAN, seq : SeqNum, ts : Timestamp]

Index(s) == s % MaxEntries
Inc(s) == IF s = SeqMod - 1 THEN 0 ELSE s + 1

\* The values of for( k = a; k != ( uint16_t )( b + 1 ); k++ ).
SeqRange(a, b) ==
    IF Inc(b) = a THEN {}
    ELSE IF a <= b THEN a .. b
    ELSE (a .. SeqMod - 1) \cup (0 .. b)

\* Of a slot whose buffer is NULL, DiscardPacket changes nothing.
DiscardPacket(sl) == IF sl.buf = 0 THEN sl ELSE Empty

\* The slots after DiscardPackets frees the packets a .. b.
DiscardPackets(a, b) ==
    LET gone == {Index(s) : s \in SeqRange(a, b)}
    IN  [k \in Indexes |-> IF k \in gone THEN DiscardPacket(slots[k]) ELSE slots[k]]

(***************************************************************************)
(* The arithmetic on sequence numbers and timestamps.                      *)
(***************************************************************************)
IsRtpPacketExpired(ts) ==
    LET earliest == (newestTs - Tolerance) % TsMod
    IN  /\ ts < earliest
        /\ \/ newestTs > earliest
           \/ newestTs < earliest /\ ts > newestTs

ShouldAcceptPacket(newest, seq) ==
    LET earliest == (newest - MaxEntries \div 2) % SeqMod
        latest == (newest + MaxEntries \div 2) % SeqMod
    IN  IF latest >= earliest
        THEN seq >= earliest /\ seq <= latest
        ELSE seq >= earliest \/ seq <= latest

\* newestReceivedSequenceNumber after the "newest" block of the update.
NewestBlock(newest, seq) ==
    IF seq > newest \/ (newest + SeqThreshold) % SeqMod <= seq THEN seq ELSE newest

\* The "oldest" block assigns newestReceivedSequenceNumber a second time.
NewestSeqAfter(newest, oldest, seq) ==
    IF seq >= oldest /\ (oldest - SeqThreshold) % SeqMod <= seq
    THEN seq
    ELSE NewestBlock(newest, seq)

OldestSeqAfter(oldest, seq) == IF seq < oldest THEN seq ELSE oldest

NewestTsAfter(newest, ts) ==
    IF ts > newest \/ (newest + TsThreshold) % TsMod <= ts THEN ts ELSE newest

LastPopTsAfter(lastPop, ts) ==
    IF ts < lastPop \/ lastPop > ts + TsThreshold THEN ts ELSE lastPop

(***************************************************************************)
(* The frame callbacks.  OnJitterBufferFrameReady copies the frame out     *)
(* with FillFrame; a failure of FillFrame is not reported to the scan.     *)
(* The helpers' loop `i != rtpSeqEnd + 1' is computed as an int, so for    *)
(* the end 0xFFFF it only ends when the depacketizer's table is full.      *)
(***************************************************************************)
FillFrameOK(a, b) ==
    /\ isInit
    /\ b # SeqMod - 1
    /\ Cardinality(SeqRange(a, b)) <= MaxFramePackets

Frame(a, b) == {slots[Index(s)].buf : s \in SeqRange(a, b)}

OnFrameReady(a, b) ==
    delivered' = IF FillFrameOK(a, b) THEN Append(delivered, Frame(a, b)) ELSE delivered

\* Discard a .. b, then remember the packet at index nx as the next to pop.
\* Its fields are read after the discard.
DiscardUpTo(a, b, nx) ==
    /\ slots' = DiscardPackets(a, b)
    /\ oldestSeq' = slots'[nx].seq
    /\ lastPopTs' = slots'[nx].ts

(***************************************************************************)
(* Setting the receiver up and receiving a packet.                         *)
(***************************************************************************)
Init ==
    /\ stream \in Streams
    /\ pending = 1 .. Len(stream)
    /\ creates = 0
    /\ isInit = FALSE /\ isStart = FALSE
    /\ newestSeq = 0 /\ newestTs = 0 /\ oldestSeq = 0 /\ lastPopTs = 0
    /\ slots = [k \in Indexes |-> Empty]
    /\ pc = "idle" /\ isClosing = FALSE
    /\ i = 0 /\ prev = 0 /\ firstSeq = 0 /\ popSeq = -1 /\ isContinuous = TRUE
    /\ delivered = <<>> /\ tardy = {} /\ nullRead = FALSE

\* Wrong on purpose: 0x10000 for the "no packet yet" sequence number.
Create_SentinelTooWide(isCodecKnown) ==
    /\ pc = "idle" /\ ~isInit /\ creates < MaxCreates
    /\ creates' = creates + 1
    /\ isInit' = isCodecKnown /\ isStart' = FALSE
    /\ newestSeq' = SeqMod /\ newestTs' = TsMod - 1
    /\ oldestSeq' = 0 /\ lastPopTs' = TsMod - 1
    /\ slots' = [k \in Indexes |-> Empty]
    /\ UNCHANGED <<netVars, scanVars, obsVars>>

\* The memset forgets every slot.  For an unsupported codec Create fails and
\* leaves isInit clear.
PeerConnectionJitterBuffer_Create(isCodecKnown) ==
    /\ pc = "idle" /\ ~isInit /\ creates < MaxCreates
    /\ creates' = creates + 1
    /\ isInit' = isCodecKnown /\ isStart' = FALSE
    /\ newestSeq' = SeqMod - 1 /\ newestTs' = TsMod - 1
    /\ oldestSeq' = 0 /\ lastPopTs' = TsMod - 1
    /\ slots' = [k \in Indexes |-> Empty]
    /\ UNCHANGED <<netVars, scanVars, obsVars>>

\* The entry of ParseFramesInJitterBuffer, with oldest = oldestReceivedSequenceNumber.
StartScan(oldest, closing) ==
    /\ pc' = "scan" /\ isClosing' = closing
    /\ i' = oldest /\ prev' = oldest /\ firstSeq' = oldest
    /\ popSeq' = -1 /\ isContinuous' = TRUE

\* AllocateBuffer refuses: the buffer is not initialised, or the payload is empty.
AllocateRefused(n) ==
    /\ ~isInit \/ stream[n].kind = "empty"
    /\ UNCHANGED <<bufVars, scanVars>>

\* AllocateBuffer, the caller's copy of the payload, and the part of Push
\* that precedes the scan.
PushPacket(n) ==
    LET p == stream[n]
        newest == IF isStart THEN newestSeq ELSE p.seq
        newestT == IF isStart THEN newestTs ELSE p.ts
        oldest == IF isStart THEN oldestSeq ELSE p.seq
        idx == Index(p.seq)
    IN  /\ isInit /\ p.kind # "empty"
        /\ isStart' = TRUE
        /\ IF ShouldAcceptPacket(newest, p.seq)
           THEN /\ slots' = [slots EXCEPT ![idx] =
                     [buf |-> n, isPushed |-> TRUE, seq |-> p.seq, ts |-> p.ts]]
                /\ newestSeq' = NewestSeqAfter(newest, oldest, p.seq)
                /\ oldestSeq' = OldestSeqAfter(oldest, p.seq)
                /\ newestTs' = NewestTsAfter(newestT, p.ts)
                /\ lastPopTs' = LastPopTsAfter(lastPopTs, p.ts)
                /\ StartScan(oldestSeq', FALSE)
           ELSE /\ slots' = [slots EXCEPT ![idx] = Empty]
                /\ newestSeq' = newest /\ newestTs' = newestT /\ oldestSeq' = oldest
                /\ UNCHANGED <<lastPopTs, scanVars>>
        /\ UNCHANGED isInit

PeerConnectionSrtp_HandleSrtpPacket(n) ==
    /\ pc = "idle" /\ n \in pending
    /\ pending' = pending \ {n}
    /\ AllocateRefused(n) \/ PushPacket(n)
    /\ tardy' = IF \E k \in 1 .. Len(delivered) : \E m \in delivered[k] : m > n
                THEN tardy \cup {n} ELSE tardy
    /\ UNCHANGED <<stream, creates, delivered, nullRead>>

(***************************************************************************)
(* ParseFramesInJitterBuffer, the first loop.  ScanSlot is the part of an  *)
(* iteration that looks for the end of the frame being popped;             *)
(* InspectPacket is the part that looks for its start.                     *)
(***************************************************************************)
cur == slots[Index(i)]

\* Leaving the first loop, by its condition or a break.
EndScan ==
    IF isClosing
    THEN /\ pc' = "close"
         /\ i' = oldestSeq /\ prev' = oldestSeq /\ firstSeq' = oldestSeq
    ELSE pc' = "idle" /\ UNCHANGED <<i, prev, firstSeq>>

\* Wrong on purpose: the loop's bound is not cast back to uint16_t.
ScanEnd_BoundNotCast ==
    /\ pc = "scan" /\ i = newestSeq + 1
    /\ EndScan
    /\ UNCHANGED <<netVars, creates, bufVars, obsVars, isClosing, popSeq, isContinuous>>

ScanEnd ==
    /\ pc = "scan" /\ i = Inc(newestSeq)
    /\ EndScan
    /\ UNCHANGED <<netVars, creates, bufVars, obsVars, isClosing, popSeq, isContinuous>>

\* The second half of the iteration, which also advances the loop.
NextIteration == pc' = "scan" /\ prev' = i /\ i' = Inc(i)

\* A packet of the head frame's timestamp is inspected next, any other ends the iteration.
InspectOrAdvance(ts, lastPop) ==
    IF ts = lastPop
    THEN pc' = "inspect" /\ UNCHANGED <<i, prev>>
    ELSE NextIteration

\* Wrong on purpose: waits for a missing packet for ever.
ScanMissing_AlwaysWait ==
    /\ pc = "scan" /\ i # Inc(newestSeq)
    /\ ~cur.isPushed
    /\ isContinuous' = FALSE
    /\ IF ~isClosing
       THEN EndScan
       ELSE InspectOrAdvance(cur.ts, lastPopTs) /\ UNCHANGED firstSeq
    /\ UNCHANGED <<netVars, creates, bufVars, obsVars, isClosing, popSeq>>

ScanMissing ==
    /\ pc = "scan" /\ i # Inc(newestSeq)
    /\ ~cur.isPushed
    /\ isContinuous' = FALSE
    /\ IF ~isClosing /\ ~IsRtpPacketExpired(cur.ts)
       THEN EndScan
       ELSE InspectOrAdvance(cur.ts, lastPopTs) /\ UNCHANGED firstSeq
    /\ UNCHANGED <<netVars, creates, bufVars, obsVars, isClosing, popSeq>>

\* The packet belongs to the frame being popped.
ScanSameFrame ==
    /\ pc = "scan" /\ i # Inc(newestSeq)
    /\ cur.isPushed /\ cur.ts = lastPopTs
    /\ pc' = "inspect"
    /\ UNCHANGED <<netVars, creates, bufVars, obsVars, isClosing,
                   i, prev, firstSeq, popSeq, isContinuous>>

\* Wrong on purpose: a frame with a hole counts as ready.
FrameIsReady_HolesIgnored == popSeq # -1

FrameIsReady == popSeq # -1 /\ isContinuous

\* "We now have an full frame ready between start index and end index."
ScanFrameReady ==
    /\ pc = "scan" /\ i # Inc(newestSeq)
    /\ cur.isPushed /\ cur.ts # lastPopTs
    /\ FrameIsReady
    /\ OnFrameReady(popSeq, prev)
    /\ DiscardUpTo(popSeq, prev, Index(i))
    /\ popSeq' = -1 /\ firstSeq' = i /\ pc' = "inspect"
    /\ UNCHANGED <<netVars, creates, isInit, isStart, newestSeq, newestTs,
                   isClosing, i, prev, isContinuous, tardy, nullRead>>

ScanFrameExpired ==
    /\ pc = "scan" /\ i # Inc(newestSeq)
    /\ cur.isPushed /\ cur.ts # lastPopTs
    /\ ~FrameIsReady /\ IsRtpPacketExpired(cur.ts)
    /\ DiscardUpTo(firstSeq, prev, Index(i))
    /\ popSeq' = -1 /\ firstSeq' = i /\ pc' = "inspect"
    /\ UNCHANGED <<netVars, creates, isInit, isStart, newestSeq, newestTs,
                   isClosing, i, prev, isContinuous, obsVars>>

\* Still within the tolerance: stop here until more packets arrive.
ScanFrameTolerated ==
    /\ pc = "scan" /\ i # Inc(newestSeq)
    /\ cur.isPushed /\ cur.ts # lastPopTs
    /\ ~FrameIsReady /\ ~IsRtpPacketExpired(cur.ts)
    /\ EndScan
    /\ UNCHANGED <<netVars, creates, bufVars, obsVars, isClosing, popSeq, isContinuous>>

\* getPacketPropertyFunc (external depacketizers): fails on a NULL buffer and
\* on a payload that is not a packet of the codec.
PropertyOK(sl) == sl.buf # 0 /\ stream[sl.buf].kind # "bad"

InspectGood ==
    /\ pc = "inspect" /\ PropertyOK(cur)
    /\ popSeq' = IF popSeq = -1 /\ stream[cur.buf].kind = "start" THEN i ELSE popSeq
    /\ NextIteration
    /\ UNCHANGED <<netVars, creates, bufVars, obsVars, isClosing, firstSeq, isContinuous>>

\* The log statement reads four payload bytes, of a NULL buffer too.  The
\* expiry test comes after the discard, on the cleared slot.
InspectBad ==
    /\ pc = "inspect" /\ ~PropertyOK(cur)
    /\ isContinuous' = FALSE
    /\ nullRead' = (nullRead \/ cur.buf = 0)
    /\ slots' = [slots EXCEPT ![Index(i)] = DiscardPacket(cur)]
    /\ IF ~isClosing /\ ~IsRtpPacketExpired(slots'[Index(i)].ts)
       THEN EndScan
       ELSE NextIteration /\ UNCHANGED firstSeq
    /\ UNCHANGED <<netVars, creates, isInit, isStart, newestSeq, newestTs, oldestSeq,
                   lastPopTs, isClosing, popSeq, delivered, tardy>>

(***************************************************************************)
(* PeerConnectionJitterBuffer_Free: clear isInit, scan with isClosing, the *)
(* second loop, and the discard of every slot.                             *)
(***************************************************************************)
PeerConnectionJitterBuffer_Free ==
    /\ pc = "idle" /\ isInit
    /\ isInit' = FALSE
    /\ StartScan(oldestSeq, TRUE)
    /\ UNCHANGED <<netVars, creates, isStart, newestSeq, newestTs, oldestSeq,
                   lastPopTs, slots, obsVars>>

CloseSlot ==
    /\ pc = "close" /\ i # Inc(newestSeq)
    /\ IF cur.isPushed
       THEN UNCHANGED <<slots, firstSeq>>
       ELSE slots' = DiscardPackets(firstSeq, prev) /\ firstSeq' = i
    /\ prev' = i /\ i' = Inc(i)
    /\ UNCHANGED <<netVars, creates, isInit, isStart, newestSeq, newestTs, oldestSeq,
                   lastPopTs, pc, isClosing, popSeq, isContinuous, obsVars>>

CloseEnd ==
    /\ pc = "close" /\ i = Inc(newestSeq)
    /\ slots' = DiscardPackets(firstSeq, prev)
    /\ pc' = "release"
    /\ UNCHANGED <<netVars, creates, isInit, isStart, newestSeq, newestTs, oldestSeq,
                   lastPopTs, isClosing, i, prev, firstSeq, popSeq, isContinuous, obsVars>>

\* Wrong on purpose: one entry short.
Release_LastSlotKept ==
    /\ pc = "release"
    /\ slots' = DiscardPackets(0, MaxEntries - 2)
    /\ pc' = "idle" /\ isClosing' = FALSE
    /\ UNCHANGED <<netVars, creates, isInit, isStart, newestSeq, newestTs, oldestSeq,
                   lastPopTs, i, prev, firstSeq, popSeq, isContinuous, obsVars>>

Release ==
    /\ pc = "release"
    /\ slots' = DiscardPackets(0, MaxEntries - 1)
    /\ pc' = "idle" /\ isClosing' = FALSE
    /\ UNCHANGED <<netVars, creates, isInit, isStart, newestSeq, newestTs, oldestSeq,
                   lastPopTs, i, prev, firstSeq, popSeq, isContinuous, obsVars>>

Parse ==
    \/ ScanEnd \/ ScanMissing \/ ScanSameFrame
    \/ ScanFrameReady \/ ScanFrameExpired \/ ScanFrameTolerated
    \/ InspectGood \/ InspectBad
    \/ CloseSlot \/ CloseEnd \/ Release

Next ==
    \/ \E ok \in BOOLEAN : PeerConnectionJitterBuffer_Create(ok)
    \/ \E n \in pending : PeerConnectionSrtp_HandleSrtpPacket(n)
    \/ PeerConnectionJitterBuffer_Free
    \/ Parse

Spec == Init /\ [][Next]_vars /\ WF_vars(Parse)

-----------------------------------------------------------------------------
(***************************************************************************)
(* Properties.                                                             *)
(***************************************************************************)

\* Every variable has its type (the locals of the scan keep the width they
\* have in the code).
TypeOK ==
    /\ stream \in Streams
    /\ pending \subseteq 1 .. Len(stream)
    /\ creates \in Nat
    /\ isInit \in BOOLEAN /\ isStart \in BOOLEAN
    /\ newestSeq \in SeqNum /\ oldestSeq \in SeqNum
    /\ newestTs \in Timestamp /\ lastPopTs \in Timestamp
    /\ slots \in [Indexes -> Slot]
    /\ pc \in {"idle", "scan", "inspect", "close", "release"}
    /\ isClosing \in BOOLEAN /\ isContinuous \in BOOLEAN
    /\ i \in SeqNum /\ prev \in SeqNum /\ firstSeq \in SeqNum
    /\ popSeq \in SeqNum \cup {-1}
    /\ delivered \in Seq(SUBSET Nat)
    /\ tardy \subseteq 1 .. Len(stream)
    /\ nullRead \in BOOLEAN

\* A slot either holds nothing at all, or exactly one accepted packet, with
\* that packet's own sequence number and timestamp, at the index the
\* sequence number selects.  Every operation that touches rtpPackets[] must
\* keep this: FillFrame and the scan trust it without checking.
SlotsConsistent ==
    \A k \in Indexes :
        \/ slots[k] = Empty
        \/ /\ slots[k].buf \in 1 .. Len(stream)
           /\ slots[k].isPushed
           /\ slots[k].seq = stream[slots[k].buf].seq
           /\ slots[k].ts = stream[slots[k].buf].ts
           /\ Index(slots[k].seq) = k

\* Free leaves no payload buffer behind: once it has returned (and until the
\* next Create, whose memset would lose them) every slot is empty.
FreeReleasesAll ==
    pc = "idle" /\ ~isInit => \A k \in Indexes : slots[k] = Empty

\* Every slot is accounted for, from Create to the end of Free: it holds one packet or
\* nothing, and no buffer outlives the buffer it was pushed to.
SlotsAccounted == SlotsConsistent /\ FreeReleasesAll

\* Whatever the peer sends (sequence numbers that wrap, gaps, aliased slots,
\* start flags anywhere), what FillFrame hands to the application has no
\* hole, no payload the depacketizer refused, and packets of one timestamp.
FramesWellFormed ==
    \A k \in 1 .. Len(delivered) :
        /\ delivered[k] \subseteq {n \in 1 .. Len(stream) : stream[n].kind # "bad"}
        /\ \A a, b \in delivered[k] : stream[a].ts = stream[b].ts

\* The packets of a frame the remote peer sent with packet n.
FrameOf(n) == {m \in 1 .. Len(stream) : stream[m].ts = stream[n].ts}

\* What the application gets is always one whole frame as the peer sent it:
\* no packet missing, none of another frame, whatever was lost or reordered.
FramesComplete ==
    \A k \in 1 .. Len(delivered) :
        \E n \in 1 .. Len(stream) : delivered[k] = FrameOf(n)

\* No packet is delivered twice, and frames reach the application in the
\* order the peer sent them, except a frame with a packet that came in after
\* a later frame had been delivered: Push accepts it and moves back to it.
FramesInOrder ==
    \A j, k \in 1 .. Len(delivered) :
        j < k => /\ delivered[j] \cap delivered[k] = {}
                 /\ \/ \A a \in delivered[j], b \in delivered[k] : a < b
                    \/ delivered[k] \cap tardy # {}

\* The scan never reads a payload through a NULL pointer, in the property
\* functions or in the log statement that dumps the payload.
NoNullRead == ~nullRead

\* When a scan has ended, no frame behind the one at the head has outlived
\* the tolerance: a lost packet delays the frames behind it by at most that.
NoExpiredFrameHeld ==
    pc = "idle" /\ isInit /\ isStart =>
        \A s \in SeqRange(oldestSeq, newestSeq) :
            LET sl == slots[Index(s)]
            IN  sl.isPushed /\ sl.ts # lastPopTs => ~IsRtpPacketExpired(sl.ts)

\* Between two packets no slot behind oldestReceivedSequenceNumber still
\* holds a packet.  The scan never goes back there, so such a packet would
\* be taken for the one with the sequence number MaxEntries later.
NoStaleSlot ==
    pc = "idle" => \A k \in Indexes : slots[k].isPushed => slots[k].seq >= oldestSeq

\* A stream while no counter wraps: consecutive sequence numbers, timestamps that never
\* go back and are not 0, and a start flag on no packet but the first of a frame.
OrderlyStream(st) ==
    /\ \A n \in 1 .. Len(st) :
        /\ st[n].seq = st[1].seq + n - 1 /\ st[n].seq < SeqMod - 1
        /\ st[n].ts > 0 /\ st[n].ts + TsThreshold < TsMod
        /\ n > 1 /\ st[n].kind = "start" => st[n - 1].ts # st[n].ts
    /\ \A m, n \in 1 .. Len(st) : m <= n => st[m].ts <= st[n].ts

FramesAsSent == FramesComplete /\ FramesInOrder

\* What the application gets, taken together: whole frames, each packet once, in the
\* order they were sent (ParseFramesInJitterBuffer, OnJitterBufferFrameReady), when the
\* stream is one without a wrap and without a start flag inside a frame.
WholeFramesInOrder == OrderlyStream(stream) => FramesAsSent

NothingLeft == NoNullRead /\ NoExpiredFrameHeld /\ NoStaleSlot

\* What a scan leaves behind of such a stream: it has read no empty slot, and keeps neither
\* a frame that should have been given up nor a slot that a later packet would be mistaken
\* for.
NothingStale == OrderlyStream(stream) => NothingLeft

\* Every call of Push and Free returns: the loops over uint16_t end.
ScanTerminates == pc # "idle" ~> pc = "idle"

-----------------------------------------------------------------------------
(***************************************************************************)
(* The inductive invariant behind FramesWellFormed and FreeReleasesAll.    *)
(***************************************************************************)

\* A scan with isClosing set belongs to Free, which has cleared isInit; every
\* other scan belongs to Push.
ScanMode ==
    /\ pc # "idle" => isClosing = ~isInit
    /\ pc \in {"close", "release"} => isClosing

GoodPacket(s) ==
    LET sl == slots[Index(s)]
    IN  sl.buf # 0 /\ sl.ts = lastPopTs /\ stream[sl.buf].kind # "bad"

\* While the scan is collecting a frame without a hole, everything from the
\* frame's start to the previous packet is there and of one timestamp.
ScanFrame ==
    /\ pc = "inspect" => cur.ts = lastPopTs
    /\ pc \in {"scan", "inspect"} /\ popSeq # -1 =>
          /\ Inc(prev) = i
          /\ isContinuous => \A s \in SeqRange(popSeq, prev) : GoodPacket(s)

\* What every step of the receiver keeps, from the first Create on: the
\* conjunction the proofs use.
ReceiverInv ==
    TypeOK /\ SlotsConsistent /\ FreeReleasesAll /\ ScanMode /\ ScanFrame /\ FramesWellFormed

-----------------------------------------------------------------------------
(***************************************************************************)
(* The inductive invariant behind WholeFramesInOrder and NothingStale.     *)
(***************************************************************************)

\* The sender has not outrun the buffer: nothing the scan looks at is MaxEntries or more
\* ahead of the head, so that no two numbers it looks at share a slot.
InWindow ==
    isStart =>
        /\ newestSeq - oldestSeq < MaxEntries
        /\ \A k \in Indexes : slots[k].isPushed => slots[k].seq - oldestSeq < MaxEntries

\* The packet of the stream that has sequence number s.
Number(s) == s - stream[1].seq + 1

\* Before the first packet of a life nothing is held, and a closing scan has nothing to do.
BeforeStart ==
    ~isStart =>
        /\ \A k \in Indexes : slots[k] = Empty
        /\ isInit => oldestSeq = 0 /\ newestSeq = SeqMod - 1 /\ lastPopTs = TsMod - 1
        /\ pc # "inspect" /\ (pc = "scan" => i = Inc(newestSeq))

\* oldestSeq is the number of a packet of the stream and lastPopTs its timestamp; the
\* newest number and timestamp are those of packets, too.
HeadFrame ==
    isStart =>
        /\ \E m \in 1 .. Len(stream) : newestTs = stream[m].ts
        /\ Number(oldestSeq) \in 1 .. Len(stream) /\ Number(newestSeq) \in 1 .. Len(stream)
        /\ oldestSeq <= newestSeq
        /\ lastPopTs = stream[Number(oldestSeq)].ts

\* No held packet is behind the head or newer than newestTs.
HeldPackets ==
    \A k \in Indexes : slots[k].isPushed => slots[k].seq >= oldestSeq /\ slots[k].ts <= newestTs

\* The scan is between the head and the newest number, everything it has passed and left
\* in the buffer belongs to the head frame, and a frame it collects begins at the head.
ScanPlace ==
    isStart /\ pc \in {"scan", "inspect"} =>
        /\ firstSeq = oldestSeq
        /\ oldestSeq <= i /\ i <= newestSeq + 1 /\ (pc = "inspect" => i <= newestSeq)
        /\ i > oldestSeq => prev = i - 1
        /\ \A k \in Indexes : slots[k].isPushed /\ slots[k].seq < i => slots[k].ts = lastPopTs
        /\ popSeq # -1 =>
              popSeq = oldestSeq /\ i > oldestSeq /\ stream[Number(oldestSeq)].kind = "start"

\* A packet is on its way, held, or delivered, never two of these; a held packet is
\* later than everything delivered or arrived tardily.
DeliveredOnce ==
    /\ \A k \in 1 .. Len(delivered) : delivered[k] \cap pending = {}
    /\ \A x \in Indexes :
          LET m == slots[x].buf
          IN  slots[x].isPushed =>
                /\ m \notin pending
                /\ \A k \in 1 .. Len(delivered) : m \notin delivered[k]
                /\ m \in tardy \/ \A k \in 1 .. Len(delivered) : \A d \in delivered[k] : d < m

\* What every step of the receiver keeps for orderly streams that stay in the window.
WindowInv ==
    /\ BeforeStart /\ HeadFrame /\ HeldPackets /\ ScanPlace /\ DeliveredOnce
    /\ FramesAsSent /\ NothingLeft

=============================================================================
