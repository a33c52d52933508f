-------------------------- MODULE SrtpSenderProofs --------------------------
(***************************************************************************)
(* Proofs about SrtpSender for any number of senders, every buffer         *)
(* capacity and width of the sequence numbers, and every bound: the type   *)
(* invariant, the accounting of the packet buffers, that a retransmission  *)
(* is the packet that was asked for, that nothing of an earlier connection *)
(* is sent, and that the numbers of the streams advance.                   *)
(*                                                                         *)
(* The invariant has five parts.  MutexInv says who holds a senderMutex,   *)
(* LifeInv in which order a connection is made and taken down, BufferInv   *)
(* where the packet buffers are, NumberInv how the queued packets, their   *)
(* contents and the numbers belong together, and KeyInv for which          *)
(* connection a packet was protected.                                      *)
(***************************************************************************)
EXTENDS SrtpSender, FiniteSetTheorems, TLAPS

------------------------------------------------------------------------------
(* The invariant. *)

WriterHolds == {"alloc", "packet", "protect", "store", "send"}
NackHolds == {"search", "protect", "send"}

\* A senderMutex is held by its media task or by the listener, at these steps.
MutexInv ==
    /\ \A s \in Senders :
        /\ senderMutex[s] \in {s, "listener", "none"}
        /\ senderMutex[s] = s <=> writer[s].pc \in WriterHolds
        /\ senderMutex[s] = "listener" <=> (nack.s = s /\ nack.pc \in NackHolds)
    /\ nack.pc # "idle" => nack.s \in Senders

Position(s) == CHOOSE i \in 1 .. Len(SenderOrder) : SenderOrder[i] = s

Released == txSession = 0 /\ \A s \in Senders : ~isInit[s]
WillRelease(t) == closer[t] \in {"destroyed", "deinit"} \cup Senders

\* What has been released when a close has come to a sender.
CleanedUpTo(t) ==
    closer[t] \in Senders =>
        /\ txSession = 0
        /\ \A j \in 1 .. Position(closer[t]) - 1 : ~isInit[SenderOrder[j]]

\* Once ICE is not open any more everything is released or a task is about to do it.
LifeInv ==
    /\ state = "connecting" <=> closer["listener"] = "init"
    /\ state = "connecting" => iceState = "open" /\ \A s \in Senders : ~isInit[s]
    /\ state \in {"inited", "connecting", "ready"} => closer["session"] = "idle"
    /\ state = "ready" => /\ iceState = "open" /\ closer["listener"] = "idle"
                          /\ \A s \in Senders : isInit[s]
    /\ closer["session"] # "init"
    /\ closer["listener"] # "idle" => nack.pc = "idle"
    /\ iceState = "open" => /\ ~closedMsg /\ state # "inited"
                            /\ \A t \in Closers : closer[t] \in {"idle", "init", "destroy"}
    /\ closedMsg \/ state = "inited" => ~selected
    /\ iceState # "open" => Released \/ \E t \in Closers : WillRelease(t)
    /\ \A t \in Closers : CleanedUpTo(t)

QueueLen(s) == Len(packetQueue[s])
InMaking == {"packet", "protect", "store"}

\* The buffers of a sender are in its queue, each once, or in the making; without a
\* rolling buffer there are none.  No packet is stored twice.
SenderBuffers(s) ==
    /\ QueueLen(s) <= Capacity
    /\ \A i, j \in 1 .. QueueLen(s) : packetQueue[s][i].buf = packetQueue[s][j].buf => i = j
    /\ allocated[s] = Queued(s) \cup InHand(s)
    /\ ~isInit[s] => packetQueue[s] = <<>> /\ writer[s].pc \in {"idle", "lock", "alloc"}
    /\ writer[s].pc \in {"idle", "lock", "alloc"} => writer[s].buf = 0
    /\ writer[s].pc \in InMaking => writer[s].buf \in Buffers \ Queued(s)
    /\ writer[s].pc = "send" => writer[s].buf \in Queued(s)
    /\ stored[s] <= produced[s]
    /\ writer[s].pc \in {"protect", "store"} => stored[s] < produced[s]
    /\ isInit[s] => QueueLen(s) = IF stored[s] < Capacity THEN stored[s] ELSE Capacity

\* The packet the NACK handler has found stays where it is.
NackFound ==
    nack.pc \in {"protect", "send"} =>
        /\ isInit[nack.s]
        /\ \E i \in 1 .. QueueLen(nack.s) :
              packetQueue[nack.s][i] = [seq |-> Head(nack.list), buf |-> nack.buf]

BufferInv == (\A s \in Senders : SenderBuffers(s)) /\ NackFound

\* Number b comes k after number a.
After(a, k, b) == b = a + k \/ b = a + k - SeqMod

\* The queue holds the numbers before the next one, and under each number the packet
\* that was last sent under it.
SenderNumbers(s) ==
    /\ \A i \in 1 .. QueueLen(s) :
        LET e == packetQueue[s][i]
        IN  /\ After(e.seq, QueueLen(s) - i + 1, rtpSeq[s])
            /\ content[s][e.buf].hdr = e.seq
            /\ content[s][e.buf].payload = lastPayload[s][e.seq]
    /\ writer[s].pc \in {"protect", "store"} => content[s][writer[s].buf].hdr = rtpSeq[s]
    /\ writer[s].pc = "store" => content[s][writer[s].buf].payload = lastPayload[s][rtpSeq[s]]

\* The numbers of the media stream follow one another.
RtpFollows(s) ==
    LET last == lastProtected[<<s, "rtp">>]
    IN  selected /\ txSession # 0 /\ last.n > 0 =>
            After(last.seq, IF writer[s].pc = "store" THEN 0 ELSE 1, rtpSeq[s])

NumberInv == \A s \in Senders : (state # "inited" => SenderNumbers(s)) /\ RtpFollows(s)

\* While ICE is open the connection's SRTP session protects every packet.
KeyOK(key) == key \in {0, session} /\ (iceState = "open" => key = session)

KeyInv ==
    /\ KeyOK(txSession)
    /\ iceState = "open" => session > 0
    /\ selected /\ relay # "nominated" => iceState = "open"
    /\ \A s \in Senders :
        /\ \A i \in 1 .. QueueLen(s) : KeyOK(content[s][packetQueue[s][i].buf].key)
        /\ writer[s].pc \in {"store", "send"} => KeyOK(writer[s].key)
        /\ writer[s].pc = "store" => content[s][writer[s].buf].key = writer[s].key
    /\ nack.pc = "send" => KeyOK(nack.key)

IInv == TypeOK /\ MutexInv /\ LifeInv /\ BufferInv /\ NumberInv /\ KeyInv
------------------------------------------------------------------------------
(* Types.  TypeOK is split by the tasks and objects the variables belong to. *)

LifeTypes ==
    /\ state \in {"inited", "connecting", "ready", "closing"}
    /\ iceState \in {"open", "closing", "closed"}
    /\ relay \in {"none", "another", "nominated"}
    /\ selected \in BOOLEAN /\ closedMsg \in BOOLEAN /\ rtx \subseteq Senders
    /\ session \in 0 .. MaxSessions /\ txSession \in 0 .. MaxSessions
    /\ closer \in [Closers -> Senders \cup {"idle", "init", "destroy", "destroyed", "deinit"}]
    /\ closes \in 0 .. MaxCloses

Writers == [pc : {"idle", "lock", "alloc", "packet", "protect", "store", "send"},
            buf : Buffers \cup {0}, key : 0 .. MaxSessions]
Nacks == [pc : {"idle", "lock", "search", "protect", "send"}, s : Senders \cup {"none"},
          list : Seq(SeqNums), buf : Buffers \cup {0}, key : 0 .. MaxSessions]

TaskTypes ==
    /\ senderMutex \in [Senders -> Senders \cup {"listener", "none"}]
    /\ writer \in [Senders -> Writers]
    /\ nack \in Nacks
    /\ nacks \in 0 .. MaxNacks

Contents == [hdr : SeqNums, payload : 0 .. MaxPackets, key : 0 .. MaxSessions]

BufferTypes ==
    /\ isInit \in [Senders -> BOOLEAN]
    /\ packetQueue \in [Senders -> Seq([seq : SeqNums, buf : Buffers])]
    /\ allocated \in [Senders -> SUBSET Buffers]
    /\ content \in [Senders -> [Buffers -> Contents]]
    /\ produced \in [Senders -> 0 .. MaxPackets]
    /\ stored \in [Senders -> 0 .. MaxPackets]

NumberTypes ==
    /\ rtpSeq \in [Senders -> SeqNums] /\ rtxSeq \in [Senders -> SeqNums]
    /\ lastPayload \in [Senders -> [SeqNums -> 0 .. MaxPackets]]
    /\ lastProtected \in [Senders \X {"rtp", "rtx"} -> [seq : SeqNums, n : Nat]]

LEMMA TypeParts == TypeOK <=> LifeTypes /\ TaskTypes /\ BufferTypes /\ NumberTypes
  BY DEF TypeOK, LifeTypes, TaskTypes, BufferTypes, NumberTypes, Contents, Writers, Nacks

\* The cleanup goes from sender to sender and ends after the last one.
LEMMA OrderFacts ==
    /\ Len(SenderOrder) \in Nat \ {0} /\ SenderOrder[1] \in Senders
    /\ Position(SenderOrder[1]) = 1
    /\ \A s \in Senders :
        /\ Position(s) \in 1 .. Len(SenderOrder) /\ SenderOrder[Position(s)] = s
        /\ NextSender(s) \in Senders \cup {"idle"}
        /\ NextSender(s) = "idle" => Position(s) = Len(SenderOrder)
        /\ NextSender(s) # "idle" => Position(NextSender(s)) = Position(s) + 1
<1> USE SenderAssumption
<1>1. Len(SenderOrder) \in Nat \ {0} /\ SenderOrder[1] \in Senders
  OBVIOUS
<1>2. \A s \in Senders : Position(s) \in 1 .. Len(SenderOrder) /\ SenderOrder[Position(s)] = s
  <2> TAKE s \in Senders
  <2>1. \E i \in 1 .. Len(SenderOrder) : SenderOrder[i] = s
    OBVIOUS
  <2>2. QED
    BY <2>1 DEF Position
<1>3. \A i \in 1 .. Len(SenderOrder) : SenderOrder[i] \in Senders /\ Position(SenderOrder[i]) = i
  <2> TAKE i \in 1 .. Len(SenderOrder)
  <2>1. SenderOrder[i] \in Senders
    OBVIOUS
  <2>2. /\ Position(SenderOrder[i]) \in 1 .. Len(SenderOrder)
        /\ SenderOrder[Position(SenderOrder[i])] = SenderOrder[i]
    BY <1>2, <2>1
  <2>3. QED
    BY <2>1, <2>2
<1>4. \A s \in Senders :
          NextSender(s) = IF Position(s) = Len(SenderOrder) THEN "idle"
                          ELSE SenderOrder[Position(s) + 1]
  BY DEF NextSender, Position
<1>5. "idle" \notin Senders
  OBVIOUS
<1> HIDE SenderAssumption
<1>6. \A s \in Senders : Position(s) # Len(SenderOrder) => Position(s) + 1 \in 1 .. Len(SenderOrder)
  BY <1>1, <1>2
<1>7. Position(SenderOrder[1]) = 1
  BY <1>1, <1>3
<1>8. ASSUME NEW s \in Senders
      PROVE  /\ NextSender(s) \in Senders \cup {"idle"}
             /\ NextSender(s) = "idle" => Position(s) = Len(SenderOrder)
             /\ NextSender(s) # "idle" => Position(NextSender(s)) = Position(s) + 1
  <2>1. CASE Position(s) = Len(SenderOrder)
    BY <1>4, <2>1
  <2>2. CASE Position(s) # Len(SenderOrder)
    BY <1>3, <1>4, <1>5, <1>6, <2>2
  <2>3. QED
    BY <2>1, <2>2
<1>9. QED
  BY <1>1, <1>2, <1>7, <1>8

\* Which actions change the connection, and who closes it.
LifeVars == <<state, iceState, relay, selected, closedMsg, rtx, session, closes, txSession, closer>>

LEMMA TasksLeaveLife ==
    (\E s \in Senders : WriterStep(s))
    \/ (\E s \in Senders, list \in NackLists : OnRtcpNackEvent(s, list))
    \/ ResendStep => UNCHANGED LifeVars
  BY DEF WriterStep, WriteFrame, TakeSenderMutex, GetBuffer, GetPacket, NoMorePackets,
         ConstructSrtpPacket, ConstructFails, StorePacket, SendPacket, SendFails, OnRtcpNackEvent,
         ResendStep, ResendLock, ResendNotFound, ResendFound, ResendConstruct, ResendConstructFails,
         ResendSend, LifeVars, sessionVars

LEMMA LifeTypesStep == LifeTypes /\ [Next]_vars => LifeTypes'
<1> SUFFICES ASSUME LifeTypes, [Next]_vars
             PROVE  LifeTypes'
  OBVIOUS
<1> USE SenderAssumption, BoundAssumption DEF LifeTypes, sessionVars, Closers
<1>1. CASE UNCHANGED LifeVars
  BY <1>1 DEF LifeVars
<1>2. ASSUME NEW t \in Closers, CloseSession(t)
      PROVE  LifeTypes'
  BY <1>2 DEF CloseSession
<1>3. ASSUME NEW t \in Closers, CloseStep(t)
      PROVE  LifeTypes'
  <2>1. CASE Destroy(t)
    <3>1. selected' \in BOOLEAN
      BY <2>1, Zenon DEF Destroy
    <3>2. QED
      BY <2>1, <3>1 DEF Destroy
  <2>2. CASE DestroyAlreadyClosed(t) \/ DestroyClosed(t)
    BY <2>2 DEF DestroyAlreadyClosed, DestroyClosed
  <2>3. CASE DeInitSession(t)
    BY <2>3, OrderFacts DEF DeInitSession
  <2>4. CASE DeInitSender(t)
    <3>1. NextSender(closer[t]) \in Senders \cup {"idle"}
      BY <2>4, OrderFacts DEF DeInitSender
    <3>2. QED
      BY <2>4, <3>1 DEF DeInitSender
  <2>5. QED
    BY <1>3, <2>1, <2>2, <2>3, <2>4 DEF CloseStep
<1>4. CASE AddressClosing \/ OnClosePeerConnection \/ CreateOffer
  BY <1>4 DEF AddressClosing, OnClosePeerConnection, CreateOffer
<1>5. CASE SrtpInitSession
  BY <1>5 DEF SrtpInitSession
<1>6. CASE SrtpInitBuffers \/ SrtpInitFails
  BY <1>6 DEF SrtpInitBuffers, SrtpInitFails
<1>7. CASE UNCHANGED vars
  BY <1>7 DEF vars, LifeVars
<1>8. QED
  BY <1>1, <1>2, <1>3, <1>4, <1>5, <1>6, <1>7, TasksLeaveLife DEF Next
------------------------------------------------------------------------------
(* The packet buffers. *)

LEMMA ElementOfSeq ==
    ASSUME NEW S, NEW q \in Seq(S), NEW i \in 1 .. Len(q)
    PROVE  q[i] \in S
  OBVIOUS

\* The buffers of a queue are as many as its packets when none is there twice.
LEMMA QueueCount ==
    ASSUME NEW T, NEW q \in Seq([seq : SeqNums, buf : T]),
           \A i, j \in 1 .. Len(q) : q[i].buf = q[j].buf => i = j
    PROVE  LET S == {q[i].buf : i \in 1 .. Len(q)}
           IN  IsFiniteSet(S) /\ Cardinality(S) = Len(q)
<1> DEFINE S == {q[i].buf : i \in 1 .. Len(q)}
           f == [i \in 1 .. Len(q) |-> q[i].buf]
<1>1. Len(q) \in Nat /\ IsFiniteSet(1 .. Len(q)) /\ Cardinality(1 .. Len(q)) = Len(q)
  <2>1. Len(q) \in Nat /\ Len(q) \in Int /\ 1 \in Int
    OBVIOUS
  <2>2. IsFiniteSet(1 .. Len(q))
        /\ Cardinality(1 .. Len(q)) = IF 1 > Len(q) THEN 0 ELSE Len(q) - 1 + 1
    BY <2>1, FS_Interval, Zenon
  <2>3. QED
    BY <2>1, <2>2
<1>2. ExistsBijection(1 .. Len(q), S)
  <2>1. f \in Bijection(1 .. Len(q), S)
    BY DEF Bijection, Injection, Surjection, IsInjective
  <2>2. QED
    BY <2>1 DEF ExistsBijection
<1>3. IsFiniteSet(S) /\ Cardinality(S) = Cardinality(1 .. Len(q))
  BY <1>1, <1>2, FS_Bijection, Zenon
<1>4. QED
  BY <1>1, <1>3

\* There is a buffer for the next packet.
LEMMA FreshFacts ==
    ASSUME BufferTypes, BufferInv, TaskTypes, NEW s \in Senders, writer[s].pc = "alloc"
    PROVE  FreshBuffer(s) \in Buffers \ Queued(s) /\ allocated[s] = Queued(s)
<1>1. /\ allocated[s] = Queued(s) /\ QueueLen(s) <= Capacity /\ QueueLen(s) \in Nat
      /\ IsFiniteSet(Queued(s)) /\ Cardinality(Queued(s)) = QueueLen(s)
  <2>1. SenderBuffers(s) /\ writer[s].buf = 0
        /\ packetQueue[s] \in Seq([seq : SeqNums, buf : Buffers])
    BY DEF BufferInv, SenderBuffers, BufferTypes
  <2>2. allocated[s] = Queued(s) /\ QueueLen(s) <= Capacity
    BY <2>1 DEF SenderBuffers, InHand
  <2>3. IsFiniteSet(Queued(s)) /\ Cardinality(Queued(s)) = QueueLen(s) /\ QueueLen(s) \in Nat
    <3>1. \A i, j \in 1 .. Len(packetQueue[s]) : packetQueue[s][i].buf = packetQueue[s][j].buf
            => i = j
      BY <2>1 DEF SenderBuffers, QueueLen
    <3>2. Len(packetQueue[s]) \in Nat
      BY <2>1
    <3>3. QED
      BY <2>1, <3>1, <3>2, QueueCount DEF Queued, QueueLen
  <2>4. QED
    BY <2>2, <2>3
<1>2. IsFiniteSet(Buffers) /\ Cardinality(Buffers) = Capacity + 2 /\ Capacity \in Nat
  <2>1. Capacity + 2 \in Nat /\ 1 \in Nat /\ Capacity \in Nat
    BY BoundAssumption
  <2>2. QED
    BY <2>1, FS_Interval DEF Buffers
<1>3. Buffers \ Queued(s) # {}
  <2>1. CASE Buffers \subseteq Queued(s)
    <3>1. Cardinality(Buffers) <= Cardinality(Queued(s))
      BY <1>1, <2>1, FS_Subset
    <3>2. QED
      BY <3>1, <1>1, <1>2
  <2>2. QED
    BY <2>1
<1>4. QED
  BY <1>1, <1>3 DEF FreshBuffer
------------------------------------------------------------------------------
(* The steps of a media task, of the NACK handler, and of the mutexes. *)

\* The media task of s goes to a step with a buffer and a key.
Moves(s, pc, buf, key) ==
    /\ writer' \in [Senders -> Writers]
    /\ writer'[s].pc = pc /\ writer'[s].buf = buf /\ writer'[s].key = key
    /\ \A r \in Senders : r # s => writer'[r] = writer[r]

\* The mutex of s goes to a holder.
MutexTo(s, holder) ==
    /\ senderMutex' \in [Senders -> Senders \cup {"listener", "none"}]
    /\ senderMutex'[s] = holder
    /\ \A r \in Senders : r # s => senderMutex'[r] = senderMutex[r]

\* How an update of a media task's record reads.
LEMMA MovesForms ==
    ASSUME TaskTypes, NEW s \in Senders,
           NEW pc \in {"idle", "lock", "alloc", "packet", "protect", "store", "send"},
           NEW buf \in Buffers \cup {0}, NEW key \in 0 .. MaxSessions
    PROVE  /\ writer' = [writer EXCEPT ![s].pc = pc] => Moves(s, pc, writer[s].buf, writer[s].key)
           /\ writer' = [writer EXCEPT ![s].pc = pc, ![s].buf = buf]
              => Moves(s, pc, buf, writer[s].key)
           /\ writer' = [writer EXCEPT ![s].pc = pc, ![s].key = key]
              => Moves(s, pc, writer[s].buf, key)
           /\ writer' = [writer EXCEPT ![s] = [pc |-> pc, buf |-> 0, key |-> 0]]
                => Moves(s, pc, 0, 0)
<1>1. writer \in [Senders -> Writers] /\ writer[s] \in Writers
  BY DEF TaskTypes
<1>0. 0 \in 0 .. MaxSessions
  BY BoundAssumption
<1>2. ASSUME NEW r \in Writers, writer' = [writer EXCEPT ![s] = r]
      PROVE  Moves(s, r.pc, r.buf, r.key)
  BY <1>1, <1>2 DEF Moves
<1>3. /\ [writer[s] EXCEPT !.pc = pc] \in Writers
      /\ [writer[s] EXCEPT !.pc = pc, !.buf = buf] \in Writers
      /\ [writer[s] EXCEPT !.pc = pc, !.key = key] \in Writers
      /\ [pc |-> pc, buf |-> 0, key |-> 0] \in Writers
  BY <1>1, <1>0 DEF Writers
<1>4. /\ [writer EXCEPT ![s].pc = pc] = [writer EXCEPT ![s] = [writer[s] EXCEPT !.pc = pc]]
      /\ [writer EXCEPT ![s].pc = pc, ![s].buf = buf]
         = [writer EXCEPT ![s] = [writer[s] EXCEPT !.pc = pc, !.buf = buf]]
      /\ [writer EXCEPT ![s].pc = pc, ![s].key = key]
         = [writer EXCEPT ![s] = [writer[s] EXCEPT !.pc = pc, !.key = key]]
  BY <1>1
<1>5. /\ [writer[s] EXCEPT !.pc = pc].pc = pc
      /\ [writer[s] EXCEPT !.pc = pc].buf = writer[s].buf
      /\ [writer[s] EXCEPT !.pc = pc].key = writer[s].key
      /\ [writer[s] EXCEPT !.pc = pc, !.buf = buf].pc = pc
      /\ [writer[s] EXCEPT !.pc = pc, !.buf = buf].buf = buf
      /\ [writer[s] EXCEPT !.pc = pc, !.buf = buf].key = writer[s].key
      /\ [writer[s] EXCEPT !.pc = pc, !.key = key].pc = pc
      /\ [writer[s] EXCEPT !.pc = pc, !.key = key].buf = writer[s].buf
      /\ [writer[s] EXCEPT !.pc = pc, !.key = key].key = key
  BY <1>1 DEF Writers
<1>6. writer' = [writer EXCEPT ![s].pc = pc] => Moves(s, pc, writer[s].buf, writer[s].key)
  BY <1>2, <1>3, <1>4, <1>5
<1>7. writer' = [writer EXCEPT ![s].pc = pc, ![s].buf = buf] => Moves(s, pc, buf, writer[s].key)
  BY <1>2, <1>3, <1>4, <1>5
<1>8. writer' = [writer EXCEPT ![s].pc = pc, ![s].key = key] => Moves(s, pc, writer[s].buf, key)
  BY <1>2, <1>3, <1>4, <1>5
<1>9. writer' = [writer EXCEPT ![s] = [pc |-> pc, buf |-> 0, key |-> 0]] => Moves(s, pc, 0, 0)
  BY <1>2, <1>3
<1>10. QED
  BY <1>6, <1>7, <1>8, <1>9

LEMMA MutexForms ==
    ASSUME TaskTypes, NEW s \in Senders, NEW holder \in Senders \cup {"listener", "none"},
           senderMutex' = [senderMutex EXCEPT ![s] = holder]
    PROVE  MutexTo(s, holder)
  BY DEF TaskTypes, MutexTo


\* What each step of a media task does to the task and its mutex.
LEMMA WriterMoves ==
    ASSUME TypeOK, BufferInv, NEW s \in Senders
    PROVE  /\ WriteFrame(s) => Moves(s, "lock", writer[s].buf, writer[s].key)
                /\ UNCHANGED senderMutex
           /\ TakeSenderMutex(s) => Moves(s, "alloc", writer[s].buf, writer[s].key) /\ MutexTo(s, s)
           /\ GetBuffer(s) /\ isInit[s] =>
                Moves(s, "packet", FreshBuffer(s), writer[s].key) /\ UNCHANGED senderMutex
           /\ GetBuffer(s) /\ ~isInit[s] => Moves(s, "idle", 0, 0) /\ MutexTo(s, "none")
           /\ GetPacket(s) => Moves(s, "protect", writer[s].buf, writer[s].key)
                /\ UNCHANGED senderMutex
           /\ ConstructSrtpPacket(s) =>
                Moves(s, "store", writer[s].buf, txSession) /\ UNCHANGED senderMutex
           /\ StorePacket(s) /\ isInit[s] =>
                Moves(s, "send", writer[s].buf, writer[s].key) /\ UNCHANGED senderMutex
           /\ StorePacket(s) /\ ~isInit[s] => Moves(s, "idle", 0, 0) /\ MutexTo(s, "none")
           /\ SendPacket(s) => Moves(s, "alloc", 0, 0) /\ UNCHANGED senderMutex
           /\ NoMorePackets(s) \/ ConstructFails(s) \/ SendFails(s) =>
                Moves(s, "idle", 0, 0) /\ MutexTo(s, "none")
<1>t. TaskTypes /\ BufferTypes /\ txSession \in 0 .. MaxSessions /\ 0 \in Buffers \cup {0}
      /\ 0 \in 0 .. MaxSessions
  BY TypeParts, BoundAssumption DEF LifeTypes
<1>m. ASSUME NEW holder \in Senders \cup {"none"}, senderMutex' = [senderMutex EXCEPT ![s] = holder]
      PROVE  MutexTo(s, holder)
  BY <1>t, <1>m, MutexForms
<1>l. ASSUME LeaveWrite(s)
      PROVE  Moves(s, "idle", 0, 0) /\ MutexTo(s, "none")
  BY <1>t, <1>l, <1>m, MovesForms DEF LeaveWrite, WriterIdle
<1>1. WriteFrame(s) => Moves(s, "lock", writer[s].buf, writer[s].key) /\ UNCHANGED senderMutex
  BY <1>t, MovesForms DEF WriteFrame
<1>2. TakeSenderMutex(s) => Moves(s, "alloc", writer[s].buf, writer[s].key) /\ MutexTo(s, s)
  BY <1>t, <1>m, MovesForms DEF TakeSenderMutex
<1>3. GetBuffer(s) /\ isInit[s] =>
         Moves(s, "packet", FreshBuffer(s), writer[s].key) /\ UNCHANGED senderMutex
  <2>1. GetBuffer(s) => FreshBuffer(s) \in Buffers \cup {0}
    BY <1>t, FreshFacts DEF GetBuffer
  <2>2. QED
    BY <1>t, <2>1, MovesForms DEF GetBuffer
<1>4. GetBuffer(s) /\ ~isInit[s] => Moves(s, "idle", 0, 0) /\ MutexTo(s, "none")
  BY <1>l DEF GetBuffer
<1>5. GetPacket(s) => Moves(s, "protect", writer[s].buf, writer[s].key) /\ UNCHANGED senderMutex
  BY <1>t, MovesForms DEF GetPacket
<1>6. ConstructSrtpPacket(s) => Moves(s, "store", writer[s].buf, txSession) /\ UNCHANGED senderMutex
  BY <1>t, MovesForms DEF ConstructSrtpPacket
<1>7. StorePacket(s) /\ isInit[s] => Moves(s, "send", writer[s].buf, writer[s].key)
      /\ UNCHANGED senderMutex
  BY <1>t, MovesForms DEF StorePacket
<1>8. StorePacket(s) /\ ~isInit[s] => Moves(s, "idle", 0, 0) /\ MutexTo(s, "none")
  BY <1>l DEF StorePacket
<1>9. SendPacket(s) => Moves(s, "alloc", 0, 0) /\ UNCHANGED senderMutex
  <2>1. [WriterIdle EXCEPT !.pc = "alloc"] = [pc |-> "alloc", buf |-> 0, key |-> 0]
    BY DEF WriterIdle
  <2>2. QED
    BY <1>t, <2>1, MovesForms DEF SendPacket
<1>10. NoMorePackets(s) \/ ConstructFails(s) \/ SendFails(s) => Moves(s, "idle", 0, 0)
       /\ MutexTo(s, "none")
  BY <1>l DEF NoMorePackets, ConstructFails, SendFails
<1>11. QED
  BY <1>1, <1>2, <1>3, <1>4, <1>5, <1>6, <1>7, <1>8, <1>9, <1>10

\* The NACK handler goes to a step; what it looks for stays, or it is left.
NackTo(pc, buf, key) ==
    /\ nack' \in Nacks /\ nack'.pc = pc /\ nack'.s = nack.s /\ nack'.list = nack.list
    /\ nack'.buf = buf /\ nack'.key = key

NackLeft ==
    /\ nack' \in Nacks /\ nack'.pc \in {"idle", "lock"}
    /\ nack'.pc = "lock" => nack'.s = nack.s
    /\ MutexTo(nack.s, "none")

LEMMA NackMoves ==
    ASSUME TypeOK, MutexInv
    PROVE  /\ ResendLock => NackTo("search", nack.buf, nack.key) /\ MutexTo(nack.s, "listener")
           /\ ResendFound => /\ UNCHANGED senderMutex
                             /\ \E b \in Retrieved(nack.s, Head(nack.list)) :
                                   \/ NackTo("protect", b, nack.key)
                                   \/ NackTo("send", b, content[nack.s][b].key)
           /\ ResendConstruct => NackTo("send", nack.buf, txSession) /\ UNCHANGED senderMutex
           /\ ResendNotFound \/ ResendConstructFails \/ ResendSend => NackLeft
           /\ ResendStep => nack.pc # "idle" /\ nack.s \in Senders
<1>t. TaskTypes /\ BufferTypes /\ txSession \in 0 .. MaxSessions /\ nack \in Nacks
      /\ 0 \in 0 .. MaxSessions /\ <<>> \in Seq(SeqNums)
  BY TypeParts, BoundAssumption DEF LifeTypes, TaskTypes
<1>1. ResendStep => nack.pc # "idle" /\ nack.s \in Senders
  BY DEF ResendStep, ResendLock, ResendNotFound, ResendFound, ResendConstruct, ResendConstructFails,
         ResendSend, MutexInv
<1>m. ASSUME NEW holder \in {"listener", "none"}, nack.s \in Senders,
             senderMutex' = [senderMutex EXCEPT ![nack.s] = holder]
      PROVE  MutexTo(nack.s, holder)
  BY <1>t, <1>m, MutexForms
<1>2. ASSUME NEW ok \in BOOLEAN, LeaveResend(ok), nack.s \in Senders
      PROVE  NackLeft
  <2>1. MutexTo(nack.s, "none")
    BY <1>2, <1>m DEF LeaveResend
  <2>2. NackIdle \in Nacks /\ NackIdle.pc = "idle"
    BY <1>t DEF NackIdle, Nacks
  <2>3. ASSUME Len(nack.list) > 1
        PROVE  LET n == [NackIdle EXCEPT !.pc = "lock", !.s = nack.s, !.list = Tail(nack.list)]
               IN  n \in Nacks /\ n.pc = "lock" /\ n.s = nack.s
    <3>1. Tail(nack.list) \in Seq(SeqNums)
      BY <1>t, <2>3 DEF Nacks
    <3>2. QED
      BY <1>t, <1>2, <3>1 DEF NackIdle, Nacks
  <2>4. QED
    BY <1>2, <2>1, <2>2, <2>3 DEF LeaveResend, NackLeft
<1>3. ResendLock => NackTo("search", nack.buf, nack.key) /\ MutexTo(nack.s, "listener")
  <2>1. ResendLock => NackTo("search", nack.buf, nack.key)
    BY <1>t DEF ResendLock, NackTo, Nacks
  <2>2. ResendLock => MutexTo(nack.s, "listener")
    BY <1>1, <1>m DEF ResendLock, ResendStep
  <2>3. QED
    BY <2>1, <2>2
<1>4. ResendFound => /\ UNCHANGED senderMutex
                     /\ \E b \in Retrieved(nack.s, Head(nack.list)) :
                           \/ NackTo("protect", b, nack.key)
                           \/ NackTo("send", b, content[nack.s][b].key)
  <2> SUFFICES ASSUME ResendFound
               PROVE  \E b \in Retrieved(nack.s, Head(nack.list)) :
                           \/ NackTo("protect", b, nack.key)
                           \/ NackTo("send", b, content[nack.s][b].key)
    BY DEF ResendFound
  <2>1. PICK b \in Retrieved(nack.s, Head(nack.list)) :
             \/ nack' = [nack EXCEPT !.pc = "protect", !.buf = b]
             \/ nack' = [nack EXCEPT !.pc = "send", !.buf = b, !.key = content[nack.s][b].key]
    BY DEF ResendFound
  <2>2. b \in Buffers
    <3>1. packetQueue[nack.s] \in Seq([seq : SeqNums, buf : Buffers])
      BY <1>1, <1>t DEF BufferTypes, ResendStep
    <3>2. PICK i \in 1 .. Len(packetQueue[nack.s]) : b = packetQueue[nack.s][i].buf
      BY <2>1 DEF Retrieved
    <3>3. packetQueue[nack.s][i] \in [seq : SeqNums, buf : Buffers]
      BY <3>1, <3>2, ElementOfSeq
    <3>4. QED
      BY <3>2, <3>3
  <2>3. content[nack.s][b].key \in 0 .. MaxSessions
    BY <1>1, <1>t, <2>2 DEF BufferTypes, Contents, ResendStep
  <2>4. CASE nack' = [nack EXCEPT !.pc = "protect", !.buf = b]
    BY <1>t, <2>2, <2>4 DEF NackTo, Nacks
  <2>5. CASE nack' = [nack EXCEPT !.pc = "send", !.buf = b, !.key = content[nack.s][b].key]
    <3>1. NackTo("send", b, content[nack.s][b].key)
      BY <1>t, <2>2, <2>3, <2>5 DEF NackTo, Nacks
    <3>2. QED
      BY <3>1
  <2>6. QED
    BY <2>1, <2>4, <2>5
<1>5. ResendConstruct => NackTo("send", nack.buf, txSession) /\ UNCHANGED senderMutex
  BY <1>t DEF ResendConstruct, NackTo, Nacks
<1>6. ResendNotFound \/ ResendConstructFails \/ ResendSend => NackLeft
  BY <1>1, <1>2 DEF ResendNotFound, ResendConstructFails, ResendSend, ResendStep
<1>7. QED
  BY <1>1, <1>3, <1>4, <1>5, <1>6

\* Who does not touch the tasks.
LEMMA CloseLeavesTasks ==
    [Next]_vars => \/ \E s \in Senders : WriterStep(s) /\ UNCHANGED <<nack, nacks>>
                   \/ \E s \in Senders, list \in NackLists : OnRtcpNackEvent(s, list)
                   \/ ResendStep /\ UNCHANGED <<writer, nacks>>
                   \/ UNCHANGED <<senderMutex, writer, nack, nacks>>
  BY ZenonT(30)
     DEF Next, vars, CloseSession, CloseStep, Destroy, DestroyAlreadyClosed, DestroyClosed,
         DeInitSession, DeInitSender, AddressClosing, OnClosePeerConnection, CreateOffer,
         SrtpInitSession, SrtpInitBuffers, SrtpInitFails, WriterStep, WriteFrame, TakeSenderMutex,
         GetBuffer, GetPacket, NoMorePackets, ConstructSrtpPacket, ConstructFails, StorePacket,
         SendPacket, SendFails, ResendStep, ResendLock, ResendNotFound, ResendFound, ResendConstruct,
         ResendConstructFails, ResendSend
\* The types of the tasks.
LEMMA TaskTypesStep == TypeOK /\ MutexInv /\ BufferInv /\ [Next]_vars => TaskTypes'
<1> SUFFICES ASSUME TypeOK, MutexInv, BufferInv, [Next]_vars
             PROVE  TaskTypes'
  OBVIOUS
<1>t. TaskTypes /\ MaxNacks \in Nat /\ 0 \in 0 .. MaxSessions /\ <<>> \in Seq(SeqNums)
  BY TypeParts, BoundAssumption
<1>1. ASSUME NEW s \in Senders, WriterStep(s), UNCHANGED <<nack, nacks>>
      PROVE  TaskTypes'
  <2>1. writer' \in [Senders -> Writers]
    BY <1>1, WriterMoves DEF WriterStep, Moves
  <2>2. senderMutex' \in [Senders -> Senders \cup {"listener", "none"}]
    BY <1>1, <1>t, WriterMoves DEF WriterStep, MutexTo, TaskTypes
  <2>3. QED
    BY <1>1, <1>t, <2>1, <2>2 DEF TaskTypes
<1>2. ASSUME NEW s \in Senders, NEW list \in NackLists, OnRtcpNackEvent(s, list)
      PROVE  TaskTypes'
  <2>1. list \in Seq(SeqNums)
    BY BoundAssumption DEF SeqNums
  <2>2. nack' \in Nacks
    BY <1>2, <1>t, <2>1 DEF OnRtcpNackEvent, NackIdle, Nacks
  <2>3. nacks' \in 0 .. MaxNacks
    BY <1>2, <1>t DEF OnRtcpNackEvent, TaskTypes
  <2>4. QED
    BY <1>2, <1>t, <2>2, <2>3 DEF OnRtcpNackEvent, TaskTypes
<1>3. CASE ResendStep /\ UNCHANGED <<writer, nacks>>
  <2>1. nack' \in Nacks
    BY <1>3, NackMoves DEF ResendStep, NackTo, NackLeft
  <2>2. senderMutex' \in [Senders -> Senders \cup {"listener", "none"}]
    BY <1>3, <1>t, NackMoves DEF ResendStep, MutexTo, NackLeft, TaskTypes
  <2>3. QED
    BY <1>3, <1>t, <2>1, <2>2 DEF TaskTypes
<1>4. CASE UNCHANGED <<senderMutex, writer, nack, nacks>>
  BY <1>4, <1>t DEF TaskTypes
<1>5. QED
  BY <1>1, <1>2, <1>3, <1>4, CloseLeavesTasks

------------------------------------------------------------------------------
(* The mutexes. *)

LEMMA MutexStep == TypeOK /\ MutexInv /\ BufferInv /\ [Next]_vars => MutexInv'
<1> SUFFICES ASSUME TypeOK, MutexInv, BufferInv, [Next]_vars
             PROVE  MutexInv'
  OBVIOUS
<1>t. \A s \in Senders : s \notin {"listener", "none"}
  BY SenderAssumption
<1>1. ASSUME NEW s \in Senders, WriterStep(s), UNCHANGED <<nack, nacks>>
      PROVE  MutexInv'
  <2>1. CASE WriteFrame(s)
    BY <1>1, <1>t, <2>1, WriterMoves DEF Moves, MutexInv, WriterHolds, WriteFrame
  <2>2. CASE TakeSenderMutex(s)
    <3>1. /\ writer'[s].pc = "alloc" /\ senderMutex'[s] = s /\ senderMutex[s] = "none"
          /\ \A r \in Senders : r # s => writer'[r] = writer[r] /\ senderMutex'[r] = senderMutex[r]
      BY <2>2, WriterMoves, ZenonT(30) DEF Moves, MutexTo, TakeSenderMutex
    <3>2. QED
      BY <1>1, <1>t, <3>1 DEF MutexInv, WriterHolds
  <2>3. CASE \E pc \in WriterHolds : \E buf, key :
                 writer[s].pc \in WriterHolds /\ Moves(s, pc, buf, key) /\ UNCHANGED senderMutex
    BY <1>1, <1>t, <2>3 DEF Moves, MutexInv
  <2>4. CASE writer[s].pc \in WriterHolds /\ Moves(s, "idle", 0, 0) /\ MutexTo(s, "none")
    BY <1>1, <1>t, <2>4 DEF Moves, MutexTo, MutexInv, WriterHolds
  <2>5. WriteFrame(s) \/ TakeSenderMutex(s) \/ writer[s].pc \in WriterHolds
    BY <1>1 DEF WriterStep, WriterHolds, GetBuffer, GetPacket, NoMorePackets, ConstructSrtpPacket,
                ConstructFails, StorePacket, SendPacket, SendFails
  <2>6. \/ WriteFrame(s) \/ TakeSenderMutex(s)
        \/ \E pc \in WriterHolds : \E buf, key : Moves(s, pc, buf, key) /\ UNCHANGED senderMutex
        \/ Moves(s, "idle", 0, 0) /\ MutexTo(s, "none")
    <3>1. {"alloc", "packet", "protect", "store", "send"} \subseteq WriterHolds
      BY DEF WriterHolds
    <3>2. QED
      BY <1>1, <3>1, WriterMoves DEF WriterStep
  <2>7. QED
    BY <2>1, <2>2, <2>3, <2>4, <2>5, <2>6
<1>2. ASSUME NEW s \in Senders, NEW list \in NackLists, OnRtcpNackEvent(s, list)
      PROVE  MutexInv'
  BY <1>2, <1>t DEF OnRtcpNackEvent, NackIdle, MutexInv, NackHolds
<1>3. CASE ResendStep /\ UNCHANGED <<writer, nacks>>
  <2>0. nack.s \in Senders
    BY <1>3, NackMoves
  <2>1. CASE ResendLock
    BY <2>0, <1>t, <1>3, <2>1, NackMoves
       DEF NackTo, MutexTo, MutexInv, NackHolds, ResendLock, WriterHolds
  <2>2. CASE ResendFound \/ ResendConstruct
    <3>1. /\ UNCHANGED senderMutex /\ nack.pc \in NackHolds
          /\ nack'.pc \in NackHolds /\ nack'.s = nack.s
      BY <2>2, NackMoves DEF NackTo, NackHolds, ResendFound, ResendConstruct
    <3>2. QED
      BY <1>t, <1>3, <2>0, <3>1 DEF MutexInv, NackHolds
  <2>3. CASE ResendNotFound \/ ResendConstructFails \/ ResendSend
    <3>1. NackLeft /\ nack.pc \in NackHolds
      BY <2>3, NackMoves DEF NackHolds, ResendNotFound, ResendConstructFails, ResendSend
    <3>2. QED
      BY <1>t, <1>3, <2>0, <3>1 DEF NackLeft, MutexTo, MutexInv, NackHolds, WriterHolds
  <2>4. QED
    BY <1>3, <2>1, <2>2, <2>3 DEF ResendStep
<1>4. CASE UNCHANGED <<senderMutex, writer, nack, nacks>>
  BY <1>4 DEF MutexInv
<1>5. QED
  BY <1>1, <1>2, <1>3, <1>4, CloseLeavesTasks
------------------------------------------------------------------------------
(* The life of a connection. *)

LEMMA TasksLeaveInit ==
    (\E s \in Senders : WriterStep(s))
    \/ (\E s \in Senders, list \in NackLists : OnRtcpNackEvent(s, list))
    \/ ResendStep => UNCHANGED isInit
  BY DEF WriterStep, WriteFrame, TakeSenderMutex, GetBuffer, GetPacket, NoMorePackets,
         ConstructSrtpPacket, ConstructFails, StorePacket, SendPacket, SendFails, OnRtcpNackEvent,
         ResendStep, ResendLock, ResendNotFound, ResendFound, ResendConstruct, ResendConstructFails,
         ResendSend, bufferVars, SetPacket

\* A task leaves the rest of the invariant as it is when it only goes on in CloseSession.
LEMMA CloserMoves ==
    ASSUME LifeTypes, NEW t \in Closers, NEW step, closer' = [closer EXCEPT ![t] = step]
    PROVE  closer'[t] = step /\ \A u \in Closers : u # t => closer'[u] = closer[u]
  BY DEF LifeTypes

\* The rolling buffers that are gone stay so, and those of a sender that is cleaned up
\* are gone.
LEMMA FreeFacts ==
    ASSUME BufferTypes, NEW s \in Senders, RollingBufferFree(s)
    PROVE  /\ ~isInit'[s]
           /\ \A r \in Senders : r # s => isInit'[r] = isInit[r]
  BY DEF RollingBufferFree, BufferTypes, bufferVars

\* While a task goes through CloseSession what is released stays released.
LEMMA LifeStep == TypeOK /\ LifeInv /\ [Next]_vars => LifeInv'
<1> SUFFICES ASSUME TypeOK, LifeInv, [Next]_vars
             PROVE  LifeInv'
  OBVIOUS
<1>t. LifeTypes /\ BufferTypes /\ Closers = {"listener", "session"}
  BY TypeParts DEF Closers
<1>s. Senders \cap {"idle", "init", "destroy", "destroyed", "deinit"} = {}
  BY SenderAssumption
<1>1. ASSUME UNCHANGED LifeVars, UNCHANGED isInit, closer["listener"] # "idle" => nack'.pc = nack.pc
      PROVE  LifeInv'
  BY <1>1 DEF LifeVars, LifeInv, Released, WillRelease, CleanedUpTo
<1>2. ASSUME NEW s \in Senders, WriterStep(s)
      PROVE  LifeInv'
  <2>1. UNCHANGED nack
    BY <1>2 DEF WriterStep, WriteFrame, TakeSenderMutex, GetBuffer, GetPacket, NoMorePackets,
                ConstructSrtpPacket, ConstructFails, StorePacket, SendPacket, SendFails
  <2>2. QED
    BY <1>1, <1>2, <2>1, TasksLeaveLife, TasksLeaveInit
<1>3. ASSUME NEW s \in Senders, NEW list \in NackLists, OnRtcpNackEvent(s, list)
      PROVE  LifeInv'
  <2>1. closer["listener"] = "idle"
    BY <1>3 DEF OnRtcpNackEvent
  <2>2. QED
    BY <1>1, <1>3, <2>1, TasksLeaveLife, TasksLeaveInit
<1>4. CASE ResendStep
  <2>1. nack.pc # "idle"
    BY <1>4
       DEF ResendStep, ResendLock, ResendNotFound, ResendFound, ResendConstruct,
           ResendConstructFails, ResendSend
  <2>2. closer["listener"] = "idle"
    BY <2>1 DEF LifeInv
  <2>3. QED
    BY <1>1, <1>4, <2>2, TasksLeaveLife, TasksLeaveInit
<1>5. ASSUME NEW t \in Closers, CloseSession(t)
      PROVE  LifeInv'
  <2>1. /\ state' = "closing" /\ closer[t] = "idle" /\ state \in {"ready", "closing"}
        /\ UNCHANGED <<iceState, selected, closedMsg, txSession, isInit, nack>>
        /\ t = "listener" => nack.pc = "idle"
    BY <1>5 DEF CloseSession, bufferVars
  <2>2. closer'[t] = "destroy" /\ \A u \in Closers : u # t => closer'[u] = closer[u]
    BY <1>5, <1>t, CloserMoves DEF CloseSession
  <2>3. QED
    BY <1>t, <1>s, <2>1, <2>2 DEF LifeInv, Released, WillRelease, CleanedUpTo
<1>6. ASSUME NEW t \in Closers, Destroy(t)
      PROVE  LifeInv'
  <2>1. /\ closer[t] = "destroy" /\ iceState # "closed" /\ iceState' = "closing"
        /\ UNCHANGED <<state, txSession, isInit, nack, relay>>
    BY <1>6 DEF Destroy, bufferVars
  <2>2. selected' => selected /\ relay = "nominated"
    BY <1>6, Zenon DEF Destroy
  <2>3. closedMsg' => closedMsg \/ relay = "none"
    BY <1>6 DEF Destroy
  <2>4. closer'[t] \in {"destroyed", "deinit"} /\ \A u \in Closers : u # t => closer'[u] = closer[u]
    BY <1>6, <1>t, CloserMoves DEF Destroy
  <2>5. QED
    BY <1>t, <1>s, <2>1, <2>2, <2>3, <2>4 DEF LifeInv, Released, WillRelease, CleanedUpTo
<1>7. ASSUME NEW t \in Closers, DestroyAlreadyClosed(t)
      PROVE  LifeInv'
  <2>1. /\ closer[t] = "destroy" /\ iceState = "closed"
        /\ UNCHANGED <<state, iceState, selected, closedMsg, txSession, isInit, nack>>
    BY <1>7 DEF DestroyAlreadyClosed, sessionVars, bufferVars
  <2>2. closer'[t] = "idle" /\ \A u \in Closers : u # t => closer'[u] = closer[u]
    BY <1>7, <1>t, CloserMoves DEF DestroyAlreadyClosed
  <2>3. QED
    BY <1>t, <1>s, <2>1, <2>2 DEF LifeInv, Released, WillRelease, CleanedUpTo
<1>8. ASSUME NEW t \in Closers, DestroyClosed(t)
      PROVE  LifeInv'
  <2>1. /\ closer[t] = "destroyed" /\ iceState' = "closed"
        /\ UNCHANGED <<state, selected, closedMsg, txSession, isInit, nack>>
    BY <1>8 DEF DestroyClosed, bufferVars
  <2>2. closer'[t] = "deinit" /\ \A u \in Closers : u # t => closer'[u] = closer[u]
    BY <1>8, <1>t, CloserMoves DEF DestroyClosed
  <2>3. QED
    BY <1>t, <1>s, <2>1, <2>2 DEF LifeInv, Released, WillRelease, CleanedUpTo
<1>9. ASSUME NEW t \in Closers, DeInitSession(t)
      PROVE  LifeInv'
  <2>1. /\ closer[t] = "deinit" /\ txSession' = 0
        /\ UNCHANGED <<state, iceState, selected, closedMsg, isInit, nack>>
    BY <1>9 DEF DeInitSession, sessionVars, bufferVars
  <2>2. closer'[t] = SenderOrder[1] /\ \A u \in Closers : u # t => closer'[u] = closer[u]
    BY <1>9, <1>t, CloserMoves DEF DeInitSession
  <2>3. SenderOrder[1] \in Senders /\ Position(SenderOrder[1]) = 1
    BY OrderFacts
  <2>4. \A u \in Closers : CleanedUpTo(u)'
    BY <2>1, <2>2, <2>3 DEF LifeInv, CleanedUpTo
  <2>5. WillRelease(t)' /\ closer'[t] \notin {"idle", "init", "destroy"}
    BY <2>2, <2>3, <1>s DEF WillRelease
  <2>6. QED
    BY <1>t, <1>s, <2>1, <2>2, <2>4, <2>5 DEF LifeInv
<1>10. ASSUME NEW t \in Closers, DeInitSender(t)
      PROVE  LifeInv'
  <2> DEFINE s == closer[t]
             n == NextSender(s)
  <2>1. /\ s \in Senders /\ RollingBufferFree(s)
        /\ UNCHANGED <<state, iceState, selected, closedMsg, txSession, nack>>
    BY <1>10 DEF DeInitSender, sessionVars
  <2>2. closer'[t] = n /\ \A u \in Closers : u # t => closer'[u] = closer[u]
    BY <1>10, <1>t, CloserMoves DEF DeInitSender
  <2>3. /\ ~isInit'[s] /\ \A r \in Senders : r # s => isInit'[r] = isInit[r]
        /\ \A r \in Senders : ~isInit[r] => ~isInit'[r]
    BY <1>t, <2>1, FreeFacts
  <2>4. /\ iceState # "open" /\ state # "ready" /\ state # "connecting"
        /\ t = "session" => state # "inited"
    BY <1>t, <1>s, <2>1 DEF LifeInv
  <2>5. txSession = 0 /\ \A j \in 1 .. Position(s) : ~isInit'[SenderOrder[j]]
    <3>1. txSession = 0 /\ \A j \in 1 .. Position(s) - 1 : ~isInit[SenderOrder[j]]
      BY <2>1 DEF LifeInv, CleanedUpTo
    <3>2. Position(s) \in 1 .. Len(SenderOrder) /\ SenderOrder[Position(s)] = s
          /\ Len(SenderOrder) \in Nat
      BY <2>1, OrderFacts
    <3>3. \A j \in 1 .. Position(s) - 1 : SenderOrder[j] \in Senders
      BY <3>2, SenderAssumption
    <3>4. \A j \in 1 .. Position(s) : j \in 1 .. Position(s) - 1 \/ j = Position(s)
      BY <3>2
    <3>5. QED
      BY <2>3, <3>1, <3>2, <3>3, <3>4
  <2>6. CASE n = "idle"
    <3>1. Released'
      <4>1. Position(s) = Len(SenderOrder)
        BY <2>1, <2>6, OrderFacts
      <4>2. \A r \in Senders : \E j \in 1 .. Len(SenderOrder) : SenderOrder[j] = r
        BY SenderAssumption
      <4>3. QED
        BY <2>1, <2>5, <4>1, <4>2 DEF Released
    <3>2. \A u \in Closers : CleanedUpTo(u)'
      <4>1. \A u \in Closers : u # t => CleanedUpTo(u)'
        <5> SUFFICES ASSUME NEW u \in Closers, u # t, closer[u] \in Senders
                     PROVE  CleanedUpTo(u)'
          BY <2>2 DEF CleanedUpTo
        <5>1. Position(closer[u]) \in 1 .. Len(SenderOrder) /\ Len(SenderOrder) \in Nat
          BY OrderFacts
        <5>2. \A j \in 1 .. Position(closer[u]) - 1 : SenderOrder[j] \in Senders
          BY <5>1, SenderAssumption
        <5>3. QED
          BY <2>1, <2>2, <2>3, <5>2 DEF LifeInv, CleanedUpTo
      <4>2. CleanedUpTo(t)'
        BY <2>2, <2>6, <1>s DEF CleanedUpTo
      <4>3. QED
        BY <4>1, <4>2
    <3>3. QED
      BY <1>t, <1>s, <2>1, <2>2, <2>3, <2>4, <2>6, <3>1, <3>2 DEF LifeInv
  <2>7. CASE n # "idle"
    <3>1. n \in Senders /\ Position(n) - 1 = Position(s)
      BY <2>1, <2>7, OrderFacts
    <3>2. \A u \in Closers : CleanedUpTo(u)'
      <4>1. \A u \in Closers : u # t => CleanedUpTo(u)'
        <5> SUFFICES ASSUME NEW u \in Closers, u # t, closer[u] \in Senders
                     PROVE  CleanedUpTo(u)'
          BY <2>2 DEF CleanedUpTo
        <5>1. Position(closer[u]) \in 1 .. Len(SenderOrder) /\ Len(SenderOrder) \in Nat
          BY OrderFacts
        <5>2. \A j \in 1 .. Position(closer[u]) - 1 : SenderOrder[j] \in Senders
          BY <5>1, SenderAssumption
        <5>3. QED
          BY <2>1, <2>2, <2>3, <5>2 DEF LifeInv, CleanedUpTo
      <4>2. CleanedUpTo(t)'
        BY <2>1, <2>2, <2>5, <3>1 DEF CleanedUpTo
      <4>3. QED
        BY <4>1, <4>2
    <3>3. WillRelease(t)' /\ closer'[t] \notin {"idle", "init", "destroy"}
      BY <2>2, <3>1, <1>s DEF WillRelease
    <3>4. QED
      BY <1>t, <1>s, <2>1, <2>2, <2>3, <2>4, <3>1, <3>2, <3>3 DEF LifeInv
  <2>8. QED
    BY <2>6, <2>7
<1>11. CASE AddressClosing \/ OnClosePeerConnection \/ CreateOffer
  <2>1. UNCHANGED <<txSession, isInit, nack, closer>>
    BY <1>11 DEF AddressClosing, OnClosePeerConnection, CreateOffer, bufferVars
  <2>2. CASE AddressClosing
    BY <1>t, <2>1, <2>2 DEF AddressClosing, LifeInv, Released, WillRelease, CleanedUpTo
  <2>3. CASE OnClosePeerConnection
    BY <1>t, <2>1, <2>3 DEF OnClosePeerConnection, LifeInv, Released, WillRelease, CleanedUpTo
  <2>4. CASE CreateOffer
    BY <1>t, <2>1, <2>4 DEF CreateOffer, LifeInv, Released, WillRelease, CleanedUpTo
  <2>5. QED
    BY <1>11, <2>2, <2>3, <2>4
<1>12. CASE SrtpInitSession
  <2>1. /\ state = "inited" /\ ~closedMsg /\ nack.pc = "idle"
             /\ \A t \in Closers : closer[t] = "idle"
        /\ state' = "connecting" /\ iceState' = "open"
        /\ UNCHANGED <<closedMsg, isInit, nack>>
    BY <1>12 DEF SrtpInitSession, bufferVars
  <2>2. closer'["listener"] = "init" /\ closer'["session"] = "idle"
    BY <1>12, <1>t, <2>1, CloserMoves DEF SrtpInitSession
  <2>3. Released
    BY <1>s, <2>1 DEF LifeInv, WillRelease
  <2>4. QED
    BY <1>t, <1>s, <2>1, <2>2, <2>3 DEF LifeInv, Released, WillRelease, CleanedUpTo
<1>13. CASE SrtpInitBuffers
  <2>1. /\ closer["listener"] = "init" /\ state' = "ready"
        /\ UNCHANGED <<iceState, selected, closedMsg, txSession, nack>>
    BY <1>13 DEF SrtpInitBuffers
  <2>2. closer'["listener"] = "idle" /\ closer'["session"] = closer["session"]
    BY <1>13, <1>t, CloserMoves DEF SrtpInitBuffers
  <2>3. \A s \in Senders : isInit'[s]
    BY <1>13 DEF SrtpInitBuffers, RollingBufferCreate
  <2>4. QED
    BY <1>t, <1>s, <2>1, <2>2, <2>3 DEF LifeInv, Released, WillRelease, CleanedUpTo
<1>14. CASE SrtpInitFails
  <2>1. /\ closer["listener"] = "init" /\ state' = "closing"
        /\ UNCHANGED <<iceState, selected, closedMsg, txSession, nack>>
    BY <1>14 DEF SrtpInitFails
  <2>2. closer'["listener"] = "destroy" /\ closer'["session"] = closer["session"]
    BY <1>14, <1>t, CloserMoves DEF SrtpInitFails
  <2>3. QED
    BY <1>t, <1>s, <2>1, <2>2 DEF LifeInv, Released, WillRelease, CleanedUpTo
<1>15. CASE UNCHANGED vars
  BY <1>1, <1>15 DEF vars, LifeVars
<1>16. QED
  BY <1>2, <1>3, <1>4, <1>5, <1>6, <1>7, <1>8, <1>9, <1>10, <1>11, <1>12, <1>13, <1>14, <1>15
     DEF Next, CloseStep
------------------------------------------------------------------------------
(* What a step does to the packet buffers of a sender. *)

\* Of the values of f only that of s changes, to v.
Put(f, g, s, v) == g[s] = v /\ \A r \in Senders : r # s => g[r] = f[r]

LEMMA PutForm ==
    ASSUME NEW T, NEW f \in [Senders -> T], NEW s \in Senders, NEW v \in T,
           NEW g, g = [f EXCEPT ![s] = v]
    PROVE  g \in [Senders -> T] /\ Put(f, g, s, v)
  BY DEF Put

\* ForceEnqueue appends; the oldest packet makes room in a full queue.
Dropped(q) == IF Len(q) = Capacity THEN 1 ELSE 0

Enqueued(q, e, n, d) ==
    /\ Len(n) = Len(q) + 1 - d /\ Len(n) \in 1 .. Capacity /\ n[Len(n)] = e
    /\ \A i \in 1 .. Len(n) : i # Len(n) => i + d \in 1 .. Len(q) /\ n[i] = q[i + d]
    /\ \A j \in 1 .. Len(q) : j > d => j - d \in 1 .. Len(n) /\ n[j - d] = q[j] /\ j - d # Len(n)

LEMMA EnqueueFacts ==
    ASSUME NEW T, NEW q \in Seq(T), NEW e \in T, Len(q) <= Capacity
    PROVE  ForceEnqueue(q, e) \in Seq(T) /\ Enqueued(q, e, ForceEnqueue(q, e), Dropped(q))
<1> USE DEF Enqueued
<1>c. Capacity \in Nat \ {0} /\ Len(q) \in Nat
  BY BoundAssumption
<1>1. CASE Len(q) = Capacity
  <2>1. /\ Tail(q) \in Seq(T) /\ Len(Tail(q)) = Len(q) - 1
        /\ \A i \in 1 .. Len(q) - 1 : Tail(q)[i] = q[i + 1]
    BY <1>c, <1>1
  <2>2. /\ Append(Tail(q), e) \in Seq(T) /\ Len(Append(Tail(q), e)) = Len(q)
        /\ Append(Tail(q), e)[Len(q)] = e
        /\ \A i \in 1 .. Len(q) - 1 : Append(Tail(q), e)[i] = q[i + 1]
    BY <1>c, <2>1
  <2>3. QED
    BY <1>c, <1>1, <2>2 DEF ForceEnqueue, Dropped
<1>2. CASE Len(q) # Capacity
  <2>1. /\ Append(q, e) \in Seq(T) /\ Len(Append(q, e)) = Len(q) + 1
        /\ Append(q, e)[Len(q) + 1] = e
        /\ \A i \in 1 .. Len(q) : Append(q, e)[i] = q[i]
    OBVIOUS
  <2>2. QED
    BY <1>c, <1>2, <2>1 DEF ForceEnqueue, Dropped
<1>3. QED
  BY <1>1, <1>2

Entry == [seq : SeqNums, buf : Buffers]
bufferFns == <<isInit, packetQueue, allocated, content, stored, produced>>
numberFns == <<rtpSeq, lastPayload>>

\* The successor of a sequence number is a sequence number.
LEMMA NextNumber ==
    ASSUME NEW a \in SeqNums
    PROVE  (a + 1) % SeqMod \in SeqNums /\ (a + 1) % SeqMod = (IF a + 1 = SeqMod THEN 0 ELSE a + 1)
  BY BoundAssumption DEF SeqNums

LEMMA GetBufferEffect ==
    ASSUME TypeOK, BufferInv, NEW s \in Senders, GetBuffer(s), isInit[s]
    PROVE  /\ allocated' \in [Senders -> SUBSET Buffers]
           /\ Put(allocated, allocated', s, Queued(s) \cup {FreshBuffer(s)})
           /\ FreshBuffer(s) \in Buffers \ Queued(s)
           /\ UNCHANGED <<isInit, packetQueue, content, stored, produced, numberFns>>
<1>1. TaskTypes /\ BufferTypes
  BY TypeParts
<1>2. allocated[s] = Queued(s) /\ FreshBuffer(s) \in Buffers \ Queued(s)
  BY <1>1, FreshFacts DEF GetBuffer
<1>3. allocated' = [allocated EXCEPT ![s] = Queued(s) \cup {FreshBuffer(s)}]
  BY <1>2 DEF GetBuffer
<1>4. allocated \in [Senders -> SUBSET Buffers]
      /\ Queued(s) \cup {FreshBuffer(s)} \in SUBSET Buffers
  BY <1>1, <1>2 DEF BufferTypes
<1>5. QED
  BY <1>2, <1>3, <1>4 DEF GetBuffer, numberFns, Put

\* The packet in the making has a buffer of its own and a rolling buffer to go to.
LEMMA MakingFacts ==
    ASSUME TypeOK, BufferInv, NEW s \in Senders, writer[s].pc \in InMaking
    PROVE  /\ isInit[s] /\ writer[s].buf \in Buffers /\ writer[s].buf \notin Queued(s)
           /\ allocated[s] = Queued(s) \cup {writer[s].buf} /\ 0 \notin Buffers
<1>1. SenderBuffers(s) /\ 0 \notin Buffers
  BY DEF BufferInv, Buffers
<1>2. isInit[s] /\ writer[s].buf \in Buffers /\ writer[s].buf \notin Queued(s)
  BY <1>1 DEF SenderBuffers, InMaking
<1>3. allocated[s] = Queued(s) \cup {writer[s].buf}
  BY <1>1, <1>2 DEF SenderBuffers, InHand
<1>4. QED
  BY <1>1, <1>2, <1>3

LEMMA GetPacketEffect ==
    ASSUME TypeOK, BufferInv, NEW s \in Senders, GetPacket(s)
    PROVE  /\ content' \in [Senders -> [Buffers -> Contents]]
           /\ Put(content, content', s, [content[s] EXCEPT ![writer[s].buf] =
                     [hdr |-> rtpSeq[s], payload |-> produced[s] + 1, key |-> 0]])
           /\ produced' \in [Senders -> 0 .. MaxPackets]
           /\ Put(produced, produced', s, produced[s] + 1)
           /\ UNCHANGED <<isInit, packetQueue, allocated, stored, numberFns>>
<1> DEFINE p == [hdr |-> rtpSeq[s], payload |-> produced[s] + 1, key |-> 0]
<1>1. BufferTypes /\ NumberTypes /\ writer[s].buf \in Buffers
  BY TypeParts, MakingFacts DEF GetPacket, InMaking
<1>2. produced[s] + 1 \in 0 .. MaxPackets
  BY <1>1, BoundAssumption DEF GetPacket, BufferTypes
<1>3. p \in Contents
  BY <1>1, <1>2, BoundAssumption DEF NumberTypes, Contents
<1>4. content[s] \in [Buffers -> Contents]
      /\ [content[s] EXCEPT ![writer[s].buf] = p] \in [Buffers -> Contents]
  BY <1>1, <1>3 DEF BufferTypes
<1>5. content' = [content EXCEPT ![s] = [content[s] EXCEPT ![writer[s].buf] = p]]
  BY DEF GetPacket
<1>6. content' \in [Senders -> [Buffers -> Contents]]
      /\ Put(content, content', s, [content[s] EXCEPT ![writer[s].buf] = p])
  BY <1>1, <1>4, <1>5 DEF BufferTypes, Put
<1>7. produced' = [produced EXCEPT ![s] = produced[s] + 1]
  BY DEF GetPacket
<1>8. produced' \in [Senders -> 0 .. MaxPackets] /\ Put(produced, produced', s, produced[s] + 1)
  BY <1>1, <1>2, <1>7 DEF BufferTypes, Put
<1>9. QED
  BY <1>6, <1>8 DEF GetPacket, numberFns

LEMMA DiscardEffect ==
    ASSUME TypeOK, BufferInv, NEW s \in Senders, NoMorePackets(s) \/ ConstructFails(s)
    PROVE  /\ allocated' \in [Senders -> SUBSET Buffers] /\ Put(allocated, allocated', s, Queued(s))
           /\ UNCHANGED <<isInit, packetQueue, content, stored, produced, numberFns>>
<1>1. BufferTypes /\ isInit[s] /\ allocated[s] \ {writer[s].buf} = Queued(s)
  <2>1. writer[s].pc \in InMaking
    BY DEF NoMorePackets, ConstructFails, InMaking
  <2>2. QED
    BY <2>1, TypeParts, MakingFacts
<1>2. allocated' = [allocated EXCEPT ![s] = Queued(s)]
  BY <1>1 DEF NoMorePackets, ConstructFails, DiscardRtpSequenceBuffer
<1>3. allocated \in [Senders -> SUBSET Buffers] /\ Queued(s) \in SUBSET Buffers
  BY <1>1 DEF BufferTypes
<1>4. QED
  BY <1>2, <1>3, PutForm, Zenon DEF NoMorePackets, ConstructFails, numberFns

LEMMA ConstructEffect ==
    ASSUME TypeOK, BufferInv, NEW s \in Senders, ConstructSrtpPacket(s)
    PROVE  LET p == content[s][writer[s].buf]
           IN  /\ content' \in [Senders -> [Buffers -> Contents]]
               /\ Put(content, content', s,
                      [content[s] EXCEPT ![writer[s].buf] = [p EXCEPT !.key = txSession]])
               /\ p \in Contents
               /\ lastPayload' \in [Senders -> [SeqNums -> 0 .. MaxPackets]]
               /\ Put(lastPayload, lastPayload', s, [lastPayload[s] EXCEPT ![p.hdr] = p.payload])
               /\ UNCHANGED <<isInit, packetQueue, allocated, stored, produced, rtpSeq>>
<1> DEFINE p == content[s][writer[s].buf]
           q == [p EXCEPT !.key = txSession]
<1>1. BufferTypes /\ NumberTypes /\ writer[s].buf \in Buffers /\ txSession \in 0 .. MaxSessions
  BY TypeParts, MakingFacts DEF ConstructSrtpPacket, InMaking, LifeTypes
<1>2. p \in Contents /\ content[s] \in [Buffers -> Contents]
  BY <1>1 DEF BufferTypes
<1>3. q \in Contents
  BY <1>1, <1>2 DEF Contents
<1>4. [content[s] EXCEPT ![writer[s].buf] = q] \in [Buffers -> Contents]
  BY <1>2, <1>3
<1>5. content' = [content EXCEPT ![s] = [content[s] EXCEPT ![writer[s].buf] = q]]
  BY DEF ConstructSrtpPacket
<1>6. content' \in [Senders -> [Buffers -> Contents]]
      /\ Put(content, content', s, [content[s] EXCEPT ![writer[s].buf] = q])
  BY <1>1, <1>4, <1>5 DEF BufferTypes, Put
<1>7. [lastPayload[s] EXCEPT ![p.hdr] = p.payload] \in [SeqNums -> 0 .. MaxPackets]
  BY <1>1, <1>2 DEF NumberTypes, Contents
<1>8. lastPayload' = [lastPayload EXCEPT ![s] = [lastPayload[s] EXCEPT ![p.hdr] = p.payload]]
  BY DEF ConstructSrtpPacket
<1>9. lastPayload' \in [Senders -> [SeqNums -> 0 .. MaxPackets]]
      /\ Put(lastPayload, lastPayload', s, [lastPayload[s] EXCEPT ![p.hdr] = p.payload])
  BY <1>1, <1>7, <1>8 DEF NumberTypes, Put
<1>10. QED
  BY <1>2, <1>6, <1>9 DEF ConstructSrtpPacket

LEMMA StoreEffect ==
    ASSUME TypeOK, BufferInv, NEW s \in Senders, StorePacket(s)
    PROVE  LET e == [seq |-> rtpSeq[s], buf |-> writer[s].buf]
           IN  /\ isInit[s] /\ e \in Entry
               /\ packetQueue' \in [Senders -> Seq(Entry)]
               /\ Put(packetQueue, packetQueue', s, ForceEnqueue(packetQueue[s], e))
               /\ allocated' \in [Senders -> SUBSET Buffers]
               /\ Put(allocated, allocated', s, allocated[s] \ Evicted(packetQueue[s]))
               /\ stored' \in [Senders -> 0 .. MaxPackets] /\ Put(stored, stored', s, stored[s] + 1)
               /\ rtpSeq' \in [Senders -> SeqNums]
               /\ Put(rtpSeq, rtpSeq', s, (rtpSeq[s] + 1) % SeqMod)
               /\ UNCHANGED <<isInit, content, produced, lastPayload>>
<1> DEFINE e == [seq |-> rtpSeq[s], buf |-> writer[s].buf]
<1>1. BufferTypes /\ NumberTypes /\ writer[s].buf \in Buffers /\ isInit[s] /\ SenderBuffers(s)
  BY TypeParts, MakingFacts DEF StorePacket, InMaking, BufferInv
<1>2. e \in Entry /\ packetQueue[s] \in Seq(Entry) /\ QueueLen(s) <= Capacity
  BY <1>1 DEF Entry, NumberTypes, BufferTypes, SenderBuffers
<1>3. ForceEnqueue(packetQueue[s], e) \in Seq(Entry)
  BY <1>2, EnqueueFacts DEF QueueLen
<1>4. SetPacket(s, rtpSeq[s], writer[s].buf)
  BY DEF StorePacket
<1>5. packetQueue' \in [Senders -> Seq(Entry)]
      /\ Put(packetQueue, packetQueue', s, ForceEnqueue(packetQueue[s], e))
  <2>1. packetQueue' = [packetQueue EXCEPT ![s] = ForceEnqueue(packetQueue[s], e)]
    BY <1>1, <1>4 DEF SetPacket
  <2>2. packetQueue \in [Senders -> Seq(Entry)]
    BY <1>1 DEF BufferTypes, Entry
  <2>3. QED
    BY <1>3, <2>1, <2>2 DEF Put
<1>6. allocated' \in [Senders -> SUBSET Buffers]
      /\ Put(allocated, allocated', s, allocated[s] \ Evicted(packetQueue[s]))
  <2>1. allocated' = [allocated EXCEPT ![s] = allocated[s] \ Evicted(packetQueue[s])]
    BY <1>1, <1>4 DEF SetPacket
  <2>2. allocated \in [Senders -> SUBSET Buffers]
        /\ allocated[s] \ Evicted(packetQueue[s]) \in SUBSET Buffers
    BY <1>1 DEF BufferTypes
  <2>3. QED
    BY <2>1, <2>2 DEF Put
<1>7. stored' \in [Senders -> 0 .. MaxPackets] /\ Put(stored, stored', s, stored[s] + 1)
  <2>1. stored' = [stored EXCEPT ![s] = stored[s] + 1]
    BY <1>1, <1>4 DEF SetPacket
  <2>2. stored[s] < produced[s]
    BY <1>1 DEF SenderBuffers, StorePacket
  <2>3. stored \in [Senders -> 0 .. MaxPackets] /\ stored[s] + 1 \in 0 .. MaxPackets
    BY <1>1, <2>2, BoundAssumption DEF BufferTypes
  <2>4. QED
    BY <2>1, <2>3 DEF Put
<1>8. rtpSeq' \in [Senders -> SeqNums] /\ Put(rtpSeq, rtpSeq', s, (rtpSeq[s] + 1) % SeqMod)
  <2>1. rtpSeq' = [rtpSeq EXCEPT ![s] = (rtpSeq[s] + 1) % SeqMod]
    BY DEF StorePacket
  <2>2. rtpSeq \in [Senders -> SeqNums] /\ (rtpSeq[s] + 1) % SeqMod \in SeqNums
    BY <1>1, NextNumber DEF NumberTypes
  <2>3. QED
    BY <2>1, <2>2 DEF Put
<1>9. UNCHANGED <<isInit, content, produced, lastPayload>>
  BY <1>1, <1>4 DEF StorePacket, SetPacket
<1>10. QED
  BY <1>1, <1>2, <1>5, <1>6, <1>7, <1>8, <1>9

\* The other steps of a media task touch no buffer.
LEMMA QuietSteps ==
    ASSUME NEW s \in Senders,
           \/ WriteFrame(s) \/ TakeSenderMutex(s) \/ SendPacket(s) \/ SendFails(s)
           \/ GetBuffer(s) /\ ~isInit[s]
    PROVE  UNCHANGED <<bufferFns, numberFns>>
  BY DEF WriteFrame, TakeSenderMutex, SendPacket, SendFails, GetBuffer, bufferFns, numberFns,
         bufferVars

\* A close frees the rolling buffer of a sender, a new connection creates them.
LEMMA FreeEffect ==
    ASSUME TypeOK, BufferInv, NEW s \in Senders, RollingBufferFree(s), UNCHANGED produced,
           writer[s].pc \in {"idle", "lock"}
    PROVE  /\ isInit' \in [Senders -> BOOLEAN] /\ Put(isInit, isInit', s, FALSE)
           /\ packetQueue' \in [Senders -> Seq(Entry)] /\ Put(packetQueue, packetQueue', s, <<>>)
           /\ allocated' \in [Senders -> SUBSET Buffers] /\ Put(allocated, allocated', s, {})
           /\ UNCHANGED <<content, stored, produced>>
<1>1. BufferTypes /\ SenderBuffers(s)
  BY TypeParts DEF BufferInv
<1>2. <<>> \in Seq(Entry) /\ packetQueue \in [Senders -> Seq(Entry)]
  <2>1. <<>> \in Seq(Entry)
    OBVIOUS
  <2>2. QED
    BY <1>1, <2>1 DEF BufferTypes, Entry
<1>3. allocated[s] = Queued(s) /\ allocated \in [Senders -> SUBSET Buffers]
  BY <1>1 DEF SenderBuffers, InHand, BufferTypes
<1>4. CASE isInit[s]
  <2>1. isInit' = [isInit EXCEPT ![s] = FALSE] /\ packetQueue' = [packetQueue EXCEPT ![s] = <<>>]
    BY <1>4 DEF RollingBufferFree
  <2>2. allocated' = [allocated EXCEPT ![s] = {}]
    BY <1>3, <1>4 DEF RollingBufferFree, Queued
  <2>3. isInit \in [Senders -> BOOLEAN] /\ FALSE \in BOOLEAN /\ {} \in SUBSET Buffers
    BY <1>1 DEF BufferTypes
  <2>4. isInit' \in [Senders -> BOOLEAN] /\ Put(isInit, isInit', s, FALSE)
    BY <2>1, <2>3, PutForm, Zenon
  <2>5. packetQueue' \in [Senders -> Seq(Entry)] /\ Put(packetQueue, packetQueue', s, <<>>)
    BY <1>2, <2>1, PutForm, Zenon
  <2>6. allocated' \in [Senders -> SUBSET Buffers] /\ Put(allocated, allocated', s, {})
    BY <1>3, <2>2, <2>3, PutForm, Zenon
  <2>7. QED
    BY <1>4, <2>4, <2>5, <2>6 DEF RollingBufferFree
<1>5. CASE ~isInit[s]
  <2>1. packetQueue[s] = <<>> /\ Queued(s) = {}
    BY <1>1, <1>5 DEF SenderBuffers, Queued
  <2>2. UNCHANGED bufferVars
    BY <1>5 DEF RollingBufferFree
  <2>3. isInit[s] = FALSE /\ isInit \in [Senders -> BOOLEAN]
    BY <1>1, <1>5 DEF BufferTypes
  <2>4. QED
    BY <1>2, <1>3, <2>1, <2>2, <2>3 DEF Put, bufferVars
<1>6. QED
  BY <1>4, <1>5
\* A new connection finds nothing of the last one, so that the rolling buffers it makes
\* replace none.
LEMMA CreateEffect ==
    ASSUME TypeOK, LifeInv, BufferInv, SrtpInitBuffers \/ SrtpInitFails
    PROVE  /\ isInit' \in [Senders -> BOOLEAN] /\ stored' \in [Senders -> 0 .. MaxPackets]
           /\ \A s \in Senders : ~isInit[s] /\ packetQueue[s] = <<>>
           /\ \A s \in Senders : packetQueue'[s] = <<>> /\ stored'[s] \in {0, stored[s]}
           /\ \A s \in Senders : isInit'[s] => stored'[s] = 0
           /\ packetQueue' \in [Senders -> Seq(Entry)]
           /\ UNCHANGED <<allocated, content, produced, writer, nack>>
<1>1. BufferTypes /\ MaxPackets \in Nat /\ <<>> \in Seq(Entry)
  BY TypeParts, BoundAssumption
<1>2. \A s \in Senders : ~isInit[s]
  BY DEF SrtpInitBuffers, SrtpInitFails, LifeInv
<1>3. \A s \in Senders : packetQueue[s] = <<>>
  BY <1>2 DEF BufferInv, SenderBuffers
<1>4. PICK made : RollingBufferCreate(made) /\ UNCHANGED <<produced, writer, nack>>
  BY DEF SrtpInitBuffers, SrtpInitFails
<1>5. isInit' \in [Senders -> BOOLEAN]
  BY <1>1, <1>4 DEF RollingBufferCreate, BufferTypes
<1>6. stored' \in [Senders -> 0 .. MaxPackets]
  BY <1>1, <1>4 DEF RollingBufferCreate, BufferTypes
<1>7. packetQueue' \in [Senders -> Seq(Entry)] /\ \A s \in Senders : packetQueue'[s] = <<>>
  BY <1>1, <1>3, <1>4 DEF RollingBufferCreate
<1>8. \A s \in Senders : stored'[s] \in {0, stored[s]} /\ (isInit'[s] => stored'[s] = 0)
  BY <1>2, <1>4 DEF RollingBufferCreate
<1>9. QED
  BY <1>2, <1>3, <1>4, <1>5, <1>6, <1>7, <1>8 DEF RollingBufferCreate

\* Which actions touch the packet buffers.
LEMMA BufferSteps ==
    [Next]_vars => \/ \E s \in Senders : WriterStep(s) /\ UNCHANGED nack
                   \/ \E t \in Closers : DeInitSender(t) /\ UNCHANGED <<writer, nack>>
                   \/ SrtpInitBuffers \/ SrtpInitFails
                   \/ ResendStep /\ UNCHANGED <<bufferFns, writer>>
                   \/ /\ UNCHANGED <<bufferFns, writer>>
                      /\ nack' = nack \/ nack'.pc = "lock"
  BY ZenonT(30)
     DEF Next, vars, CloseSession, CloseStep, Destroy, DestroyAlreadyClosed, DestroyClosed,
         DeInitSession, DeInitSender, AddressClosing, OnClosePeerConnection, CreateOffer,
         SrtpInitSession, WriterStep, WriteFrame, TakeSenderMutex, GetBuffer, GetPacket, NoMorePackets,
         ConstructSrtpPacket, ConstructFails, StorePacket, SendPacket, SendFails, ResendStep,
         ResendLock, ResendNotFound, ResendFound, ResendConstruct, ResendConstructFails, ResendSend,
         OnRtcpNackEvent, NackIdle, bufferFns, bufferVars

\* A mutex that is free is held by no media task.
LEMMA DeInitFacts ==
    ASSUME TypeOK, MutexInv, NEW t \in Closers, DeInitSender(t)
    PROVE  /\ closer[t] \in Senders /\ RollingBufferFree(closer[t])
           /\ UNCHANGED <<produced, numberFns>>
           /\ writer[closer[t]].pc \in {"idle", "lock"}
           /\ ~(nack.s = closer[t] /\ nack.pc \in NackHolds)
<1>1. /\ closer[t] \in Senders /\ senderMutex[closer[t]] = "none" /\ RollingBufferFree(closer[t])
      /\ UNCHANGED <<produced, numberFns>>
  BY DEF DeInitSender, numberFns
<1>2. writer[closer[t]] \in Writers /\ closer[t] # "none"
  BY <1>1, TypeParts, SenderAssumption DEF TaskTypes
<1>3. writer[closer[t]].pc \notin WriterHolds /\ ~(nack.s = closer[t] /\ nack.pc \in NackHolds)
  BY <1>1, <1>2 DEF MutexInv
<1>4. QED
  BY <1>1, <1>2, <1>3 DEF Writers, WriterHolds

LEMMA BufferTypesStep == TypeOK /\ MutexInv /\ LifeInv /\ BufferInv /\ [Next]_vars => BufferTypes'
<1> SUFFICES ASSUME TypeOK, MutexInv, LifeInv, BufferInv, [Next]_vars
             PROVE  BufferTypes'
  OBVIOUS
<1>t. BufferTypes
  BY TypeParts
<1> USE DEF BufferTypes, Entry
<1>1. ASSUME NEW s \in Senders, WriterStep(s)
      PROVE  BufferTypes'
  <2>1. CASE GetBuffer(s) /\ isInit[s]
    BY <1>t, <2>1, GetBufferEffect
  <2>2. CASE GetPacket(s)
    BY <1>t, <2>2, GetPacketEffect
  <2>3. CASE NoMorePackets(s) \/ ConstructFails(s)
    BY <1>t, <2>3, DiscardEffect
  <2>4. CASE ConstructSrtpPacket(s)
    BY <1>t, <2>4, ConstructEffect
  <2>5. CASE StorePacket(s)
    BY <1>t, <2>5, StoreEffect
  <2>6. CASE WriteFrame(s) \/ TakeSenderMutex(s) \/ SendPacket(s) \/ SendFails(s)
        \/ (GetBuffer(s) /\ ~isInit[s])
    BY <1>t, <2>6, QuietSteps DEF bufferFns
  <2>7. QED
    BY <1>1, <2>1, <2>2, <2>3, <2>4, <2>5, <2>6 DEF WriterStep
<1>2. ASSUME NEW t \in Closers, DeInitSender(t)
      PROVE  BufferTypes'
  BY <1>t, <1>2, DeInitFacts, FreeEffect
<1>3. CASE SrtpInitBuffers \/ SrtpInitFails
  BY <1>t, <1>3, CreateEffect
<1>4. CASE UNCHANGED bufferFns
  BY <1>t, <1>4 DEF bufferFns
<1>5. QED
  BY <1>1, <1>2, <1>3, <1>4, BufferSteps

\* What is known of a sender's buffers depends on that sender alone.
LEMMA BuffersKept ==
    ASSUME NEW s, SenderBuffers(s), isInit'[s] = isInit[s], packetQueue'[s] = packetQueue[s],
           allocated'[s] = allocated[s], stored'[s] = stored[s], produced'[s] = produced[s],
           writer'[s] = writer[s]
    PROVE  SenderBuffers(s)'
  BY DEF SenderBuffers, QueueLen, Queued, InHand

\* The buffers in the queue after a packet was stored.
LEMMA StoredQueue ==
    ASSUME NEW s \in Senders, TypeOK, BufferInv, StorePacket(s)
    PROVE  /\ QueueLen(s)' <= Capacity
           /\ \A i, j \in 1 .. QueueLen(s)' :
                  packetQueue'[s][i].buf = packetQueue'[s][j].buf => i = j
           /\ Queued(s)' = (Queued(s) \ Evicted(packetQueue[s])) \cup {writer[s].buf}
           /\ writer[s].buf \notin Evicted(packetQueue[s])
<1> DEFINE q == packetQueue[s]
           e == [seq |-> rtpSeq[s], buf |-> writer[s].buf]
           n == ForceEnqueue(q, e)
           d == Dropped(q)
<1>1. /\ packetQueue'[s] = n /\ e \in Entry /\ q \in Seq(Entry) /\ Len(q) <= Capacity
      /\ \A i, j \in 1 .. Len(q) : q[i].buf = q[j].buf => i = j
      /\ \A i \in 1 .. Len(q) : q[i].buf # writer[s].buf
  <2>1. packetQueue'[s] = n /\ e \in Entry
    BY StoreEffect DEF Put
  <2>2. SenderBuffers(s) /\ q \in Seq(Entry)
    BY TypeParts DEF BufferInv, BufferTypes, Entry
  <2>3. writer[s].buf \notin Queued(s)
    BY MakingFacts DEF StorePacket, InMaking
  <2>4. QED
    BY <2>1, <2>2, <2>3 DEF SenderBuffers, QueueLen, Queued
<1>2. /\ Len(n) = Len(q) + 1 - d /\ Len(n) \in 1 .. Capacity /\ n[Len(n)] = e
      /\ \A i \in 1 .. Len(n) : i # Len(n) => i + d \in 1 .. Len(q) /\ n[i] = q[i + d]
      /\ \A j \in 1 .. Len(q) : j > d => j - d \in 1 .. Len(n) /\ n[j - d] = q[j] /\ j - d # Len(n)
  <2>1. e \in Entry /\ q \in Seq(Entry) /\ Len(q) <= Capacity
    BY <1>1
  <2>2. Enqueued(q, e, n, d)
    BY <2>1, EnqueueFacts
  <2>3. QED
    BY <2>2 DEF Enqueued
<1>c. Len(n) \in Nat /\ Len(q) \in Nat /\ d \in {0, 1} /\ Capacity \in Nat \ {0}
  <2>1. Capacity \in Nat \ {0} /\ Len(q) \in Nat
    BY <1>1, BoundAssumption
  <2>2. QED
    BY <2>1, <1>2 DEF Dropped
<1>b. e.buf = writer[s].buf
  OBVIOUS
<1> HIDE DEF n, d, e
<1>3. \A i, j \in 1 .. Len(n) : n[i].buf = n[j].buf => i = j
  <2> SUFFICES ASSUME NEW i \in 1 .. Len(n), NEW j \in 1 .. Len(n), n[i].buf = n[j].buf
               PROVE  i = j
    OBVIOUS
  <2>1. CASE i # Len(n) /\ j # Len(n)
    <3>1. q[i + d].buf = q[j + d].buf /\ i + d \in 1 .. Len(q) /\ j + d \in 1 .. Len(q)
      BY <1>2, <2>1
    <3>2. i + d = j + d
      BY <1>1, <3>1
    <3>3. QED
      BY <1>c, <3>2
  <2>2. CASE i = Len(n) \/ j = Len(n)
    BY <1>1, <1>2, <1>b, <2>2
  <2>3. QED
    BY <2>1, <2>2
<1>4. Evicted(q) = IF d = 1 THEN {q[1].buf} ELSE {}
  BY DEF Evicted, d, Dropped
<1>5. {n[i].buf : i \in 1 .. Len(n)}
        = ({q[i].buf : i \in 1 .. Len(q)} \ Evicted(q)) \cup {writer[s].buf}
  <2>1. ASSUME NEW i \in 1 .. Len(n), i # Len(n)
        PROVE  n[i].buf \in {q[j].buf : j \in 1 .. Len(q)} /\ n[i].buf \notin Evicted(q)
    <3>1. i + d \in 1 .. Len(q) /\ n[i] = q[i + d]
      BY <1>2, <2>1
    <3>2. d = 1 => i + d # 1 /\ 1 \in 1 .. Len(q)
      BY <1>c, <3>1
    <3>3. d = 1 => q[1].buf # q[i + d].buf
      BY <1>1, <3>1, <3>2
    <3>4. QED
      BY <1>4, <3>1, <3>3
  <2>2. ASSUME NEW j \in 1 .. Len(q), q[j].buf \notin Evicted(q)
        PROVE  \E i \in 1 .. Len(n) : n[i].buf = q[j].buf
    <3>1. j > d
      BY <1>4, <1>c, <2>2
    <3>2. QED
      BY <1>2, <3>1
  <2>3. \E i \in 1 .. Len(n) : n[i].buf = writer[s].buf
    BY <1>2, <1>b, <1>c
  <2>4. n[Len(n)].buf = writer[s].buf
    BY <1>2, <1>b
  <2> DEFINE N == {n[i].buf : i \in 1 .. Len(n)}
             Q == {q[i].buf : i \in 1 .. Len(q)}
             w == writer[s].buf
  <2>5. N \subseteq (Q \ Evicted(q)) \cup {w}
    BY <2>1, <2>4
  <2>6. Q \ Evicted(q) \subseteq N
    BY <2>2
  <2>7. w \in N
    BY <2>3
  <2> HIDE DEF N, Q, w
  <2>8. N = (Q \ Evicted(q)) \cup {w}
    BY <2>5, <2>6, <2>7
  <2>9. QED
    BY <2>8 DEF N, Q, w
<1>6. writer[s].buf \notin Evicted(q)
  <2>1. d = 1 => 1 \in 1 .. Len(q)
    BY <1>2, <1>c
  <2>2. QED
    BY <1>1, <1>4, <2>1
<1>7. QED
  <2>1. packetQueue'[s] = n /\ Len(n) <= Capacity
    BY <1>1, <1>2
  <2>2. QueueLen(s)' <= Capacity
    BY <2>1 DEF QueueLen
  <2>3. \A i, j \in 1 .. QueueLen(s)' : packetQueue'[s][i].buf = packetQueue'[s][j].buf => i = j
    BY <1>3, <2>1 DEF QueueLen
  <2>4. Queued(s)' = {n[i].buf : i \in 1 .. Len(n)}
    BY <2>1 DEF Queued
  <2>5. QED
    BY <1>5, <1>6, <2>2, <2>3, <2>4 DEF Queued
\* A step of a media task keeps the account of its buffers.
LEMMA WriterBuffers ==
    ASSUME TypeOK, BufferInv, NEW s \in Senders, WriterStep(s)
    PROVE  SenderBuffers(s)'
<1>1. SenderBuffers(s) /\ 0 \notin Buffers
  BY DEF BufferInv, Buffers
<1>t. /\ stored[s] \in Nat /\ produced[s] \in Nat /\ Capacity \in Nat \ {0}
      /\ writer[s] \in Writers /\ packetQueue[s] \in Seq(Entry)
  <2>1. BufferTypes /\ TaskTypes
    BY TypeParts
  <2>2. stored[s] \in 0 .. MaxPackets /\ produced[s] \in 0 .. MaxPackets /\ MaxPackets \in Nat
    BY <2>1, BoundAssumption DEF BufferTypes
  <2>3. packetQueue[s] \in Seq(Entry) /\ writer[s] \in Writers
    BY <2>1 DEF BufferTypes, TaskTypes, Entry
  <2>4. stored[s] \in Nat /\ produced[s] \in Nat
    BY <2>2
  <2>5. QED
    BY <2>3, <2>4, BoundAssumption
<1>2. CASE GetBuffer(s) /\ isInit[s]
  <2>1. /\ writer'[s].pc = "packet" /\ writer'[s].buf = FreshBuffer(s)
    BY <1>2, WriterMoves DEF Moves
  <2>2. /\ allocated'[s] = Queued(s) \cup {FreshBuffer(s)} /\ FreshBuffer(s) \in Buffers \ Queued(s)
        /\ isInit'[s] /\ UNCHANGED <<packetQueue, stored, produced>>
    BY <1>2, GetBufferEffect DEF Put
  <2>3. /\ Queued(s)' = Queued(s) /\ QueueLen(s)' = QueueLen(s) /\ writer[s].pc = "alloc"
        /\ allocated'[s] = Queued(s)' \cup InHand(s)'
    BY <1>1, <1>2, <2>1, <2>2 DEF QueueLen, Queued, InHand, GetBuffer
  <2>4. QED
    BY <1>1, <1>2, <2>1, <2>2, <2>3 DEF SenderBuffers, InMaking
<1>3. CASE WriteFrame(s) \/ TakeSenderMutex(s)
  <2>1. /\ UNCHANGED bufferFns /\ writer'[s].buf = writer[s].buf
        /\ writer[s].pc \in {"idle", "lock"} /\ writer'[s].pc \in {"lock", "alloc"}
    BY <1>3, WriterMoves, QuietSteps DEF Moves, WriteFrame, TakeSenderMutex
  <2>2. QED
    BY <1>1, <2>1 DEF SenderBuffers, QueueLen, Queued, InHand, InMaking, bufferFns
<1>4. CASE GetPacket(s)
  <2>1. /\ writer[s].pc = "packet" /\ writer'[s].pc = "protect" /\ writer'[s].buf = writer[s].buf
        /\ UNCHANGED <<isInit, packetQueue, allocated, stored>> /\ produced'[s] = produced[s] + 1
    BY <1>4, WriterMoves, GetPacketEffect DEF Moves, GetPacket, Put
  <2>2. stored[s] < produced'[s]
    BY <1>1, <1>t, <2>1 DEF SenderBuffers
  <2>3. /\ Queued(s)' = Queued(s) /\ QueueLen(s)' = QueueLen(s)
        /\ allocated'[s] = Queued(s)' \cup InHand(s)'
    BY <1>1, <2>1 DEF SenderBuffers, QueueLen, Queued, InHand
  <2>4. stored'[s] <= produced'[s]
    BY <1>1, <1>t, <2>1 DEF SenderBuffers
  <2>5. /\ \A i, j \in 1 .. QueueLen(s)' :
              packetQueue'[s][i].buf = packetQueue'[s][j].buf => i = j
        /\ QueueLen(s)' <= Capacity /\ isInit'[s] /\ writer'[s].buf \in Buffers \ Queued(s)'
        /\ QueueLen(s)' = IF stored'[s] < Capacity THEN stored'[s] ELSE Capacity
    BY <1>1, <2>1, <2>3 DEF SenderBuffers, InMaking
  <2>6. QED
    BY <2>1, <2>2, <2>3, <2>4, <2>5 DEF SenderBuffers, InMaking
<1>5. CASE NoMorePackets(s) \/ ConstructFails(s)
  <2>1. /\ writer[s].pc \in {"packet", "protect"} /\ writer'[s].pc = "idle" /\ writer'[s].buf = 0
        /\ allocated'[s] = Queued(s) /\ UNCHANGED <<isInit, packetQueue, stored, produced>>
    BY <1>5, WriterMoves, DiscardEffect DEF Moves, NoMorePackets, ConstructFails, Put
  <2>2. QED
    BY <1>1, <2>1 DEF SenderBuffers, QueueLen, Queued, InHand, InMaking
<1>6. CASE ConstructSrtpPacket(s)
  <2>1. /\ writer[s].pc = "protect" /\ writer'[s].pc = "store" /\ writer'[s].buf = writer[s].buf
        /\ UNCHANGED <<isInit, packetQueue, allocated, stored, produced>>
    BY <1>6, WriterMoves, ConstructEffect DEF Moves, ConstructSrtpPacket
  <2>2. QED
    BY <1>1, <2>1 DEF SenderBuffers, QueueLen, Queued, InHand, InMaking
<1>7. CASE StorePacket(s)
  <2>1. /\ writer[s].pc = "store" /\ isInit[s] /\ isInit'[s] /\ UNCHANGED produced
        /\ allocated'[s] = allocated[s] \ Evicted(packetQueue[s]) /\ stored'[s] = stored[s] + 1
    BY <1>7, StoreEffect DEF Put, StorePacket
  <2>2. writer'[s].pc = "send" /\ writer'[s].buf = writer[s].buf
    BY <1>7, <2>1, WriterMoves DEF Moves
  <2>3. /\ QueueLen(s)' <= Capacity
        /\ \A i, j \in 1 .. QueueLen(s)' : packetQueue'[s][i].buf = packetQueue'[s][j].buf => i = j
        /\ Queued(s)' = (Queued(s) \ Evicted(packetQueue[s])) \cup {writer[s].buf}
        /\ writer[s].buf \notin Evicted(packetQueue[s])
    BY <1>7, StoredQueue
  <2>4. allocated'[s] = Queued(s)' \cup InHand(s)'
    <3>1. allocated[s] = Queued(s) \cup {writer[s].buf}
      BY <1>7, MakingFacts DEF StorePacket, InMaking
    <3>2. InHand(s)' = {}
      BY <2>2, <2>3 DEF InHand
    <3>3. QED
      BY <2>1, <2>3, <3>1, <3>2
  <2>5. QueueLen(s)' = IF stored'[s] < Capacity THEN stored'[s] ELSE Capacity
    <3>1. QueueLen(s)' = QueueLen(s) + 1 - Dropped(packetQueue[s])
      <4>1. /\ [seq |-> rtpSeq[s], buf |-> writer[s].buf] \in Entry
            /\ packetQueue'[s] = ForceEnqueue(packetQueue[s],
                 [seq |-> rtpSeq[s], buf |-> writer[s].buf])
        BY <1>7, StoreEffect DEF Put
      <4>2. Len(packetQueue[s]) <= Capacity
        BY <1>1 DEF SenderBuffers, QueueLen
      <4>3. Enqueued(packetQueue[s], [seq |-> rtpSeq[s], buf |-> writer[s].buf],
                     packetQueue'[s], Dropped(packetQueue[s]))
        BY <1>t, <4>1, <4>2, EnqueueFacts
      <4>4. QED
        BY <4>3 DEF Enqueued, QueueLen
    <3>2. QueueLen(s) = IF stored[s] < Capacity THEN stored[s] ELSE Capacity
      BY <1>1, <2>1 DEF SenderBuffers
    <3>3. QED
      BY <1>t, <2>1, <3>1, <3>2 DEF Dropped, QueueLen
  <2>6. stored'[s] <= produced'[s]
    BY <1>1, <1>t, <2>1 DEF SenderBuffers
  <2>7. QED
    BY <2>1, <2>2, <2>3, <2>4, <2>5, <2>6 DEF SenderBuffers, InMaking
<1>8. CASE SendPacket(s) \/ SendFails(s)
  <2>1. /\ UNCHANGED bufferFns /\ writer'[s].buf = 0
        /\ writer[s].pc = "send" /\ writer'[s].pc \in {"idle", "alloc"}
    BY <1>8, WriterMoves, QuietSteps DEF Moves, SendPacket, SendFails
  <2>2. QED
    BY <1>1, <2>1 DEF SenderBuffers, QueueLen, Queued, InHand, InMaking, bufferFns
<1>9. CASE GetBuffer(s) /\ ~isInit[s]
  <2>1. UNCHANGED bufferFns /\ writer'[s].buf = 0 /\ writer'[s].pc = "idle"
        /\ writer[s].pc = "alloc"
    BY <1>9, WriterMoves, QuietSteps DEF Moves, GetBuffer
  <2>2. QED
    BY <1>1, <2>1 DEF SenderBuffers, QueueLen, Queued, InHand, InMaking, bufferFns
<1>10. QED
  BY <1>2, <1>3, <1>4, <1>5, <1>6, <1>7, <1>8, <1>9 DEF WriterStep

\* The senders that take no step keep what belongs to them.
Untouched(r) ==
    /\ isInit'[r] = isInit[r] /\ packetQueue'[r] = packetQueue[r] /\ allocated'[r] = allocated[r]
    /\ content'[r] = content[r] /\ stored'[r] = stored[r] /\ produced'[r] = produced[r]
    /\ writer'[r] = writer[r] /\ rtpSeq'[r] = rtpSeq[r] /\ lastPayload'[r] = lastPayload[r]

LEMMA OthersUntouched ==
    ASSUME TypeOK, BufferInv, NEW s \in Senders, WriterStep(s), NEW r \in Senders, r # s
    PROVE  Untouched(r)
<1>1. writer'[r] = writer[r]
  BY WriterMoves DEF WriterStep, Moves
<1>2. CASE GetBuffer(s) /\ isInit[s]
  BY <1>1, <1>2, GetBufferEffect DEF Untouched, Put, numberFns
<1>3. CASE GetPacket(s)
  BY <1>1, <1>3, GetPacketEffect DEF Untouched, Put, numberFns
<1>4. CASE NoMorePackets(s) \/ ConstructFails(s)
  BY <1>1, <1>4, DiscardEffect DEF Untouched, Put, numberFns
<1>5. CASE ConstructSrtpPacket(s)
  BY <1>1, <1>5, ConstructEffect DEF Untouched, Put
<1>6. CASE StorePacket(s)
  BY <1>1, <1>6, StoreEffect DEF Untouched, Put
<1>7. CASE WriteFrame(s) \/ TakeSenderMutex(s) \/ SendPacket(s) \/ SendFails(s)
      \/ (GetBuffer(s) /\ ~isInit[s])
  BY <1>1, <1>7, QuietSteps DEF Untouched, bufferFns, numberFns
<1>8. QED
  BY <1>2, <1>3, <1>4, <1>5, <1>6, <1>7 DEF WriterStep

LEMMA BuffersStep ==
    TypeOK /\ MutexInv /\ LifeInv /\ BufferInv /\ [Next]_vars
      => \A s \in Senders : SenderBuffers(s)'
<1> SUFFICES ASSUME TypeOK, MutexInv, LifeInv, BufferInv, [Next]_vars, NEW r \in Senders
             PROVE  SenderBuffers(r)'
  OBVIOUS
<1>0. SenderBuffers(r) /\ Capacity \in Nat \ {0} /\ stored[r] \in Nat /\ produced[r] \in Nat
  BY TypeParts, BoundAssumption DEF BufferInv, BufferTypes
<1>1. ASSUME NEW s \in Senders, WriterStep(s)
      PROVE  SenderBuffers(r)'
  <2>1. CASE r = s
    BY <1>1, <2>1, WriterBuffers
  <2>2. CASE r # s
    BY <1>0, <1>1, <2>2, OthersUntouched, BuffersKept DEF Untouched
  <2>3. QED
    BY <2>1, <2>2
<1>2. ASSUME NEW t \in Closers, DeInitSender(t), UNCHANGED writer
      PROVE  SenderBuffers(r)'
  <2> DEFINE s == closer[t]
  <2>1. /\ s \in Senders /\ writer[s].pc \in {"idle", "lock"}
        /\ Put(isInit, isInit', s, FALSE) /\ Put(packetQueue, packetQueue', s, <<>>)
        /\ Put(allocated, allocated', s, {}) /\ UNCHANGED <<stored, produced>>
    <3>1. /\ s \in Senders /\ writer[s].pc \in {"idle", "lock"} /\ RollingBufferFree(s)
          /\ UNCHANGED produced
      BY <1>2, DeInitFacts
    <3>2. QED
      BY <3>1, FreeEffect
  <2>2. CASE r = s
    <3>1. /\ ~isInit'[r] /\ packetQueue'[r] = <<>> /\ allocated'[r] = {} /\ writer'[r] = writer[r]
          /\ writer[r].pc \in {"idle", "lock"} /\ writer[r].buf = 0
          /\ stored'[r] = stored[r] /\ produced'[r] = produced[r]
      BY <1>0, <1>2, <2>1, <2>2 DEF Put, SenderBuffers
    <3>2. Queued(r)' = {} /\ InHand(r)' = {} /\ QueueLen(r)' = 0
      BY <3>1 DEF Queued, InHand, QueueLen
    <3>3. QED
      BY <1>0, <3>1, <3>2 DEF SenderBuffers, InMaking
  <2>3. CASE r # s
    BY <1>0, <1>2, <2>1, <2>3, BuffersKept DEF Put
  <2>4. QED
    BY <2>2, <2>3
<1>3. CASE SrtpInitBuffers \/ SrtpInitFails
  <2>1. /\ ~isInit[r] /\ packetQueue[r] = <<>> /\ packetQueue'[r] = <<>>
        /\ stored'[r] \in {0, stored[r]} /\ (isInit'[r] => stored'[r] = 0)
        /\ UNCHANGED <<allocated, produced, writer>>
    BY <1>3, CreateEffect
  <2>2. Queued(r)' = Queued(r) /\ InHand(r)' = InHand(r) /\ QueueLen(r)' = 0
    BY <2>1 DEF Queued, InHand, QueueLen
  <2>3. QED
    BY <1>0, <2>1, <2>2 DEF SenderBuffers, InMaking
<1>4. CASE UNCHANGED <<bufferFns, writer>>
  BY <1>0, <1>4, BuffersKept DEF bufferFns
<1>5. QED
  BY <1>1, <1>2, <1>3, <1>4, BufferSteps

\* The packet the NACK handler has found stays, because the handler has the mutex.
LEMMA NackFoundStep == TypeOK /\ MutexInv /\ LifeInv /\ BufferInv /\ [Next]_vars => NackFound'
<1> SUFFICES ASSUME TypeOK, MutexInv, LifeInv, BufferInv, [Next]_vars
             PROVE  NackFound'
  OBVIOUS
<1>0. NackFound
  BY DEF BufferInv
<1>1. ASSUME NEW s \in Senders, WriterStep(s), UNCHANGED nack
      PROVE  NackFound'
  <2> SUFFICES ASSUME nack.pc \in {"protect", "send"}
               PROVE  isInit'[nack.s] = isInit[nack.s] /\ packetQueue'[nack.s] = packetQueue[nack.s]
    BY <1>0, <1>1 DEF NackFound, QueueLen
  <2>0. nack.s \in Senders /\ senderMutex[nack.s] = "listener" /\ "listener" \notin Senders
    BY SenderAssumption DEF MutexInv, NackHolds
  <2>1. CASE s = nack.s
    <3>1. writer[s].pc \notin WriterHolds
      BY <2>0, <2>1 DEF MutexInv
    <3>2. WriteFrame(s)
      BY <1>1, <2>0, <2>1, <3>1
         DEF WriterStep, TakeSenderMutex, GetBuffer, GetPacket, NoMorePackets, ConstructSrtpPacket,
             ConstructFails, StorePacket, SendPacket, SendFails, WriterHolds
    <3>3. QED
      BY <3>2, QuietSteps DEF bufferFns
  <2>2. CASE s # nack.s
    BY <1>1, <2>0, <2>2, OthersUntouched DEF Untouched
  <2>3. QED
    BY <2>1, <2>2
<1>2. ASSUME NEW t \in Closers, DeInitSender(t), UNCHANGED <<writer, nack>>
      PROVE  NackFound'
  <2> SUFFICES ASSUME nack.pc \in {"protect", "send"}
               PROVE  isInit'[nack.s] = isInit[nack.s] /\ packetQueue'[nack.s] = packetQueue[nack.s]
    BY <1>0, <1>2 DEF NackFound, QueueLen
  <2>1. nack.s \in Senders /\ nack.s # closer[t]
    BY <1>2, DeInitFacts DEF MutexInv, NackHolds
  <2>2. Put(isInit, isInit', closer[t], FALSE) /\ Put(packetQueue, packetQueue', closer[t], <<>>)
    BY <1>2, DeInitFacts, FreeEffect
  <2>3. QED
    BY <2>1, <2>2 DEF Put
<1>3. CASE SrtpInitBuffers \/ SrtpInitFails
  <2>1. nack.pc \notin {"protect", "send"}
    BY <1>0, <1>3, CreateEffect DEF NackFound, MutexInv
  <2>2. QED
    BY <1>3, <2>1, CreateEffect DEF NackFound
<1>4. CASE ResendStep /\ UNCHANGED <<bufferFns, writer>>
  <2>0. nack.s \in Senders
    BY <1>4, NackMoves
  <2>1. CASE ResendFound
    <3>1. isInit[nack.s]
      BY <2>1 DEF ResendFound, Searchable
    <3>2. PICK b \in Retrieved(nack.s, Head(nack.list)) :
             nack'.s = nack.s /\ nack'.list = nack.list /\ nack'.buf = b
      BY <2>1, NackMoves DEF NackTo
    <3>3. PICK i \in 1 .. Len(packetQueue[nack.s]) :
             packetQueue[nack.s][i].seq = Head(nack.list) /\ packetQueue[nack.s][i].buf = b
      BY <3>2 DEF Retrieved
    <3>4. packetQueue[nack.s][i] = [seq |-> Head(nack.list), buf |-> b]
      <4>1. packetQueue[nack.s] \in Seq(Entry)
        BY <2>0, TypeParts DEF BufferTypes, Entry
      <4>2. packetQueue[nack.s][i] \in Entry
        BY <4>1, ElementOfSeq
      <4>3. QED
        BY <3>3, <4>2 DEF Entry
    <3>5. QED
      BY <1>4, <3>1, <3>2, <3>4 DEF NackFound, QueueLen, bufferFns
  <2>2. CASE ResendConstruct
    <3>1. nack.pc = "protect" /\ nack'.s = nack.s /\ nack'.list = nack.list /\ nack'.buf = nack.buf
      BY <2>2, NackMoves DEF NackTo, ResendConstruct
    <3>2. QED
      BY <1>0, <1>4, <3>1 DEF NackFound, QueueLen, bufferFns
  <2>3. CASE ResendLock \/ ResendNotFound \/ ResendConstructFails \/ ResendSend
    <3>1. nack'.pc \in {"idle", "lock", "search"}
      BY <2>3, NackMoves DEF NackTo, NackLeft
    <3>2. QED
      BY <3>1 DEF NackFound
  <2>4. QED
    BY <1>4, <2>1, <2>2, <2>3 DEF ResendStep
<1>5. CASE UNCHANGED <<bufferFns, writer>> /\ (nack' = nack \/ nack'.pc = "lock")
  BY <1>0, <1>5 DEF NackFound, QueueLen, bufferFns
<1>6. QED
  BY <1>1, <1>2, <1>3, <1>4, <1>5, BufferSteps
------------------------------------------------------------------------------
(* The numbers. *)

\* PeerConnectionSrtp_ConstructSrtpPacket notes the number under the stream of the sender.
LEMMA ProtectEffect ==
    ASSUME NumberTypes, NEW s \in Senders, NEW stream \in {"rtp", "rtx"}, NEW n \in SeqNums,
           Protect(s, stream, n)
    PROVE  /\ lastProtected' \in [Senders \X {"rtp", "rtx"} -> [seq : SeqNums, n : Nat]]
           /\ txSession = 0 => lastProtected' = lastProtected
           /\ txSession # 0 => lastProtected'[<<s, stream>>] =
                                  [seq |-> n, n |-> lastProtected[<<s, stream>>].n + 1]
           /\ \A x \in Senders \X {"rtp", "rtx"} : x # <<s, stream>>
                => lastProtected'[x] = lastProtected[x]
<1> DEFINE x == <<s, stream>>
           v == [seq |-> n, n |-> lastProtected[x].n + 1]
           P == Senders \X {"rtp", "rtx"}
           T == [seq : SeqNums, n : Nat]
<1>1. x \in P /\ lastProtected \in [P -> T]
  BY DEF NumberTypes
<1>2. v \in T
  BY <1>1
<1>3. lastProtected' = IF txSession = 0 THEN lastProtected ELSE [lastProtected EXCEPT ![x] = v]
  BY DEF Protect
<1> HIDE DEF x, v, P, T
<1>4. /\ lastProtected' \in [P -> T]
      /\ txSession = 0 => lastProtected' = lastProtected
      /\ txSession # 0 => lastProtected'[x] = v
      /\ \A y \in P : y # x => lastProtected'[y] = lastProtected[y]
  BY <1>1, <1>2, <1>3
<1>5. QED
  BY <1>4 DEF x, v, P, T

\* Which actions touch the numbers.
LEMMA NumberSteps ==
    [Next]_vars => \/ \E s \in Senders : ConstructSrtpPacket(s) /\ UNCHANGED <<rtpSeq, rtxSeq>>
                   \/ \E s \in Senders : StorePacket(s) /\ UNCHANGED <<rtxSeq, lastProtected>>
                   \/ ResendConstruct /\ UNCHANGED numberFns
                   \/ ResendConstructFails /\ UNCHANGED <<numberFns, lastProtected>>
                   \/ CreateOffer /\ UNCHANGED <<lastPayload, lastProtected>>
                   \/ SrtpInitSession /\ UNCHANGED numberFns
                   \/ UNCHANGED <<numberFns, rtxSeq, lastProtected>>
  BY ZenonT(30)
     DEF Next, vars, CloseSession, CloseStep, Destroy, DestroyAlreadyClosed, DestroyClosed,
         DeInitSession, DeInitSender, AddressClosing, OnClosePeerConnection, CreateOffer,
         SrtpInitSession, SrtpInitBuffers, SrtpInitFails, WriterStep, WriteFrame, TakeSenderMutex,
         GetBuffer, GetPacket, NoMorePackets, ConstructSrtpPacket, ConstructFails, StorePacket,
         SendPacket, SendFails, ResendStep, ResendLock, ResendNotFound, ResendFound, ResendConstruct,
         ResendConstructFails, ResendSend, OnRtcpNackEvent, numberFns

LEMMA NumberTypesStep == TypeOK /\ MutexInv /\ BufferInv /\ [Next]_vars => NumberTypes'
<1> SUFFICES ASSUME TypeOK, MutexInv, BufferInv, [Next]_vars
             PROVE  NumberTypes'
  OBVIOUS
<1>t. NumberTypes /\ 0 \in SeqNums
  BY TypeParts, BoundAssumption DEF SeqNums
<1>1. ASSUME NEW s \in Senders, ConstructSrtpPacket(s), UNCHANGED <<rtpSeq, rtxSeq>>
      PROVE  NumberTypes'
  <2>1. content[s][writer[s].buf] \in Contents
        /\ lastPayload' \in [Senders -> [SeqNums -> 0 .. MaxPackets]]
    BY <1>1, ConstructEffect
  <2>2. content[s][writer[s].buf].hdr \in SeqNums
    BY <2>1 DEF Contents
  <2>3. Protect(s, "rtp", content[s][writer[s].buf].hdr)
    BY <1>1 DEF ConstructSrtpPacket
  <2>4. lastProtected' \in [Senders \X {"rtp", "rtx"} -> [seq : SeqNums, n : Nat]]
    BY <1>t, <2>2, <2>3, ProtectEffect
  <2>5. QED
    BY <1>1, <1>t, <2>1, <2>4 DEF NumberTypes
<1>2. ASSUME NEW s \in Senders, StorePacket(s), UNCHANGED <<rtxSeq, lastProtected>>
      PROVE  NumberTypes'
  <2>1. rtpSeq' \in [Senders -> SeqNums] /\ UNCHANGED lastPayload
    BY <1>2, StoreEffect
  <2>2. QED
    BY <1>2, <1>t, <2>1 DEF NumberTypes
<1>3. ASSUME nack.s \in Senders, rtxSeq' = [rtxSeq EXCEPT ![nack.s] = (@ + 1) % SeqMod]
      PROVE  rtxSeq' \in [Senders -> SeqNums]
  <2>1. rtxSeq \in [Senders -> SeqNums] /\ (rtxSeq[nack.s] + 1) % SeqMod \in SeqNums
    BY <1>3, <1>t, NextNumber DEF NumberTypes
  <2>2. QED
    BY <1>3, <2>1
<1>4. CASE ResendConstruct /\ UNCHANGED numberFns
  <2>1. nack.s \in Senders
    BY <1>4, NackMoves DEF ResendStep
  <2>2. rtxSeq' \in [Senders -> SeqNums]
    BY <1>3, <1>4, <2>1 DEF ResendConstruct
  <2>3. Protect(nack.s, "rtx", rtxSeq[nack.s]) /\ rtxSeq[nack.s] \in SeqNums
    BY <1>4, <1>t, <2>1 DEF ResendConstruct, NumberTypes
  <2>4. lastProtected' \in [Senders \X {"rtp", "rtx"} -> [seq : SeqNums, n : Nat]]
    BY <1>t, <2>1, <2>3, ProtectEffect
  <2>5. QED
    BY <1>4, <1>t, <2>2, <2>4 DEF NumberTypes, numberFns
<1>5. CASE ResendConstructFails /\ UNCHANGED <<numberFns, lastProtected>>
  <2>1. nack.s \in Senders
    BY <1>5, NackMoves DEF ResendStep
  <2>2. rtxSeq' \in [Senders -> SeqNums]
    BY <1>3, <1>5, <2>1 DEF ResendConstructFails
  <2>3. QED
    BY <1>5, <1>t, <2>2 DEF NumberTypes, numberFns
<1>6. CASE CreateOffer /\ UNCHANGED <<lastPayload, lastProtected>>
  BY <1>6, <1>t DEF CreateOffer, NumberTypes
<1>7. CASE SrtpInitSession /\ UNCHANGED numberFns
  <2>1. rtxSeq' \in [Senders -> SeqNums]
    BY <1>7, <1>t DEF SrtpInitSession
  <2>2. lastProtected' \in [Senders \X {"rtp", "rtx"} -> [seq : SeqNums, n : Nat]]
    BY <1>7, <1>t DEF SrtpInitSession, NothingProtected, NumberTypes
  <2>3. QED
    BY <1>7, <1>t, <2>1, <2>2 DEF NumberTypes, numberFns
<1>8. CASE UNCHANGED <<numberFns, rtxSeq, lastProtected>>
  BY <1>8, <1>t DEF NumberTypes, numberFns
<1>9. QED
  BY <1>1, <1>2, <1>4, <1>5, <1>6, <1>7, <1>8, NumberSteps

LEMMA TypeStep == TypeOK /\ MutexInv /\ LifeInv /\ BufferInv /\ [Next]_vars => TypeOK'
<1> SUFFICES ASSUME TypeOK, MutexInv, LifeInv, BufferInv, [Next]_vars
             PROVE  LifeTypes' /\ TaskTypes' /\ BufferTypes' /\ NumberTypes'
  BY TypeParts, PTL
<1>1. LifeTypes'
  BY TypeParts, LifeTypesStep
<1>2. QED
  BY <1>1, TaskTypesStep, BufferTypesStep, NumberTypesStep
\* Counting on by one.
LEMMA AfterFacts ==
    ASSUME NEW a \in SeqNums, NEW b \in SeqNums, NEW k \in 0 .. Capacity
    PROVE  /\ After(a, k, b) => After(a, k + 1, (b + 1) % SeqMod)
           /\ After(a, k, b) /\ k # 0 => a # b
           /\ After(a, 0, a)
<1>1. SeqMod \in Nat /\ Capacity \in Nat /\ Capacity < SeqMod
  BY BoundAssumption
<1>2. (b + 1) % SeqMod = (IF b + 1 = SeqMod THEN 0 ELSE b + 1)
  BY NextNumber
<1>3. After(a, k, b) => After(a, k + 1, (b + 1) % SeqMod)
  BY <1>1, <1>2 DEF After, SeqNums
<1>4. QED
  BY <1>1, <1>3 DEF After, SeqNums

\* What is known of a sender's numbers depends on that sender and the connection.
LEMMA NumbersKept ==
    ASSUME NEW s, SenderNumbers(s), packetQueue'[s] = packetQueue[s], content'[s] = content[s],
           rtpSeq'[s] = rtpSeq[s], lastPayload'[s] = lastPayload[s],
           \/ writer'[s] = writer[s]
           \/ writer'[s].pc \notin {"protect", "store"}
    PROVE  SenderNumbers(s)'
  BY DEF SenderNumbers, QueueLen

LEMMA RtpKept ==
    ASSUME NEW s, RtpFollows(s), selected' => selected, txSession' # 0 => txSession # 0,
           lastProtected'[<<s, "rtp">>] = lastProtected[<<s, "rtp">>], rtpSeq'[s] = rtpSeq[s],
           writer'[s].pc = "store" <=> writer[s].pc = "store"
    PROVE  RtpFollows(s)'
  BY DEF RtpFollows

\* The steps of a media task.
LEMMA WriterNumbers ==
    ASSUME TypeOK, LifeInv, BufferInv, NEW s \in Senders, WriterStep(s), SenderNumbers(s),
             RtpFollows(s)
    PROVE  SenderNumbers(s)' /\ RtpFollows(s)'
<1> DEFINE q == packetQueue[s]
           b == writer[s].buf
<1>0. UNCHANGED <<selected, txSession>>
  BY TasksLeaveLife DEF LifeVars
<1>t. /\ q \in Seq(Entry) /\ rtpSeq[s] \in SeqNums /\ content[s] \in [Buffers -> Contents]
      /\ lastPayload[s] \in [SeqNums -> 0 .. MaxPackets] /\ Len(q) \in Nat /\ Capacity \in Nat
      /\ Len(q) <= Capacity
  <2>1. BufferTypes /\ NumberTypes /\ SenderBuffers(s)
    BY TypeParts DEF BufferInv
  <2>2. q \in Seq(Entry) /\ content[s] \in [Buffers -> Contents]
    BY <2>1 DEF BufferTypes, Entry
  <2>3. Len(q) \in Nat /\ Len(q) <= Capacity
    BY <2>1, <2>2 DEF SenderBuffers, QueueLen
  <2>4. QED
    BY <2>1, <2>2, <2>3, BoundAssumption DEF NumberTypes
<1>e. \A i \in 1 .. Len(q) : q[i] \in Entry /\ q[i].seq \in SeqNums /\ q[i].buf \in Buffers
  <2> TAKE i \in 1 .. Len(q)
  <2>1. q[i] \in Entry
    BY <1>t, ElementOfSeq
  <2>2. QED
    BY <2>1 DEF Entry
<1>a. \A i \in 1 .. Len(q) : q[i].seq # rtpSeq[s]
  <2> TAKE i \in 1 .. Len(q)
  <2>1. Len(q) - i + 1 \in 0 .. Capacity /\ Len(q) - i + 1 # 0
    BY <1>t
  <2>2. After(q[i].seq, Len(q) - i + 1, rtpSeq[s])
    BY DEF SenderNumbers, QueueLen
  <2>3. QED
    BY <1>e, <1>t, <2>1, <2>2, AfterFacts
<1>1. CASE GetBuffer(s) /\ isInit[s]
  <2>1. /\ UNCHANGED <<packetQueue, content, numberFns, lastProtected>>
        /\ writer[s].pc = "alloc" /\ writer'[s].pc = "packet"
    BY <1>1, GetBufferEffect, WriterMoves DEF GetBuffer, Moves
  <2>2. QED
    BY <1>0, <2>1, NumbersKept, RtpKept DEF numberFns
<1>2. CASE GetPacket(s)
  <2>1. /\ UNCHANGED <<packetQueue, numberFns, lastProtected>>
        /\ writer[s].pc = "packet" /\ writer'[s].pc = "protect" /\ writer'[s].buf = b
        /\ content'[s] = [content[s] EXCEPT ![b] =
                             [hdr |-> rtpSeq[s], payload |-> produced[s] + 1, key |-> 0]]
    BY <1>2, GetPacketEffect, WriterMoves DEF GetPacket, Moves, Put
  <2>2. b \in Buffers /\ \A i \in 1 .. Len(q) : q[i].buf # b
    BY <2>1, MakingFacts DEF Queued, InMaking
  <2>3. /\ content'[s][b].hdr = rtpSeq[s]
        /\ \A i \in 1 .. Len(q) : content'[s][q[i].buf] = content[s][q[i].buf]
    BY <1>t, <1>e, <2>1, <2>2
  <2>4. SenderNumbers(s)'
    BY <2>1, <2>3 DEF SenderNumbers, QueueLen, numberFns
  <2>5. RtpFollows(s)'
    BY <1>0, <2>1, RtpKept DEF numberFns
  <2>6. QED
    BY <2>4, <2>5
<1>3. CASE NoMorePackets(s) \/ ConstructFails(s)
  <2>1. /\ UNCHANGED <<packetQueue, content, numberFns, lastProtected>>
        /\ writer[s].pc \in {"packet", "protect"} /\ writer'[s].pc = "idle"
    BY <1>3, DiscardEffect, WriterMoves DEF NoMorePackets, ConstructFails, Moves
  <2>2. QED
    BY <1>0, <2>1, NumbersKept, RtpKept DEF numberFns
<1>4. CASE ConstructSrtpPacket(s)
  <2> DEFINE p == content[s][b]
  <2>1. /\ UNCHANGED <<packetQueue, rtpSeq>>
        /\ writer[s].pc = "protect" /\ writer'[s].pc = "store" /\ writer'[s].buf = b
        /\ content'[s] = [content[s] EXCEPT ![b] = [p EXCEPT !.key = txSession]]
        /\ lastPayload'[s] = [lastPayload[s] EXCEPT ![p.hdr] = p.payload]
        /\ Protect(s, "rtp", p.hdr)
    BY <1>4, ConstructEffect, WriterMoves DEF ConstructSrtpPacket, Moves, Put
  <2>2. b \in Buffers /\ p \in Contents /\ p.hdr = rtpSeq[s]
    BY <1>t, <2>1, MakingFacts DEF InMaking, SenderNumbers
  <2>3. \A c \in Buffers : content'[s][c].hdr = content[s][c].hdr
        /\ content'[s][c].payload = content[s][c].payload
    BY <1>t, <2>1, <2>2 DEF Contents
  <2>4. lastPayload'[s][rtpSeq[s]] = p.payload /\ \A n \in SeqNums : n # rtpSeq[s]
          => lastPayload'[s][n] = lastPayload[s][n]
    BY <1>t, <2>1, <2>2
  <2>5. SenderNumbers(s)'
    BY <1>e, <1>a, <2>1, <2>2, <2>3, <2>4, ZenonT(30) DEF SenderNumbers, QueueLen
  <2>6. RtpFollows(s)'
    <3>1. CASE txSession = 0
      BY <1>0, <3>1 DEF RtpFollows
    <3>2. CASE txSession # 0
      <4>1. NumberTypes /\ p.hdr \in SeqNums
        BY <1>t, <2>2, TypeParts
      <4>2. lastProtected'[<<s, "rtp">>] = [seq |-> p.hdr, n |-> lastProtected[<<s, "rtp">>].n + 1]
        BY <2>1, <3>2, <4>1, ProtectEffect
      <4>3. lastProtected'[<<s, "rtp">>].seq = rtpSeq[s]
        BY <2>2, <4>2
      <4>4. After(rtpSeq[s], 0, rtpSeq[s])
        BY <1>t, BoundAssumption DEF After, SeqNums
      <4>5. QED
        BY <2>1, <4>3, <4>4 DEF RtpFollows
    <3>3. QED
      BY <3>1, <3>2
  <2>7. QED
    BY <2>5, <2>6
<1>5. CASE StorePacket(s)
  <2> DEFINE e == [seq |-> rtpSeq[s], buf |-> b]
             n == packetQueue'[s]
             d == Dropped(q)
  <2>1. /\ n = ForceEnqueue(q, e) /\ e \in Entry /\ rtpSeq'[s] = (rtpSeq[s] + 1) % SeqMod
        /\ UNCHANGED <<content, lastPayload>> /\ isInit[s]
    BY <1>5, StoreEffect DEF Put
  <2>2. UNCHANGED lastProtected /\ writer[s].pc = "store" /\ writer'[s].pc = "send"
    BY <1>5, <2>1, WriterMoves DEF StorePacket, Moves
  <2>3. Enqueued(q, e, n, d)
    BY <1>t, <2>1, EnqueueFacts
  <2>4. /\ Len(n) = Len(q) + 1 - d /\ Len(n) \in 1 .. Capacity /\ n[Len(n)] = e
        /\ \A i \in 1 .. Len(n) : i # Len(n) => i + d \in 1 .. Len(q) /\ n[i] = q[i + d]
        /\ d \in {0, 1}
    BY <2>3 DEF Enqueued, Dropped
  <2>5. ASSUME NEW i \in 1 .. Len(n), i # Len(n)
        PROVE  /\ After(n[i].seq, Len(n) - i + 1, rtpSeq'[s])
               /\ content[s][n[i].buf].hdr = n[i].seq
               /\ content[s][n[i].buf].payload = lastPayload[s][n[i].seq]
    <3> DEFINE j == i + d
    <3>1. j \in 1 .. Len(q) /\ n[i] = q[j]
      BY <2>4, <2>5
    <3>2. /\ After(q[j].seq, Len(q) - j + 1, rtpSeq[s])
          /\ content[s][q[j].buf].hdr = q[j].seq
          /\ content[s][q[j].buf].payload = lastPayload[s][q[j].seq]
      BY <3>1 DEF SenderNumbers, QueueLen
    <3>3. Len(q) - j + 1 \in 0 .. Capacity /\ q[j].seq \in SeqNums
      BY <1>t, <1>e, <3>1
    <3>4. After(q[j].seq, Len(q) - j + 1 + 1, rtpSeq'[s])
      BY <1>t, <2>1, <3>2, <3>3, AfterFacts
    <3>5. Len(q) - j + 1 + 1 = Len(n) - i + 1
      BY <1>t, <2>4
    <3>6. QED
      BY <3>1, <3>2, <3>4, <3>5
  <2>6. /\ After(e.seq, 1, rtpSeq'[s])
        /\ content[s][e.buf].hdr = e.seq
        /\ content[s][e.buf].payload = lastPayload[s][e.seq]
    <3>1. 0 \in 0 .. Capacity /\ After(rtpSeq[s], 0, rtpSeq[s])
      BY <1>t, AfterFacts
    <3>2. After(rtpSeq[s], 0 + 1, rtpSeq'[s])
      BY <1>t, <2>1, <3>1, AfterFacts
    <3>3. QED
      BY <2>2, <3>2 DEF SenderNumbers
  <2>7. \A i \in 1 .. Len(n) :
            /\ After(n[i].seq, Len(n) - i + 1, rtpSeq'[s])
            /\ content[s][n[i].buf].hdr = n[i].seq
            /\ content[s][n[i].buf].payload = lastPayload[s][n[i].seq]
    <3> TAKE i \in 1 .. Len(n)
    <3>1. CASE i = Len(n)
      <4>1. Len(n) - i + 1 = 1 /\ n[i] = e
        BY <2>4, <3>1
      <4>2. QED
        BY <2>6, <4>1
    <3>2. QED
      BY <2>5, <3>1
  <2>8. SenderNumbers(s)'
    BY <2>1, <2>2, <2>7 DEF SenderNumbers, QueueLen
  <2>9. RtpFollows(s)'
    <3> SUFFICES ASSUME selected, txSession # 0, lastProtected[<<s, "rtp">>].n > 0
                 PROVE  After(lastProtected[<<s, "rtp">>].seq, 1, rtpSeq'[s])
      BY <1>0, <2>2 DEF RtpFollows
    <3>1. After(lastProtected[<<s, "rtp">>].seq, 0, rtpSeq[s])
      BY <2>2 DEF RtpFollows
    <3>2. lastProtected[<<s, "rtp">>].seq \in SeqNums /\ 0 \in 0 .. Capacity
      BY <1>t, TypeParts DEF NumberTypes
    <3>3. After(lastProtected[<<s, "rtp">>].seq, 0 + 1, rtpSeq'[s])
      BY <1>t, <2>1, <3>1, <3>2, AfterFacts
    <3>4. QED
      BY <3>3
  <2>10. QED
    BY <2>8, <2>9
<1>6. CASE WriteFrame(s) \/ TakeSenderMutex(s) \/ SendPacket(s) \/ SendFails(s)
      \/ (GetBuffer(s) /\ ~isInit[s])
  <2>1. /\ UNCHANGED <<packetQueue, content, numberFns, lastProtected>>
        /\ writer[s].pc \in {"idle", "lock", "alloc", "send"}
        /\ writer'[s].pc \in {"idle", "lock", "alloc"}
    BY <1>6, QuietSteps, WriterMoves
       DEF WriteFrame, TakeSenderMutex, SendPacket, SendFails, GetBuffer, Moves, bufferFns
  <2>2. QED
    BY <1>0, <2>1, NumbersKept, RtpKept DEF numberFns
<1>7. QED
  BY <1>1, <1>2, <1>3, <1>4, <1>5, <1>6 DEF WriterStep
\* Other senders than that of the step protect nothing.
LEMMA ProtectedByOthers ==
    ASSUME TypeOK, BufferInv, NEW s \in Senders, WriterStep(s), NEW r \in Senders, r # s
    PROVE  lastProtected'[<<r, "rtp">>] = lastProtected[<<r, "rtp">>]
<1>1. CASE ConstructSrtpPacket(s)
  <2>1. content[s][writer[s].buf] \in Contents /\ Protect(s, "rtp", content[s][writer[s].buf].hdr)
    BY <1>1, ConstructEffect DEF ConstructSrtpPacket
  <2>2. content[s][writer[s].buf].hdr \in SeqNums /\ NumberTypes
    BY <2>1, TypeParts DEF Contents
  <2>3. QED
    BY <2>1, <2>2, ProtectEffect
<1>2. CASE ~ConstructSrtpPacket(s)
  BY <1>2 DEF WriterStep, WriteFrame, TakeSenderMutex, GetBuffer, GetPacket, NoMorePackets,
              ConstructFails, StorePacket, SendPacket, SendFails
<1>3. QED
  BY <1>1, <1>2

LEMMA NumbersStep ==
    TypeOK /\ MutexInv /\ LifeInv /\ BufferInv /\ NumberInv /\ LifeInv' /\ [Next]_vars => NumberInv'
<1> SUFFICES ASSUME TypeOK, MutexInv, LifeInv, BufferInv, NumberInv, LifeInv', [Next]_vars,
      NEW r \in Senders
             PROVE  (state' # "inited" => SenderNumbers(r)') /\ RtpFollows(r)'
  BY DEF NumberInv
<1>0. (state # "inited" => SenderNumbers(r)) /\ RtpFollows(r)
  BY DEF NumberInv
<1>r. ASSUME ~selected'
      PROVE  RtpFollows(r)'
  BY <1>r DEF RtpFollows
<1>1. ASSUME NEW s \in Senders, WriterStep(s)
      PROVE  (state' # "inited" => SenderNumbers(r)') /\ RtpFollows(r)'
  <2>0. UNCHANGED <<state, selected, txSession>>
    BY <1>1, TasksLeaveLife DEF LifeVars
  <2>1. CASE r # s
    <3>1. Untouched(r) /\ lastProtected'[<<r, "rtp">>] = lastProtected[<<r, "rtp">>]
      BY <1>1, <2>1, OthersUntouched, ProtectedByOthers
    <3>2. state' # "inited" => SenderNumbers(r)'
      BY <1>0, <2>0, <3>1, NumbersKept DEF Untouched
    <3>3. RtpFollows(r)'
      BY <1>0, <2>0, <3>1, RtpKept DEF Untouched
    <3>4. QED
      BY <3>2, <3>3
  <2>2. CASE r = s /\ state # "inited"
    BY <1>0, <1>1, <2>2, WriterNumbers
  <2>3. CASE state = "inited"
    BY <1>r, <2>0, <2>3 DEF LifeInv
  <2>4. QED
    BY <2>1, <2>2, <2>3
<1>2. ASSUME UNCHANGED <<packetQueue, content, numberFns, writer>>, state = "inited"
               => state' = "inited"
      PROVE  state' # "inited" => SenderNumbers(r)'
  BY <1>0, <1>2, NumbersKept DEF numberFns
<1>3. ASSUME selected' => selected, txSession' # 0 => txSession # 0,
             lastProtected'[<<r, "rtp">>] = lastProtected[<<r, "rtp">>],
               UNCHANGED <<rtpSeq, writer>>
      PROVE  RtpFollows(r)'
  BY <1>0, <1>3, RtpKept
<1>4. CASE ResendStep
  <2>1. UNCHANGED <<state, selected, txSession, packetQueue, content, numberFns, writer>>
    BY <1>4, TasksLeaveLife, BufferSteps
       DEF LifeVars, ResendStep, ResendLock, ResendNotFound, ResendFound, ResendConstruct,
           ResendConstructFails, ResendSend, bufferVars, numberFns
  <2>2. lastProtected'[<<r, "rtp">>] = lastProtected[<<r, "rtp">>]
    <3>1. CASE ResendConstruct
      <4>1. NumberTypes /\ nack.s \in Senders /\ Protect(nack.s, "rtx", rtxSeq[nack.s])
        BY <3>1, TypeParts, NackMoves DEF ResendStep, ResendConstruct
      <4>2. rtxSeq[nack.s] \in SeqNums
        BY <4>1 DEF NumberTypes
      <4>3. <<r, "rtp">> # <<nack.s, "rtx">> /\ <<r, "rtp">> \in Senders \X {"rtp", "rtx"}
        OBVIOUS
      <4>4. QED
        BY <4>1, <4>2, <4>3, ProtectEffect
    <3>2. CASE ~ResendConstruct
      BY <1>4, <3>2
         DEF ResendStep, ResendLock, ResendNotFound, ResendFound, ResendConstructFails, ResendSend
    <3>3. QED
      BY <3>1, <3>2
  <2>3. QED
    BY <1>2, <1>3, <2>1, <2>2 DEF numberFns
<1>5. ASSUME NEW t \in Closers, DeInitSender(t)
      PROVE  (state' # "inited" => SenderNumbers(r)') /\ RtpFollows(r)'
  <2> DEFINE s == closer[t]
  <2>1. /\ s \in Senders /\ writer[s].pc \in {"idle", "lock"}
        /\ Put(packetQueue, packetQueue', s, <<>>)
        /\ UNCHANGED <<content, writer, numberFns, state, selected, txSession, lastProtected>>
    <3>1. /\ s \in Senders /\ writer[s].pc \in {"idle", "lock"} /\ RollingBufferFree(s)
          /\ UNCHANGED <<produced, numberFns>>
      BY <1>5, DeInitFacts
    <3>2. UNCHANGED <<writer, state, selected, txSession, lastProtected>>
      BY <1>5 DEF DeInitSender, sessionVars
    <3>3. QED
      BY <3>1, <3>2, FreeEffect
  <2>2. RtpFollows(r)'
    BY <1>3, <2>1 DEF numberFns
  <2>3. state' # "inited" => SenderNumbers(r)'
    <3>1. CASE r = s
      BY <2>1, <3>1 DEF Put, SenderNumbers, QueueLen
    <3>2. CASE r # s
      BY <1>0, <2>1, <3>2, NumbersKept DEF Put, numberFns
    <3>3. QED
      BY <3>1, <3>2
  <2>4. QED
    BY <2>2, <2>3
<1>6. CASE SrtpInitBuffers \/ SrtpInitFails
  <2>1. /\ \A s \in Senders : ~isInit[s] /\ packetQueue'[s] = <<>>
        /\ UNCHANGED <<writer, selected, txSession, lastProtected, rtpSeq>>
    BY <1>6, CreateEffect DEF SrtpInitBuffers, SrtpInitFails
  <2>2. SenderNumbers(r)'
    BY <2>1 DEF SenderNumbers, QueueLen, BufferInv, SenderBuffers
  <2>3. QED
    BY <1>3, <2>1, <2>2
<1>7. CASE SrtpInitSession
  <2>1. /\ state = "inited" /\ ~closedMsg /\ \A t \in Closers : closer[t] = "idle"
        /\ iceState # "open"
        /\ UNCHANGED <<packetQueue, content, numberFns, writer>>
    BY <1>7 DEF SrtpInitSession, bufferVars, numberFns, LifeInv
  <2>2. \A s \in Senders : ~isInit[s]
    BY <2>1, SenderAssumption DEF LifeInv, WillRelease, Released
  <2>3. packetQueue[r] = <<>> /\ writer[r].pc \notin {"protect", "store"}
    BY <2>2 DEF BufferInv, SenderBuffers
  <2>4. SenderNumbers(r)'
    BY <2>1, <2>3 DEF SenderNumbers, QueueLen
  <2>5. lastProtected'[<<r, "rtp">>].n = 0
    <3>1. <<r, "rtp">> \in DOMAIN lastProtected
      BY TypeParts DEF NumberTypes
    <3>2. QED
      BY <1>7, <3>1 DEF SrtpInitSession, NothingProtected
  <2>6. RtpFollows(r)'
    BY <2>5 DEF RtpFollows
  <2>7. QED
    BY <2>4, <2>6
<1>8. CASE CreateOffer
  <2>1. state' = "inited" /\ ~selected'
    BY <1>8 DEF CreateOffer, LifeInv
  <2>2. QED
    BY <1>r, <2>1
<1>9. CASE OnClosePeerConnection
  <2>1. state' = "inited" /\ ~selected'
    BY <1>9 DEF OnClosePeerConnection, LifeInv
  <2>2. QED
    BY <1>r, <2>1
<1>10. ASSUME NEW t \in Closers,
              CloseSession(t) \/ Destroy(t) \/ DestroyAlreadyClosed(t) \/ DestroyClosed(t)
              \/ DeInitSession(t)
       PROVE  (state' # "inited" => SenderNumbers(r)') /\ RtpFollows(r)'
  <2>1. UNCHANGED <<packetQueue, content, numberFns, writer, lastProtected>>
    BY <1>10
       DEF CloseSession, Destroy, DestroyAlreadyClosed, DestroyClosed, DeInitSession, bufferVars,
           numberFns
  <2>2. (selected' => selected) /\ (txSession' # 0 => txSession # 0)
    <3>1. CASE Destroy(t)
      <4>1. selected' => selected
        BY <3>1, Zenon DEF Destroy
      <4>2. QED
        BY <3>1, <4>1 DEF Destroy
    <3>2. QED
      BY <1>10, <3>1
         DEF CloseSession, DestroyAlreadyClosed, DestroyClosed, DeInitSession, sessionVars
  <2>3. state = "inited" => state' = "inited"
    BY <1>10
       DEF CloseSession, Destroy, DestroyAlreadyClosed, DestroyClosed, DeInitSession, sessionVars
  <2>4. QED
    BY <1>2, <1>3, <2>1, <2>2, <2>3 DEF numberFns
<1>11. CASE AddressClosing
  BY <1>2, <1>r, <1>11 DEF AddressClosing, bufferVars, numberFns
<1>12. ASSUME NEW s \in Senders, NEW list \in NackLists, OnRtcpNackEvent(s, list)
       PROVE  (state' # "inited" => SenderNumbers(r)') /\ RtpFollows(r)'
  BY <1>2, <1>3, <1>12 DEF OnRtcpNackEvent, sessionVars, bufferVars, numberFns
<1>13. CASE UNCHANGED vars
  BY <1>2, <1>3, <1>13 DEF vars, numberFns
<1>14. QED
  BY <1>1, <1>4, <1>5, <1>6, <1>7, <1>8, <1>9, <1>10, <1>11, <1>12, <1>13 DEF Next, CloseStep
------------------------------------------------------------------------------
(* The keys. *)

SenderKeys(s) ==
    /\ \A i \in 1 .. QueueLen(s) : KeyOK(content[s][packetQueue[s][i].buf].key)
    /\ writer[s].pc \in {"store", "send"} => KeyOK(writer[s].key)
    /\ writer[s].pc = "store" => content[s][writer[s].buf].key = writer[s].key

LEMMA KeyParts ==
    KeyInv <=> /\ KeyOK(txSession)
               /\ iceState = "open" => session > 0
               /\ selected /\ relay # "nominated" => iceState = "open"
               /\ \A s \in Senders : SenderKeys(s)
               /\ nack.pc = "send" => KeyOK(nack.key)
  BY DEF KeyInv, SenderKeys

\* A key that was good stays so until the next connection is made.
LEMMA KeyKept ==
    ASSUME NEW key, KeyOK(key), UNCHANGED session, iceState' = "open" => iceState = "open"
    PROVE  KeyOK(key)'
  BY DEF KeyOK

LEMMA SenderKeysKept ==
    ASSUME NEW s, SenderKeys(s), packetQueue'[s] = packetQueue[s], content'[s] = content[s],
           UNCHANGED session, iceState' = "open" => iceState = "open",
           \/ writer'[s] = writer[s]
           \/ writer'[s].pc \notin {"store", "send"}
    PROVE  SenderKeys(s)'
  BY DEF SenderKeys, QueueLen, KeyOK

\* The steps of a media task.
LEMMA WriterKeys ==
    ASSUME TypeOK, BufferInv, KeyOK(txSession), NEW s \in Senders, WriterStep(s), SenderKeys(s)
    PROVE  SenderKeys(s)'
<1> DEFINE q == packetQueue[s]
           b == writer[s].buf
<1>0. UNCHANGED <<session, iceState>>
  BY TasksLeaveLife DEF LifeVars
<1>t. /\ q \in Seq(Entry) /\ content[s] \in [Buffers -> Contents]
      /\ Len(q) \in Nat /\ Capacity \in Nat /\ Len(q) <= Capacity
  <2>1. BufferTypes /\ SenderBuffers(s)
    BY TypeParts DEF BufferInv
  <2>2. q \in Seq(Entry) /\ content[s] \in [Buffers -> Contents]
    BY <2>1 DEF BufferTypes, Entry
  <2>3. Len(q) \in Nat /\ Len(q) <= Capacity
    BY <2>1, <2>2 DEF SenderBuffers, QueueLen
  <2>4. QED
    BY <2>2, <2>3, BoundAssumption
<1>e. \A i \in 1 .. Len(q) : q[i].buf \in Buffers
  <2> TAKE i \in 1 .. Len(q)
  <2>1. q[i] \in Entry
    BY <1>t, ElementOfSeq
  <2>2. QED
    BY <2>1 DEF Entry
<1>1. CASE GetBuffer(s) /\ isInit[s]
  <2>1. UNCHANGED <<packetQueue, content>> /\ writer'[s].pc = "packet"
    BY <1>1, GetBufferEffect, WriterMoves DEF Moves
  <2>2. QED
    BY <1>0, <2>1, SenderKeysKept
<1>2. CASE GetPacket(s)
  <2>1. /\ UNCHANGED packetQueue /\ writer[s].pc = "packet" /\ writer'[s].pc = "protect"
        /\ content'[s] = [content[s] EXCEPT ![b] =
                             [hdr |-> rtpSeq[s], payload |-> produced[s] + 1, key |-> 0]]
    BY <1>2, GetPacketEffect, WriterMoves DEF GetPacket, Moves, Put
  <2>2. b \in Buffers /\ \A i \in 1 .. Len(q) : q[i].buf # b
    BY <2>1, MakingFacts DEF Queued, InMaking
  <2>3. \A i \in 1 .. Len(q) : content'[s][q[i].buf] = content[s][q[i].buf]
    BY <1>t, <1>e, <2>1, <2>2
  <2>4. QED
    BY <1>0, <2>1, <2>3 DEF SenderKeys, QueueLen, KeyOK
<1>3. CASE NoMorePackets(s) \/ ConstructFails(s)
  <2>1. UNCHANGED <<packetQueue, content>> /\ writer'[s].pc = "idle"
    BY <1>3, DiscardEffect, WriterMoves DEF Moves
  <2>2. QED
    BY <1>0, <2>1, SenderKeysKept
<1>4. CASE ConstructSrtpPacket(s)
  <2> DEFINE p == content[s][b]
  <2>1. /\ UNCHANGED packetQueue /\ writer[s].pc = "protect"
        /\ writer'[s].pc = "store" /\ writer'[s].buf = b /\ writer'[s].key = txSession
        /\ content'[s] = [content[s] EXCEPT ![b] = [p EXCEPT !.key = txSession]]
    BY <1>4, ConstructEffect, WriterMoves DEF ConstructSrtpPacket, Moves, Put
  <2>2. b \in Buffers /\ p \in Contents /\ \A i \in 1 .. Len(q) : q[i].buf # b
    BY <1>t, <2>1, MakingFacts DEF InMaking, Queued
  <2>3. /\ content'[s][b].key = txSession
        /\ \A i \in 1 .. Len(q) : content'[s][q[i].buf] = content[s][q[i].buf]
    BY <1>t, <1>e, <2>1, <2>2 DEF Contents
  <2>4. QED
    BY <1>0, <2>1, <2>3 DEF SenderKeys, QueueLen, KeyOK
<1>5. CASE StorePacket(s)
  <2> DEFINE e == [seq |-> rtpSeq[s], buf |-> b]
             n == packetQueue'[s]
  <2>1. n = ForceEnqueue(q, e) /\ e \in Entry /\ UNCHANGED content /\ isInit[s]
    BY <1>5, StoreEffect DEF Put
  <2>2. writer[s].pc = "store" /\ writer'[s].pc = "send" /\ writer'[s].key = writer[s].key
    BY <1>5, <2>1, WriterMoves DEF StorePacket, Moves
  <2>3. Enqueued(q, e, n, Dropped(q))
    BY <1>t, <2>1, EnqueueFacts
  <2>4. \A i \in 1 .. Len(n) : n[i] = e \/ \E j \in 1 .. Len(q) : n[i] = q[j]
    BY <2>3 DEF Enqueued
  <2>5. \A i \in 1 .. Len(n) : KeyOK(content[s][n[i].buf].key)
    BY <2>2, <2>4 DEF SenderKeys, QueueLen
  <2>6. QED
    BY <1>0, <2>1, <2>2, <2>5 DEF SenderKeys, QueueLen, KeyOK
<1>6. CASE WriteFrame(s) \/ TakeSenderMutex(s) \/ SendPacket(s) \/ SendFails(s)
      \/ (GetBuffer(s) /\ ~isInit[s])
  <2>1. UNCHANGED <<packetQueue, content>> /\ writer'[s].pc \in {"idle", "lock", "alloc"}
    BY <1>6, QuietSteps, WriterMoves DEF Moves, bufferFns
  <2>2. QED
    BY <1>0, <2>1, SenderKeysKept
<1>7. QED
  BY <1>1, <1>2, <1>3, <1>4, <1>5, <1>6 DEF WriterStep

LEMMA KeyStep ==
    TypeOK /\ MutexInv /\ LifeInv /\ BufferInv /\ KeyInv /\ [Next]_vars => KeyInv'
<1> SUFFICES ASSUME TypeOK, MutexInv, LifeInv, BufferInv, KeyInv, [Next]_vars
             PROVE  /\ KeyOK(txSession)'
                    /\ iceState' = "open" => session' > 0
                    /\ selected' /\ relay' # "nominated" => iceState' = "open"
                    /\ \A s \in Senders : SenderKeys(s)'
                    /\ nack'.pc = "send" => KeyOK(nack.key)'
  BY DEF KeyInv, SenderKeys
<1>0. /\ KeyOK(txSession)
      /\ iceState = "open" => session > 0
      /\ selected /\ relay # "nominated" => iceState = "open"
      /\ \A s \in Senders : SenderKeys(s)
      /\ nack.pc = "send" => KeyOK(nack.key)
  BY KeyParts
<1> DEFINE Goal == /\ KeyOK(txSession)'
                   /\ iceState' = "open" => session' > 0
                   /\ selected' /\ relay' # "nominated" => iceState' = "open"
                   /\ \A s \in Senders : SenderKeys(s)'
                   /\ nack'.pc = "send" => KeyOK(nack.key)'
<1>a. ASSUME UNCHANGED LifeVars
      PROVE  /\ KeyOK(txSession)'
             /\ iceState' = "open" => session' > 0
             /\ selected' /\ relay' # "nominated" => iceState' = "open"
             /\ UNCHANGED session /\ (iceState' = "open" => iceState = "open")
  BY <1>0, <1>a DEF LifeVars, KeyOK
<1>b. ASSUME UNCHANGED session, iceState' = "open" => iceState = "open",
             UNCHANGED <<packetQueue, content, writer>>
      PROVE  \A s \in Senders : SenderKeys(s)'
  BY <1>0, <1>b, SenderKeysKept
<1>1. ASSUME NEW s \in Senders, WriterStep(s), UNCHANGED nack
      PROVE  Goal
  <2>1. UNCHANGED LifeVars
    BY <1>1, TasksLeaveLife
  <2>2. SenderKeys(s)'
    BY <1>0, <1>1, WriterKeys
  <2>3. \A r \in Senders : r # s => SenderKeys(r)'
    BY <1>0, <1>1, <1>a, <2>1, OthersUntouched, SenderKeysKept DEF Untouched
  <2>4. nack'.pc = "send" => KeyOK(nack.key)'
    BY <1>0, <1>1, <1>a, <2>1 DEF KeyOK
  <2>5. QED
    BY <1>a, <2>1, <2>2, <2>3, <2>4
<1>2. CASE ResendStep /\ UNCHANGED <<bufferFns, writer>>
  <2>1. UNCHANGED LifeVars
    BY <1>2, TasksLeaveLife
  <2>2. \A s \in Senders : SenderKeys(s)'
    BY <1>2, <1>a, <1>b, <2>1 DEF bufferFns
  <2>3. nack'.pc = "send" => KeyOK(nack'.key)
    <3>1. CASE ResendFound
      <4>1. nack.s \in Senders
        BY <1>2, NackMoves
      <4>2. \A b \in Retrieved(nack.s, Head(nack.list)) : KeyOK(content[nack.s][b].key)
        BY <1>0, <4>1 DEF SenderKeys, QueueLen, Retrieved
      <4>3. \E b \in Retrieved(nack.s, Head(nack.list)) :
               NackTo("protect", b, nack.key) \/ NackTo("send", b, content[nack.s][b].key)
        BY <3>1, NackMoves
      <4>4. PICK b \in Retrieved(nack.s, Head(nack.list)) :
               NackTo("protect", b, nack.key) \/ NackTo("send", b, content[nack.s][b].key)
        BY <4>3
      <4>5. nack'.pc = "send" => nack'.key = content[nack.s][b].key
        BY <4>4 DEF NackTo
      <4>6. QED
        BY <4>2, <4>5
    <3>2. CASE ResendConstruct
      <4>1. nack'.key = txSession
        BY <3>2, NackMoves DEF NackTo
      <4>2. QED
        BY <1>0, <4>1
    <3>3. CASE ResendLock \/ ResendNotFound \/ ResendConstructFails \/ ResendSend
      <4>1. nack'.pc # "send"
        BY <3>3, NackMoves DEF NackTo, NackLeft
      <4>2. QED
        BY <4>1
    <3>4. QED
      BY <1>2, <3>1, <3>2, <3>3 DEF ResendStep
  <2>4. nack'.pc = "send" => KeyOK(nack.key)'
    BY <1>a, <2>1, <2>3 DEF KeyOK
  <2>5. QED
    BY <1>a, <2>1, <2>2, <2>4
<1>3. ASSUME NEW s \in Senders, NEW list \in NackLists, OnRtcpNackEvent(s, list)
      PROVE  Goal
  <2>1. UNCHANGED <<LifeVars, packetQueue, content, writer>> /\ nack'.pc = "lock"
    BY <1>3 DEF OnRtcpNackEvent, LifeVars, sessionVars, bufferVars, NackIdle
  <2>2. QED
    BY <1>a, <1>b, <2>1
<1>4. ASSUME NEW t \in Closers, DeInitSender(t)
      PROVE  Goal
  <2>0. PICK s \in Senders : s = closer[t]
    BY <1>4 DEF DeInitSender
  <2>1. /\ Put(packetQueue, packetQueue', s, <<>>) /\ writer[s].pc \in {"idle", "lock"}
        /\ UNCHANGED content
    <3>1. writer[s].pc \in {"idle", "lock"} /\ RollingBufferFree(s) /\ UNCHANGED produced
      BY <1>4, <2>0, DeInitFacts
    <3>2. QED
      BY <3>1, FreeEffect
  <2>2. UNCHANGED <<writer, nack, session, iceState, txSession, selected, relay>>
    BY <1>4 DEF DeInitSender, sessionVars
  <2>3. SenderKeys(s)'
    BY <2>1, <2>2 DEF Put, SenderKeys, QueueLen
  <2>4. \A r \in Senders : r # s => SenderKeys(r)'
    BY <1>0, <2>1, <2>2, SenderKeysKept DEF Put
  <2>5. \A r \in Senders : SenderKeys(r)'
    BY <2>3, <2>4
  <2>6. QED
    BY <1>0, <2>2, <2>5 DEF KeyOK
<1>5. CASE SrtpInitBuffers \/ SrtpInitFails
  <2>1. /\ \A s \in Senders : ~isInit[s] /\ packetQueue'[s] = <<>>
        /\ UNCHANGED <<writer, nack, session, iceState, txSession, selected, relay>>
    BY <1>5, CreateEffect DEF SrtpInitBuffers, SrtpInitFails
  <2>2. \A s \in Senders : SenderKeys(s)'
    BY <2>1 DEF SenderKeys, QueueLen, BufferInv, SenderBuffers
  <2>3. QED
    BY <1>0, <2>1, <2>2 DEF KeyOK
<1>6. CASE SrtpInitSession
  <2>1. /\ state = "inited" /\ ~closedMsg /\ \A t \in Closers : closer[t] = "idle"
        /\ iceState # "open" /\ nack.pc = "idle"
        /\ UNCHANGED <<packetQueue, content, writer, nack>>
    BY <1>6 DEF SrtpInitSession, bufferVars, LifeInv
  <2>2. \A s \in Senders : ~isInit[s]
    BY <2>1, SenderAssumption DEF LifeInv, WillRelease, Released
  <2>3. \A s \in Senders : packetQueue[s] = <<>> /\ writer[s].pc \notin {"store", "send"}
    BY <2>2 DEF BufferInv, SenderBuffers
  <2>4. \A s \in Senders : SenderKeys(s)'
    BY <2>1, <2>3 DEF SenderKeys, QueueLen
  <2>5. iceState' = "open" /\ session' = session + 1 /\ txSession' = session + 1
    BY <1>6 DEF SrtpInitSession
  <2>6. session \in Nat
    BY TypeParts, BoundAssumption DEF LifeTypes
  <2>7. QED
    BY <2>1, <2>4, <2>5, <2>6 DEF KeyOK
<1>7. ASSUME NEW t \in Closers,
              CloseSession(t) \/ Destroy(t) \/ DestroyAlreadyClosed(t) \/ DestroyClosed(t)
              \/ DeInitSession(t)
       PROVE  Goal
  <2>1. UNCHANGED <<packetQueue, content, writer, nack, session, relay>>
    BY <1>7
       DEF CloseSession, Destroy, DestroyAlreadyClosed, DestroyClosed, DeInitSession, bufferVars,
           sessionVars
  <2>2. iceState' = "open" => iceState = "open"
    BY <1>7
       DEF CloseSession, Destroy, DestroyAlreadyClosed, DestroyClosed, DeInitSession, sessionVars
  <2>3. KeyOK(txSession)'
    <3>1. CASE DeInitSession(t)
      BY <1>7, <2>2, <3>1 DEF DeInitSession, LifeInv, KeyOK
    <3>2. CASE ~DeInitSession(t)
      <4>1. UNCHANGED txSession
        BY <1>7, <3>2 DEF CloseSession, Destroy, DestroyAlreadyClosed, DestroyClosed
      <4>2. QED
        BY <1>0, <2>1, <2>2, <4>1 DEF KeyOK
    <3>3. QED
      BY <3>1, <3>2
  <2>4. selected' /\ relay' # "nominated" => iceState' = "open"
    <3>1. CASE Destroy(t)
      <4>1. selected' => selected /\ relay = "nominated"
        BY <3>1, Zenon DEF Destroy
      <4>2. QED
        BY <2>1, <4>1
    <3>2. CASE DestroyClosed(t)
      <4>1. iceState # "open" /\ UNCHANGED selected
        BY <1>7, <3>2 DEF DestroyClosed, LifeInv
      <4>2. QED
        BY <1>0, <2>1, <4>1
    <3>3. CASE CloseSession(t) \/ DestroyAlreadyClosed(t) \/ DeInitSession(t)
      BY <1>0, <3>3 DEF CloseSession, DestroyAlreadyClosed, DeInitSession, sessionVars
    <3>4. QED
      BY <1>7, <3>1, <3>2, <3>3
  <2>5. QED
    BY <1>0, <1>b, <2>1, <2>2, <2>3, <2>4 DEF KeyOK
<1>8. CASE AddressClosing \/ OnClosePeerConnection \/ CreateOffer
  <2>1. /\ UNCHANGED <<packetQueue, content, writer, nack, session, relay, txSession>>
        /\ iceState' = "open" => iceState = "open"
    BY <1>8 DEF AddressClosing, OnClosePeerConnection, CreateOffer, bufferVars
  <2>2. selected' /\ relay' # "nominated" => iceState' = "open"
    BY <1>0, <1>8 DEF AddressClosing, OnClosePeerConnection, CreateOffer
  <2>3. QED
    BY <1>0, <1>b, <2>1, <2>2 DEF KeyOK
<1>9. CASE UNCHANGED vars
  BY <1>0, <1>9, <1>a, <1>b DEF vars, LifeVars, KeyOK
<1>10. /\ \A s \in Senders : WriterStep(s) => UNCHANGED nack
       /\ ResendStep => UNCHANGED <<bufferFns, writer>>
  BY DEF WriterStep, WriteFrame, TakeSenderMutex, GetBuffer, GetPacket, NoMorePackets,
         ConstructSrtpPacket, ConstructFails, StorePacket, SendPacket, SendFails, ResendStep,
         ResendLock, ResendNotFound, ResendFound, ResendConstruct, ResendConstructFails, ResendSend,
         bufferFns, bufferVars
<1>11. QED
  BY <1>1, <1>2, <1>3, <1>4, <1>5, <1>6, <1>7, <1>8, <1>9, <1>10 DEF Next, CloseStep
------------------------------------------------------------------------------
(* The invariant holds always. *)

LEMMA InitIInv == Init => IInv
<1> SUFFICES ASSUME Init
             PROVE  IInv
  OBVIOUS
<1> USE DEF Init
<1>c. /\ 0 \in SeqNums /\ 0 \in 0 .. MaxSessions /\ 0 \in 0 .. MaxCloses /\ 0 \in 0 .. MaxPackets
      /\ 0 \in 0 .. MaxNacks /\ Capacity \in Nat \ {0}
  BY BoundAssumption DEF SeqNums
<1>1. LifeTypes
  BY <1>c DEF LifeTypes
<1>2. TaskTypes
  BY <1>c DEF TaskTypes, Writers, Nacks, WriterIdle, NackIdle
<1>3. BufferTypes
  <2>1. NoPacket \in Contents /\ <<>> \in Seq([seq : SeqNums, buf : Buffers])
    BY <1>c DEF NoPacket, Contents
  <2>2. QED
    BY <1>c, <2>1 DEF BufferTypes
<1>4. NumberTypes
  BY <1>c DEF NumberTypes, NothingProtected
<1>5. MutexInv
  BY SenderAssumption DEF MutexInv, WriterHolds, NackHolds, WriterIdle, NackIdle
<1>6. LifeInv
  BY SenderAssumption DEF LifeInv, Released, WillRelease, CleanedUpTo, Closers, NackIdle
<1>7. BufferInv
  <2>1. ASSUME NEW s \in Senders
        PROVE  SenderBuffers(s)
    <3>1. /\ ~isInit[s] /\ packetQueue[s] = <<>> /\ allocated[s] = {} /\ writer[s] = WriterIdle
          /\ stored[s] = 0 /\ produced[s] = 0
      OBVIOUS
    <3>2. Queued(s) = {} /\ InHand(s) = {} /\ QueueLen(s) = 0 /\ writer[s].pc = "idle"
          /\ writer[s].buf = 0
      BY <3>1 DEF Queued, InHand, QueueLen, WriterIdle
    <3>3. QED
      BY <1>c, <3>1, <3>2 DEF SenderBuffers, InMaking
  <2>2. NackFound
    BY DEF NackFound, NackIdle
  <2>3. QED
    BY <2>1, <2>2 DEF BufferInv
<1>8. NumberInv
  BY DEF NumberInv, RtpFollows
<1>9. KeyInv
  BY DEF KeyInv, KeyOK, QueueLen, WriterIdle, NackIdle
<1>10. QED
  BY <1>1, <1>2, <1>3, <1>4, <1>5, <1>6, <1>7, <1>8, <1>9, TypeParts DEF IInv

LEMMA IInvStep == IInv /\ [Next]_vars => IInv'
<1> SUFFICES ASSUME IInv, [Next]_vars
             PROVE  IInv'
  OBVIOUS
<1>0. TypeOK /\ MutexInv /\ LifeInv /\ BufferInv /\ NumberInv /\ KeyInv
  BY DEF IInv
<1>1. TypeOK'
  BY <1>0, TypeStep
<1>2. MutexInv'
  BY <1>0, MutexStep
<1>3. LifeInv'
  BY <1>0, LifeStep
<1>4. BufferInv'
  BY <1>0, BuffersStep, NackFoundStep DEF BufferInv
<1>5. NumberInv'
  BY <1>0, <1>3, NumbersStep
<1>6. KeyInv'
  BY <1>0, KeyStep
<1>7. QED
  BY <1>1, <1>2, <1>3, <1>4, <1>5, <1>6 DEF IInv

LEMMA IInvAlways == Spec => []IInv
<1>1. QED
  BY InitIInv, IInvStep, PTL DEF Spec
------------------------------------------------------------------------------
(* The properties. *)

\* Every variable has its type; in particular numbers stay below 2^16 and every
\* packet buffer in use is one of the heap's (peer_connection_rolling_buffer.c).
THEOREM TypeCorrect == Spec => []TypeOK
<1>1. IInv => TypeOK
  BY DEF IInv
<1>2. QED
  BY <1>1, IInvAlways, PTL

\* No packet buffer is lost, given back twice or queued twice by the media tasks, the
\* NACK handler and the tasks that close, and a closed session has none
\* (PeerConnectionSrtp_DeInit, PeerConnectionRollingBuffer_SetPacket).
THEOREM BuffersAccountedAlways == Spec => []BuffersAccounted
<1>1. ASSUME IInv
      PROVE  BuffersAccounted
  <2>0. TypeOK /\ LifeInv /\ BufferInv /\ BufferTypes
    BY <1>1, TypeParts DEF IInv
  <2>1. ASSUME NEW s \in Senders
        PROVE  allocated[s] = Queued(s) \cup InHand(s)
               /\ Cardinality(Queued(s)) = Len(packetQueue[s])
    <3>1. /\ allocated[s] = Queued(s) \cup InHand(s)
          /\ \A i, j \in 1 .. Len(packetQueue[s]) : packetQueue[s][i].buf = packetQueue[s][j].buf
               => i = j
      BY <2>0 DEF BufferInv, SenderBuffers, QueueLen
    <3>2. packetQueue[s] \in Seq([seq : SeqNums, buf : Buffers])
      BY <2>0 DEF BufferTypes
    <3>3. Cardinality(Queued(s)) = Len(packetQueue[s])
      BY <3>1, <3>2, QueueCount DEF Queued
    <3>4. QED
      BY <3>1, <3>3
  <2>2. ClosedReleasesAll
    <3> SUFFICES ASSUME state = "inited", \A t \in Closers : closer[t] = "idle"
                 PROVE  txSession = 0 /\ \A s \in Senders : ~isInit[s] /\ allocated[s] = {}
      BY DEF ClosedReleasesAll
    <3>1. Released
      BY <2>0, SenderAssumption DEF LifeInv, WillRelease
    <3>2. ASSUME NEW s \in Senders
          PROVE  ~isInit[s] /\ allocated[s] = {}
      <4>1. /\ ~isInit[s] /\ packetQueue[s] = <<>> /\ writer[s].buf = 0
            /\ allocated[s] = Queued(s) \cup InHand(s)
        BY <2>0, <3>1 DEF Released, BufferInv, SenderBuffers
      <4>2. QED
        BY <4>1 DEF Queued, InHand
    <3>3. QED
      BY <3>1, <3>2 DEF Released
  <2>3. QED
    BY <2>1, <2>2 DEF BuffersAccounted
<1>2. QED
  BY <1>1, IInvAlways, PTL

\* Number a was k before number b.
LEMMA AfterMod ==
    ASSUME NEW a \in SeqNums, NEW b \in SeqNums, NEW k \in 0 .. SeqMod - 1, After(a, k, b)
    PROVE  (b - a) % SeqMod = k /\ a = (b - k) % SeqMod
<1>1. SeqMod \in Nat /\ SeqMod > 0
  BY BoundAssumption
<1>2. ASSUME NEW x \in 0 .. SeqMod - 1
      PROVE  x % SeqMod = x /\ (x - SeqMod) % SeqMod = x
  BY <1>1
<1>3. b - a = k \/ b - a = k - SeqMod
  BY <1>1 DEF After, SeqNums
<1>4. b - k = a \/ b - k = a - SeqMod
  BY <1>1 DEF After, SeqNums
<1>5. QED
  BY <1>2, <1>3, <1>4 DEF SeqNums

\* A retransmission sends the packet that was asked for, from a buffer that is still
\* its own, and the recent packets are there (ResendSrtpPacket).
THEOREM ResendIsOriginalAlways == Spec => []ResendIsOriginal
<1>1. ASSUME IInv
      PROVE  ResendIsOriginal
  <2>0. /\ TypeOK /\ LifeInv /\ BufferInv /\ NumberInv /\ BufferTypes /\ NumberTypes /\ TaskTypes
        /\ MutexInv
        /\ Capacity \in Nat /\ Capacity < SeqMod /\ SeqMod \in Nat
    BY <1>1, TypeParts, BoundAssumption DEF IInv
  <2>1. RollingBufferIsSuffix
    <3> SUFFICES ASSUME state = "ready", NEW s \in Senders
                 PROVE  LET q == packetQueue[s]
                        IN  /\ Len(q) = IF stored[s] < Capacity THEN stored[s] ELSE Capacity
                            /\ \A i \in 1 .. Len(q) :
                                   q[i].seq = (rtpSeq[s] - (Len(q) - i + 1)) % SeqMod
      BY DEF RollingBufferIsSuffix
    <3> DEFINE q == packetQueue[s]
    <3>1. SenderBuffers(s) /\ SenderNumbers(s) /\ isInit[s]
      BY <2>0 DEF BufferInv, NumberInv, LifeInv
    <3>2. q \in Seq([seq : SeqNums, buf : Buffers]) /\ rtpSeq[s] \in SeqNums
      BY <2>0 DEF BufferTypes, NumberTypes
    <3>3. Len(q) = IF stored[s] < Capacity THEN stored[s] ELSE Capacity
      BY <3>1 DEF SenderBuffers, QueueLen
    <3>4. ASSUME NEW i \in 1 .. Len(q)
          PROVE  q[i].seq = (rtpSeq[s] - (Len(q) - i + 1)) % SeqMod
      <4>1. After(q[i].seq, Len(q) - i + 1, rtpSeq[s]) /\ Len(q) <= Capacity
        BY <3>1 DEF SenderNumbers, SenderBuffers, QueueLen
      <4>2. q[i] \in [seq : SeqNums, buf : Buffers]
        BY <3>2, ElementOfSeq
      <4>3. q[i].seq \in SeqNums /\ Len(q) \in Nat
        BY <3>2, <4>2
      <4>4. Len(q) - i + 1 \in 0 .. SeqMod - 1
        BY <2>0, <4>1, <4>3
      <4>5. QED
        BY <3>2, <4>1, <4>3, <4>4, AfterMod
    <3>5. QED
      BY <3>3, <3>4
  <2>2. ASSUME nack.pc \in {"protect", "send"}
        PROVE  LET n == Head(nack.list)
                   p == content[nack.s][nack.buf]
               IN  /\ nack.buf \in allocated[nack.s]
                   /\ p.hdr = n
                   /\ p.payload = lastPayload[nack.s][n]
    <3>1. nack.s \in Senders /\ isInit[nack.s]
      BY <2>0, <2>2 DEF MutexInv, BufferInv, NackFound
    <3>2. PICK i \in 1 .. QueueLen(nack.s) :
             packetQueue[nack.s][i] = [seq |-> Head(nack.list), buf |-> nack.buf]
      BY <2>0, <2>2 DEF BufferInv, NackFound
    <3>3. state # "inited"
      <4> SUFFICES ASSUME state = "inited"
                   PROVE  FALSE
        OBVIOUS
      <4>1. iceState # "open" /\ ~Released
        BY <2>0, <3>1 DEF LifeInv, Released
      <4>2. closer["session"] = "idle" /\ closer["listener"] = "idle"
        BY <2>0, <2>2 DEF LifeInv
      <4>3. QED
        BY <2>0, <4>1, <4>2, SenderAssumption DEF LifeInv, WillRelease, Closers
    <3>4. SenderNumbers(nack.s) /\ SenderBuffers(nack.s)
      BY <2>0, <3>1, <3>3 DEF NumberInv, BufferInv
    <3>5. nack.buf \in allocated[nack.s]
      BY <3>2, <3>4 DEF SenderBuffers, Queued, QueueLen
    <3>6. /\ content[nack.s][nack.buf].hdr = Head(nack.list)
          /\ content[nack.s][nack.buf].payload = lastPayload[nack.s][Head(nack.list)]
      BY <3>2, <3>4 DEF SenderNumbers
    <3>7. QED
      BY <3>5, <3>6
  <2>3. QED
    BY <2>1, <2>2 DEF ResendIsOriginal
<1>2. QED
  BY <1>1, IInvAlways, PTL

\* Nothing that was protected for an earlier connection is sent on this one, and
\* without a relay nothing is sent that was not protected (PeerConnection_CloseSession,
\* PeerConnectionSrtp_ConstructSrtpPacket).
THEOREM NoCrossSessionAlways == Spec => []NoCrossSession
<1>1. ASSUME IInv
      PROVE  NoCrossSession
  <2>0. KeyInv /\ session \in Nat
    <3>1. TypeOK /\ KeyInv
      BY <1>1 DEF IInv
    <3>2. QED
      BY <3>1, TypeParts, BoundAssumption DEF LifeTypes
  <2>1. QED
    BY <2>0 DEF KeyInv, KeyOK, NoCrossSession, SentPacketsAreSrtp
<1>2. QED
  BY <1>1, IInvAlways, PTL
------------------------------------------------------------------------------
(* The numbers of both streams advance.  Every NACK that fails may take a number of the
   RTX stream that is never protected; fewer than half of the numbers may be lost so. *)

\* NACKs whose answer has ended.
Answered(task, n) == IF task.pc = "idle" THEN n ELSE n - 1

RtxFollows(s) ==
    LET last == lastProtected[<<s, "rtx">>]
    IN  selected /\ txSession # 0 /\ last.n > 0 =>
            \E k \in 1 .. 1 + Answered(nack, nacks) : After(last.seq, k, rtxSeq[s])

RtxInv ==
    /\ nack.pc # "idle" => nacks > 0
    /\ \A s \in Senders : RtxFollows(s)

\* More NACKs answered leave the claim as it is.
LEMMA RtxKept ==
    ASSUME NEW s, RtxFollows(s), Answered(nack, nacks) \in Int, Answered(nack', nacks') \in Int,
           Answered(nack, nacks) <= Answered(nack', nacks'),
           selected' => selected, txSession' # 0 => txSession # 0,
           lastProtected'[<<s, "rtx">>] = lastProtected[<<s, "rtx">>], rtxSeq'[s] = rtxSeq[s]
    PROVE  RtxFollows(s)'
<1>1. \A k \in 1 .. 1 + Answered(nack, nacks) : k \in 1 .. 1 + Answered(nack', nacks')
  OBVIOUS
<1>2. QED
  BY <1>1 DEF RtxFollows

\* The steps of a media task protect nothing in an RTX stream.
LEMMA WriterRtx ==
    ASSUME TypeOK, BufferInv, NEW s \in Senders, WriterStep(s), NEW r \in Senders
    PROVE  lastProtected'[<<r, "rtx">>] = lastProtected[<<r, "rtx">>]
<1>1. CASE ConstructSrtpPacket(s)
  <2>1. content[s][writer[s].buf] \in Contents /\ Protect(s, "rtp", content[s][writer[s].buf].hdr)
    BY <1>1, ConstructEffect DEF ConstructSrtpPacket
  <2>2. content[s][writer[s].buf].hdr \in SeqNums /\ NumberTypes
    BY <2>1, TypeParts DEF Contents
  <2>3. QED
    BY <2>1, <2>2, ProtectEffect
<1>2. CASE ~ConstructSrtpPacket(s)
  BY <1>2 DEF WriterStep, WriteFrame, TakeSenderMutex, GetBuffer, GetPacket, NoMorePackets,
              ConstructFails, StorePacket, SendPacket, SendFails
<1>3. QED
  BY <1>1, <1>2

LEMMA RtxStep ==
    ASSUME MaxNacks <= SeqMod \div 2
    PROVE  IInv /\ RtxInv /\ [Next]_vars => RtxInv'
<1> SUFFICES ASSUME IInv, RtxInv, [Next]_vars
             PROVE  RtxInv'
  OBVIOUS
<1>0. /\ TypeOK /\ MutexInv /\ LifeInv /\ BufferInv /\ NumberTypes /\ TaskTypes
      /\ LifeInv' /\ TaskTypes' /\ NumberTypes'
  <2>1. IInv'
    BY IInvStep
  <2>2. TypeOK' /\ LifeInv'
    BY <2>1 DEF IInv
  <2>3. TaskTypes' /\ NumberTypes'
    BY <2>2, TypeParts, PTL
  <2>4. QED
    BY <2>2, <2>3, TypeParts DEF IInv
<1>c. SeqMod \in Nat /\ SeqMod > 1 /\ SeqMod \div 2 < SeqMod /\ MaxNacks \in Nat
  BY BoundAssumption
<1>n. nacks \in 0 .. MaxNacks /\ nacks' \in 0 .. MaxNacks
  BY <1>0 DEF TaskTypes
<1>a. Answered(nack, nacks) \in 0 .. MaxNacks
  BY <1>c, <1>n DEF RtxInv, Answered
<1>1. ASSUME UNCHANGED <<nack, nacks>>
      PROVE  /\ nack'.pc # "idle" => nacks' > 0
             /\ Answered(nack', nacks') = Answered(nack, nacks)
  BY <1>1 DEF RtxInv, Answered
<1>2. ASSUME UNCHANGED <<nack, nacks>>, selected' => selected, txSession' # 0 => txSession # 0,
             \A s \in Senders : lastProtected'[<<s, "rtx">>] = lastProtected[<<s, "rtx">>],
             \A s \in Senders : rtxSeq'[s] = rtxSeq[s]
      PROVE  RtxInv'
  <2>1. Answered(nack, nacks) \in Int /\ Answered(nack', nacks') \in Int
        /\ Answered(nack, nacks) <= Answered(nack', nacks')
    BY <1>1, <1>2, <1>a
  <2>2. \A s \in Senders : RtxFollows(s)'
    BY <1>2, <2>1, RtxKept DEF RtxInv
  <2>3. QED
    BY <1>1, <1>2, <2>2 DEF RtxInv
<1>3. ASSUME NEW s \in Senders, WriterStep(s)
      PROVE  RtxInv'
  <2>1. UNCHANGED <<nack, nacks, selected, txSession, rtxSeq>>
    <3>1. UNCHANGED <<selected, txSession>>
      BY <1>3, TasksLeaveLife DEF LifeVars
    <3>2. UNCHANGED <<nack, nacks, rtxSeq>>
      BY <1>3 DEF WriterStep, WriteFrame, TakeSenderMutex, GetBuffer, GetPacket, NoMorePackets,
         ConstructSrtpPacket, ConstructFails, StorePacket, SendPacket, SendFails
    <3>3. QED
      BY <3>1, <3>2
  <2>2. \A r \in Senders : lastProtected'[<<r, "rtx">>] = lastProtected[<<r, "rtx">>]
    BY <1>0, <1>3, WriterRtx
  <2>3. QED
    BY <1>2, <2>1, <2>2
<1>4. ASSUME NEW s \in Senders, NEW list \in NackLists, OnRtcpNackEvent(s, list)
      PROVE  RtxInv'
  <2>1. /\ nack.pc = "idle" /\ nacks' = nacks + 1 /\ nack'.pc = "lock"
        /\ UNCHANGED <<selected, txSession, lastProtected, rtxSeq>>
    BY <1>4 DEF OnRtcpNackEvent, NackIdle, sessionVars
  <2>2. Answered(nack', nacks') = Answered(nack, nacks) /\ nacks' > 0
    BY <1>n, <1>c, <2>1 DEF Answered
  <2>3. Answered(nack, nacks) \in Int
    BY <1>a
  <2>4. \A r \in Senders : RtxFollows(r)'
    BY <2>1, <2>2, <2>3, RtxKept DEF RtxInv
  <2>5. QED
    BY <2>2, <2>4 DEF RtxInv
<1>5. CASE ResendStep
  <2>0. /\ nack.pc # "idle" /\ nack.s \in Senders /\ nacks > 0
        /\ UNCHANGED <<selected, txSession, nacks>>
    <3>1. nack.pc # "idle" /\ nack.s \in Senders /\ UNCHANGED <<selected, txSession>>
      BY <1>0, <1>5, NackMoves, TasksLeaveLife DEF LifeVars
    <3>2. UNCHANGED nacks
      BY <1>5 DEF ResendStep, ResendLock, ResendNotFound, ResendFound, ResendConstruct,
                  ResendConstructFails, ResendSend
    <3>3. QED
      BY <3>1, <3>2 DEF RtxInv
  <2>1. /\ Answered(nack, nacks) = nacks - 1 /\ Answered(nack', nacks') \in {nacks - 1, nacks}
        /\ nack'.pc = "idle" => Answered(nack', nacks') = nacks
    BY <2>0 DEF Answered
  <2>2. Answered(nack, nacks) \in Int /\ Answered(nack', nacks') \in Int
        /\ Answered(nack, nacks) <= Answered(nack', nacks') /\ nacks' > 0
    BY <1>n, <1>c, <2>0, <2>1
  <2>3. CASE ~ResendConstruct /\ ~ResendConstructFails
    <3>1. UNCHANGED <<lastProtected, rtxSeq>>
      BY <1>5, <2>3 DEF ResendStep, ResendLock, ResendNotFound, ResendFound, ResendSend
    <3>2. \A r \in Senders : RtxFollows(r)'
      BY <2>0, <2>2, <3>1, RtxKept DEF RtxInv
    <3>3. QED
      BY <2>2, <3>2 DEF RtxInv
  <2>4. ASSUME rtxSeq' = [rtxSeq EXCEPT ![nack.s] = (@ + 1) % SeqMod]
        PROVE  /\ rtxSeq[nack.s] \in SeqNums /\ rtxSeq'[nack.s] = (rtxSeq[nack.s] + 1) % SeqMod
               /\ \A r \in Senders : r # nack.s => rtxSeq'[r] = rtxSeq[r]
    BY <1>0, <2>0, <2>4 DEF NumberTypes
  <2>5. CASE ResendConstruct
    <3>1. /\ rtxSeq[nack.s] \in SeqNums /\ rtxSeq'[nack.s] = (rtxSeq[nack.s] + 1) % SeqMod
          /\ \A r \in Senders : r # nack.s => rtxSeq'[r] = rtxSeq[r]
          /\ Protect(nack.s, "rtx", rtxSeq[nack.s])
      BY <2>4, <2>5 DEF ResendConstruct
    <3>2. \A r \in Senders : r # nack.s
            => lastProtected'[<<r, "rtx">>] = lastProtected[<<r, "rtx">>]
      BY <1>0, <2>0, <3>1, ProtectEffect
    <3>3. \A r \in Senders : r # nack.s => RtxFollows(r)'
      BY <2>0, <2>2, <3>1, <3>2, RtxKept DEF RtxInv
    <3>5. \A r \in Senders : r = nack.s => RtxFollows(r)'
      <4> SUFFICES ASSUME NEW r \in Senders, r = nack.s, txSession # 0
                   PROVE  \E k \in 1 .. 1 + Answered(nack', nacks') :
                             After(lastProtected'[<<r, "rtx">>].seq, k, rtxSeq'[r])
        BY <2>0 DEF RtxFollows
      <4>1. lastProtected'[<<r, "rtx">>].seq = rtxSeq[r]
        <5>1. lastProtected'[<<nack.s, "rtx">>] =
                 [seq |-> rtxSeq[nack.s], n |-> lastProtected[<<nack.s, "rtx">>].n + 1]
          BY <1>0, <2>0, <3>1, ProtectEffect
        <5>2. QED
          BY <5>1
      <4>2. After(rtxSeq[r], 0, rtxSeq[r]) /\ 0 \in 0 .. Capacity
        BY <3>1, BoundAssumption DEF After, SeqNums
      <4>3. After(rtxSeq[r], 0 + 1, rtxSeq'[r])
        BY <3>1, <4>2, AfterFacts
      <4>4. 1 \in 1 .. 1 + Answered(nack', nacks')
        <5>1. nacks - 1 \in Nat /\ nacks \in Nat
          BY <1>n, <1>c, <2>0
        <5>2. Answered(nack', nacks') \in Nat
          BY <2>1, <5>1
        <5>3. QED
          BY <5>2
      <4>5. QED
        BY <4>1, <4>3, <4>4
    <3>6. QED
      BY <2>2, <3>3, <3>5 DEF RtxInv
  <2>6. CASE ResendConstructFails
    <3>1. /\ rtxSeq[nack.s] \in SeqNums /\ rtxSeq'[nack.s] = (rtxSeq[nack.s] + 1) % SeqMod
          /\ \A r \in Senders : r # nack.s => rtxSeq'[r] = rtxSeq[r]
          /\ UNCHANGED lastProtected /\ nack'.pc = "idle"
      BY <2>4, <2>6 DEF ResendConstructFails, LeaveResend, NackIdle
    <3>2. \A r \in Senders : r # nack.s => RtxFollows(r)'
      BY <2>0, <2>2, <3>1, RtxKept DEF RtxInv
    <3>3. \A r \in Senders : r = nack.s => RtxFollows(r)'
      <4> SUFFICES ASSUME NEW r \in Senders, r = nack.s, selected, txSession # 0,
                          lastProtected[<<r, "rtx">>].n > 0
                   PROVE  \E k \in 1 .. 1 + Answered(nack', nacks') :
                             After(lastProtected[<<r, "rtx">>].seq, k, rtxSeq'[r])
        BY <2>0, <3>1 DEF RtxFollows
      <4>1. PICK k \in 1 .. 1 + Answered(nack, nacks) :
                   After(lastProtected[<<r, "rtx">>].seq, k, rtxSeq[r])
        BY DEF RtxInv, RtxFollows
      <4>2. lastProtected[<<r, "rtx">>].seq \in SeqNums /\ rtxSeq[r] \in SeqNums
        BY <1>0 DEF NumberTypes
      <4>3. k \in 1 .. SeqMod - 1 /\ k + 1 \in 1 .. 1 + Answered(nack', nacks')
        BY <1>n, <1>c, <2>0, <2>1, <3>1, <4>1
      <4>4. (rtxSeq[r] + 1) % SeqMod = (IF rtxSeq[r] + 1 = SeqMod THEN 0 ELSE rtxSeq[r] + 1)
        BY <4>2, NextNumber
      <4>5. After(lastProtected[<<r, "rtx">>].seq, k + 1, (rtxSeq[r] + 1) % SeqMod)
        BY <1>c, <4>1, <4>2, <4>3, <4>4 DEF After, SeqNums
      <4>6. QED
        BY <3>1, <4>3, <4>5
    <3>4. QED
      BY <2>2, <3>2, <3>3 DEF RtxInv
  <2>7. QED
    BY <2>3, <2>5, <2>6
<1>6. CASE SrtpInitSession
  <2>1. UNCHANGED <<nack, nacks>> /\ \A s \in Senders : lastProtected'[<<s, "rtx">>].n = 0
    <3>1. \A s \in Senders : <<s, "rtx">> \in DOMAIN lastProtected
      BY <1>0 DEF NumberTypes
    <3>2. QED
      BY <1>6, <3>1 DEF SrtpInitSession, NothingProtected
  <2>2. \A s \in Senders : RtxFollows(s)'
    BY <2>1 DEF RtxFollows
  <2>3. QED
    BY <1>1, <2>1, <2>2 DEF RtxInv
<1>7. CASE CreateOffer
  <2>1. ~selected' /\ UNCHANGED <<nack, nacks>>
    BY <1>0, <1>7 DEF CreateOffer, LifeInv
  <2>2. \A s \in Senders : RtxFollows(s)'
    BY <2>1 DEF RtxFollows
  <2>3. QED
    BY <1>1, <2>1, <2>2 DEF RtxInv
<1>8. ASSUME NEW t \in Closers, CloseSession(t) \/ CloseStep(t)
      PROVE  RtxInv'
  <2>1. UNCHANGED <<nack, nacks, lastProtected, rtxSeq>>
    BY <1>8
       DEF CloseSession, CloseStep, Destroy, DestroyAlreadyClosed, DestroyClosed, DeInitSession,
           DeInitSender
  <2>2. (selected' => selected) /\ (txSession' # 0 => txSession # 0)
    <3>1. CASE Destroy(t)
      <4>1. selected' => selected
        BY <3>1, Zenon DEF Destroy
      <4>2. QED
        BY <3>1, <4>1 DEF Destroy
    <3>2. QED
      BY <1>8, <3>1 DEF CloseSession, CloseStep, DestroyAlreadyClosed, DestroyClosed, DeInitSession,
                        DeInitSender, sessionVars
  <2>3. QED
    BY <1>2, <2>1, <2>2
<1>9. CASE AddressClosing \/ OnClosePeerConnection \/ SrtpInitBuffers \/ SrtpInitFails
  <2>1. UNCHANGED <<nack, nacks, lastProtected, rtxSeq, txSession>> /\ (selected' => selected)
    BY <1>9 DEF AddressClosing, OnClosePeerConnection, SrtpInitBuffers, SrtpInitFails
  <2>2. QED
    BY <1>2, <2>1
<1>10. CASE UNCHANGED vars
  BY <1>2, <1>10 DEF vars
<1>11. QED
  BY <1>3, <1>4, <1>5, <1>6, <1>7, <1>8, <1>9, <1>10 DEF Next
LEMMA RtxAlways ==
    ASSUME MaxNacks <= SeqMod \div 2
    PROVE  Spec => []RtxInv
<1>1. Init => RtxInv
  BY DEF Init, RtxInv, RtxFollows, NackIdle
<1>2. IInv /\ RtxInv /\ [Next]_vars => RtxInv'
  BY RtxStep
<1>3. QED
  BY <1>1, <1>2, IInvAlways, PTL DEF Spec

\* As long as the connection is open a packet is protected under a number ahead of the
\* last one of its stream: no number of an SRTP stream is used twice, whatever fails in
\* between (PeerConnectionSrtp_ConstructSrtpPacket, ( *pRtpSeq )++).
THEOREM NumbersAdvanceAlways ==
    ASSUME MaxNacks <= SeqMod \div 2
    PROVE  Spec => NumbersAdvance
<1> DEFINE Advance ==
        \A x \in Senders \X {"rtp", "rtx"} :
          (/\ selected
           /\ lastProtected'[x].n > lastProtected[x].n
           /\ lastProtected[x].n > 0) =>
              (lastProtected'[x].seq - lastProtected[x].seq) % SeqMod \in 1 .. SeqMod \div 2
<1>1. ASSUME IInv, RtxInv, [Next]_vars
      PROVE  Advance
  <2> SUFFICES ASSUME NEW x \in Senders \X {"rtp", "rtx"}, selected,
                      lastProtected'[x].n > lastProtected[x].n, lastProtected[x].n > 0
               PROVE  (lastProtected'[x].seq - lastProtected[x].seq) % SeqMod \in 1 .. SeqMod \div 2
    OBVIOUS
  <2>x. PICK s \in Senders, stream \in {"rtp", "rtx"} : x = <<s, stream>>
    OBVIOUS
  <2> DEFINE last == lastProtected[<<s, stream>>]
  <2>0. /\ TypeOK /\ MutexInv /\ LifeInv /\ BufferInv /\ NumberInv /\ NumberTypes /\ TaskTypes
        /\ SeqMod \in Nat /\ SeqMod > 1 /\ MaxNacks \in Nat
    BY <1>1, TypeParts, BoundAssumption DEF IInv
  <2>t. last.seq \in SeqNums /\ last.n \in Nat /\ rtpSeq[s] \in SeqNums /\ rtxSeq[s] \in SeqNums
    BY <2>0 DEF NumberTypes
  <2>y. selected /\ last.n > 0
    BY <2>x
  <2>h. SeqMod \div 2 \in Nat /\ SeqMod \div 2 >= 1 /\ SeqMod \div 2 < SeqMod
    BY <2>0
  <2>1. lastProtected'[<<s, stream>>] # lastProtected[<<s, stream>>]
    BY <2>t, <2>x
  <2>2. \/ \E r \in Senders : ConstructSrtpPacket(r)
        \/ ResendConstruct \/ SrtpInitSession
    BY <1>1, <2>1, NumberSteps
  <2>3. ASSUME NEW r \in Senders, ConstructSrtpPacket(r)
        PROVE  (lastProtected'[<<s, stream>>].seq - last.seq) % SeqMod \in 1 .. SeqMod \div 2
    <3> DEFINE p == content[r][writer[r].buf]
    <3>1. p.hdr \in SeqNums /\ Protect(r, "rtp", p.hdr)
      BY <2>0, <2>3, ConstructEffect DEF ConstructSrtpPacket, Contents
    <3>2. txSession # 0 /\ s = r /\ stream = "rtp"
      BY <2>0, <2>1, <3>1, ProtectEffect
    <3>3. lastProtected'[<<s, stream>>] = [seq |-> p.hdr, n |-> last.n + 1]
      BY <2>0, <3>1, <3>2, ProtectEffect
    <3>4. p.hdr = rtpSeq[s] /\ After(last.seq, 1, rtpSeq[s])
      <4>1. SenderNumbers(s) /\ RtpFollows(s)
        BY <2>0 DEF NumberInv, LifeInv
      <4>2. writer[s].pc = "protect"
        BY <2>3, <3>2 DEF ConstructSrtpPacket
      <4>3. QED
        BY <2>y, <3>2, <4>1, <4>2 DEF SenderNumbers, RtpFollows
    <3>5. (rtpSeq[s] - last.seq) % SeqMod = 1
      BY <2>0, <2>t, <3>4, AfterMod
    <3>6. QED
      BY <2>h, <3>3, <3>4, <3>5
  <2>4. CASE ResendConstruct
    <3>0. nack.s \in Senders /\ rtxSeq[nack.s] \in SeqNums /\ Protect(nack.s, "rtx", rtxSeq[nack.s])
      BY <2>0, <2>4, NackMoves DEF ResendStep, ResendConstruct, NumberTypes
    <3>1. txSession # 0 /\ s = nack.s /\ stream = "rtx"
      BY <2>0, <2>1, <3>0, ProtectEffect
    <3>2. lastProtected'[<<s, stream>>] = [seq |-> rtxSeq[s], n |-> last.n + 1]
      BY <2>0, <3>0, <3>1, ProtectEffect
    <3>3. PICK k \in 1 .. 1 + Answered(nack, nacks) : After(last.seq, k, rtxSeq[s])
      BY <1>1, <2>y, <3>1 DEF RtxInv, RtxFollows
    <3>4. nacks \in 0 .. MaxNacks /\ 1 + Answered(nack, nacks) = nacks
      BY <2>0, <2>4 DEF TaskTypes, ResendConstruct, Answered
    <3>5. k \in 1 .. SeqMod \div 2
      BY <1>1, <2>0, <2>h, <3>3, <3>4
    <3>6. (rtxSeq[s] - last.seq) % SeqMod = k
      BY <2>0, <2>h, <2>t, <3>3, <3>5, AfterMod
    <3>7. lastProtected'[<<s, stream>>].seq = rtxSeq[s]
      BY <3>2
    <3>8. QED
      BY <2>x, <3>5, <3>6, <3>7
  <2>5. CASE SrtpInitSession
    <3>1. <<s, stream>> \in DOMAIN lastProtected
      BY <2>0 DEF NumberTypes
    <3>2. lastProtected'[<<s, stream>>].n = 0
      BY <2>5, <3>1 DEF SrtpInitSession, NothingProtected
    <3>3. QED
      BY <2>t, <2>x, <3>2
  <2>6. QED
    BY <2>2, <2>3, <2>4, <2>5, <2>x
<1>2. IInv /\ RtxInv /\ [Next]_vars => Advance
  BY <1>1
<1>3. Spec => []RtxInv
  BY RtxAlways
<1>4. QED
  BY <1>2, <1>3, IInvAlways, PTL DEF Spec, NumbersAdvance
==============================================================================
