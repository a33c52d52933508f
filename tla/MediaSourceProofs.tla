-------------------------- MODULE MediaSourceProofs --------------------------
(***************************************************************************)
(* Proofs about MediaSource for every number of viewers, every capacity of *)
(* the queues and every number of frames: the type invariant, that no      *)
(* frame is leaked or freed while in use, and that the camera runs exactly *)
(* while a session is ready.                                               *)
(***************************************************************************)
EXTENDS MediaSource, FiniteSetTheorems, TLAPS

------------------------------------------------------------------------------
(* The inductive invariant, in two parts: the sessions and the counters, which only  *)
(* the actions of Peer change, and the frames, which only the other actions change.   *)

\* The events a session has still to give are a rest of BothKinds, unless a second close
\* has added its own to those of the first.
Rests == {<<>>, <<"audio">>, BothKinds}

PeerTypes ==
    /\ toReady \in [Slots -> Rests] /\ toClosed \in [Slots -> Seq(Kinds)]
    /\ state \in [Slots -> {"INITED", "FIND", "READY", "CLOSING"}] /\ closing \subseteq Slots
    /\ numReady \in [Kinds -> 0..MaxViewers] /\ total \in Nat
    /\ mediaStart \in BOOLEAN /\ disturbed \in BOOLEAN /\ offers \in 0..MaxOffers

\* Unless a connection was disturbed, only a session that is ready is still being
\* announced, and the closed events are given while the session is being closed.
EventsFollowState ==
    ~disturbed => \A s \in Slots :
        /\ toReady[s] # <<>> => state[s] = "READY"
        /\ toClosed[s] \in Rests /\ (toClosed[s] # <<>> => s \in closing)
        /\ s \in closing => state[s] = "CLOSING"

\* The frames a queue holds and the tasks carry are frames that were allocated, and
\* each task is on a path of its own.
Carried(steps, paths) == [at : steps, path : paths, frame : 1..frames]

FrameTypes ==
    /\ queue \in [Paths -> Seq(1..frames)]
    /\ \A p \in Paths : Len(queue[p]) <= QueueCap
    /\ producer \in [Producers -> {Nothing} \cup Carried({"check", "drop", "send"}, Paths)]
    /\ \A t \in Producers : producer[t] # Nothing => (producer[t].path = "rx" <=> t # Camera)
    /\ consumer \in [Paths -> {Nothing} \cup Carried({"write", "play"}, Paths)]
    /\ items \in 0..MaxItems /\ frames \in 0..MaxFrames

Busy(t) == producer[t] # Nothing
Queued(p) == 1..Len(queue[p])

InQueues(f) == \E p \in Paths : \E i \in Queued(p) : queue[p][i] = f

\* No frame is in two places.
QueuedOnce ==
    \A p, q \in Paths : \A i \in Queued(p), j \in Queued(q) :
        queue[p][i] = queue[q][j] => p = q /\ i = j

NoFrameTwice ==
    /\ QueuedOnce
    /\ \A t, u \in Producers :
           Busy(t) /\ Busy(u) /\ producer[t].frame = producer[u].frame => t = u
    /\ \A p, q \in Paths :
           consumer[p] # Nothing /\ consumer[q] # Nothing /\ consumer[p].frame = consumer[q].frame
           => p = q
    /\ \A t \in Producers : Busy(t) => ~InQueues(producer[t].frame)
    /\ \A p \in Paths : consumer[p] # Nothing => ~InQueues(consumer[p].frame)
    /\ \A t \in Producers, q \in Paths :
           Busy(t) /\ consumer[q] # Nothing => producer[t].frame # consumer[q].frame

\* What is allocated is in a queue, in the hands of the camera or of a consumer; a
\* listener has not copied its frame yet.
Allocated(f) ==
    \/ InQueues(f)
    \/ Busy(Camera) /\ producer[Camera].frame = f
    \/ \E p \in Paths : consumer[p] # Nothing /\ consumer[p].frame = f

HeapIsAllocated == \A f : f \in heap <=> Allocated(f)

\* Only the camera fills its queues, so that there is room once it has found or made it.
RoomToSend == producer[Camera].at = "send" => ~Full(producer[Camera].path)

FrameInv == FrameTypes /\ NoFrameTwice /\ HeapIsAllocated /\ RoomToSend

------------------------------------------------------------------------------
(* Lemmas about the values. *)

\* The three queues are filled by the camera and by the listeners.
LEMMA PathFacts ==
    /\ Camera \in Producers /\ Camera \notin Slots /\ Slots \subseteq Producers
    /\ "rx" \in Paths /\ "rx" \notin Kinds /\ Kinds \subseteq Paths
  BY MediaConstants DEF Camera, Producers, Slots, Paths, Kinds

\* A task that holds a frame is not idle, whatever it does with it.
LEMMA HoldingIsBusy ==
    ASSUME NEW step \in {"check", "drop", "send", "write", "play"}, NEW path, NEW frame
    PROVE  /\ Holding(step, path, frame) # Nothing
           /\ Holding(step, path, frame).at = step
           /\ Holding(step, path, frame).path = path
           /\ Holding(step, path, frame).frame = frame
  BY DEF Holding, Nothing

\* Taking the oldest frame off a queue.
LEMMA TailFacts ==
    ASSUME NEW S, NEW q \in Seq(S), q # <<>>
    PROVE  /\ Head(q) \in S /\ Head(q) = q[1] /\ Tail(q) \in Seq(S)
           /\ Len(Tail(q)) = Len(q) - 1 /\ 1 \in 1..Len(q)
           /\ \A i \in 1..Len(Tail(q)) : i + 1 \in 1..Len(q) /\ Tail(q)[i] = q[i + 1]
           /\ \A i \in 1..Len(q) : i # 1 => i - 1 \in 1..Len(Tail(q)) /\ Tail(q)[i - 1] = q[i]
  OBVIOUS

\* Adding a frame to a queue.
LEMMA AppendFacts ==
    ASSUME NEW S, NEW q \in Seq(S), NEW f \in S
    PROVE  /\ Append(q, f) \in Seq(S) /\ Len(Append(q, f)) = Len(q) + 1
           /\ \A i \in 1..Len(q) : Append(q, f)[i] = q[i]
           /\ Append(q, f)[Len(q) + 1] = f
  OBVIOUS

\* The frames allocated so far grow, and with them the sets frames are taken from.
LEMMA MoreFrames ==
    ASSUME NEW m \in Nat, NEW n \in Nat, m <= n
    PROVE  1..m \subseteq 1..n /\ Seq(1..m) \subseteq Seq(1..n)
  OBVIOUS
------------------------------------------------------------------------------
(* Types. *)

\* The actions of the sessions leave the frames alone, those of the media tasks leave
\* the sessions and the counters alone.
LEMMA PeerLeavesFrames == ASSUME NEW s \in Slots, Peer(s) PROVE UNCHANGED frameVars
  BY DEF Peer, Describe, HandshakeComplete, CloseSession, SessionClosed,
     RemotePeerReady, RemotePeerClosed

LEMMA MediaLeavesPeers == Produce \/ Consume => UNCHANGED <<peerVars, countVars>>
  BY DEF Produce, CaptureFrame, SendCaptured, CheckFull, DropOldest, ReceiveFrame, SendReceived,
     Consume, TakeFrame, WriteFrame, PlayAudioFrame, ItemPlayed

------------------------------------------------------------------------------
(* The sessions and the counters. *)

\* A rest that is not empty starts with a kind and goes on with a rest.
LEMMA RestFacts ==
    /\ <<>> \in Rests /\ BothKinds \in Rests /\ BothKinds # <<>>
    /\ \A r \in Rests : r # <<>> => Head(r) \in Kinds /\ Tail(r) \in Rests
    /\ <<>> \o BothKinds = BothKinds
    /\ \A r \in Seq(Kinds) : /\ r \o BothKinds \in Seq(Kinds)
                             /\ r # <<>> => Head(r) \in Kinds /\ Tail(r) \in Seq(Kinds)
  BY DEF Rests, BothKinds, Kinds

PeerInv == PeerTypes /\ EventsFollowState /\ CameraFollowsCount

\* The sessions, the events and the counters stay in step.
LEMMA PeerStep == PeerInv /\ [Next]_vars => PeerInv'
<1> SUFFICES ASSUME PeerInv, [Next]_vars
             PROVE  PeerInv'
  OBVIOUS
<1> USE MediaConstants, RestFacts DEF PeerInv, PeerTypes, EventsFollowState, CameraFollowsCount
<1>1. ASSUME NEW s \in Slots, Describe(s)
      PROVE  PeerInv'
  <2>1. state' = [state EXCEPT ![s] = "FIND"] /\ offers' = offers + 1 /\ offers < MaxOffers
        /\ UNCHANGED <<closing, toReady, toClosed, numReady, total, mediaStart>>
    BY <1>1 DEF Describe, countVars
  <2>2. disturbed' \in BOOLEAN /\ (~disturbed' => ~disturbed /\ state[s] # "READY" /\ s \notin closing)
    BY <1>1, Zenon DEF Describe
  <2>3. PeerTypes'
    BY <2>1, <2>2
  <2>4. EventsFollowState'
    BY <2>1, <2>2
  <2>5. QED
    BY <2>1, <2>3, <2>4
<1>2. ASSUME NEW s \in Slots, HandshakeComplete(s)
      PROVE  PeerInv'
  BY <1>2 DEF HandshakeComplete, countVars
<1>3. ASSUME NEW s \in Slots, CloseSession(s)
      PROVE  PeerInv'
  <2>1. /\ state' = [state EXCEPT ![s] = "CLOSING"] /\ closing' = closing \cup {s}
        /\ state[s] \in {"FIND", "READY"} /\ UNCHANGED <<toReady, offers, numReady, total, mediaStart>>
    BY <1>3 DEF CloseSession, countVars
  <2>2. disturbed' \in BOOLEAN /\ (~disturbed' => ~disturbed /\ toReady[s] = <<>>)
    BY <1>3, Zenon DEF CloseSession
  <2>3. toClosed' = [toClosed EXCEPT ![s] = IF state[s] = "READY" THEN @ \o BothKinds ELSE @]
    BY <1>3 DEF CloseSession
  <2>4. PeerTypes'
    BY <2>1, <2>2, <2>3
  <2>5. EventsFollowState'
    BY <2>1, <2>2, <2>3
  <2>6. QED
    BY <2>1, <2>4, <2>5
<1>4. ASSUME NEW s \in Slots, SessionClosed(s)
      PROVE  PeerInv'
  BY <1>4 DEF SessionClosed, countVars
<1>5. ASSUME NEW s \in Slots, RemotePeerReady(s)
      PROVE  PeerInv'
  <2>1. Head(toReady[s]) \in {"video", "audio"} /\ Tail(toReady[s]) \in Rests
    BY <1>5 DEF RemotePeerReady, Kinds
  <2>2. numReady' \in [Kinds -> 0..MaxViewers]
    BY <1>5, <2>1 DEF RemotePeerReady, Kinds
  <2>3. total' \in Nat /\ total' = numReady'["video"] + numReady'["audio"]
    BY <1>5, <2>1 DEF RemotePeerReady, Kinds
  <2>4. mediaStart' \in BOOLEAN /\ (mediaStart' <=> total' > 0)
    <3>1. mediaStart' \in BOOLEAN /\ (mediaStart' <=> (mediaStart \/ total' = 1))
      BY <1>5 DEF RemotePeerReady
    <3>2. total' \in {total, total + 1} /\ (total' = total => total > 0)
      <4>1. numReady["video"] \in Nat /\ numReady["audio"] \in Nat
        BY DEF Kinds
      <4>2. total' = IF numReady[Head(toReady[s])] < MaxViewers THEN total + 1 ELSE total
        BY <1>5 DEF RemotePeerReady
      <4>3. ~(numReady[Head(toReady[s])] < MaxViewers) => total > 0
        BY <2>1, <4>1
      <4>4. QED
        BY <4>2, <4>3
    <3>3. QED
      BY <2>3, <3>1, <3>2
  <2>5. QED
    BY <1>5, <2>1, <2>2, <2>3, <2>4 DEF RemotePeerReady, Kinds
<1>6. ASSUME NEW s \in Slots, RemotePeerClosed(s)
      PROVE  PeerInv'
  <2>1. Head(toClosed[s]) \in {"video", "audio"} /\ Tail(toClosed[s]) \in Seq(Kinds)
    BY <1>6 DEF RemotePeerClosed, Kinds
  <2>2. numReady' \in [Kinds -> 0..MaxViewers]
    BY <1>6, <2>1 DEF RemotePeerClosed, Kinds
  <2>3. total' \in Nat /\ total' = numReady'["video"] + numReady'["audio"]
    BY <1>6, <2>1 DEF RemotePeerClosed, Kinds
  <2>4. mediaStart' \in BOOLEAN /\ (mediaStart' <=> total' > 0)
    <3>1. mediaStart' \in BOOLEAN /\ (mediaStart' <=> (mediaStart /\ total' # 0))
      BY <1>6 DEF RemotePeerClosed
    <3>2. total' <= total
      BY <1>6, <2>1 DEF RemotePeerClosed, Kinds
    <3>3. QED
      BY <2>3, <3>1, <3>2
  <2>5. QED
    BY <1>6, <2>1, <2>2, <2>3, <2>4 DEF RemotePeerClosed, Kinds
<1>7. CASE Produce \/ Consume \/ UNCHANGED vars
  BY <1>7, MediaLeavesPeers DEF vars, peerVars, countVars
<1>8. QED
  BY <1>1, <1>2, <1>3, <1>4, <1>5, <1>6, <1>7 DEF Next, Peer
\* The sets that are counted are sets of slots: finite, and one slot more or less is one
\* more or less.
LEMMA SlotSets ==
    ASSUME NEW S \in SUBSET Slots
    PROVE  /\ Cardinality(S) \in Nat /\ Cardinality(S) <= MaxViewers
           /\ \A s \in S : Cardinality(S) > 0 /\ Cardinality(S \ {s}) = Cardinality(S) - 1
           /\ \A s \in Slots \ S : Cardinality(S \cup {s}) = Cardinality(S) + 1
<1>1. IsFiniteSet(Slots) /\ Cardinality(Slots) = MaxViewers
  BY FS_Interval, MediaConstants DEF Slots
<1>2. IsFiniteSet(S) /\ Cardinality(S) <= MaxViewers
  BY <1>1, FS_Subset
<1>3. Cardinality(S) \in Nat
  BY <1>2, FS_CardinalityType
<1>4. \A s \in S : Cardinality(S) > 0 /\ Cardinality(S \ {s}) = Cardinality(S) - 1
  BY <1>2, <1>3, FS_RemoveElement, FS_EmptySet
<1>5. \A s \in Slots \ S : Cardinality(S \cup {s}) = Cardinality(S) + 1
  BY <1>2, FS_AddElement
<1>6. QED
  BY <1>2, <1>3, <1>4, <1>5

\* Which kinds are still to be announced.
LEMMA RestRanges ==
    /\ Range(<<>>) = {} /\ Range(BothKinds) = Kinds
    /\ \A r \in Rests : Range(r) \subseteq Kinds
    /\ \A r \in Rests : r # <<>> =>
           Head(r) \in Range(r) /\ Range(Tail(r)) = Range(r) \ {Head(r)}
<1>1. Range(<<>>) = {}
  BY DEF Range
<1>2. Range(<<"audio">>) = {"audio"}
  BY DEF Range
<1>3. Range(BothKinds) = Kinds
  BY DEF Range, BothKinds, Kinds
<1>4. Head(BothKinds) = "video" /\ Tail(BothKinds) = <<"audio">>
  BY DEF BothKinds
<1>5. Head(<<"audio">>) = "audio" /\ Tail(<<"audio">>) = <<>>
  OBVIOUS
<1>6. QED
  BY <1>1, <1>2, <1>3, <1>4, <1>5 DEF Rests, Kinds

\* One slot changes what it has still to give.
LEMMA PendingChange ==
    ASSUME NEW seqs \in [Slots -> Rests], NEW s \in Slots, NEW r \in Rests, NEW k \in Kinds
    PROVE  Pending([seqs EXCEPT ![s] = r], k)
             = IF k \in Range(r) THEN Pending(seqs, k) \cup {s} ELSE Pending(seqs, k) \ {s}
  BY DEF Pending

ReadySlots == {s \in Slots : state[s] = "READY"}
Announced(k) == Cardinality(Pending(toReady, k))
Leaving(k) == Cardinality(Pending(toClosed, k))
Balanced == \A k \in Kinds : numReady[k] + Announced(k) = Cardinality(ReadySlots) + Leaving(k)

\* The three counts are numbers, and the slots that are ready and those that are still
\* leaving are different slots.
LEMMA CountFacts ==
    ASSUME PeerInv, NEW k \in Kinds
    PROVE  /\ Announced(k) \in Nat /\ Leaving(k) \in Nat /\ Cardinality(ReadySlots) \in Nat
           /\ ~disturbed => Cardinality(ReadySlots) + Leaving(k) <= MaxViewers
           /\ ~disturbed => Announced(k) <= Cardinality(ReadySlots)
<1> DEFINE R == ReadySlots  C == Pending(toClosed, k)  A == Pending(toReady, k)
<1>1. R \subseteq Slots /\ C \subseteq Slots /\ A \subseteq Slots
  BY DEF ReadySlots, Pending
<1>2. ~disturbed => R \cap C = {}
  BY RestRanges DEF ReadySlots, Pending, PeerInv, EventsFollowState
<1>3. ~disturbed => A \subseteq R
  BY RestRanges DEF ReadySlots, Pending, PeerInv, EventsFollowState
<1>4. IsFiniteSet(Slots)
  BY FS_Interval, MediaConstants DEF Slots
<1>5. IsFiniteSet(R) /\ IsFiniteSet(C)
  BY <1>1, <1>4, FS_Subset
<1>6. ~disturbed => Cardinality(R \cup C) = Cardinality(R) + Cardinality(C)
  <2>1. Cardinality(R \cup C) = Cardinality(R) + Cardinality(C) - Cardinality(R \cap C)
    BY <1>5, FS_Union
  <2>2. ~disturbed => Cardinality(R \cap C) = 0
    BY <1>2, FS_EmptySet
  <2>3. Cardinality(R) \in Nat /\ Cardinality(C) \in Nat
    BY <1>1, SlotSets
  <2>4. QED
    BY <2>1, <2>2, <2>3
<1>7. (R \cup C) \in SUBSET Slots
  BY <1>1
<1>8. Cardinality(R \cup C) <= MaxViewers
  BY <1>7, SlotSets
<1>9. ~disturbed => Cardinality(A) <= Cardinality(R)
  BY <1>3, <1>5, FS_Subset
<1>10. Cardinality(A) \in Nat /\ Cardinality(R) \in Nat /\ Cardinality(C) \in Nat
  BY <1>1, SlotSets
<1>11. QED
  BY <1>6, <1>8, <1>9, <1>10 DEF Announced, Leaving

\* Each of these actions moves a session from one count to another, or does so with the
\* number that is counted.
LEMMA BalanceStep ==
    PeerInv /\ PeerInv' /\ (~disturbed => Balanced) /\ [Next]_vars => (~disturbed' => Balanced')
<1> SUFFICES ASSUME PeerInv, PeerInv', ~disturbed => Balanced, [Next]_vars, ~disturbed',
                    NEW k \in Kinds
             PROVE  numReady'[k] + Announced(k)' = Cardinality(ReadySlots)' + Leaving(k)'
  BY DEF Balanced
<1> USE RestFacts, RestRanges DEF PeerInv, PeerTypes
<1>d. ~disturbed /\ toClosed \in [Slots -> Rests]
  <2>1. ~disturbed
    BY MediaLeavesPeers DEF Next, Peer, Describe, HandshakeComplete, CloseSession, SessionClosed,
       RemotePeerReady, RemotePeerClosed, vars, peerVars
  <2>2. QED
    BY <2>1 DEF EventsFollowState
<1>t. /\ toReady \in [Slots -> Rests] /\ toClosed \in [Slots -> Rests]
      /\ ReadySlots \in SUBSET Slots /\ Pending(toReady, k) \in SUBSET Slots
      /\ Pending(toClosed, k) \in SUBSET Slots /\ numReady[k] \in 0..MaxViewers
  BY <1>d DEF ReadySlots, Pending
<1>c. /\ Announced(k) \in Nat /\ Leaving(k) \in Nat /\ Cardinality(ReadySlots) \in Nat
      /\ Cardinality(ReadySlots) + Leaving(k) <= MaxViewers
      /\ ~disturbed => Announced(k) <= Cardinality(ReadySlots)
      /\ ~disturbed => numReady[k] + Announced(k) = Cardinality(ReadySlots) + Leaving(k)
      /\ numReady[k] \in Nat /\ MaxViewers \in Nat
  BY <1>d, <1>t, CountFacts, MediaConstants DEF Balanced
<1>1. ASSUME NEW s \in Slots, Describe(s)
      PROVE  numReady'[k] + Announced(k)' = Cardinality(ReadySlots)' + Leaving(k)'
  <2>1. ~disturbed /\ state[s] # "READY" /\ state' = [state EXCEPT ![s] = "FIND"]
    BY <1>1 DEF Describe
  <2>2. ReadySlots' = ReadySlots
    BY <2>1 DEF ReadySlots
  <2>3. numReady' = numReady /\ Announced(k)' = Announced(k) /\ Leaving(k)' = Leaving(k)
    BY <1>1 DEF Describe, Announced, Leaving, Pending, countVars
  <2>4. QED
    BY <1>c, <2>1, <2>2, <2>3
<1>2. ASSUME NEW s \in Slots, HandshakeComplete(s)
      PROVE  numReady'[k] + Announced(k)' = Cardinality(ReadySlots)' + Leaving(k)'
  <2>1. ReadySlots' = ReadySlots \cup {s} /\ s \in Slots \ ReadySlots
    BY <1>2 DEF HandshakeComplete, ReadySlots
  <2>2. Pending(toReady, k)' = Pending(toReady, k) \cup {s} /\ s \in Slots \ Pending(toReady, k)
    BY <1>2, <1>t, PendingChange DEF HandshakeComplete, Pending
  <2>3. Announced(k)' = Announced(k) + 1 /\ Cardinality(ReadySlots)' = Cardinality(ReadySlots) + 1
    BY <1>t, <2>1, <2>2, SlotSets DEF Announced
  <2>4. numReady' = numReady /\ Leaving(k)' = Leaving(k)
    BY <1>2 DEF HandshakeComplete, Leaving, Pending, countVars
  <2>5. QED
    <3> HIDE RestFacts, RestRanges DEF PeerInv, PeerTypes
    <3>1. QED
      BY <1>c, <1>d, <2>3, <2>4
<1>3. ASSUME NEW s \in Slots, CloseSession(s)
      PROVE  numReady'[k] + Announced(k)' = Cardinality(ReadySlots)' + Leaving(k)'
  <2>1. ~disturbed /\ toReady[s] = <<>> /\ toClosed[s] = <<>>
    BY <1>3, <1>d DEF CloseSession, EventsFollowState
  <2>2. CASE state[s] = "READY"
    <3>1. ReadySlots' = ReadySlots \ {s} /\ s \in ReadySlots
      BY <1>3, <2>2 DEF CloseSession, ReadySlots
    <3>2. Pending(toClosed, k)' = Pending(toClosed, k) \cup {s}
          /\ s \in Slots \ Pending(toClosed, k)
      BY <1>3, <1>t, <2>1, <2>2, PendingChange DEF CloseSession, Pending
    <3>3. Leaving(k)' = Leaving(k) + 1 /\ Cardinality(ReadySlots)' = Cardinality(ReadySlots) - 1
      BY <1>t, <3>1, <3>2, SlotSets DEF Leaving
    <3>4. numReady' = numReady /\ Announced(k)' = Announced(k)
      BY <1>3 DEF CloseSession, Announced, Pending, countVars
    <3>5. QED
      <4> HIDE RestFacts, RestRanges DEF PeerInv, PeerTypes
      <4>1. QED
        BY <1>c, <1>d, <3>3, <3>4
  <2>3. CASE state[s] # "READY"
    <3>1. ReadySlots' = ReadySlots
      BY <1>3, <2>3 DEF CloseSession, ReadySlots
    <3>2. toClosed' = toClosed
      BY <1>3, <2>1, <2>3 DEF CloseSession
    <3>3. QED
      BY <1>3, <2>1, <3>1, <3>2 DEF CloseSession, Balanced, Announced, Leaving, countVars
  <2>4. QED
    BY <2>2, <2>3
<1>4. ASSUME NEW s \in Slots, SessionClosed(s)
      PROVE  numReady'[k] + Announced(k)' = Cardinality(ReadySlots)' + Leaving(k)'
  <2>1. ~disturbed /\ toReady[s] = <<>> /\ state[s] = "CLOSING"
    BY <1>4, <1>d DEF SessionClosed, EventsFollowState
  <2>2. ReadySlots' = ReadySlots /\ toReady' = toReady
    BY <1>4, <2>1 DEF SessionClosed, ReadySlots
  <2>3. QED
    BY <1>4, <2>1, <2>2 DEF SessionClosed, Balanced, Announced, Leaving, countVars
<1>5. ASSUME NEW s \in Slots, RemotePeerReady(s)
      PROVE  numReady'[k] + Announced(k)' = Cardinality(ReadySlots)' + Leaving(k)'
  <2> DEFINE h == Head(toReady[s])
  <2>1. ~disturbed /\ toReady[s] # <<>> /\ h \in Kinds /\ Tail(toReady[s]) \in Rests
    BY <1>5 DEF RemotePeerReady
  <2>2. Cardinality(ReadySlots)' = Cardinality(ReadySlots) /\ Leaving(k)' = Leaving(k)
    BY <1>5 DEF RemotePeerReady, ReadySlots, Leaving
  <2>3. CASE k = h
    <3>1. s \in Pending(toReady, k) /\ Pending(toReady, k)' = Pending(toReady, k) \ {s}
      BY <1>5, <1>t, <2>1, <2>3, PendingChange DEF RemotePeerReady, Pending
    <3>2. Announced(k)' = Announced(k) - 1 /\ Announced(k) > 0
      BY <1>t, <3>1, SlotSets DEF Announced
    <3>3. numReady[k] < MaxViewers
      BY <1>c, <2>1, <3>2
    <3>4. numReady'[k] = numReady[k] + 1
      BY <1>5, <1>t, <2>3, <3>3 DEF RemotePeerReady
    <3>5. QED
      BY <1>c, <2>1, <2>2, <3>2, <3>4
  <2>4. CASE k # h
    <3>1. Pending(toReady, k)' = Pending(toReady, k)
      BY <1>5, <1>t, <2>1, <2>4, PendingChange DEF RemotePeerReady, Pending
    <3>2. numReady'[k] = numReady[k]
      BY <1>5, <2>4 DEF RemotePeerReady
    <3>3. QED
      BY <2>1, <2>2, <3>1, <3>2 DEF Balanced, Announced
  <2>5. QED
    BY <2>3, <2>4
<1>6. ASSUME NEW s \in Slots, RemotePeerClosed(s)
      PROVE  numReady'[k] + Announced(k)' = Cardinality(ReadySlots)' + Leaving(k)'
  <2> DEFINE h == Head(toClosed[s])
  <2>1. ~disturbed /\ toClosed[s] # <<>> /\ h \in Kinds /\ Tail(toClosed[s]) \in Rests
    BY <1>6, <1>t DEF RemotePeerClosed
  <2>2. Cardinality(ReadySlots)' = Cardinality(ReadySlots) /\ Announced(k)' = Announced(k)
    BY <1>6 DEF RemotePeerClosed, ReadySlots, Announced
  <2>3. CASE k = h
    <3>1. s \in Pending(toClosed, k) /\ Pending(toClosed, k)' = Pending(toClosed, k) \ {s}
      BY <1>6, <1>t, <2>1, <2>3, PendingChange DEF RemotePeerClosed, Pending
    <3>2. Leaving(k)' = Leaving(k) - 1 /\ Leaving(k) > 0
      BY <1>t, <3>1, SlotSets DEF Leaving
    <3>3. numReady[k] > 0
      BY <1>c, <2>1, <3>2
    <3>4. numReady'[k] = numReady[k] - 1
      BY <1>6, <1>t, <2>3, <3>3 DEF RemotePeerClosed
    <3>5. QED
      <4> HIDE RestFacts, RestRanges DEF PeerInv, PeerTypes
      <4>1. QED
        BY <1>c, <2>1, <2>2, <3>2, <3>4
  <2>4. CASE k # h
    <3>1. Pending(toClosed, k)' = Pending(toClosed, k)
      BY <1>6, <1>t, <2>1, <2>4, PendingChange DEF RemotePeerClosed, Pending
    <3>2. numReady'[k] = numReady[k]
      BY <1>6, <2>4 DEF RemotePeerClosed
    <3>3. QED
      BY <2>1, <2>2, <3>1, <3>2 DEF Balanced, Leaving
  <2>5. QED
    BY <2>3, <2>4
<1>7. CASE Produce \/ Consume \/ UNCHANGED vars
  BY <1>7, MediaLeavesPeers
     DEF vars, peerVars, countVars, Balanced, Announced, Leaving, ReadySlots
<1>8. QED
  BY <1>1, <1>2, <1>3, <1>4, <1>5, <1>6, <1>7 DEF Next, Peer
------------------------------------------------------------------------------
(* The frames. *)

\* What FrameTypes says of a task that holds a frame.
LEMMA BusyFacts ==
    ASSUME FrameTypes
    PROVE  /\ \A t \in Producers : Busy(t) =>
                  /\ producer[t].at \in {"check", "drop", "send"} /\ producer[t].frame \in 1..frames
                  /\ producer[t].path \in Paths /\ (producer[t].path = "rx" <=> t # Camera)
           /\ \A t \in Producers : producer[t].at \in {"check", "drop", "send"} => Busy(t)
           /\ \A p \in Paths : consumer[p] # Nothing => consumer[p].frame \in 1..frames
           /\ \A p \in Paths : consumer[p].at \in {"write", "play"} => consumer[p] # Nothing
           /\ frames \in Nat
  BY MediaConstants DEF FrameTypes, Busy, Carried, Nothing

\* A queue of typed frames.
LEMMA QueueFacts ==
    ASSUME FrameTypes, NEW p \in Paths
    PROVE  /\ queue[p] \in Seq(1..frames) /\ Len(queue[p]) \in Nat
           /\ \A i \in Queued(p) : queue[p][i] \in 1..frames
           /\ queue[p] # <<>> => Head(queue[p]) = queue[p][1] /\ 1 \in Queued(p)
  BY DEF FrameTypes, Queued

\* The oldest frame is taken off a queue; the others move up by one.
Popped(p) ==
    /\ Head(queue[p]) = queue[p][1] /\ 1 \in Queued(p)
    /\ \A q \in Paths : q # p => queue'[q] = queue[q] /\ Queued(q)' = Queued(q)
    /\ Len(queue'[p]) < Len(queue[p])
    /\ \A i \in Queued(p)' : i + 1 \in Queued(p) /\ queue'[p][i] = queue[p][i + 1]
    /\ \A i \in Queued(p) : i # 1 => i - 1 \in Queued(p)' /\ queue'[p][i - 1] = queue[p][i]

LEMMA PopQueue ==
    ASSUME FrameTypes, NEW p \in Paths, queue[p] # <<>>, queue' = [queue EXCEPT ![p] = Tail(@)]
    PROVE  /\ queue' \in [Paths -> Seq(1..frames)]
           /\ \A q \in Paths : Len(queue'[q]) <= QueueCap
           /\ Popped(p)
<1>1. queue[p] \in Seq(1..frames) /\ Len(queue[p]) \in Nat
  BY QueueFacts
<1>2. queue'[p] = Tail(queue[p]) /\ \A q \in Paths : q # p => queue'[q] = queue[q]
  BY DEF FrameTypes
<1>3. /\ Tail(queue[p]) \in Seq(1..frames) /\ Len(Tail(queue[p])) = Len(queue[p]) - 1
      /\ Head(queue[p]) = queue[p][1] /\ 1 \in 1..Len(queue[p])
      /\ \A i \in 1..Len(Tail(queue[p])) : i + 1 \in 1..Len(queue[p])
           /\ Tail(queue[p])[i] = queue[p][i + 1]
      /\ \A i \in 1..Len(queue[p]) :
             i # 1 => i - 1 \in 1..Len(Tail(queue[p])) /\ Tail(queue[p])[i - 1] = queue[p][i]
  BY <1>1, TailFacts
<1>4. queue' \in [Paths -> Seq(1..frames)]
  BY <1>3 DEF FrameTypes
<1>5. \A q \in Paths : Len(queue'[q]) <= QueueCap
  BY <1>1, <1>2, <1>3, MediaConstants DEF FrameTypes
<1>6. QED
  BY <1>1, <1>2, <1>3, <1>4, <1>5 DEF Queued, Popped

\* A frame is added to a queue that is not full.
Pushed(p, f) ==
    \E n \in Nat :
        /\ n \in Queued(p)' /\ n \notin Queued(p) /\ queue'[p][n] = f
        /\ \A i \in Queued(p)' : i = n \/ i \in Queued(p)
        /\ \A i \in Queued(p) : i \in Queued(p)' /\ queue'[p][i] = queue[p][i]
        /\ \A q \in Paths : q # p => queue'[q] = queue[q] /\ Queued(q)' = Queued(q)

LEMMA PushQueue ==
    ASSUME FrameTypes, NEW p \in Paths, ~Full(p), NEW f \in 1..frames,
           queue' = [queue EXCEPT ![p] = Append(@, f)]
    PROVE  /\ queue' \in [Paths -> Seq(1..frames)]
           /\ \A q \in Paths : Len(queue'[q]) <= QueueCap
           /\ Pushed(p, f)
<1>1. queue[p] \in Seq(1..frames) /\ Len(queue[p]) \in Nat
  BY QueueFacts
<1>2. queue'[p] = Append(queue[p], f) /\ \A q \in Paths : q # p => queue'[q] = queue[q]
  BY DEF FrameTypes
<1>3. /\ Append(queue[p], f) \in Seq(1..frames) /\ Len(Append(queue[p], f)) = Len(queue[p]) + 1
      /\ \A i \in 1..Len(queue[p]) : Append(queue[p], f)[i] = queue[p][i]
      /\ Append(queue[p], f)[Len(queue[p]) + 1] = f
  BY <1>1, AppendFacts
<1>4. queue' \in [Paths -> Seq(1..frames)]
  BY <1>3 DEF FrameTypes
<1>5. \A q \in Paths : Len(queue'[q]) <= QueueCap
  BY <1>1, <1>2, <1>3, MediaConstants DEF FrameTypes, Full
<1>6. /\ Len(queue[p]) + 1 \in 1..(Len(queue[p]) + 1)
      /\ \A i \in 1..(Len(queue[p]) + 1) : i = Len(queue[p]) + 1 \/ i \in 1..Len(queue[p])
      /\ \A i \in 1..Len(queue[p]) : i \in 1..(Len(queue[p]) + 1) /\ i # Len(queue[p]) + 1
  BY <1>1
<1>7. Pushed(p, f)
  <2> DEFINE n == Len(queue[p]) + 1
  <2>1. n \in Nat /\ n \notin 1..Len(queue[p])
    BY <1>1
  <2>2. QED
    BY <1>2, <1>3, <1>6, <2>1 DEF Queued, Pushed
<1>8. QED
  BY <1>4, <1>5, <1>7

\* One producer goes on to something that has the type of what a producer does.
LEMMA ProducerGoesOn ==
    ASSUME FrameTypes, NEW t \in Producers, NEW d,
           d \in {Nothing} \cup Carried({"check", "drop", "send"}, Paths),
           d # Nothing => (d.path = "rx" <=> t # Camera),
           producer' = [producer EXCEPT ![t] = d]
    PROVE  /\ producer' \in [Producers -> {Nothing} \cup Carried({"check", "drop", "send"}, Paths)]
           /\ \A u \in Producers : producer'[u] # Nothing
                => (producer'[u].path = "rx" <=> u # Camera)
  BY DEF FrameTypes

\* Every step keeps the types.
LEMMA FrameTypesStep == FrameTypes /\ [Next]_vars => FrameTypes'
<1> SUFFICES ASSUME FrameTypes, [Next]_vars
             PROVE  FrameTypes'
  OBVIOUS
<1>1. ASSUME NEW k \in Kinds, CaptureFrame(k)
      PROVE  FrameTypes'
  <2>1. frames' = frames + 1 /\ frames' \in 0..MaxFrames /\ 1..frames \subseteq 1..frames'
    BY <1>1, MediaConstants DEF CaptureFrame, FrameTypes
  <2>2. queue' \in [Paths -> Seq(1..frames')]
    BY <1>1, <2>1, MoreFrames DEF CaptureFrame, FrameTypes
  <2>3. Holding("check", k, frames') \in Carried({"check", "drop", "send"}, Paths)'
    BY <2>1, PathFacts DEF Holding, Carried, FrameTypes
  <2>4. producer' \in [Producers -> {Nothing} \cup Carried({"check", "drop", "send"}, Paths)']
    BY <1>1, <2>1, <2>3 DEF CaptureFrame, SetProducer, FrameTypes, Carried
  <2>5. consumer' \in [Paths -> {Nothing} \cup Carried({"write", "play"}, Paths)']
    BY <1>1, <2>1 DEF CaptureFrame, FrameTypes, Carried
  <2>6. \A t \in Producers : producer'[t] # Nothing => (producer'[t].path = "rx" <=> t # Camera)
    BY <1>1, PathFacts, HoldingIsBusy DEF CaptureFrame, SetProducer, FrameTypes
  <2>7. QED
    BY <1>1, <2>1, <2>2, <2>4, <2>5, <2>6 DEF CaptureFrame, FrameTypes
<1>2. ASSUME NEW s \in Slots, ReceiveFrame(s)
      PROVE  FrameTypes'
  <2>1. frames' = frames + 1 /\ frames' \in 0..MaxFrames /\ 1..frames \subseteq 1..frames'
    BY <1>2, MediaConstants DEF ReceiveFrame, FrameTypes
  <2>2. queue' \in [Paths -> Seq(1..frames')]
    BY <1>2, <2>1, MoreFrames DEF ReceiveFrame, FrameTypes
  <2>3. Holding("check", "rx", frames') \in Carried({"check", "drop", "send"}, Paths)'
    BY <2>1, PathFacts DEF Holding, Carried, FrameTypes
  <2>4. producer' \in [Producers -> {Nothing} \cup Carried({"check", "drop", "send"}, Paths)']
    BY <1>2, <2>1, <2>3 DEF ReceiveFrame, SetProducer, FrameTypes, Carried
  <2>5. consumer' \in [Paths -> {Nothing} \cup Carried({"write", "play"}, Paths)']
    BY <1>2, <2>1 DEF ReceiveFrame, FrameTypes, Carried
  <2>6. \A t \in Producers : producer'[t] # Nothing => (producer'[t].path = "rx" <=> t # Camera)
    BY <1>2, PathFacts, HoldingIsBusy DEF ReceiveFrame, SetProducer, FrameTypes
  <2>7. QED
    BY <1>2, <2>1, <2>2, <2>4, <2>5, <2>6 DEF ReceiveFrame, FrameTypes
<1>3. ASSUME NEW t \in Producers, CheckFull(t)
      PROVE  FrameTypes'
  BY <1>3, BusyFacts DEF CheckFull, SetProducer, FrameTypes, Carried, Nothing, Busy
<1>4. ASSUME NEW t \in Producers, DropOldest(t)
      PROVE  FrameTypes'
  <2>1. producer[t].path \in Paths /\ queue[producer[t].path] # <<>>
    BY <1>4, BusyFacts DEF DropOldest
  <2>2. queue' \in [Paths -> Seq(1..frames)] /\ \A p \in Paths : Len(queue'[p]) <= QueueCap
    BY <1>4, <2>1, PopQueue DEF DropOldest
  <2>3. [producer[t] EXCEPT !.at = "send"] \in Carried({"check", "drop", "send"}, Paths)
        /\ [producer[t] EXCEPT !.at = "send"].path = producer[t].path
        /\ (producer[t].path = "rx" <=> t # Camera)
    BY <1>4, BusyFacts DEF DropOldest, FrameTypes, Carried, Busy
  <2>4. /\ producer' \in [Producers -> {Nothing} \cup Carried({"check", "drop", "send"}, Paths)]
        /\ \A u \in Producers : producer'[u] # Nothing => (producer'[u].path = "rx" <=> u # Camera)
    BY <1>4, <2>3, ProducerGoesOn DEF DropOldest, SetProducer
  <2>5. QED
    BY <1>4, <2>2, <2>4 DEF DropOldest, FrameTypes, Carried
<1>5. ASSUME SendCaptured
      PROVE  FrameTypes'
  <2>1. producer[Camera].path \in Paths /\ producer[Camera].frame \in 1..frames
    BY <1>5, BusyFacts, PathFacts DEF SendCaptured
  <2>2. queue' \in [Paths -> Seq(1..frames)] /\ \A p \in Paths : Len(queue'[p]) <= QueueCap
    BY <1>5, <2>1, PushQueue DEF SendCaptured, FrameTypes
  <2>3. /\ producer' \in [Producers -> {Nothing} \cup Carried({"check", "drop", "send"}, Paths)]
        /\ \A u \in Producers : producer'[u] # Nothing => (producer'[u].path = "rx" <=> u # Camera)
    BY <1>5, PathFacts, ProducerGoesOn DEF SendCaptured, SetProducer
  <2>4. QED
    BY <1>5, <2>2, <2>3 DEF SendCaptured, FrameTypes, Carried
<1>6. ASSUME NEW s \in Slots, SendReceived(s)
      PROVE  FrameTypes'
  <2>1. s \in Producers /\ producer[s].frame \in 1..frames /\ "rx" \in Paths
    BY <1>6, BusyFacts, PathFacts DEF SendReceived
  <2>2. queue' \in [Paths -> Seq(1..frames)] /\ \A p \in Paths : Len(queue'[p]) <= QueueCap
    <3>1. CASE UNCHANGED queue
      BY <3>1 DEF FrameTypes
    <3>2. CASE ~Full("rx") /\ queue' = [queue EXCEPT !["rx"] = Append(@, producer[s].frame)]
      BY <3>2, <2>1, PushQueue
    <3>3. QED
      BY <1>6, <3>1, <3>2 DEF SendReceived
  <2>3. /\ producer' \in [Producers -> {Nothing} \cup Carried({"check", "drop", "send"}, Paths)]
        /\ \A u \in Producers : producer'[u] # Nothing => (producer'[u].path = "rx" <=> u # Camera)
    BY <1>6, <2>1, ProducerGoesOn DEF SendReceived, SetProducer
  <2>4. QED
    BY <1>6, <2>2, <2>3 DEF SendReceived, FrameTypes, Carried
<1>7. ASSUME NEW p \in Paths, TakeFrame(p)
      PROVE  FrameTypes'
  <2>1. queue[p] # <<>> /\ Head(queue[p]) \in 1..frames
    BY <1>7, QueueFacts, TailFacts DEF TakeFrame
  <2>2. queue' \in [Paths -> Seq(1..frames)] /\ \A q \in Paths : Len(queue'[q]) <= QueueCap
    BY <1>7, <2>1, PopQueue DEF TakeFrame
  <2>3. consumer' \in [Paths -> {Nothing} \cup Carried({"write", "play"}, Paths)]
    BY <1>7, <2>1 DEF TakeFrame, SetConsumer, FrameTypes, Carried, Holding
  <2>4. QED
    BY <1>7, <2>2, <2>3 DEF TakeFrame, FrameTypes, Carried
<1>8. ASSUME NEW k \in Kinds, WriteFrame(k)
      PROVE  FrameTypes'
  BY <1>8, PathFacts DEF WriteFrame, SetConsumer, FrameTypes, Carried
<1>9. CASE PlayAudioFrame
  BY <1>9, PathFacts, MediaConstants DEF PlayAudioFrame, SetConsumer, FrameTypes, Carried
<1>10. CASE ItemPlayed
  BY <1>10, MediaConstants DEF ItemPlayed, FrameTypes, Carried
<1>11. CASE (\E s \in Slots : Peer(s)) \/ UNCHANGED vars
  BY <1>11, PeerLeavesFrames DEF vars, frameVars, FrameTypes, Carried
<1>12. QED
  BY <1>1, <1>2, <1>3, <1>4, <1>5, <1>6, <1>7, <1>8, <1>9, <1>10, <1>11
     DEF Next, Produce, Consume
\* What the queues hold when nothing is in them twice and the oldest frame of one is
\* taken, or another frame is added.
LEMMA PopFrames ==
    ASSUME FrameTypes, QueuedOnce,
           NEW p \in Paths, Popped(p)
    PROVE  /\ QueuedOnce' /\ InQueues(Head(queue[p]))
           /\ \A f : InQueues(f)' <=> InQueues(f) /\ f # Head(queue[p])
<1>1. ASSUME NEW q \in Paths, NEW i \in Queued(q)'
      PROVE  \E j \in Queued(q) : /\ queue'[q][i] = queue[q][j]
                                 /\ (q = p => j = i + 1 /\ j # 1) /\ (q # p => j = i)
  <2>1. i \in Nat \ {0}
    BY DEF Queued
  <2>2. QED
    <3>1. CASE q = p
      <4>1. i + 1 \in Queued(q) /\ queue'[q][i] = queue[q][i + 1] /\ i + 1 # 1
        BY <2>1, <3>1 DEF Popped
      <4>2. QED
        BY <3>1, <4>1
    <3>2. CASE q # p
      BY <3>2 DEF Popped
    <3>3. QED
      BY <3>1, <3>2
<1>2. QueuedOnce'
  <2> SUFFICES ASSUME NEW q \in Paths, NEW r \in Paths, NEW i \in Queued(q)', NEW j \in Queued(r)',
                      queue'[q][i] = queue'[r][j]
               PROVE  q = r /\ i = j
    BY DEF QueuedOnce
  <2>1. i \in Nat /\ j \in Nat
    BY DEF Queued
  <2>2. PICK a \in Queued(q) : /\ queue'[q][i] = queue[q][a]
                               /\ (q = p => a = i + 1 /\ a # 1) /\ (q # p => a = i)
    BY <1>1
  <2>3. PICK b \in Queued(r) : /\ queue'[r][j] = queue[r][b]
                               /\ (r = p => b = j + 1 /\ b # 1) /\ (r # p => b = j)
    BY <1>1
  <2>4. q = r /\ a = b
    <3>1. queue[q][a] = queue[r][b]
      BY <2>2, <2>3
    <3>2. QED
      BY <3>1 DEF QueuedOnce
  <2>5. QED
    BY <2>1, <2>2, <2>3, <2>4
<1>4. ASSUME NEW q \in Paths, NEW i \in Queued(q)'
      PROVE  queue'[q][i] # Head(queue[p]) /\ \E j \in Queued(q) : queue'[q][i] = queue[q][j]
  BY <1>1 DEF QueuedOnce, Popped
<1>5. ASSUME NEW q \in Paths, NEW i \in Queued(q), queue[q][i] # Head(queue[p])
      PROVE  \E j \in Queued(q)' : queue'[q][j] = queue[q][i]
  <2>1. CASE q = p
    BY <1>5, <2>1 DEF Popped
  <2>2. CASE q # p
    BY <1>5, <2>2 DEF Popped
  <2>3. QED
    BY <2>1, <2>2
<1>6. QED
  BY <1>2, <1>4, <1>5 DEF Popped, InQueues

LEMMA PushFrames ==
    ASSUME QueuedOnce, NEW p \in Paths, NEW x, ~InQueues(x), Pushed(p, x)
    PROVE  /\ QueuedOnce'
           /\ \A f : InQueues(f)' <=> InQueues(f) \/ f = x
<1>1. PICK n \in Nat :
        /\ n \in Queued(p)' /\ n \notin Queued(p) /\ queue'[p][n] = x
        /\ \A i \in Queued(p)' : i = n \/ i \in Queued(p)
        /\ \A i \in Queued(p) : i \in Queued(p)' /\ queue'[p][i] = queue[p][i]
        /\ \A q \in Paths : q # p => queue'[q] = queue[q] /\ Queued(q)' = Queued(q)
  BY DEF Pushed
<1>2. \A q \in Paths : \A i \in Queued(q)' :
        (q = p /\ i = n /\ queue'[q][i] = x) \/ (i \in Queued(q) /\ queue'[q][i] = queue[q][i])
  BY <1>1
<1>3. \A q \in Paths : \A i \in Queued(q) : i \in Queued(q)' /\ queue'[q][i] = queue[q][i]
  BY <1>1
<1>4. QueuedOnce'
  BY <1>2 DEF QueuedOnce, InQueues
<1>5. ASSUME NEW f, InQueues(f)'
      PROVE  InQueues(f) \/ f = x
  BY <1>2, <1>5 DEF InQueues
<1>6. ASSUME NEW f, InQueues(f) \/ f = x
      PROVE  InQueues(f)'
  BY <1>1, <1>3, <1>6, ZenonT(30) DEF InQueues
<1>7. QED
  BY <1>4, <1>5, <1>6

\* Every step keeps the frames in one place each and frees them when they leave it.
LEMMA FrameStep == FrameInv /\ [Next]_vars => FrameInv'
<1> SUFFICES ASSUME FrameInv, [Next]_vars
             PROVE  NoFrameTwice' /\ HeapIsAllocated' /\ RoomToSend'
  BY FrameTypesStep DEF FrameInv
<1>t. FrameTypes /\ FrameTypes'
  BY FrameTypesStep DEF FrameInv
<1>i. NoFrameTwice /\ HeapIsAllocated /\ RoomToSend
  BY DEF FrameInv
<1>1. ASSUME NEW t \in Producers, producer[t] = Nothing, NEW path, frames' = frames + 1,
             SetProducer(t, Holding("check", path, frames')), UNCHANGED <<queue, consumer>>,
             heap' = IF t = Camera THEN heap \cup {frames'} ELSE heap
      PROVE  NoFrameTwice' /\ HeapIsAllocated' /\ RoomToSend'
  <2>1. /\ \A u \in Producers : u # t => producer'[u] = producer[u]
        /\ Busy(t)' /\ producer'[t].frame = frames + 1 /\ producer'[t].at = "check"
    BY <1>1, <1>t, HoldingIsBusy DEF SetProducer, Busy, FrameTypes
  <2>2. /\ \A p \in Paths : \A i \in Queued(p) : queue[p][i] # frames + 1
        /\ \A p \in Paths : consumer[p] # Nothing => consumer[p].frame # frames + 1
        /\ \A u \in Producers : Busy(u) => producer[u].frame # frames + 1
    BY <1>t, BusyFacts, QueueFacts
  <2>3. NoFrameTwice'
    BY <1>1, <1>i, <2>1, <2>2 DEF NoFrameTwice, QueuedOnce, InQueues, Queued, Busy
  <2>4. HeapIsAllocated'
    BY <1>1, <1>i, <2>1, PathFacts DEF HeapIsAllocated, Allocated, InQueues, Queued, Busy
  <2>5. RoomToSend'
    BY <1>1, <1>i, <2>1, PathFacts DEF RoomToSend, Full
  <2>6. QED
    BY <2>3, <2>4, <2>5
<1>2. ASSUME NEW t \in Producers, CheckFull(t)
      PROVE  NoFrameTwice' /\ HeapIsAllocated' /\ RoomToSend'
  <2>1. /\ \A u \in Producers : u # t => producer'[u] = producer[u]
        /\ Busy(t)' /\ Busy(t) /\ producer'[t].frame = producer[t].frame
        /\ producer'[t].path = producer[t].path
        /\ producer'[t].at = "send" => ~Full(producer[t].path)
    BY <1>2, <1>t, BusyFacts DEF CheckFull, SetProducer, Busy, FrameTypes, Carried, Nothing
  <2>2. NoFrameTwice'
    BY <1>2, <1>i, <2>1 DEF CheckFull, NoFrameTwice, QueuedOnce, InQueues, Queued, Busy
  <2>3. HeapIsAllocated'
    BY <1>2, <1>i, <2>1, PathFacts DEF CheckFull, HeapIsAllocated, Allocated, InQueues, Queued, Busy
  <2>4. RoomToSend'
    BY <1>2, <1>i, <2>1, PathFacts DEF CheckFull, RoomToSend, Full
  <2>5. QED
    BY <2>2, <2>3, <2>4
<1>3. ASSUME NEW t \in Producers, DropOldest(t)
      PROVE  NoFrameTwice' /\ HeapIsAllocated' /\ RoomToSend'
  <2> DEFINE p == producer[t].path
  <2>1. /\ \A u \in Producers : u # t => producer'[u] = producer[u]
        /\ Busy(t)' /\ Busy(t) /\ producer'[t].frame = producer[t].frame
        /\ producer'[t].path = p /\ p \in Paths /\ (p = "rx" <=> t # Camera)
    BY <1>3, <1>t, BusyFacts DEF DropOldest, SetProducer, Busy, FrameTypes, Carried, Nothing
  <2>2. /\ queue[p] # <<>> /\ queue' = [queue EXCEPT ![p] = Tail(@)]
        /\ heap' = heap \ {Head(queue[p])} /\ consumer' = consumer
    BY <1>3 DEF DropOldest
  <2>o. Popped(p)
    BY <1>t, <2>1, <2>2, PopQueue
  <2>p. /\ QueuedOnce' /\ InQueues(Head(queue[p]))
        /\ \A f : InQueues(f)' <=> InQueues(f) /\ f # Head(queue[p])
    BY <1>t, <1>i, <2>1, <2>o, PopFrames DEF NoFrameTwice
  <2>3. NoFrameTwice'
    BY <1>i, <2>1, <2>2, <2>p DEF NoFrameTwice, Busy
  <2>4. HeapIsAllocated'
    BY <1>i, <2>1, <2>2, <2>p, PathFacts DEF HeapIsAllocated, Allocated, NoFrameTwice, Busy
  <2>5. RoomToSend'
    <3>1. CASE t = Camera
      <4>1. Len(queue[p]) <= QueueCap /\ Len(queue[p]) \in Nat /\ Len(queue'[p]) \in Nat
        BY <1>t, <2>1, QueueFacts DEF FrameTypes
      <4>2. QED
        BY <2>1, <2>o, <3>1, <4>1, MediaConstants DEF RoomToSend, Full, Popped
    <3>2. CASE t # Camera
      <4>1. producer'[Camera] = producer[Camera]
        BY <2>1, <3>2, PathFacts
      <4>2. producer[Camera].at = "send" => producer[Camera].path \in Paths
            /\ producer[Camera].path # p
        BY <1>t, <2>1, <3>2, BusyFacts, PathFacts
      <4>3. producer[Camera].at = "send"
              => queue'[producer[Camera].path] = queue[producer[Camera].path]
        BY <2>o, <4>2 DEF Popped
      <4>4. QED
        BY <1>i, <4>1, <4>3 DEF RoomToSend, Full
    <3>3. QED
      BY <3>1, <3>2
  <2>6. QED
    BY <2>3, <2>4, <2>5
<1>4. ASSUME SendCaptured
      PROVE  NoFrameTwice' /\ HeapIsAllocated' /\ RoomToSend'
  <2> DEFINE p == producer[Camera].path  x == producer[Camera].frame
  <2>1. Camera \in Producers /\ Busy(Camera) /\ p \in Paths /\ x \in 1..frames /\ ~InQueues(x)
        /\ ~Full(p)
    BY <1>4, <1>t, <1>i, PathFacts, BusyFacts DEF SendCaptured, NoFrameTwice, RoomToSend
  <2>2. /\ \A u \in Producers : u # Camera => producer'[u] = producer[u]
        /\ producer'[Camera] = Nothing /\ ~Busy(Camera)' /\ consumer' = consumer /\ heap' = heap
    BY <1>4, <1>t, <2>1 DEF SendCaptured, SetProducer, Busy, FrameTypes
  <2>3. QueuedOnce' /\ \A f : InQueues(f)' <=> InQueues(f) \/ f = x
    <3>1. Pushed(p, x)
      BY <1>4, <1>t, <2>1, PushQueue DEF SendCaptured
    <3>2. QED
      BY <1>i, <2>1, <3>1, PushFrames DEF NoFrameTwice
  <2>4. NoFrameTwice'
    BY <1>i, <2>1, <2>2, <2>3 DEF NoFrameTwice, Busy
  <2>5. HeapIsAllocated'
    BY <1>i, <2>1, <2>2, <2>3 DEF HeapIsAllocated, Allocated, Busy
  <2>6. RoomToSend'
    BY <2>2 DEF RoomToSend, Nothing
  <2>7. QED
    BY <2>4, <2>5, <2>6
<1>5. ASSUME NEW s \in Slots, SendReceived(s)
      PROVE  NoFrameTwice' /\ HeapIsAllocated' /\ RoomToSend'
  <2> DEFINE x == producer[s].frame
  <2>1. /\ s \in Producers /\ s # Camera /\ Camera \in Producers /\ "rx" \in Paths
        /\ Busy(s) /\ x \in 1..frames /\ ~InQueues(x)
    BY <1>5, <1>t, <1>i, PathFacts, BusyFacts DEF SendReceived, NoFrameTwice
  <2>2. /\ \A u \in Producers : u # s => producer'[u] = producer[u]
        /\ producer'[s] = Nothing /\ ~Busy(s)' /\ consumer' = consumer
    BY <1>5, <1>t, <2>1 DEF SendReceived, SetProducer, Busy, FrameTypes
  <2>3. CASE UNCHANGED <<queue, heap>>
    <3>1. NoFrameTwice'
      BY <1>i, <2>2, <2>3 DEF NoFrameTwice, QueuedOnce, InQueues, Queued, Busy
    <3>2. HeapIsAllocated' /\ RoomToSend'
      BY <1>i, <2>1, <2>2, <2>3
         DEF HeapIsAllocated, Allocated, InQueues, Queued, Busy, RoomToSend, Full
    <3>3. QED
      BY <3>1, <3>2
  <2>4. CASE /\ ~Full("rx") /\ queue' = [queue EXCEPT !["rx"] = Append(@, x)]
             /\ heap' = heap \cup {x}
    <3>1. QueuedOnce' /\ \A f : InQueues(f)' <=> InQueues(f) \/ f = x
      <4>1. Pushed("rx", x)
        BY <1>t, <2>1, <2>4, PushQueue
      <4>2. QED
        BY <1>i, <2>1, <4>1, PushFrames DEF NoFrameTwice
    <3>2. NoFrameTwice'
      BY <1>i, <2>1, <2>2, <3>1 DEF NoFrameTwice, Busy
    <3>3. HeapIsAllocated'
      BY <1>i, <2>1, <2>2, <2>4, <3>1 DEF HeapIsAllocated, Allocated, Busy
    <3>4. producer[Camera].at = "send" =>
             producer[Camera].path \in Paths
             /\ queue'[producer[Camera].path] = queue[producer[Camera].path]
      BY <1>t, <2>1, <2>4, BusyFacts DEF FrameTypes
    <3>5. RoomToSend'
      BY <1>i, <2>1, <2>2, <3>4 DEF RoomToSend, Full
    <3>6. QED
      BY <3>2, <3>3, <3>5
  <2>5. QED
    BY <1>5, <2>3, <2>4 DEF SendReceived
<1>6. ASSUME NEW p \in Paths, TakeFrame(p)
      PROVE  NoFrameTwice' /\ HeapIsAllocated' /\ RoomToSend'
  <2> DEFINE x == Head(queue[p])
  <2>1. /\ consumer[p] = Nothing /\ queue[p] # <<>> /\ queue' = [queue EXCEPT ![p] = Tail(@)]
        /\ producer' = producer /\ heap' = heap
    BY <1>6 DEF TakeFrame
  <2>2. /\ \A q \in Paths : q # p => consumer'[q] = consumer[q]
        /\ consumer'[p] # Nothing /\ consumer'[p].frame = x
    BY <1>6, <1>t, HoldingIsBusy DEF TakeFrame, SetConsumer, FrameTypes
  <2>o. Popped(p)
    BY <1>t, <2>1, PopQueue
  <2>3. /\ QueuedOnce' /\ InQueues(x)
        /\ \A f : InQueues(f)' <=> InQueues(f) /\ f # x
    BY <1>t, <1>i, <2>o, PopFrames DEF NoFrameTwice
  <2>4. NoFrameTwice'
    BY <1>i, <2>1, <2>2, <2>3 DEF NoFrameTwice, Busy
  <2>5. HeapIsAllocated'
    BY <1>i, <2>1, <2>2, <2>3 DEF HeapIsAllocated, Allocated, Busy
  <2>6. RoomToSend'
    <3>1. \A q \in Paths : ~Full(q) => ~Full(q)'
      <4>1. Len(queue[p]) <= QueueCap /\ Len(queue[p]) \in Nat /\ Len(queue'[p]) \in Nat
        BY <1>t, QueueFacts DEF FrameTypes
      <4>2. QED
        BY <2>o, <4>1, MediaConstants DEF Full, Popped
    <3>2. producer[Camera].at = "send" => producer[Camera].path \in Paths
      BY <1>t, BusyFacts, PathFacts
    <3>3. QED
      BY <1>i, <2>1, <3>1, <3>2 DEF RoomToSend
  <2>7. QED
    BY <2>4, <2>5, <2>6
<1>7. ASSUME NEW p \in Paths, heap' = heap \ {consumer[p].frame}, consumer[p] # Nothing,
             SetConsumer(p, Nothing), UNCHANGED <<queue, producer>>
      PROVE  NoFrameTwice' /\ HeapIsAllocated' /\ RoomToSend'
  <2>1. consumer'[p] = Nothing /\ \A q \in Paths : q # p => consumer'[q] = consumer[q]
    BY <1>7, <1>t DEF SetConsumer, FrameTypes
  <2>2. NoFrameTwice'
    BY <1>7, <1>i, <2>1 DEF NoFrameTwice, QueuedOnce, InQueues, Queued, Busy
  <2>3. HeapIsAllocated'
    BY <1>7, <1>i, <2>1, PathFacts
       DEF HeapIsAllocated, Allocated, NoFrameTwice, InQueues, Queued, Busy
  <2>4. RoomToSend'
    BY <1>7, <1>i DEF RoomToSend, Full
  <2>5. QED
    BY <2>2, <2>3, <2>4
<1>8. CASE ItemPlayed \/ (\E s \in Slots : Peer(s)) \/ UNCHANGED vars
  <2>1. UNCHANGED <<queue, producer, consumer, heap>>
    BY <1>8, PeerLeavesFrames DEF ItemPlayed, vars, frameVars
  <2>2. QED
    BY <1>i, <2>1
       DEF NoFrameTwice, QueuedOnce, InQueues, HeapIsAllocated, Allocated, RoomToSend, Full, Queued,
           Busy
<1>9. ASSUME NEW k \in Kinds, CaptureFrame(k)
      PROVE  NoFrameTwice' /\ HeapIsAllocated' /\ RoomToSend'
  BY <1>1, <1>9, PathFacts DEF CaptureFrame
<1>10. ASSUME NEW s \in Slots, ReceiveFrame(s)
       PROVE  NoFrameTwice' /\ HeapIsAllocated' /\ RoomToSend'
  BY <1>1, <1>10, PathFacts DEF ReceiveFrame
<1>11. ASSUME NEW k \in Kinds, WriteFrame(k)
       PROVE  NoFrameTwice' /\ HeapIsAllocated' /\ RoomToSend'
  BY <1>7, <1>11, <1>t, PathFacts, BusyFacts DEF WriteFrame
<1>12. CASE PlayAudioFrame
  BY <1>7, <1>12, <1>t, PathFacts, BusyFacts DEF PlayAudioFrame
<1>13. QED
  BY <1>2, <1>3, <1>4, <1>5, <1>6, <1>8, <1>9, <1>10, <1>11, <1>12 DEF Next, Produce, Consume
------------------------------------------------------------------------------
(* The theorems. *)

IInv == PeerInv /\ (~disturbed => Balanced) /\ FrameInv

\* Nothing is ready, queued or carried at first.
LEMMA InitIInv == Init => IInv
<1> SUFFICES ASSUME Init
             PROVE  IInv
  OBVIOUS
<1>1. PeerInv
  <2>1. PeerTypes
    <3>1. toReady \in [Slots -> Rests] /\ toClosed \in [Slots -> Seq(Kinds)] /\ closing \subseteq Slots
      BY RestFacts DEF Init
    <3>2. numReady \in [Kinds -> 0..MaxViewers] /\ total \in Nat /\ offers \in 0..MaxOffers
      BY MediaConstants DEF Init
    <3>3. mediaStart \in BOOLEAN /\ disturbed \in BOOLEAN
      BY DEF Init
    <3>4. QED
      BY <3>1, <3>2, <3>3 DEF Init, PeerTypes
  <2>2. EventsFollowState
    BY RestFacts DEF Init, EventsFollowState
  <2>3. CameraFollowsCount
    BY DEF Init, CameraFollowsCount, Kinds
  <2>4. QED
    BY <2>1, <2>2, <2>3 DEF PeerInv
<1>2. \A k \in Kinds : Pending(toReady, k) = {} /\ Pending(toClosed, k) = {}
  BY RestRanges DEF Init, Pending
<1>3. ReadySlots = {}
  BY DEF Init, ReadySlots
<1>4. Balanced
  BY <1>2, <1>3, FS_EmptySet DEF Init, Balanced, Announced, Leaving
<1>5. FrameTypes
  BY MediaConstants DEF Init, FrameTypes, Carried
<1>6. \A p \in Paths : Queued(p) = {}
  BY DEF Init, Queued
<1>7. (\A t \in Producers : ~Busy(t)) /\ \A p \in Paths : consumer[p] = Nothing
  BY DEF Init, Busy
<1>8. NoFrameTwice /\ HeapIsAllocated
  BY <1>6, <1>7, PathFacts
     DEF Init, NoFrameTwice, QueuedOnce, InQueues, HeapIsAllocated, Allocated
<1>9. RoomToSend
  BY PathFacts DEF Init, RoomToSend, Nothing
<1>10. QED
  BY <1>1, <1>4, <1>5, <1>8, <1>9 DEF IInv, FrameInv

\* The invariant is inductive.
LEMMA IInvAlways == Spec => []IInv
<1>1. IInv /\ [Next]_vars => IInv'
  BY PeerStep, BalanceStep, FrameStep DEF IInv
<1>2. QED
  BY InitIInv, <1>1, PTL DEF Spec

\* The variables keep their types, the queues their capacity and the counters of
\* OnPcEventRemotePeerReady and OnPcEventRemotePeerClosed their limit.
THEOREM TypeCorrect == Spec => []TypeOK
<1>1. IInv => TypeOK
  <2> SUFFICES ASSUME IInv
               PROVE  TypeOK
    OBVIOUS
  <2> USE DEF IInv, PeerInv, FrameInv
  <2>1. \A s \in Slots : Range(toReady[s]) \subseteq Kinds /\ Range(toClosed[s]) \subseteq Kinds
    <3>1. \A r \in Seq(Kinds) : Range(r) \subseteq Kinds
      BY DEF Range
    <3>2. QED
      BY <3>1, RestRanges DEF PeerTypes
  <2>2. total \in 0..(2 * MaxViewers)
    <3>1. numReady["video"] \in 0..MaxViewers /\ numReady["audio"] \in 0..MaxViewers
      BY DEF PeerTypes, Kinds
    <3>2. QED
      BY <3>1, MediaConstants DEF CameraFollowsCount
  <2>3. ASSUME NEW p \in Paths
        PROVE  Range(queue[p]) \subseteq heap
    <3>1. \A f \in Range(queue[p]) : InQueues(f)
      BY QueueFacts DEF Range, InQueues, Queued
    <3>2. QED
      BY <3>1 DEF HeapIsAllocated, Allocated
  <2>4. \A f : InQueues(f) => f \in 1..frames
    BY QueueFacts DEF InQueues
  <2>5. heap \subseteq 1..frames
    BY <2>4, BusyFacts, PathFacts DEF HeapIsAllocated, Allocated
  <2>6. QED
    BY <2>1, <2>2, <2>3, <2>5 DEF TypeOK, PeerTypes, FrameTypes
<1>2. QED
  BY IInvAlways, <1>1, PTL

\* No frame of the media modules or of a session is leaked, freed while a task uses it,
\* or freed twice, however the tasks that fill and empty the queues interleave.
THEOREM FramesAccountedAlways == Spec => []FramesAccounted
<1>1. IInv => FramesAccounted
  <2> SUFFICES ASSUME IInv
               PROVE  FramesAccounted
    OBVIOUS
  <2> DEFINE inQueues == UNION {Range(queue[p]) : p \in Paths}
             captured == {producer[t].frame : t \in {u \in {Camera} : producer[u] # Nothing}}
             held == {consumer[p].frame : p \in {q \in Paths : consumer[q] # Nothing}}
  <2>1. ASSUME NEW p \in Paths, NEW f
        PROVE  f \in Range(queue[p]) <=> \E i \in Queued(p) : queue[p][i] = f
    <3>1. DOMAIN queue[p] = Queued(p)
      BY QueueFacts DEF IInv, FrameInv, Queued
    <3>2. QED
      BY <3>1 DEF Range
  <2>2. \A f : f \in inQueues <=> InQueues(f)
    BY <2>1 DEF InQueues
  <2>3. \A f : f \in captured <=> Busy(Camera) /\ producer[Camera].frame = f
    BY DEF Busy
  <2>4. \A f : f \in held <=> \E p \in Paths : consumer[p] # Nothing /\ consumer[p].frame = f
    OBVIOUS
  <2> HIDE DEF inQueues, captured, held
  <2>5. heap = inQueues \cup captured \cup held
    BY <2>2, <2>3, <2>4 DEF IInv, FrameInv, HeapIsAllocated, Allocated
  <2>6. inQueues \cap (captured \cup held) = {}
    BY <2>2, <2>3, <2>4, PathFacts DEF IInv, FrameInv, NoFrameTwice
  <2> USE DEF inQueues, captured, held
  <2>7. QED
    BY <2>5, <2>6 DEF FramesAccounted
<1>2. QED
  BY IInvAlways, <1>1, PTL

\* The camera runs exactly while a peer is counted, and the counts are the sessions that
\* are ready, less those still to be announced and more those still to be taken back,
\* unless a connection was closed or described again in the middle of its events.
THEOREM CountsAreViewersAlways == Spec => []CountsAreViewers
<1>1. IInv => CountsAreViewers
  BY DEF IInv, PeerInv, CountsAreViewers, Balanced, Announced, Leaving, ReadySlots
<1>2. QED
  BY IInvAlways, <1>1, PTL
==============================================================================
