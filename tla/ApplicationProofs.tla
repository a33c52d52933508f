-------------------------- MODULE ApplicationProofs --------------------------
(***************************************************************************)
(* Proofs about the two parts of the application.                          *)
(*                                                                         *)
(* AppSessions, for any clients, number of slots, size of the queue and    *)
(* bounds: the type invariant, that what is written for a client is meant  *)
(* for it, and the accounting of the candidate buffers.  The invariant has *)
(* three parts.  SlotInv ties the slots to the message that the signaling  *)
(* task works on: the slot it was given belongs to the sender or the       *)
(* sender has none, until the slot is started.  QueueInv says what the     *)
(* entries of the queue point to: a candidate to a buffer of its own, an   *)
(* answer to the shared buffer, which still holds its text or is known to  *)
(* hold another.  WrittenInv carries that to what was written.             *)
(*                                                                         *)
(* Master, whatever the regions, the answers of the services and the       *)
(* messages of the viewers: no task of the master has its data taken away. *)
(* The property looks at three places of the program only.  MasterInv says *)
(* for every place of Master_Task what has been acquired by then: what     *)
(* Init takes is there from its end to Deinit, the MQTT connection from    *)
(* Connect to the disconnect, the telemetry task from its creation to      *)
(* Stop, which finds it because no way leads to "stop" between the         *)
(* creation and isConnected.                                               *)
(***************************************************************************)
EXTENDS AppSessions, Master, FiniteSetTheorems, WellFoundedInduction, TLAPS

------------------------------------------------------------------------------
(* The invariant. *)

Tasks == {Idle, [at |-> "drain"]}
         \cup [at : {"start", "use", "answer"}, kind : Kinds, from : Clients, slot : Slots]
Working == task.at \in {"start", "use", "answer"}

Types ==
    /\ client \in [Slots -> Clients \cup {Nobody}] /\ owner = client
    /\ state \in [Slots -> States]
    /\ closing \in [Slots -> BOOLEAN] /\ closeTimer \in [Slots -> BOOLEAN]
    /\ toReport \in [Slots -> 0..MaxLocal]
    /\ sdpBuffer \in Texts
    /\ queue \in Seq(Entries) /\ Len(queue) <= QueueCap
    /\ heap \subseteq Buffers /\ received \in 0..MaxMessages
    /\ task \in Tasks

\* The slot for a message was picked when it arrived and is started later.
SlotInv ==
    /\ OneSlotPerClient
    /\ \A s \in Slots : state[s] # "INITED" => client[s] # Nobody
    /\ task.at = "start" =>
        client[task.slot] = task.from \/ \A s \in Slots : client[s] # task.from
    /\ task.at \in {"use", "answer"} => client[task.slot] # Nobody
    /\ task.at = "answer" => task.kind = "offer"

IsAnswer(e) == e.kind = "answer"
IsCandidate(e) == e.kind = "candidate"

\* While an SDP is handled no entry of the queue counts on the shared buffer.
QueueInv ==
    /\ \A i \in 1..Len(queue) : IsCandidate(queue[i]) =>
        /\ queue[i].buffer.for = queue[i].to
        /\ queue[i].buffer \in heap
        /\ \A j \in 1..Len(queue) :
              IsCandidate(queue[j]) /\ queue[j].buffer = queue[i].buffer => i = j
    /\ \A b \in heap : \E i \in 1..Len(queue) : IsCandidate(queue[i]) /\ queue[i].buffer = b
    /\ \A i \in 1..Len(queue) : IsAnswer(queue[i]) /\ ~queue[i].overtaken =>
        /\ sdpBuffer = [kind |-> "answer", of |-> queue[i].to]
        /\ Working => task.kind = "candidate"

WrittenInv ==
    written # Nothing =>
        \/ written.text = [kind |-> written.entry.kind, of |-> written.entry.to]
        \/ written.entry.kind = "answer" /\ written.entry.overtaken

IInv == Types /\ SlotInv /\ QueueInv /\ WrittenInv
------------------------------------------------------------------------------
(* The slots. *)

\* A set of natural numbers that is not empty has a first one.
LEMMA FirstFacts ==
    ASSUME NEW S, S \subseteq Nat, S # {}
    PROVE  First(S) \in S
<1>1. \E n \in S : \A m \in S : ~(<<m, n>> \in OpToRel(<, Nat))
  BY NatLessThanWellFounded, WFMin
<1>2. PICK n \in S : \A m \in S : ~(m < n)
  BY <1>1 DEF OpToRel
<1>3. \E s \in S : \A t \in S : s <= t
  BY <1>2
<1>4. QED
  BY <1>3 DEF First

\* The slot that is picked has served the client, or none has.
LEMMA PickFacts ==
    ASSUME NEW c, PickSlot(c) # 0
    PROVE  /\ PickSlot(c) \in Slots
           /\ client[PickSlot(c)] = c \/ \A s \in Slots : client[s] # c
<1> DEFINE mine == {s \in Slots : client[s] = c}
           free == {s \in Slots : Free(s)}
<1>1. mine \subseteq Nat /\ free \subseteq Nat
  BY AppConstants DEF Slots
<1>2. CASE mine # {}
  <2>1. First(mine) \in mine
    BY <1>1, <1>2, FirstFacts
  <2>2. PickSlot(c) = First(mine)
    BY <1>2 DEF PickSlot
  <2>3. QED
    BY <2>1, <2>2
<1>3. CASE mine = {} /\ free # {}
  <2>1. First(free) \in free
    BY <1>1, <1>3, FirstFacts
  <2>2. PickSlot(c) = First(free)
    BY <1>3 DEF PickSlot
  <2>3. QED
    BY <1>3, <2>1, <2>2
<1>4. CASE mine = {} /\ free = {}
  BY <1>4 DEF PickSlot
<1>5. QED
  BY <1>2, <1>3, <1>4
------------------------------------------------------------------------------
(* The queue. *)

LEMMA ElementOfSeq ==
    ASSUME NEW S, NEW q \in Seq(S), NEW i \in 1..Len(q)
    PROVE  q[i] \in S
  OBVIOUS

\* What is read of an entry.
LEMMA EntryFacts ==
    ASSUME NEW e \in Entries
    PROVE  /\ e.to \in Clients
           /\ IsAnswer(e) \/ IsCandidate(e)
           /\ ~(IsAnswer(e) /\ IsCandidate(e))
           /\ IsAnswer(e) => e.overtaken \in BOOLEAN
           /\ IsAnswer(e) => [e EXCEPT !.overtaken = TRUE] \in Entries
           /\ IsCandidate(e) => e.buffer \in Buffers
  BY DEF Entries, IsAnswer, IsCandidate

\* Overtaking marks the answers and leaves the rest.
LEMMA OvertakeFacts ==
    ASSUME NEW q \in Seq(Entries)
    PROVE  /\ Overtake(q) \in Seq(Entries) /\ Len(Overtake(q)) = Len(q)
           /\ \A i \in 1..Len(q) :
                /\ IsCandidate(q[i]) => Overtake(q)[i] = q[i]
                /\ IsAnswer(q[i]) => IsAnswer(Overtake(q)[i]) /\ Overtake(q)[i].overtaken
<1> DEFINE f == [i \in 1..Len(q) |->
                    IF q[i].kind = "answer" THEN [q[i] EXCEPT !.overtaken = TRUE] ELSE q[i]]
<1>1. Overtake(q) = f /\ Len(q) \in Nat
  BY DEF Overtake
<1>2. \A i \in 1..Len(q) : q[i] \in Entries
  BY ElementOfSeq
<1>3. \A i \in 1..Len(q) : f[i] \in Entries
  BY <1>2, EntryFacts DEF IsAnswer
<1>4. f \in Seq(Entries) /\ Len(f) = Len(q)
  BY <1>1, <1>3
<1>5. \A i \in 1..Len(q) :
          /\ IsCandidate(q[i]) => f[i] = q[i]
          /\ IsAnswer(q[i]) => f[i] = [q[i] EXCEPT !.overtaken = TRUE]
  BY DEF IsAnswer, IsCandidate
<1>6. ASSUME NEW i \in 1..Len(q), IsAnswer(q[i])
      PROVE  IsAnswer(f[i]) /\ f[i].overtaken
  <2>1. q[i] \in [kind : {"answer"}, to : Clients, overtaken : BOOLEAN]
    BY <1>2, <1>6 DEF IsAnswer, Entries
  <2>2. QED
    BY <1>5, <1>6, <2>1 DEF IsAnswer
<1>7. QED
  BY <1>1, <1>4, <1>5, <1>6
------------------------------------------------------------------------------
(* The candidate buffers. *)

Pointing == {i \in DOMAIN queue : queue[i].kind = "candidate"}

\* The entries for candidates and the buffers are as many.
LEMMA HeapCount ==
    ASSUME Types, QueueInv
    PROVE  /\ IsFiniteSet(heap) /\ Cardinality(heap) = Cardinality(Pointing)
           /\ Cardinality(heap) <= Len(queue) /\ Cardinality(heap) \in Nat
           /\ heap = {queue[i].buffer : i \in Pointing}
<1> DEFINE f == [i \in Pointing |-> queue[i].buffer]
<1>1. Len(queue) \in Nat /\ DOMAIN queue = 1..Len(queue)
  BY DEF Types
<1>2. IsFiniteSet(1..Len(queue)) /\ Cardinality(1..Len(queue)) = Len(queue)
  <2>1. Len(queue) \in Int /\ 1 \in Int
    BY <1>1
  <2>2. /\ IsFiniteSet(1..Len(queue))
        /\ Cardinality(1..Len(queue)) = IF 1 > Len(queue) THEN 0 ELSE Len(queue) - 1 + 1
    BY <2>1, FS_Interval, Zenon
  <2>3. QED
    BY <1>1, <2>2
<1>3. /\ IsFiniteSet(Pointing) /\ Cardinality(Pointing) <= Len(queue)
      /\ Cardinality(Pointing) \in Nat
  <2>1. Pointing \in SUBSET (1..Len(queue))
    BY <1>1 DEF Pointing
  <2>2. IsFiniteSet(Pointing) /\ Cardinality(Pointing) <= Cardinality(1..Len(queue))
    BY <1>2, <2>1, FS_Subset
  <2>3. QED
    BY <1>2, <2>2, FS_CardinalityType
<1>4. \A i \in Pointing : i \in 1..Len(queue) /\ IsCandidate(queue[i])
  BY <1>1 DEF Pointing, IsCandidate
<1>5. f \in [Pointing -> heap]
  <2>1. \A i \in Pointing : queue[i].buffer \in heap
    BY <1>4 DEF QueueInv
  <2>2. QED
    BY <2>1
<1>6. \A i, j \in Pointing : f[i] = f[j] => i = j
  BY <1>4 DEF QueueInv
<1>7. \A b \in heap : \E i \in Pointing : f[i] = b
  <2> TAKE b \in heap
  <2>1. PICK i \in 1..Len(queue) : IsCandidate(queue[i]) /\ queue[i].buffer = b
    BY DEF QueueInv
  <2>2. i \in Pointing
    BY <1>1, <2>1 DEF Pointing, IsCandidate
  <2>3. QED
    BY <2>1, <2>2
<1>8. f \in Bijection(Pointing, heap)
  BY <1>5, <1>6, <1>7 DEF Bijection, Injection, Surjection, IsInjective
<1>9. ExistsBijection(Pointing, heap)
  BY <1>8 DEF ExistsBijection
<1>10. IsFiniteSet(heap) /\ Cardinality(heap) = Cardinality(Pointing)
  BY <1>3, <1>9, FS_Bijection, Zenon
<1>11. heap = {queue[i].buffer : i \in Pointing}
  BY <1>5, <1>7
<1>12. QED
  BY <1>3, <1>10, <1>11

\* While the queue takes another entry a client has a buffer left.
LEMMA FreshBuffer ==
    ASSUME Types, QueueInv, Len(queue) < QueueCap, NEW c \in Clients
    PROVE  \E b \in Buffers \ heap : b.for = c
<1> SUFFICES ASSUME \A b \in Buffers : b.for = c => b \in heap
             PROVE  FALSE
  OBVIOUS
<1> DEFINE f == [k \in 1..(QueueCap + 1) |-> [for |-> c, number |-> k]]
<1>1. QueueCap \in Nat /\ QueueCap + 1 \in Int /\ 1 \in Int /\ Len(queue) \in Nat
  BY AppConstants DEF Types
<1>2. Cardinality(1..(QueueCap + 1)) = QueueCap + 1
  <2>1. Cardinality(1..(QueueCap + 1)) = IF 1 > QueueCap + 1 THEN 0 ELSE (QueueCap + 1) - 1 + 1
    BY <1>1, FS_Interval, Zenon
  <2>2. QED
    BY <1>1, <2>1
<1>3. f \in Injection(1..(QueueCap + 1), heap)
  <2>1. \A k \in 1..(QueueCap + 1) : f[k] \in Buffers /\ f[k].for = c
    BY DEF Buffers
  <2>2. f \in [1..(QueueCap + 1) -> heap]
    BY <2>1
  <2>3. \A k, l \in 1..(QueueCap + 1) : f[k] = f[l] => k = l
    OBVIOUS
  <2>4. QED
    BY <2>2, <2>3 DEF Injection, IsInjective
<1>4. IsFiniteSet(heap) /\ Cardinality(heap) <= Len(queue) /\ Cardinality(heap) \in Nat
  BY HeapCount
<1>5. Cardinality(1..(QueueCap + 1)) <= Cardinality(heap)
  BY <1>3, <1>4, FS_Injection
<1>6. QED
  BY <1>1, <1>2, <1>4, <1>5
------------------------------------------------------------------------------
(* The steps of the signaling task while it works on a message. *)

\* The task works on a message of a client with a slot, waits or drains.
LEMMA TaskFacts ==
    ASSUME Types
    PROVE  /\ Working => /\ task.kind \in Kinds /\ task.from \in Clients /\ task.slot \in Slots
                         /\ \A step \in {"start", "use", "answer"} :
                              /\ [task EXCEPT !.at = step] \in Tasks
                              /\ [task EXCEPT !.at = step] =
                                    At(step, task.kind, task.from, task.slot)
           /\ task = Idle => ~Working /\ task.at = "recv"
           /\ task.at = "drain" => ~Working
           /\ Idle \in Tasks /\ [at |-> "drain"] \in Tasks
<1>1. task \in Tasks
  BY DEF Types
<1>2. Working
        => task \in [at : {"start", "use", "answer"}, kind : Kinds, from : Clients, slot : Slots]
  BY <1>1 DEF Tasks, Working, Idle
<1>3. QED
  BY <1>1, <1>2 DEF Tasks, Working, Idle, At

LEMMA InitIInv == Init => IInv
<1> SUFFICES ASSUME Init PROVE IInv
  OBVIOUS
<1> USE DEF Init
<1>1. Types
  <2>1. queue \in Seq(Entries) /\ Len(queue) = 0
    OBVIOUS
  <2>2. heap \subseteq Buffers /\ task \in Tasks /\ received \in 0..MaxMessages
    BY AppConstants DEF Tasks
  <2>3. toReport \in [Slots -> 0..MaxLocal] /\ Len(queue) <= QueueCap
    BY <2>1, AppConstants
  <2>4. QED
    BY <2>1, <2>2, <2>3 DEF Types, States, Texts
<1>2. SlotInv
  BY DEF SlotInv, OneSlotPerClient, Idle
<1>3. QueueInv
  BY DEF QueueInv
<1>4. QED
  BY <1>1, <1>2, <1>3 DEF IInv, WrittenInv

LEMMA ReceiveStep ==
    ASSUME IInv, NEW kind \in Kinds, NEW c \in Clients, Receive(kind, c)
    PROVE  IInv'
<1> USE DEF Receive, slotVars
<1>1. Types /\ SlotInv /\ QueueInv /\ WrittenInv
  BY DEF IInv
<1>2. ~Working /\ Idle \in Tasks /\ task = Idle
  BY <1>1, TaskFacts
<1>3. PickSlot(c) # 0 => /\ PickSlot(c) \in Slots
                         /\ client[PickSlot(c)] = c \/ \A s \in Slots : client[s] # c
  BY PickFacts
<1>4. queue \in Seq(Entries) /\ Len(queue) \in Nat
  BY <1>1 DEF Types
<1>5. Types'
  <2>1. queue' \in Seq(Entries) /\ Len(queue') <= QueueCap
    BY <1>1, <1>4, OvertakeFacts DEF Types
  <2>2. task' \in Tasks
    BY <1>2, <1>3 DEF Tasks, At
  <2>3. sdpBuffer' \in Texts
    BY <1>1 DEF Types, Texts, Kinds
  <2>4. received' \in 0..MaxMessages
    BY <1>1, AppConstants DEF Types
  <2>5. QED
    BY <1>1, <2>1, <2>2, <2>3, <2>4 DEF Types
<1>6. SlotInv'
  <2>1. (\A s \in Slots : state[s] # "INITED" => client[s] # Nobody)' /\ OneSlotPerClient'
    BY <1>1 DEF SlotInv, OneSlotPerClient
  <2>2. task'.at = "start" => client'[task'.slot] = task'.from
        \/ \A s \in Slots : client'[s] # task'.from
    BY <1>3 DEF Idle, At
  <2>3. task'.at \notin {"use", "answer"}
    BY DEF Idle, At
  <2>4. QED
    BY <2>1, <2>2, <2>3 DEF SlotInv
<1>7. QueueInv'
  <2>1. CASE kind = "candidate"
    <3>1. task' = Idle \/ task'.kind = "candidate"
      BY <2>1 DEF At
    <3>2. Working' => task'.kind = "candidate"
      BY <3>1 DEF Working, Idle
    <3>3. QED
      BY <1>1, <2>1, <3>2 DEF QueueInv
  <2>2. CASE kind # "candidate"
    <3>1. /\ Len(queue') = Len(queue) /\ heap' = heap
          /\ \A i \in 1..Len(queue) :
                /\ IsCandidate(queue[i]) => queue'[i] = queue[i]
                /\ IsAnswer(queue[i]) => IsAnswer(queue'[i]) /\ queue'[i].overtaken
      BY <1>4, <2>2, OvertakeFacts
    <3>2. \A i \in 1..Len(queue) :
             /\ IsAnswer(queue[i]) \/ IsCandidate(queue[i])
             /\ ~(IsAnswer(queue[i]) /\ IsCandidate(queue[i]))
             /\ ~(IsAnswer(queue'[i]) /\ IsCandidate(queue'[i]))
      <4>1. \A i \in 1..Len(queue) : queue[i] \in Entries
        BY <1>4, ElementOfSeq
      <4>2. QED
        BY <4>1, EntryFacts DEF IsAnswer, IsCandidate
    <3>3. \A i \in 1..Len(queue) : IsCandidate(queue'[i]) => IsCandidate(queue[i])
          /\ queue'[i] = queue[i]
      BY <3>1, <3>2
    <3>4. \A i \in 1..Len(queue) : IsAnswer(queue'[i]) => queue'[i].overtaken
      BY <3>1, <3>2
    <3>5. QED
      BY <1>1, <3>1, <3>3, <3>4 DEF QueueInv
  <2>3. QED
    BY <2>1, <2>2
<1>8. WrittenInv'
  BY <1>1 DEF WrittenInv
<1>9. QED
  BY <1>5, <1>6, <1>7, <1>8 DEF IInv

\* A step that leaves the queue alone keeps what its entries point to, unless the
\* task comes to work on an SDP.
LEMMA QueueKept ==
    ASSUME QueueInv, UNCHANGED <<queue, heap, sdpBuffer>>,
           Working' => (Working /\ task'.kind = task.kind)
    PROVE  QueueInv'
  BY DEF QueueInv

LEMMA StartStep ==
    ASSUME IInv, Start
    PROVE  IInv'
<1> USE DEF Start, outVars
<1>1. Types /\ SlotInv /\ QueueInv /\ WrittenInv /\ Working /\ task.at = "start"
  BY DEF IInv, Working
<1>2. /\ task.kind \in Kinds /\ task.from \in Clients /\ task.slot \in Slots
      /\ [task EXCEPT !.at = "use"] \in Tasks /\ Idle \in Tasks
      /\ [task EXCEPT !.at = "use"] = At("use", task.kind, task.from, task.slot)
  BY <1>1, TaskFacts
<1>3. task' = Idle \/ task' = At("use", task.kind, task.from, task.slot)
  BY <1>2
<1>4. Types'
  <2>1. task' \in Tasks
    BY <1>2
  <2>2. client' \in [Slots -> Clients \cup {Nobody}] /\ owner' = client'
        /\ state' \in [Slots -> States]
    BY <1>1, <1>2 DEF Types, States
  <2>3. QED
    BY <1>1, <2>1, <2>2 DEF Types
<1>5. SlotInv'
  <2>1. task'.at # "start"
    BY <1>3 DEF Idle, At
  <2>2. Nobody \notin Clients
    BY AppConstants DEF Nobody
  <2>3. CASE /\ client' = [client EXCEPT ![task.slot] = task.from]
             /\ state' = [state EXCEPT ![task.slot] = "START"]
             /\ task' = [task EXCEPT !.at = "use"]
    <3>1. OneSlotPerClient'
      BY <1>1, <1>2, <2>3 DEF SlotInv, OneSlotPerClient, Types
    <3>2. \A s \in Slots : state'[s] # "INITED" => client'[s] # Nobody
      BY <1>1, <1>2, <2>2, <2>3 DEF SlotInv, Types
    <3>3. client'[task'.slot] # Nobody
      BY <1>1, <1>2, <2>2, <2>3 DEF Types, At
    <3>4. task'.at # "answer"
      BY <1>2, <2>3 DEF At
    <3>5. QED
      BY <2>1, <3>1, <3>2, <3>3, <3>4 DEF SlotInv
  <2>4. CASE task' = Idle /\ UNCHANGED <<client, state>>
    BY <1>1, <2>1, <2>4 DEF SlotInv, OneSlotPerClient, Idle
  <2>5. CASE ~Free(task.slot) /\ task' = [task EXCEPT !.at = "use"] /\ UNCHANGED <<client, state>>
    <3>1. client[task.slot] # Nobody
      BY <1>1, <1>2, <2>5 DEF SlotInv, Free
    <3>2. task'.slot = task.slot /\ task'.at # "answer"
      BY <1>2, <2>5 DEF At
    <3>3. QED
      BY <1>1, <2>1, <2>5, <3>1, <3>2 DEF SlotInv, OneSlotPerClient
  <2>6. QED
    BY <2>3, <2>4, <2>5
<1>6. QueueInv'
  <2>1. Working' => task'.kind = task.kind
    BY <1>3 DEF Working, Idle, At
  <2>2. QED
    BY <1>1, <2>1, QueueKept
<1>7. WrittenInv'
  BY <1>1 DEF WrittenInv
<1>8. QED
  BY <1>4, <1>5, <1>6, <1>7 DEF IInv

LEMMA DescribeStep ==
    ASSUME IInv, Describe
    PROVE  IInv'
<1> USE DEF Describe, outVars
<1>1. Types /\ SlotInv /\ QueueInv /\ WrittenInv /\ Working /\ task.at = "use"
  BY DEF IInv, Working
<1>2. /\ task.kind \in Kinds /\ task.from \in Clients /\ task.slot \in Slots
      /\ [task EXCEPT !.at = "answer"] \in Tasks /\ Idle \in Tasks
      /\ [task EXCEPT !.at = "answer"] = At("answer", task.kind, task.from, task.slot)
  BY <1>1, TaskFacts
<1>3. task' = Idle \/ task' = At("answer", task.kind, task.from, task.slot)
  BY <1>2
<1>4. Types'
  <2>1. task' \in Tasks
    BY <1>2
  <2>2. state' \in [Slots -> States] /\ toReport' \in [Slots -> 0..MaxLocal]
    <3>1. "ACTIVE" \in States /\ MaxLocal \in 0..MaxLocal
      BY AppConstants DEF States
    <3>2. state \in [Slots -> States] /\ toReport \in [Slots -> 0..MaxLocal]
      BY <1>1 DEF Types
    <3>3. QED
      BY <1>2, <3>1, <3>2
  <2>3. QED
    BY <1>1, <2>1, <2>2 DEF Types
<1>5. SlotInv'
  <2>1. client[task.slot] # Nobody
    BY <1>1 DEF SlotInv
  <2>2. \A s \in Slots : state'[s] # "INITED" => client'[s] # Nobody
    BY <1>1, <1>2, <2>1 DEF SlotInv, Types
  <2>3. task'.at # "start"
    BY <1>3 DEF Idle, At
  <2>4. task'.at \in {"use", "answer"} => client'[task'.slot] # Nobody
    BY <1>3, <2>1 DEF Idle, At
  <2>5. task'.at = "answer" => task'.kind = "offer"
    BY <1>2 DEF Idle, At
  <2>6. QED
    BY <1>1, <2>2, <2>3, <2>4, <2>5 DEF SlotInv, OneSlotPerClient
<1>6. QueueInv'
  <2>1. Working' => task'.kind = task.kind
    BY <1>3 DEF Working, Idle, At
  <2>2. QED
    BY <1>1, <2>1, QueueKept
<1>7. WrittenInv'
  BY <1>1 DEF WrittenInv
<1>8. QED
  BY <1>4, <1>5, <1>6, <1>7 DEF IInv

\* A step that leaves the slots' clients alone and the task to a message it already
\* works on, or to none, keeps the slots in order.
LEMMA SlotsKept ==
    ASSUME SlotInv, UNCHANGED client,
           \A s \in Slots : state'[s] \in {"INITED", state[s]} \/ state[s] # "INITED",
           task' = task \/ task'.at \in {"recv", "drain"}
    PROVE  SlotInv'
<1>1. OneSlotPerClient' /\ \A s \in Slots : state'[s] # "INITED" => client'[s] # Nobody
  BY DEF SlotInv, OneSlotPerClient
<1>2. CASE task' = task
  BY <1>1, <1>2 DEF SlotInv
<1>3. CASE task'.at \in {"recv", "drain"}
  BY <1>1, <1>3 DEF SlotInv
<1>4. QED
  BY <1>2, <1>3

LEMMA AddCandidateStep ==
    ASSUME IInv, AddCandidate
    PROVE  IInv'
<1> USE DEF AddCandidate, outVars
<1>1. Types /\ SlotInv /\ QueueInv /\ WrittenInv
  BY DEF IInv
<1>2. Types'
  <2>1. task' \in Tasks
    BY DEF Tasks
  <2>2. closeTimer' \in [Slots -> BOOLEAN]
    BY <1>1 DEF Types
  <2>3. QED
    BY <1>1, <2>1, <2>2 DEF Types
<1>3. task'.at = "recv" /\ ~Working'
  BY DEF Idle, Working
<1>4. SlotInv'
  BY <1>1, <1>3, SlotsKept
<1>5. QueueInv'
  BY <1>1, <1>3, QueueKept
<1>6. WrittenInv'
  BY <1>1 DEF WrittenInv
<1>7. QED
  BY <1>2, <1>4, <1>5, <1>6 DEF IInv
------------------------------------------------------------------------------
(* The steps that change the queue. *)

\* What an appended entry must bring.
LEMMA AppendFacts ==
    ASSUME NEW T, NEW q \in Seq(T), NEW e \in T
    PROVE  /\ Append(q, e) \in Seq(T) /\ Len(Append(q, e)) = Len(q) + 1
           /\ \A i \in 1..Len(q) : Append(q, e)[i] = q[i]
           /\ Append(q, e)[Len(q) + 1] = e
  OBVIOUS

\* What the queue keeps when its first entry is taken.
LEMMA TailFacts ==
    ASSUME NEW T, NEW q \in Seq(T), q # <<>>
    PROVE  /\ Tail(q) \in Seq(T) /\ Len(Tail(q)) = Len(q) - 1 /\ Len(q) \in Nat /\ Len(q) >= 1
           /\ Head(q) = q[1] /\ Head(q) \in T
           /\ \A i \in 1..Len(Tail(q)) : Tail(q)[i] = q[i + 1]
  OBVIOUS

LEMMA AnswerStep ==
    ASSUME IInv, Answer
    PROVE  IInv'
<1> USE DEF Answer, slotVars
<1> DEFINE e == [kind |-> "answer", to |-> task.from, overtaken |-> FALSE]
<1>1. Types /\ SlotInv /\ QueueInv /\ WrittenInv /\ Working /\ task.at = "answer"
  BY DEF IInv, Working
<1>2. task.from \in Clients /\ task' = Idle /\ task'.at = "recv" /\ ~Working' /\ Idle \in Tasks
  BY <1>1, TaskFacts DEF Idle, Working
<1>3. queue \in Seq(Entries) /\ Len(queue) \in Nat /\ Len(queue) <= QueueCap /\ QueueCap \in Nat
  BY <1>1, AppConstants DEF Types
<1>4. e \in Entries /\ IsAnswer(e) /\ ~IsCandidate(e)
  BY <1>2 DEF Entries, IsAnswer, IsCandidate
<1>5. WrittenInv'
  BY <1>1 DEF WrittenInv
<1>6. SlotInv'
  BY <1>1, <1>2, SlotsKept
<1>7. \/ UNCHANGED <<sdpBuffer, queue>>
      \/ sdpBuffer' = [kind |-> "answer", of |-> task.from] /\ UNCHANGED queue
      \/ /\ sdpBuffer' = [kind |-> "answer", of |-> task.from]
         /\ Len(queue) < QueueCap /\ queue' = Append(queue, e)
  OBVIOUS
<1>8. Types'
  <2>1. queue' \in Seq(Entries) /\ Len(queue') <= QueueCap
    BY <1>3, <1>4, <1>7, AppendFacts
  <2>2. sdpBuffer' \in Texts
    BY <1>1, <1>2, <1>7 DEF Types, Texts
  <2>3. QED
    BY <1>1, <1>2, <2>1, <2>2 DEF Types
<1>9. QueueInv'
  <2>1. CASE UNCHANGED <<sdpBuffer, queue>>
    BY <1>1, <1>2, <2>1, QueueKept
  <2>2. \A i \in 1..Len(queue) : IsAnswer(queue[i]) => queue[i].overtaken
    BY <1>1 DEF QueueInv, SlotInv
  <2>3. CASE UNCHANGED queue
    BY <1>1, <1>2, <2>2, <2>3 DEF QueueInv
  <2>4. CASE /\ sdpBuffer' = [kind |-> "answer", of |-> task.from]
             /\ queue' = Append(queue, e)
    <3>1. /\ Len(queue') = Len(queue) + 1 /\ queue'[Len(queue) + 1] = e
          /\ \A i \in 1..Len(queue) : queue'[i] = queue[i]
      BY <1>3, <1>4, <2>4, AppendFacts
    <3>2. \A i \in 1..Len(queue') : i \in 1..Len(queue) \/ i = Len(queue) + 1
      BY <1>3, <3>1
    <3>3. \A i \in 1..Len(queue) : i \in 1..Len(queue')
      BY <1>3, <3>1
    <3>4. \A i \in 1..Len(queue') : IsCandidate(queue'[i]) => i \in 1..Len(queue)
          /\ queue'[i] = queue[i]
      BY <1>4, <3>1, <3>2
    <3>5. \A i \in 1..Len(queue') : IsAnswer(queue'[i]) /\ ~queue'[i].overtaken => queue'[i] = e
      BY <2>2, <3>1, <3>2
    <3>6. \A b \in heap : \E i \in 1..Len(queue') : IsCandidate(queue'[i]) /\ queue'[i].buffer = b
      BY <1>1, <3>1, <3>3 DEF QueueInv
    <3>7. \A i \in 1..Len(queue') : IsCandidate(queue'[i]) =>
             /\ queue'[i].buffer.for = queue'[i].to
             /\ queue'[i].buffer \in heap
             /\ \A j \in 1..Len(queue') :
                   IsCandidate(queue'[j]) /\ queue'[j].buffer = queue'[i].buffer => i = j
      BY <1>1, <3>4 DEF QueueInv
    <3>8. \A i \in 1..Len(queue') : IsAnswer(queue'[i]) /\ ~queue'[i].overtaken =>
             sdpBuffer' = [kind |-> "answer", of |-> queue'[i].to]
      BY <2>4, <3>5
    <3>9. UNCHANGED heap
      OBVIOUS
    <3>10. /\ \A i \in 1..Len(queue') : IsCandidate(queue'[i]) =>
                /\ queue'[i].buffer.for = queue'[i].to
                /\ queue'[i].buffer \in heap'
                /\ \A j \in 1..Len(queue') :
                      IsCandidate(queue'[j]) /\ queue'[j].buffer = queue'[i].buffer => i = j
           /\ \A b \in heap' : \E i \in 1..Len(queue') : IsCandidate(queue'[i])
                /\ queue'[i].buffer = b
      BY <3>6, <3>7, <3>9
    <3>11. QED
      BY ONLY <1>2, <3>8, <3>10 DEF QueueInv
  <2>5. QED
    BY <1>7, <2>1, <2>3, <2>4
<1>10. QED
  BY <1>5, <1>6, <1>8, <1>9 DEF IInv
\* An entry is written with its own text unless it is known to be overtaken, and
\* takes its buffer along.
LEMMA HandleEventStep ==
    ASSUME IInv, NEW sent \in BOOLEAN, HandleEvent(sent)
    PROVE  IInv'
<1> USE DEF HandleEvent, slotVars
<1> DEFINE e == Head(queue)
<1>1. Types /\ SlotInv /\ QueueInv /\ WrittenInv
  BY DEF IInv
<1>2. queue \in Seq(Entries) /\ queue # <<>> /\ task.at = "drain" /\ UNCHANGED sdpBuffer
  BY <1>1 DEF Types
<1>3. /\ queue' \in Seq(Entries) /\ Len(queue') = Len(queue) - 1 /\ Len(queue) \in Nat
      /\ Len(queue) >= 1 /\ e = queue[1] /\ e \in Entries
      /\ \A i \in 1..Len(queue') : queue'[i] = queue[i + 1]
  BY <1>2, TailFacts
<1>4. /\ IsAnswer(e) \/ IsCandidate(e)
      /\ ~(IsAnswer(e) /\ IsCandidate(e))
      /\ heap' = IF IsCandidate(e) THEN heap \ {e.buffer} ELSE heap
  BY <1>3, EntryFacts DEF IsCandidate
<1>5. ~Working' /\ (task' = task \/ task'.at = "recv")
  BY <1>2 DEF Idle, Working
<1>6. Types'
  <2>1. task' \in Tasks
    BY <1>1 DEF Types, Tasks
  <2>2. Len(queue') <= QueueCap
    BY <1>1, <1>3, AppConstants DEF Types
  <2>3. heap' \subseteq Buffers
    BY <1>1, <1>4 DEF Types
  <2>4. QED
    BY <1>1, <1>3, <2>1, <2>2, <2>3 DEF Types
<1>7. SlotInv'
  BY <1>1, <1>5, SlotsKept
<1>8. 1 \in 1..Len(queue) /\ \A i \in 1..Len(queue') : i + 1 \in 1..Len(queue) /\ i + 1 # 1
  BY <1>3
<1>9. WrittenInv'
  <2>1. sent => written' = [entry |-> e, text |-> TextOf(e)]
    OBVIOUS
  <2>2. ~sent => written' = Nothing
    OBVIOUS
  <2>3. CASE IsCandidate(e)
    <3>1. e.buffer.for = e.to
      BY <1>1, <1>3, <1>8, <2>3 DEF QueueInv
    <3>2. e.kind = "candidate" /\ TextOf(e) = [kind |-> "candidate", of |-> e.to]
      BY <2>3, <3>1 DEF TextOf, IsCandidate
    <3>3. sent => written'.entry = e /\ written'.text = [kind |-> e.kind, of |-> e.to]
      BY <2>1, <3>2
    <3>4. QED
      BY <2>2, <3>3 DEF WrittenInv
  <2>4. CASE IsAnswer(e)
    <3>1. e.kind = "answer" /\ TextOf(e) = sdpBuffer
      BY <2>4 DEF TextOf, IsAnswer
    <3>2. ~e.overtaken => sdpBuffer = [kind |-> e.kind, of |-> e.to]
      BY <1>1, <1>3, <1>8, <2>4, <3>1 DEF QueueInv
    <3>3. sent => written'.entry = e /\ written'.text = sdpBuffer
      BY <2>1, <3>1
    <3>4. QED
      BY <2>2, <3>1, <3>2, <3>3 DEF WrittenInv
  <2>5. QED
    BY <1>4, <2>3, <2>4
<1>10. QueueInv'
  <2>1. ASSUME NEW i \in 1..Len(queue'), IsCandidate(queue'[i])
        PROVE  /\ queue'[i].buffer.for = queue'[i].to
               /\ queue'[i].buffer \in heap'
               /\ \A j \in 1..Len(queue') :
                     IsCandidate(queue'[j]) /\ queue'[j].buffer = queue'[i].buffer => i = j
    <3>1. /\ i + 1 \in 1..Len(queue) /\ i + 1 # 1
          /\ IsCandidate(queue[i + 1]) /\ queue'[i] = queue[i + 1]
      BY <1>3, <1>8, <2>1
    <3>2. queue[i + 1].buffer.for = queue[i + 1].to /\ queue[i + 1].buffer \in heap
      BY <1>1, <3>1 DEF QueueInv
    <3>3. IsCandidate(e) => queue[i + 1].buffer # e.buffer
      BY <1>1, <1>3, <1>8, <3>1 DEF QueueInv
    <3>4. ASSUME NEW j \in 1..Len(queue'), IsCandidate(queue'[j]),
                   queue'[j].buffer = queue'[i].buffer
          PROVE  i = j
      <4>1. /\ j + 1 \in 1..Len(queue) /\ IsCandidate(queue[j + 1])
            /\ queue[j + 1].buffer = queue[i + 1].buffer
        BY <1>3, <1>8, <3>1, <3>4
      <4>2. i + 1 = j + 1
        BY <1>1, <3>1, <4>1 DEF QueueInv
      <4>3. QED
        BY <4>2
    <3>5. QED
      BY <1>4, <3>1, <3>2, <3>3, <3>4
  <2>2. ASSUME NEW b \in heap'
        PROVE  \E i \in 1..Len(queue') : IsCandidate(queue'[i]) /\ queue'[i].buffer = b
    <3>1. b \in heap /\ (IsCandidate(e) => b # e.buffer)
      BY <1>4
    <3>2. PICK k \in 1..Len(queue) : IsCandidate(queue[k]) /\ queue[k].buffer = b
      BY <1>1, <3>1 DEF QueueInv
    <3>3. k # 1
      BY <1>3, <3>1, <3>2
    <3>4. k - 1 \in 1..Len(queue') /\ (k - 1) + 1 = k
      BY <1>3, <3>3
    <3>5. queue'[k - 1] = queue[k]
      BY <1>3, <3>4
    <3>6. QED
      BY <3>2, <3>4, <3>5
  <2>3. ASSUME NEW i \in 1..Len(queue'), IsAnswer(queue'[i]), ~queue'[i].overtaken
        PROVE  sdpBuffer' = [kind |-> "answer", of |-> queue'[i].to]
    <3>1. i + 1 \in 1..Len(queue) /\ queue'[i] = queue[i + 1]
      BY <1>3, <1>8
    <3>2. QED
      BY <1>1, <1>2, <2>3, <3>1 DEF QueueInv
  <2>4. QED
    BY ONLY <1>5, <2>1, <2>2, <2>3 DEF QueueInv
<1>11. QED
  BY <1>6, <1>7, <1>9, <1>10 DEF IInv

\* A session reports a candidate of its own client.
LEMMA LocalCandidateStep ==
    ASSUME IInv, NEW s \in Slots, LocalCandidate(s)
    PROVE  IInv'
<1> USE DEF LocalCandidate, outVars
<1> DEFINE buffer == CHOOSE b \in Buffers \ heap : b.for = owner[s]
           e == [kind |-> "candidate", to |-> client[s], buffer |-> buffer]
<1>1. Types /\ SlotInv /\ QueueInv /\ WrittenInv
  BY DEF IInv
<1>2. client[s] \in Clients /\ owner[s] = client[s]
  BY <1>1 DEF Types, SlotInv
<1>3. queue \in Seq(Entries) /\ Len(queue) \in Nat /\ Len(queue) <= QueueCap /\ QueueCap \in Nat
  BY <1>1, AppConstants DEF Types
<1>4. \/ UNCHANGED <<queue, heap>>
      \/ /\ Len(queue) < QueueCap
         /\ heap' = heap \cup {buffer} /\ queue' = Append(queue, e)
  OBVIOUS
<1>5. Len(queue) < QueueCap =>
          buffer \in Buffers \ heap /\ buffer.for = client[s] /\ e \in Entries /\ IsCandidate(e)
          /\ ~IsAnswer(e)
  <2>1. Len(queue) < QueueCap => buffer \in Buffers \ heap /\ buffer.for = client[s]
    BY <1>1, <1>2, FreshBuffer
  <2>2. QED
    BY <1>2, <2>1 DEF Entries, IsCandidate, IsAnswer
<1>6. SlotInv'
  BY <1>1, SlotsKept
<1>7. WrittenInv'
  BY <1>1 DEF WrittenInv
<1>8. Types'
  <2>1. queue' \in Seq(Entries) /\ Len(queue') <= QueueCap
    BY <1>3, <1>4, <1>5, AppendFacts
  <2>2. heap' \subseteq Buffers
    BY <1>1, <1>4, <1>5 DEF Types
  <2>3. toReport' \in [Slots -> 0..MaxLocal]
    <3>1. toReport \in [Slots -> 0..MaxLocal] /\ toReport[s] - 1 \in 0..MaxLocal
      BY <1>1, AppConstants DEF Types
    <3>2. QED
      BY <3>1
  <2>4. QED
    BY <1>1, <2>1, <2>2, <2>3 DEF Types
<1>9. QueueInv'
  <2>1. CASE UNCHANGED <<queue, heap>>
    <3>1. UNCHANGED <<sdpBuffer, task>>
      OBVIOUS
    <3>2. Working' => Working /\ task'.kind = task.kind
      BY <3>1 DEF Working
    <3>3. QED
      BY ONLY <1>1, <2>1, <3>1, <3>2, QueueKept
  <2>2. CASE /\ Len(queue) < QueueCap
             /\ heap' = heap \cup {buffer} /\ queue' = Append(queue, e)
    <3> DEFINE n == Len(queue) + 1
    <3>1. /\ Len(queue') = n /\ queue'[n] = e /\ n \in 1..Len(queue')
          /\ \A i \in 1..Len(queue) : i \in 1..Len(queue') /\ i # n /\ queue'[i] = queue[i]
      BY <1>3, <1>5, <2>2, AppendFacts
    <3>2. \A i \in 1..Len(queue') : i \in 1..Len(queue) \/ i = n
      BY <1>3, <3>1
    <3>3. IsCandidate(e) /\ ~IsAnswer(e) /\ e.buffer = buffer /\ e.to = client[s]
          /\ buffer.for = client[s] /\ buffer \notin heap
      BY <1>5, <2>2
    <3>4. ASSUME NEW i \in 1..Len(queue'), IsCandidate(queue'[i])
          PROVE  queue'[i].buffer.for = queue'[i].to /\ queue'[i].buffer \in heap'
      <4>1. CASE i = n
        BY <2>2, <3>1, <3>3, <4>1
      <4>2. CASE i \in 1..Len(queue)
        BY <1>1, <2>2, <3>1, <3>4, <4>2 DEF QueueInv
      <4>3. QED
        BY <3>2, <4>1, <4>2
    <3>5. \A i \in 1..Len(queue) : IsCandidate(queue[i]) => queue[i].buffer # buffer
      <4>1. \A i \in 1..Len(queue) : IsCandidate(queue[i]) => queue[i].buffer \in heap
        BY ONLY <1>1 DEF QueueInv
      <4>2. QED
        BY ONLY <3>3, <4>1
    <3>6. ASSUME NEW i \in 1..Len(queue'), IsCandidate(queue'[i]),
                 NEW j \in 1..Len(queue'), IsCandidate(queue'[j]),
                   queue'[j].buffer = queue'[i].buffer
          PROVE  i = j
      <4>1. CASE i = n /\ j \in 1..Len(queue)
        BY <3>1, <3>3, <3>5, <3>6, <4>1
      <4>2. CASE j = n /\ i \in 1..Len(queue)
        BY <3>1, <3>3, <3>5, <3>6, <4>2
      <4>3. CASE i \in 1..Len(queue) /\ j \in 1..Len(queue)
        BY <1>1, <3>1, <3>6, <4>3 DEF QueueInv
      <4>4. QED
        BY <3>2, <4>1, <4>2, <4>3
    <3>7. ASSUME NEW b \in heap'
          PROVE  \E i \in 1..Len(queue') : IsCandidate(queue'[i]) /\ queue'[i].buffer = b
      <4>1. CASE b \in heap
        <5>1. PICK i \in 1..Len(queue) : IsCandidate(queue[i]) /\ queue[i].buffer = b
          BY <1>1, <4>1 DEF QueueInv
        <5>2. QED
          BY <3>1, <5>1
      <4>2. CASE b = buffer
        BY <3>1, <3>3, <4>2
      <4>3. QED
        BY <2>2, <4>1, <4>2
    <3>8. ASSUME NEW i \in 1..Len(queue'), IsAnswer(queue'[i]), ~queue'[i].overtaken
          PROVE  /\ sdpBuffer' = [kind |-> "answer", of |-> queue'[i].to]
                 /\ Working' => task'.kind = "candidate"
      <4>1. i \in 1..Len(queue) /\ queue'[i] = queue[i]
        BY <3>1, <3>2, <3>3, <3>8
      <4>2. /\ sdpBuffer = [kind |-> "answer", of |-> queue[i].to]
            /\ Working => task.kind = "candidate"
        BY <1>1, <3>8, <4>1 DEF QueueInv
      <4>3. UNCHANGED <<sdpBuffer, task>>
        OBVIOUS
      <4>4. QED
        BY <4>1, <4>2, <4>3 DEF Working
    <3>9. QED
      BY ONLY <3>4, <3>6, <3>7, <3>8 DEF QueueInv
  <2>3. QED
    BY <1>4, <2>1, <2>2
<1>10. QED
  BY <1>6, <1>7, <1>8, <1>9 DEF IInv

------------------------------------------------------------------------------
(* The steps that leave the queue alone. *)

LEMMA SignalingKept ==
    ASSUME IInv, ReceiveUnusable \/ Drain
    PROVE  IInv'
<1> USE DEF ReceiveUnusable, Drain, slotVars, outVars
<1>1. Types /\ SlotInv /\ QueueInv /\ WrittenInv
  BY DEF IInv
<1>2. UNCHANGED <<client, owner, state, closing, closeTimer, toReport, sdpBuffer, queue, heap,
        written>>
  OBVIOUS
<1>3. ~Working' /\ (task' = task \/ task'.at = "drain")
  <2>1. task = Idle /\ ~Working
    BY <1>1, TaskFacts
  <2>2. QED
    BY <2>1 DEF Working, Idle
<1>4. task' \in Tasks /\ received' \in 0..MaxMessages
  BY <1>1, AppConstants DEF Types, Tasks
<1>5. Types'
  BY <1>1, <1>2, <1>4 DEF Types
<1>6. SlotInv'
  BY <1>1, <1>2, <1>3, SlotsKept
<1>7. QueueInv'
  BY <1>1, <1>2, <1>3, QueueKept
<1>8. WrittenInv'
  BY <1>1, <1>2 DEF WrittenInv
<1>9. QED
  BY <1>5, <1>6, <1>7, <1>8 DEF IInv

LEMMA SessionKept ==
    ASSUME IInv, NEW s \in Slots, Connected(s) \/ CloseSession(s) \/ SessionClosed(s)
    PROVE  IInv'
<1> USE DEF Connected, CloseSession, SessionClosed, outVars
<1>1. Types /\ SlotInv /\ QueueInv /\ WrittenInv
  BY DEF IInv
<1>2. UNCHANGED <<client, owner, sdpBuffer, queue, heap, task, received, written>>
  OBVIOUS
<1>3. Working' => Working /\ task'.kind = task.kind
  BY <1>2 DEF Working
<1>4. /\ state' \in [Slots -> States] /\ closing' \in [Slots -> BOOLEAN]
      /\ closeTimer' \in [Slots -> BOOLEAN] /\ toReport' \in [Slots -> 0..MaxLocal]
  <2>1. /\ state \in [Slots -> States] /\ closing \in [Slots -> BOOLEAN]
        /\ closeTimer \in [Slots -> BOOLEAN] /\ toReport \in [Slots -> 0..MaxLocal]
    BY <1>1 DEF Types
  <2>2. 0 \in 0..MaxLocal /\ {"READY", "CLOSING", "INITED"} \subseteq States
    BY AppConstants DEF States
  <2>3. CASE Connected(s)
    BY <2>1, <2>2, <2>3
  <2>4. CASE CloseSession(s)
    BY <2>1, <2>2, <2>4
  <2>5. CASE SessionClosed(s)
    BY <2>1, <2>2, <2>5
  <2>6. QED
    BY <2>3, <2>4, <2>5
<1>5. \A t \in Slots : state'[t] \in {"INITED", state[t]} \/ state[t] # "INITED"
  BY <1>1 DEF Types
<1>6. Types'
  BY <1>1, <1>2, <1>4 DEF Types
<1>7. SlotInv'
  BY <1>1, <1>2, <1>5, SlotsKept
<1>8. QueueInv'
  BY <1>1, <1>2, <1>3, QueueKept
<1>9. WrittenInv'
  BY <1>1, <1>2 DEF WrittenInv
<1>10. QED
  BY <1>6, <1>7, <1>8, <1>9 DEF IInv

LEMMA IInvStep == IInv /\ [Next]_vars => IInv'
<1> SUFFICES ASSUME IInv, [Next]_vars PROVE IInv'
  OBVIOUS
<1>1. ASSUME NEW kind \in Kinds, NEW c \in Clients, Receive(kind, c) PROVE IInv'
  BY <1>1, ReceiveStep
<1>2. CASE ReceiveUnusable \/ Drain
  BY <1>2, SignalingKept
<1>3. CASE Start
  BY <1>3, StartStep
<1>4. CASE Describe
  BY <1>4, DescribeStep
<1>5. CASE AddCandidate
  BY <1>5, AddCandidateStep
<1>6. CASE Answer
  BY <1>6, AnswerStep
<1>7. ASSUME NEW sent \in BOOLEAN, HandleEvent(sent) PROVE IInv'
  BY <1>7, HandleEventStep
<1>8. ASSUME NEW s \in Slots, LocalCandidate(s) PROVE IInv'
  BY <1>8, LocalCandidateStep
<1>9. ASSUME NEW s \in Slots, Connected(s) \/ CloseSession(s) \/ SessionClosed(s) PROVE IInv'
  BY <1>9, SessionKept
<1>10. CASE UNCHANGED vars
  BY <1>10
     DEF vars, slotVars, outVars, IInv, Types, SlotInv, OneSlotPerClient, QueueInv, WrittenInv,
         Working
<1>11. QED
  BY <1>1, <1>2, <1>3, <1>4, <1>5, <1>6, <1>7, <1>8, <1>9, <1>10 DEF Next, Signaling, Session

LEMMA IInvAlways == Spec => []IInv
  BY InitIInv, IInvStep, PTL DEF Spec

------------------------------------------------------------------------------
(* The theorems. *)

\* The variables keep their types and the queue of the controller its capacity
\* (AppCommonContext_t, SignalingController_SendMessage).
THEOREM TypeCorrect == Spec => []TypeOK
<1>1. IInv => TypeOK
  <2> SUFFICES ASSUME IInv PROVE TypeOK
    OBVIOUS
  <2>1. Types
    BY DEF IInv
  <2>2. Range(queue) \subseteq Entries
    <3>1. queue \in Seq(Entries) /\ DOMAIN queue = 1..Len(queue)
      BY <2>1 DEF Types
    <3>2. \A i \in 1..Len(queue) : queue[i] \in Entries
      BY <3>1, ElementOfSeq
    <3>3. QED
      BY <3>1, <3>2 DEF Range
  <2>3. QED
    BY <2>1, <2>2 DEF TypeOK, Types
<1>2. QED
  BY <1>1, IInvAlways, PTL

\* What is written to the WebSocket for a client is meant for it, or is an answer
\* known to be overtaken, and no client ever has two slots
\* (AppCommon_GetPeerConnectionSession, HandleSdpOffer, HandleEvent).
THEOREM WrittenForItsClientAlways == Spec => []WrittenForItsClient
<1>1. IInv => WrittenForItsClient
  BY DEF IInv, SlotInv, WrittenInv, WrittenForItsClient
<1>2. QED
  BY <1>1, IInvAlways, PTL

\* The candidate buffers that are allocated are those the queue points to, one entry
\* to a buffer (HandleLocalCandidateReady, OnSendIceCandidateComplete).
THEOREM BuffersAccountedAlways == Spec => []BuffersAccounted
<1>1. IInv => BuffersAccounted
  BY HeapCount DEF IInv, BuffersAccounted, Pointing
<1>2. QED
  BY <1>1, IInvAlways, PTL

------------------------------------------------------------------------------
(* Master. *)

\* What Init takes and Deinit gives back.
InitInv ==
    /\ isInitialized => "struct" \in config
    /\ ~isInitialized => config = {} /\ region = NULL /\ ~isConnected /\ ~mqttConnected
    /\ at \in {"boot", "init", "idle"} => ~isInitialized
    /\ at \in {"connect", "subscribe", "createTask", "setConnected", "signaling", "barrier",
               "deleted", "disconnect"} => isInitialized

\* What Start opens and Stop closes.
ConnectionInv ==
    /\ isInitialized \in BOOLEAN /\ isConnected \in BOOLEAN
    /\ mqttConnected = (network # "closed")
    /\ telemetry # "none" => mqttConnected /\ (isConnected \/ at = "setConnected")
    /\ isConnected => at \in {"signaling", "barrier", "deleted", "stop", "disconnect"}
    /\ at \in {"disconnect", "deinit", "idle"} => telemetry = "none"
    /\ at = "connect" => ~mqttConnected
    /\ at \in {"subscribe", "createTask", "setConnected"} => mqttConnected

\* The signaling task exists once Master_Task waits for it, and for good.
SignalingInv ==
    /\ signaling # "none" => at \in {"barrier", "deleted"}
    /\ signaling \in {"listening", "connected"} => region # NULL

MasterInv == InitInv /\ ConnectionInv /\ SignalingInv

------------------------------------------------------------------------------

LEMMA MasterInvInit == MasterInit => MasterInv
  BY DEF MasterInit, IoTInit, MasterInv, InitInv, ConnectionInv, SignalingInv

LEMMA MasterTaskStep ==
    ASSUME MasterInv, MasterTask
    PROVE  MasterInv'
<1> USE DEF MasterInv, InitInv, ConnectionInv, SignalingInv, signalingVars, mqttVars
<1>1. CASE InitializeApp
  BY <1>1 DEF InitializeApp
<1>2. CASE InitSucceeds("connect") /\ UNCHANGED signalingVars
  BY <1>2 DEF InitSucceeds
<1>3. CASE InitFails("stop") /\ UNCHANGED signalingVars
  BY <1>3 DEF InitFails
<1>4. CASE Connect("stop") /\ UNCHANGED signalingVars
  <2>1. InitInv' /\ SignalingInv'
    BY <1>4 DEF Connect
  <2>2. ConnectionInv'
    <3>1. telemetry = "none" /\ ~isConnected /\ isInitialized /\ at = "connect"
      BY <1>4 DEF Connect
    <3>2. telemetry' \in {"none", "waiting"} /\ isConnected' = isConnected /\ isInitialized' = isInitialized
      BY <3>1, <1>4 DEF Connect
    <3>3. mqttConnected' = (network' # "closed")
      BY <1>4 DEF Connect
    <3>4. telemetry' # "none" => mqttConnected' /\ at' = "setConnected"
      BY <3>1, <1>4 DEF Connect
    <3>5. at' \notin {"disconnect", "deinit", "idle", "connect"}
      BY <1>4 DEF Connect
    <3>6. at' \in {"subscribe", "createTask", "setConnected"} => mqttConnected'
      BY <3>1, <1>4 DEF Connect
    <3>7. QED
      BY <3>1, <3>2, <3>3, <3>4, <3>5, <3>6
  <2>3. QED
    BY <2>1, <2>2
<1>5. CASE Subscribe("stop") /\ UNCHANGED signalingVars
  <2>1. InitInv' /\ SignalingInv'
    BY <1>5 DEF Subscribe, MqttDisconnect
  <2>2. ConnectionInv'
    <3>1. telemetry = "none" /\ ~isConnected /\ isInitialized /\ at = "subscribe"
      BY <1>5 DEF Subscribe, MqttDisconnect
    <3>2. telemetry' \in {"none", "waiting"} /\ isConnected' = isConnected /\ isInitialized' = isInitialized
      BY <3>1, <1>5 DEF Subscribe, MqttDisconnect
    <3>3. mqttConnected' = (network' # "closed")
      BY <1>5 DEF Subscribe, MqttDisconnect
    <3>4. telemetry' # "none" => mqttConnected' /\ at' = "setConnected"
      BY <3>1, <1>5 DEF Subscribe, MqttDisconnect
    <3>5. at' \notin {"disconnect", "deinit", "idle", "connect"}
      BY <1>5 DEF Subscribe, MqttDisconnect
    <3>6. at' \in {"subscribe", "createTask", "setConnected"} => mqttConnected'
      BY <3>1, <1>5 DEF Subscribe, MqttDisconnect
    <3>7. QED
      BY <3>1, <3>2, <3>3, <3>4, <3>5, <3>6
  <2>3. QED
    BY <2>1, <2>2
<1>6. CASE CreateTelemetryTask("stop") /\ UNCHANGED signalingVars
  <2>1. InitInv' /\ SignalingInv'
    BY <1>6 DEF CreateTelemetryTask, MqttDisconnect
  <2>2. ConnectionInv'
    <3>1. telemetry = "none" /\ ~isConnected /\ isInitialized /\ at = "createTask"
      BY <1>6 DEF CreateTelemetryTask, MqttDisconnect
    <3>2. telemetry' \in {"none", "waiting"} /\ isConnected' = isConnected /\ isInitialized' = isInitialized
      BY <3>1, <1>6 DEF CreateTelemetryTask, MqttDisconnect
    <3>3. mqttConnected' = (network' # "closed")
      BY <1>6 DEF CreateTelemetryTask, MqttDisconnect
    <3>4. telemetry' # "none" => mqttConnected' /\ at' = "setConnected"
      BY <3>1, <1>6 DEF CreateTelemetryTask, MqttDisconnect
    <3>5. at' \notin {"disconnect", "deinit", "idle", "connect"}
      BY <1>6 DEF CreateTelemetryTask, MqttDisconnect
    <3>6. at' \in {"subscribe", "createTask", "setConnected"} => mqttConnected'
      BY <3>1, <1>6 DEF CreateTelemetryTask, MqttDisconnect
    <3>7. QED
      BY <3>1, <3>2, <3>3, <3>4, <3>5, <3>6
  <2>3. QED
    BY <2>1, <2>2
<1>7. CASE SetConnected("signaling") /\ UNCHANGED signalingVars
  BY <1>7 DEF SetConnected
<1>8. CASE StartSignalingController
  BY <1>8 DEF StartSignalingController
<1>9. CASE WaitForBarrier
  BY <1>9 DEF WaitForBarrier
<1>10. CASE StopTelemetry /\ UNCHANGED signalingVars
  BY <1>10 DEF StopTelemetry
<1>11. CASE Disconnect /\ UNCHANGED signalingVars
  BY <1>11 DEF Disconnect, MqttDisconnect
<1>12. CASE Deinit("idle") /\ UNCHANGED signalingVars
  BY <1>12 DEF Deinit, MqttDisconnect
<1>13. QED
  BY <1>1, <1>2, <1>3, <1>4, <1>5, <1>6, <1>7, <1>8, <1>9, <1>10, <1>11, <1>12
     DEF MasterTask, StartIoTConnect, Cleanup

LEMMA SignalingTaskStep ==
    ASSUME MasterInv, SignalingTask
    PROVE  MasterInv'
<1> USE DEF MasterInv, InitInv, ConnectionInv, SignalingInv, iotVars
<1>1. CASE StartListening
  BY <1>1 DEF StartListening
<1>2. CASE SignalingConnected
  BY <1>2 DEF SignalingConnected
<1>3. CASE UNCHANGED <<iotVars, signaling, barrier>>
  BY <1>3
<1>4. QED
  BY <1>1, <1>2, <1>3 DEF SignalingTask, OnSignalingMessageReceived, StartSession, ForgetServers

LEMMA TelemetryStep ==
    ASSUME MasterInv, Telemetry, UNCHANGED signalingVars
    PROVE  MasterInv'
<1> USE DEF MasterInv, InitInv, ConnectionInv, SignalingInv, signalingVars, mqttVars
<1>1. CASE TelemetryDue
  BY <1>1 DEF TelemetryDue
<1>2. CASE TelemetrySent
  BY <1>2 DEF TelemetrySent
<1>3. CASE ConnectionLost
  BY <1>3 DEF ConnectionLost
<1>4. QED
  BY <1>1, <1>2, <1>3 DEF Telemetry

LEMMA MasterInvStep == MasterInv /\ [MasterNext]_masterVars => MasterInv'
<1> SUFFICES ASSUME MasterInv, [MasterNext]_masterVars PROVE MasterInv'
  OBVIOUS
<1>1. CASE MasterTask
  BY <1>1, MasterTaskStep
<1>2. CASE SignalingTask
  BY <1>2, SignalingTaskStep
<1>3. CASE Telemetry /\ UNCHANGED signalingVars
  BY <1>3, TelemetryStep
<1>4. CASE UNCHANGED <<iotVars, signaling, barrier>>
  BY <1>4 DEF MasterInv, InitInv, ConnectionInv, SignalingInv, iotVars
<1>5. QED
  BY <1>1, <1>2, <1>3, <1>4 DEF MasterNext, ForgetServers, masterVars, signalingVars

\* The telemetry task publishes on a connected client, the signaling task keeps its
\* region and the settings, and a master that has given up holds no connection, no task
\* and no settings (Master_Task, IoTConnect_Start, IoTConnect_Stop, IoTConnect_Deinit).
THEOREM UsersHaveTheirDataAlways == MasterSpec => []UsersHaveTheirData
<1>1. MasterInv => UsersHaveTheirData
  BY DEF MasterInv, InitInv, ConnectionInv, SignalingInv, UsersHaveTheirData
<1>2. QED
  BY <1>1, MasterInvInit, MasterInvStep, PTL DEF MasterSpec
==============================================================================
