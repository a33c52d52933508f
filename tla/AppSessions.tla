----------------------------- MODULE AppSessions -----------------------------
(***************************************************************************)
(* The application between the signaling channel and the peer connection   *)
(* sessions (app_common.c): which session slot serves which client, how an *)
(* offer becomes an answer and how candidates travel both ways.            *)
(*                                                                         *)
(* The signaling task receives messages (OnSignalingMessageReceived runs   *)
(* inside Websocket_Recv, several times when several messages have         *)
(* arrived), then empties the queue of outgoing messages and writes each   *)
(* of them to the WebSocket.  The tasks of the sessions report local       *)
(* candidates and close sessions at any time.  An answer is not copied     *)
(* into the queue: the entry points to sdpBuffer, which all slots share.   *)
(*                                                                         *)
(* The life of a session is reduced to what this code sees of it; the      *)
(* module PeerConnectionSession has it in full.                            *)
(***************************************************************************)
EXTENDS Naturals, Sequences, FiniteSets, Functions

CONSTANTS
    Clients,        \* the remote clients
    MaxViewers,     \* AWS_MAX_VIEWER_NUM
    QueueCap,       \* MAX_QUEUE_MSG_NUM of the signaling controller
    MaxMessages,    \* bound: messages received
    MaxLocal        \* bound: local candidates reported in a life of a session

ASSUME AppConstants ==
    /\ "nobody" \notin Clients
    /\ MaxViewers \in Nat \ {0} /\ QueueCap \in Nat \ {0}
    /\ MaxMessages \in Nat /\ MaxLocal \in Nat

VARIABLES
    client,     \* remoteClientId of each slot; never cleared
    owner,      \* history: the client for whom the session of the slot was last started
    state,      \* peerConnectionSession.state of each slot
    closing,    \* a task of the slot is between CloseSession and the reset to INITED
    closeTimer, \* closeSessionTimer of the slot is armed
    toReport,   \* local candidates the slot has still to report
    sdpBuffer,  \* pAppContext->sdpBuffer: the kind of text and whose it is
    queue,      \* sendMessageQueue of the signaling controller
    heap,       \* the candidate buffers that are allocated
    task,       \* where the signaling task is, with its message and slot
    received,   \* number of messages received so far
    written     \* history: what was last written to the WebSocket

slotVars == <<client, owner, state, closing, closeTimer, toReport>>
outVars == <<queue, heap>>
vars == <<slotVars, sdpBuffer, outVars, task, received, written>>

Slots == 1..MaxViewers
Nobody == "nobody"
Kinds == {"offer", "answer", "candidate"}
States == {"INITED", "START", "ACTIVE", "READY", "CLOSING"}
Texts == [kind : {"none", "offer", "answer"}, of : Clients \cup {Nobody}]
Buffers == [for : Clients, number : 1..(QueueCap + 1)]
Entries == [kind : {"answer"}, to : Clients, overtaken : BOOLEAN]
           \cup [kind : {"candidate"}, to : Clients, buffer : Buffers]

Nothing == [entry |-> Nobody]
Idle == [at |-> "recv"]
At(step, kind, from, slot) == [at |-> step, kind |-> kind, from |-> from, slot |-> slot]

\* AppCommon_Init, then the task has connected.
Init ==
    /\ client = [s \in Slots |-> Nobody] /\ owner = client
    /\ state = [s \in Slots |-> "INITED"]
    /\ closing = [s \in Slots |-> FALSE]
    /\ closeTimer = [s \in Slots |-> FALSE]
    /\ toReport = [s \in Slots |-> 0]
    /\ sdpBuffer = [kind |-> "none", of |-> Nobody]
    /\ queue = <<>> /\ heap = {} /\ task = Idle /\ received = 0 /\ written = Nothing

------------------------------------------------------------------------------
(* The slot of a client. *)

Free(s) == state[s] = "INITED"
First(S) == CHOOSE s \in S : \A t \in S : s <= t

\* The loop of AppCommon_GetPeerConnectionSession: the slot that has served this
\* client, in whatever state it is, or else the first one that is free.
PickSlot(c) ==
    LET mine == {s \in Slots : client[s] = c}
        free == {s \in Slots : Free(s)}
    IN  CASE mine # {} -> First(mine)
          [] mine = {} /\ free # {} -> First(free)
          [] OTHER -> 0

\* Entries of the queue that point to sdpBuffer now point to another text.
Overtake(q) ==
    [i \in DOMAIN q |-> IF q[i].kind = "answer" THEN [q[i] EXCEPT !.overtaken = TRUE] ELSE q[i]]

------------------------------------------------------------------------------
(* The signaling task receives.  What arrives while it is busy waits in the   *)
(* socket, so a message is chosen when the task takes it.                     *)

\* OnSignalingMessageReceived, the first part of the handlers: the SDP is extracted
\* and its newlines are translated into sdpBuffer; a slot is looked up.
Receive(kind, c) ==
    /\ task = Idle /\ received < MaxMessages
    /\ received' = received + 1
    /\ IF kind = "candidate"
       THEN UNCHANGED <<sdpBuffer, queue>>
       ELSE sdpBuffer' = [kind |-> kind, of |-> c] /\ queue' = Overtake(queue)
    /\ task' = IF PickSlot(c) = 0 THEN Idle ELSE At("start", kind, c, PickSlot(c))
    /\ UNCHANGED <<slotVars, heap, written>>

\* The SDP cannot be found in the message: nothing has been touched.
ReceiveUnusable ==
    /\ task = Idle /\ received < MaxMessages
    /\ received' = received + 1
    /\ UNCHANGED <<slotVars, sdpBuffer, outVars, task, written>>

\* Mutant: only a slot that never had a client is given one.
Start_KeepsOldClient ==
    /\ task.at = "start"
    /\ \/ /\ Free(task.slot)
          /\ client' = [client EXCEPT ![task.slot] = IF @ = Nobody THEN task.from ELSE @]
          /\ owner' = [owner EXCEPT ![task.slot] = task.from]
          /\ state' = [state EXCEPT ![task.slot] = "START"]
          /\ task' = [task EXCEPT !.at = "use"]
       \/ Free(task.slot) /\ task' = Idle /\ UNCHANGED <<client, owner, state>>
       \/ ~Free(task.slot) /\ task' = [task EXCEPT !.at = "use"]
          /\ UNCHANGED <<client, owner, state>>
    /\ UNCHANGED <<closing, closeTimer, toReport, sdpBuffer, outVars, received, written>>

\* StartPeerConnectionSession when the slot is free at this point: the ICE servers
\* are fetched, the transceivers are added, the client is noted and the session is
\* started, or the message is dropped.  What may fail (the servers, a transceiver) comes
\* before the client is noted; PeerConnection_Start itself refuses only a NULL session.
Start ==
    /\ task.at = "start"
    /\ \/ /\ Free(task.slot)
          /\ client' = [client EXCEPT ![task.slot] = task.from]
          /\ owner' = [owner EXCEPT ![task.slot] = task.from]
          /\ state' = [state EXCEPT ![task.slot] = "START"]
          /\ task' = [task EXCEPT !.at = "use"]
       \/ Free(task.slot) /\ task' = Idle /\ UNCHANGED <<client, owner, state>>
       \/ ~Free(task.slot) /\ task' = [task EXCEPT !.at = "use"]
          /\ UNCHANGED <<client, owner, state>>
    /\ UNCHANGED <<closing, closeTimer, toReport, sdpBuffer, outVars, received, written>>

\* PeerConnection_SetRemoteDescription: when it succeeds candidates are gathered and
\* the state is set whatever it was; when it fails the handler of an offer goes on
\* all the same.
Describe ==
    /\ task.at = "use" /\ task.kind \in {"offer", "answer"}
    /\ \/ /\ state' = [state EXCEPT ![task.slot] = "ACTIVE"]
          /\ toReport' = [toReport EXCEPT ![task.slot] = MaxLocal]
       \/ UNCHANGED <<state, toReport>>
    /\ task' = IF task.kind = "offer" THEN [task EXCEPT !.at = "answer"] ELSE Idle
    /\ UNCHANGED <<client, owner, closing, closeTimer, sdpBuffer, outVars, received, written>>

\* HandleRemoteCandidate: the first candidate of a session without SDP arms the timer.
AddCandidate ==
    /\ task.at = "use" /\ task.kind = "candidate"
    /\ closeTimer' = [closeTimer EXCEPT ![task.slot] = @ \/ state[task.slot] = "START"]
    /\ task' = Idle
    /\ UNCHANGED <<client, owner, state, closing, toReport, sdpBuffer, outVars, received, written>>

\* The last part of HandleSdpOffer: the answer is constructed, serialized into
\* sdpBuffer and queued for the sender, without a copy and without a completion
\* callback; a full queue drops it.  Each of these steps may fail.
Answer ==
    /\ task.at = "answer"
    /\ \/ UNCHANGED <<sdpBuffer, queue>>
       \/ /\ sdpBuffer' = [kind |-> "answer", of |-> task.from]
          /\ queue' = IF Len(queue) < QueueCap
                      THEN Append(queue, [kind |-> "answer", to |-> task.from, overtaken |-> FALSE])
                      ELSE queue
    /\ task' = Idle
    /\ UNCHANGED <<slotVars, heap, received, written>>

------------------------------------------------------------------------------
(* The signaling task empties its queue once Websocket_Recv has returned. *)

Drain ==
    /\ task = Idle /\ queue # <<>>
    /\ task' = [at |-> "drain"]
    /\ UNCHANGED <<slotVars, sdpBuffer, outVars, received, written>>

\* What HandleEvent reads when it encodes a message.
TextOf(entry) ==
    IF entry.kind = "answer" THEN sdpBuffer ELSE [kind |-> "candidate", of |-> entry.buffer.for]

\* Mutant: the completion callback is called for messages that were sent only.
HandleEvent_CompletesSentOnly(sent) ==
    LET entry == Head(queue)
    IN  /\ task.at = "drain" /\ queue # <<>>
        /\ queue' = Tail(queue)
        /\ written' = IF sent THEN [entry |-> entry, text |-> TextOf(entry)] ELSE Nothing
        /\ heap' = IF entry.kind = "candidate" /\ sent THEN heap \ {entry.buffer} ELSE heap
        /\ task' = IF queue' = <<>> THEN Idle ELSE task
        /\ UNCHANGED <<slotVars, sdpBuffer, received>>

\* HandleEvent of a message: it is encoded, written, and completed either way; the
\* callback of a candidate (OnSendIceCandidateComplete) frees its buffer.
HandleEvent(sent) ==
    LET entry == Head(queue)
    IN  /\ task.at = "drain" /\ queue # <<>>
        /\ queue' = Tail(queue)
        /\ written' = IF sent THEN [entry |-> entry, text |-> TextOf(entry)] ELSE Nothing
        /\ heap' = IF entry.kind = "candidate" THEN heap \ {entry.buffer} ELSE heap
        /\ task' = IF queue' = <<>> THEN Idle ELSE task
        /\ UNCHANGED <<slotVars, sdpBuffer, received>>

Signaling ==
    \/ \E kind \in Kinds, c \in Clients : Receive(kind, c)
    \/ ReceiveUnusable
    \/ Start \/ Describe \/ AddCandidate \/ Answer
    \/ Drain \/ \E sent \in BOOLEAN : HandleEvent(sent)

------------------------------------------------------------------------------
(* The tasks of the sessions. *)

\* Mutant: the queue takes a message even when it is full.
LocalCandidate_Unbounded(s) ==
    /\ state[s] \in {"ACTIVE", "READY", "CLOSING"} /\ toReport[s] > 0
    /\ toReport' = [toReport EXCEPT ![s] = @ - 1]
    /\ LET buffer == CHOOSE b \in Buffers \ heap : b.for = owner[s]
       IN  /\ heap' = heap \cup {buffer}
           /\ queue' = Append(queue, [kind |-> "candidate", to |-> client[s], buffer |-> buffer])
    /\ UNCHANGED <<client, owner, state, closing, closeTimer, sdpBuffer, task, received, written>>

\* HandleLocalCandidateReady: the text is put into a buffer of its own, which the
\* completion callback frees, or the reporter when the queue is full.
LocalCandidate(s) ==
    /\ state[s] \in {"ACTIVE", "READY", "CLOSING"} /\ toReport[s] > 0
    /\ toReport' = [toReport EXCEPT ![s] = @ - 1]
    /\ LET buffer == CHOOSE b \in Buffers \ heap : b.for = owner[s]
       IN  IF Len(queue) < QueueCap
           THEN /\ heap' = heap \cup {buffer}
                /\ queue' = Append(queue, [kind |-> "candidate", to |-> client[s], buffer |-> buffer])
           ELSE UNCHANGED outVars
    /\ UNCHANGED <<client, owner, state, closing, closeTimer, sdpBuffer, task, received, written>>

\* The handshake completes.
Connected(s) ==
    /\ state[s] = "ACTIVE" /\ ~closing[s]
    /\ state' = [state EXCEPT ![s] = "READY"]
    /\ UNCHANGED <<client, owner, closing, closeTimer, toReport, sdpBuffer, outVars, task, received, written>>

\* PeerConnection_CloseSession: on a loss, a deadline, or the timer of a session
\* that still waits for its SDP.
CloseSession(s) ==
    /\ ~closing[s]
    /\ state[s] \in {"ACTIVE", "READY"} \/ (state[s] = "START" /\ closeTimer[s])
    /\ state' = [state EXCEPT ![s] = "CLOSING"]
    /\ closing' = [closing EXCEPT ![s] = TRUE]
    /\ closeTimer' = [closeTimer EXCEPT ![s] = FALSE]
    /\ UNCHANGED <<client, owner, toReport, sdpBuffer, outVars, task, received, written>>

\* OnClosePeerConnection: the slot is free again, remoteClientId stays.
SessionClosed(s) ==
    /\ closing[s]
    /\ closing' = [closing EXCEPT ![s] = FALSE]
    /\ state' = [state EXCEPT ![s] = "INITED"]
    /\ toReport' = [toReport EXCEPT ![s] = 0]
    /\ UNCHANGED <<client, owner, closeTimer, sdpBuffer, outVars, task, received, written>>

Session(s) == LocalCandidate(s) \/ Connected(s) \/ CloseSession(s) \/ SessionClosed(s)

Next == Signaling \/ \E s \in Slots : Session(s)

Spec == Init /\ [][Next]_vars

------------------------------------------------------------------------------
(* Properties. *)

\* Every variable keeps its type and the queue of the controller its capacity.
TypeOK ==
    /\ client \in [Slots -> Clients \cup {Nobody}] /\ owner \in [Slots -> Clients \cup {Nobody}]
    /\ state \in [Slots -> States]
    /\ closing \in [Slots -> BOOLEAN] /\ closeTimer \in [Slots -> BOOLEAN]
    /\ toReport \in [Slots -> 0..MaxLocal]
    /\ sdpBuffer \in Texts
    /\ Range(queue) \subseteq Entries /\ Len(queue) <= QueueCap
    /\ heap \subseteq Buffers /\ received \in 0..MaxMessages

\* A client never has two slots, however sessions end and clients come back while
\* remoteClientId of old sessions is never cleared (AppCommon_GetPeerConnectionSession).
OneSlotPerClient ==
    \A s, t \in Slots : client[s] = client[t] /\ client[s] # Nobody => s = t

\* What is written for a client is meant for it: a candidate was gathered by the
\* session of that client, and an answer answers its offer, unless another SDP was
\* handled while the answer waited in the queue and changed the shared buffer.
WrittenForItsClient ==
    /\ OneSlotPerClient
    /\ written # Nothing =>
        \/ written.text = [kind |-> written.entry.kind, of |-> written.entry.to]
        \/ written.entry.kind = "answer" /\ written.entry.overtaken

\* Every candidate buffer is freed exactly once: what is allocated is what the
\* entries of the queue still point to, one entry to a buffer
\* (HandleLocalCandidateReady, OnSendIceCandidateComplete).
BuffersAccounted ==
    LET pointing == {i \in DOMAIN queue : queue[i].kind = "candidate"}
    IN  /\ heap = {queue[i].buffer : i \in pointing}
        /\ Cardinality(heap) = Cardinality(pointing)

==============================================================================
