--------------------------- MODULE IceController ---------------------------
(***************************************************************************)
(* The ICE controller of one session: socket contexts, local candidates,   *)
(* candidate pairs, the nomination and the close.  Two tasks work on them: *)
(*   "session"   gathers candidates, sends checks and TURN requests and    *)
(*               closes, one timer request at a time                       *)
(*   "listener"  handles what the sockets receive                          *)
(* and a third sends media.  Every section under socketMutex is one step;  *)
(* iceMutex, which the session task keeps over many such sections, is the  *)
(* variable lock.  The ICE library (coreICE) is external: its candidates   *)
(* and pairs are modelled by what the controller asks of it.               *)
(***************************************************************************)
EXTENDS Naturals, Sequences, FiniteSets

CONSTANTS
    MaxContexts,   \* ICE_CONTROLLER_MAX_LOCAL_CANDIDATE_COUNT
    IceServers,    \* iceServers: a sequence of [type, protocol]
    NatConfig,     \* the bits of natTraversalConfigBitmap that are set
    Remotes,       \* remote candidates: a set of [id, family, protocol, type]
    MaxFaults,     \* bound: calls that fail (sockets, TLS, DNS, sends, reads)
    MaxStarts      \* bound: lives of the session

ASSUME BoundsAssumption ==
    MaxContexts \in Nat \ {0} /\ MaxFaults \in Nat /\ MaxStarts \in Nat
ASSUME ServersAssumption ==
    \A i \in DOMAIN IceServers : /\ IceServers[i].type \in {"STUN", "TURN", "TURNS"}
                                 /\ IceServers[i].protocol \in {"UDP", "TCP"}

VARIABLES
    iceState,   \* pCtx->state
    sock,       \* socketsContexts
    count,      \* socketsContextsCount
    nominated,  \* index of pNominatedSocketContext, 0 for NULL
    polling,    \* executeSocketListener
    addLocal,   \* addLocalCandidates
    timer,      \* timerHandler is armed
    request,    \* the ICE request in the queue of the session task
    closeReq,   \* PEER_CONNECTION_CLOSE is in that queue
    cands,      \* iceContext.pLocalCandidates
    remotes,    \* iceContext.pRemoteCandidates
    pairs,      \* iceContext.pCandidatePairs: <<local index, remote>>
    lock,       \* holder of iceMutex
    session,    \* the session task: step, index, gathering jobs, the kind being
                \* gathered, TLS result, late
    listener,   \* the listener: step, socket, peer, ret
    expired,    \* connectivityCheckTimeoutMs has passed
    raced,      \* a task freed a context that the other one was working on, or reused it
    doubled,    \* two tasks made a local candidate at the same time, or for two lives
    deaf,       \* the listener closed the nominated socket
    reopened,   \* a nomination has overtaken a close that was under way
    budget      \* faults and starts left

sockVars == <<sock, count, nominated>>
iceVars == <<cands, remotes, pairs>>
requestVars == <<timer, request, closeReq>>
envVars == <<expired, raced, doubled, deaf, reopened, budget>>
vars == <<iceState, sockVars, polling, addLocal, requestVars, iceVars, lock, session,
          listener, envVars>>

Slots == 1..MaxContexts
SlotStates == {"NONE", "PROGRESS", "CREATE", "READY", "SELECTED"}
NoPeer == [id |-> 0, family |-> "none", protocol |-> "none", type |-> "none"]
\* A candidate to gather: the one of the host, or one that a server is asked for.
Kinds == {"host", "srflx", "relay"}
Job == [kind : Kinds, server : {0} \cup DOMAIN IceServers]
Results == {"none", "SUCCESS", "IN_PROGRESS", "FAIL"}

FreeSlot == [state |-> "NONE", open |-> FALSE, tls |-> FALSE, cand |-> 0, peer |-> NoPeer]

Init ==
    /\ iceState = "NEW" /\ sock = [i \in Slots |-> FreeSlot] /\ count = 0 /\ nominated = 0
    /\ polling = FALSE /\ addLocal = FALSE /\ timer = FALSE /\ request = "none" /\ closeReq = FALSE
    /\ cands = <<>> /\ remotes = {} /\ pairs = {} /\ lock = "free"
    /\ session = [at |-> "idle", i |-> 0, jobs |-> {}, kind |-> "none", tls |-> "none", late |-> FALSE]
    /\ listener = [at |-> "idle", i |-> 0, peer |-> NoPeer, ret |-> "OK"]
    /\ expired = FALSE /\ raced = FALSE /\ doubled = FALSE /\ deaf = FALSE /\ reopened = FALSE
    /\ budget = [faults |-> MaxFaults, starts |-> MaxStarts]

Fault == budget.faults > 0 /\ budget' = [budget EXCEPT !.faults = @ - 1]
NoFault == UNCHANGED budget
Live(i) == i <= count /\ sock[i].state # "NONE"
Kind(i) == IF sock[i].cand \in DOMAIN cands THEN cands[sock[i].cand].kind ELSE "none"
InListener == listener.at # "idle"
InSession(i) == session.at # "idle" /\ session.i = i

\* Packets come to a socket once its candidate has been announced or has sent a request.
Reachable(i) == Live(i) /\ sock[i].open /\ sock[i].cand \in DOMAIN cands

------------------------------------------------------------------------------
(* The ICE library, as the controller uses it. *)

\* The array of local candidates is as long as that of the contexts.
LibraryFull == Len(cands) >= MaxContexts

\* Ice_AddHostCandidate, Ice_AddServerReflexiveCandidate, Ice_AddRelayCandidate:
\* the address of a host candidate is known, the others ask a server for it.
Ice_AddCandidate(kind) ==
    /\ cands' = Append(cands, [kind |-> kind, valid |-> kind = "host", closing |-> FALSE])
    /\ pairs' = IF kind = "host" THEN pairs \cup {<<Len(cands) + 1, r>> : r \in remotes}
                                 ELSE pairs

\* A candidate whose address has become known is paired with the remote ones.
Ice_Validate(c) ==
    /\ cands' = [cands EXCEPT ![c].valid = TRUE]
    /\ pairs' = pairs \cup {<<c, r>> : r \in remotes}

\* Ice_CloseCandidate: a relay candidate asks the server to end its allocation.
Ice_CloseCandidate(c) ==
    cands' = IF c \in DOMAIN cands THEN [cands EXCEPT ![c].closing = TRUE] ELSE cands

------------------------------------------------------------------------------
(* Socket contexts. *)

\* IceControllerNet_FreeSocketContext: nothing happens without a socket.
FreeSocketContext(s, i) ==
    IF s[i].open THEN [s EXCEPT ![i].open = FALSE, ![i].state = "NONE"] ELSE s

\* IceControllerNet_UpdateSocketContext: whatever has become of the socket.
UpdateSocketContext(s, i, st, c, peer) ==
    [s EXCEPT ![i].state = st, ![i].cand = c, ![i].peer = peer]

\* FindSocketContextByLocalCandidate: the last context with that candidate.
FindSocketContext(c, i) ==
    sock[i].cand = c /\ \A j \in (i + 1)..count : sock[j].cand # c

\* IceControllerNet_UpdateTimerInterval arms the timer again.
Arm == timer' = TRUE

\* Mutant: the loss of the nominated socket is not reported.
SendPacketFails_Silent(i) ==
    /\ Live(i) /\ (IF sock[i].open THEN Fault ELSE NoFault)
    /\ Ice_CloseCandidate(sock[i].cand)
    /\ sock' = FreeSocketContext(sock, i)
    /\ raced' = (raced \/ (InListener /\ listener.i = i))
    /\ UNCHANGED <<closeReq, timer, pairs>>

\* A send that fails closes the candidate and the socket; on the nominated socket
\* it also asks the session to close (IceControllerNet_SendPacket).  The code frees the
\* context under socketMutex and tells the session right after it: one step here, so that
\* a step of another task between the two is not in the model.
SendPacketFails(i) ==
    /\ Live(i) /\ (IF sock[i].open THEN Fault ELSE NoFault)
    /\ Ice_CloseCandidate(sock[i].cand)
    /\ sock' = FreeSocketContext(sock, i)
    /\ raced' = (raced \/ (InListener /\ listener.i = i))
    /\ IF i = nominated
       THEN closeReq' = TRUE /\ Arm
       ELSE UNCHANGED <<closeReq, timer>>
    /\ UNCHANGED pairs

\* The packet leaves, or the context has been closed and sending is skipped.
SendPacketOk(i) ==
    (~Live(i) \/ sock[i].open) /\ UNCHANGED <<cands, pairs, sock, raced, closeReq, timer, budget>>

SendPacket(i) == SendPacketOk(i) \/ SendPacketFails(i)

------------------------------------------------------------------------------
(* Start and the timer. *)

\* IceController_Start: the library is initialised, sockets left open are closed.
IceController_Start ==
    /\ iceState \in {"NEW", "CLOSED"} /\ session.at = "idle" /\ lock = "free"
    /\ ~closeReq /\ request = "none"
    /\ budget.starts > 0 /\ budget' = [budget EXCEPT !.starts = @ - 1]
    /\ cands' = <<>> /\ remotes' = {} /\ pairs' = {}
    /\ sock' = [i \in Slots |-> FreeSocketContext(sock, i)[i]]
    /\ count' = 0 /\ nominated' = 0
    /\ iceState' = "PROCESS" /\ addLocal' = TRUE /\ polling' = TRUE /\ expired' = FALSE
    /\ request' = "PROCESS"
    /\ raced' = (raced \/ InListener)
    /\ doubled' = (doubled \/ InListener)
    /\ UNCHANGED <<timer, closeReq, lock, session, listener, deaf, reopened>>

\* OnTimerExpire posts the request of the state the controller is in.
TimerExpires ==
    /\ timer /\ request = "none"
    /\ timer' = FALSE
    /\ request' = IF iceState \in {"PROCESS", "READY", "CLOSING"} THEN iceState ELSE "none"
    /\ UNCHANGED <<iceState, sockVars, polling, addLocal, closeReq, iceVars, lock, session, listener, envVars>>

\* connectivityCheckTimeoutMs passes.
DeadlinePasses ==
    /\ iceState = "PROCESS" /\ ~expired /\ expired' = TRUE
    /\ UNCHANGED <<iceState, sockVars, polling, addLocal, requestVars, iceVars, lock, session,
                   listener, raced, doubled, deaf, reopened, budget>>

------------------------------------------------------------------------------
(* The session task: remote candidates. *)

\* IceController_AddRemoteCandidate takes IPv4/UDP candidates of the types allowed.
Acceptable(r) ==
    /\ r.family = "IPv4" /\ r.protocol = "UDP"
    /\ (r.type = "prflx" \/ r.type \in NatConfig)

IceController_AddRemoteCandidate ==
    /\ session.at = "idle" /\ iceState \in {"PROCESS", "READY"} /\ lock = "free"
    /\ \E r \in Remotes \ remotes :
         /\ Acceptable(r)
         /\ remotes' = remotes \cup {r}
         /\ pairs' = pairs \cup {<<c, r>> : c \in {d \in DOMAIN cands : cands[d].valid}}
    /\ UNCHANGED <<iceState, sockVars, polling, addLocal, requestVars, cands, lock, session,
                   listener, envVars>>

------------------------------------------------------------------------------
(* The session task: gathering local candidates. *)

\* AddRelayCandidates serves TURN over UDP and TURNS over TCP.
RelayUsable(s) ==
    (s.type = "TURN" /\ s.protocol = "UDP") \/ (s.type = "TURNS" /\ s.protocol = "TCP")

\* IceControllerNet_AddLocalCandidates: a host candidate, a reflexive one for each
\* STUN server, a relay for each TURN server.
GatherJobs ==
    {job \in Job :
        \/ job.kind = "host" /\ job.server = 0 /\ "sendHost" \in NatConfig
        \/ /\ job.kind = "srflx" /\ job.server # 0 /\ "sendSrflx" \in NatConfig
           /\ IceServers[job.server].type = "STUN"
        \/ /\ job.kind = "relay" /\ job.server # 0 /\ "sendRelay" \in NatConfig
           /\ RelayUsable(IceServers[job.server])}

\* The job that comes first: by kind, then in the order of the servers.
Phase == [host |-> 0, srflx |-> 1, relay |-> 2]
IsNext(job) ==
    /\ session.at = "gather" /\ job \in session.jobs
    /\ \A other \in session.jobs :
         \/ Phase[job.kind] < Phase[other.kind]
         \/ job.kind = other.kind /\ job.server <= other.server

\* A TURN server is connected over TLS when its protocol is TCP.
OverTls(job) == job.kind = "relay" /\ IceServers[job.server].protocol = "TCP"

\* IceController_ProcessIceCandidatesAndPairs begins: local candidates come first.
ProcessIceCandidatesAndPairs ==
    /\ session.at = "idle" /\ request = "PROCESS"
    /\ request' = "none" /\ addLocal' = FALSE
    /\ session' = [session EXCEPT !.at = "gather", !.late = expired,
                                  !.jobs = IF addLocal THEN GatherJobs ELSE {}]
    /\ UNCHANGED <<iceState, sockVars, polling, timer, closeReq, iceVars, lock, listener, envVars>>

Skip(job) == session' = [session EXCEPT !.jobs = @ \ {job}]

\* No socket context is left, DNS, bind() or the TLS connection fails: the job ends
\* and the context is given back.
GatherFails ==
    /\ \E job \in session.jobs : IsNext(job) /\ Skip(job)
    /\ (IF count = MaxContexts THEN NoFault ELSE Fault)
    /\ UNCHANGED <<iceState, sockVars, polling, addLocal, requestVars, iceVars, lock, listener,
                   expired, raced, doubled, deaf, reopened>>

\* socket() fails: the context stays counted.
GatherNoSocket ==
    /\ \E job \in session.jobs : IsNext(job) /\ ~OverTls(job) /\ Skip(job)
    /\ count < MaxContexts /\ Fault
    /\ count' = count + 1 /\ sock' = [sock EXCEPT ![count + 1].open = FALSE]
    /\ UNCHANGED <<iceState, nominated, polling, addLocal, requestVars, iceVars, lock, listener,
                   expired, raced, doubled, deaf, reopened>>

\* Mutant: the number of contexts is not compared with the limit.
CreateSocketContext_Unbounded ==
    /\ count' = count + 1
    /\ sock' = [sock EXCEPT ![count + 1].open = TRUE]
    /\ \E job \in session.jobs :
         /\ IsNext(job)
         /\ session' = [session EXCEPT !.i = count + 1, !.at = "add", !.kind = job.kind,
                                       !.jobs = @ \ {job}]
    /\ UNCHANGED <<iceState, nominated, polling, addLocal, requestVars, iceVars, lock, listener, envVars>>

\* CreateSocketContextUdp and CreateSocketContextTcp: the next context gets a socket,
\* a TLS connection is at first in progress.
CreateSocketContext ==
    /\ count < MaxContexts
    /\ \E job \in session.jobs :
         /\ IsNext(job)
         /\ count' = count + 1
         /\ sock' = [sock EXCEPT ![count + 1].open = TRUE, ![count + 1].tls = OverTls(job)]
         /\ session' = [session EXCEPT !.i = count + 1, !.jobs = @ \ {job}, !.kind = job.kind,
                                       !.at = IF OverTls(job) THEN "update" ELSE "add",
                                       !.tls = IF OverTls(job) THEN "IN_PROGRESS" ELSE "SUCCESS"]
    /\ UNCHANGED <<iceState, nominated, polling, addLocal, requestVars, iceVars, lock, listener, envVars>>

\* The candidate enters the ICE library; if that fails the socket is closed.
AddCandidate ==
    /\ session.at = "add" /\ lock = "free"
    /\ doubled' = (doubled \/ listener.at = "tlsUpdate")
    /\ \/ /\ ~LibraryFull /\ Ice_AddCandidate(session.kind) /\ NoFault
          /\ session' = [session EXCEPT !.at = "update"]
          /\ UNCHANGED <<sock, raced>>
       \/ /\ (IF LibraryFull THEN NoFault ELSE Fault)
          /\ sock' = FreeSocketContext(sock, session.i)
          /\ session' = [session EXCEPT !.at = "gather", !.kind = "none",
                                        !.jobs = {job \in @ : job.kind # session.kind}]
          /\ raced' = (raced \/ (InListener /\ listener.i = session.i))
          /\ UNCHANGED <<cands, pairs>>
    /\ UNCHANGED <<iceState, count, nominated, polling, addLocal, requestVars, remotes, lock,
                   listener, expired, deaf, reopened>>

\* The context learns its candidate: the newest of the library, looked up after
\* iceMutex was given back.
UpdateGathered ==
    /\ session.at = "update"
    /\ sock' = IF session.tls = "IN_PROGRESS"
               THEN UpdateSocketContext(sock, session.i, "PROGRESS", 0, NoPeer)
               ELSE UpdateSocketContext(sock, session.i, IF session.kind = "host" THEN "READY" ELSE "CREATE",
                                        Len(cands), NoPeer)
    /\ session' = [session EXCEPT !.at = "gather", !.kind = "none"]
    /\ UNCHANGED <<iceState, count, nominated, polling, addLocal, requestVars, iceVars, lock,
                   listener, envVars>>

\* The host candidate cannot be sent to the remote peer (LOCAL_CANDIDATE_READY fails): the
\* socket is closed, the candidate stays in the library.
CandidateNotSent ==
    /\ session.at = "update" /\ session.kind = "host" /\ Fault
    /\ sock' = FreeSocketContext(sock, session.i)
    /\ raced' = (raced \/ (InListener /\ listener.i = session.i))
    /\ session' = [session EXCEPT !.at = "gather", !.kind = "none"]
    /\ UNCHANGED <<iceState, count, nominated, polling, addLocal, requestVars, iceVars, lock,
                   listener, expired, doubled, deaf, reopened>>

------------------------------------------------------------------------------
(* The session task: requests, TLS handshakes, the deadline. *)

NothingSent == UNCHANGED <<cands, pairs, sock, raced, closeReq, timer, budget>>

\* HandleCandidatePairRequest: a request for the pair leaves through the given context, or
\* through that of its local candidate if there is one.
CandidatePairRequest(i, pair) ==
    \E target \in 1..count :
        /\ IF i = 0 THEN FindSocketContext(pair[1], target) ELSE target = i
        /\ SendPacketFails(target)

\* ProcessCandidatePairs, under iceMutex: a request for each pair, one of which may fail.
ProcessCandidatePairs ==
    /\ session.at = "gather" /\ session.jobs = {} /\ lock = "free"
    /\ NothingSent \/ (\E p \in pairs : CandidatePairRequest(0, p))
    /\ lock' = "session" /\ session' = [session EXCEPT !.at = "local", !.i = 1]
    /\ UNCHANGED <<iceState, count, nominated, polling, addLocal, request, remotes, listener,
                   expired, doubled, deaf, reopened>>

\* IceController_PeriodConnectionCheck: one request on the nominated pair.
PeriodConnectionCheck ==
    /\ session.at = "idle" /\ request = "READY" /\ lock = "free"
    /\ request' = "none"
    /\ IF nominated # 0 /\ sock[nominated].cand # 0
       THEN /\ NothingSent \/ CandidatePairRequest(nominated, <<sock[nominated].cand, sock[nominated].peer>>)
            /\ lock' = "session" /\ session' = [session EXCEPT !.at = "local", !.i = 1]
       ELSE NothingSent /\ UNCHANGED <<lock, session>>
    /\ UNCHANGED <<iceState, count, nominated, polling, addLocal, remotes, listener, expired, doubled,
                   deaf, reopened>>

\* ProcessLocalCandidates, one context: a TLS handshake to continue, or a request.
LocalCandidate ==
    /\ session.at = "local" /\ session.i <= count
    /\ IF sock[session.i].state = "PROGRESS"
       THEN /\ session' = [session EXCEPT !.at = "tls"]
            /\ NothingSent
       ELSE /\ IF Kind(session.i) \in {"srflx", "relay"}
               THEN SendPacket(session.i)
               ELSE NothingSent
            /\ session' = [session EXCEPT !.i = @ + 1]
    /\ UNCHANGED <<iceState, count, nominated, polling, addLocal, request, remotes, lock,
                   listener, expired, doubled, deaf, reopened>>

\* TLS_FreeRTOS_ContinueHandshake; a connection that was closed meanwhile may return
\* anything.
Handshake(i, result) ==
    /\ result \in {"SUCCESS", "IN_PROGRESS", "FAIL"}
    /\ IF result = "FAIL" /\ sock[i].open THEN Fault ELSE NoFault

ExecuteTlsHandshake ==
    /\ session.at = "tls"
    /\ \E result \in Results :
         Handshake(session.i, result) /\ session' = [session EXCEPT !.at = "tlsDone", !.tls = result]
    /\ UNCHANGED <<iceState, sockVars, polling, addLocal, requestVars, iceVars, lock, listener,
                   expired, raced, doubled, deaf, reopened>>

\* A finished handshake makes a relay candidate, a failed one closes the socket.  The
\* session task holds iceMutex.
TlsHandshakeDone ==
    /\ session.at = "tlsDone"
    /\ CASE session.tls = "SUCCESS" /\ ~LibraryFull ->
              /\ Ice_AddCandidate("relay")
              /\ sock' = UpdateSocketContext(sock, session.i, "CREATE", Len(cands) + 1, NoPeer)
              /\ doubled' = (doubled \/ (listener.at \in {"tlsAdd", "tlsUpdate"}))
              /\ UNCHANGED raced
         [] session.tls = "FAIL" \/ (session.tls = "SUCCESS" /\ LibraryFull) ->
              /\ sock' = FreeSocketContext(sock, session.i)
              /\ raced' = (raced \/ (InListener /\ listener.i = session.i))
              /\ UNCHANGED <<cands, pairs, doubled>>
         [] OTHER -> UNCHANGED <<sock, cands, pairs, raced, doubled>>
    /\ session' = [session EXCEPT !.at = "local", !.i = @ + 1]
    /\ UNCHANGED <<iceState, count, nominated, polling, addLocal, requestVars, remotes, lock,
                   listener, expired, deaf, reopened, budget>>

\* Mutant: the timer is armed again only while the deadline has not passed.
RequestsSent_NoClose ==
    /\ session.at = "local" /\ session.i > count
    /\ lock' = "free" /\ session' = [session EXCEPT !.at = "idle", !.late = FALSE]
    /\ timer' = (timer \/ ~session.late)
    /\ UNCHANGED <<iceState, sockVars, polling, addLocal, request, closeReq, iceVars, listener, envVars>>

\* All requests are sent: if the deadline had passed when the round began the session
\* is asked to close, whatever the listener has nominated meanwhile.
RequestsSent ==
    /\ session.at = "local" /\ session.i > count
    /\ lock' = "free" /\ session' = [session EXCEPT !.at = "idle", !.late = FALSE]
    /\ closeReq' = (closeReq \/ session.late)
    /\ Arm
    /\ UNCHANGED <<iceState, sockVars, polling, addLocal, request, iceVars, listener, envVars>>

------------------------------------------------------------------------------
(* Closing. *)

\* The session task handles the close: IceController_Destroy.
IceController_Destroy ==
    /\ session.at = "idle" /\ closeReq /\ closeReq' = FALSE
    /\ IF iceState \in {"PROCESS", "READY", "CLOSING"}
       THEN iceState' = "CLOSING" /\ session' = [session EXCEPT !.at = "destroy", !.i = 1, !.tls = "none"]
       ELSE UNCHANGED <<iceState, session>>
    /\ UNCHANGED <<sockVars, polling, addLocal, timer, request, iceVars, lock, listener, envVars>>

\* One context of Destroy: a relay ends its TURN session first, others are closed.
DestroyContext ==
    /\ session.at = "destroy" /\ session.i <= count
    /\ IF Live(session.i) /\ Kind(session.i) = "relay"
       THEN /\ lock = "free" /\ Ice_CloseCandidate(sock[session.i].cand)
            /\ session' = [session EXCEPT !.i = @ + 1, !.tls = "IN_PROGRESS"]
            /\ UNCHANGED <<sock, raced>>
       ELSE /\ sock' = IF Live(session.i) THEN FreeSocketContext(sock, session.i) ELSE sock
            /\ raced' = (raced \/ (Live(session.i) /\ InListener /\ listener.i = session.i))
            /\ session' = [session EXCEPT !.i = @ + 1]
            /\ UNCHANGED cands
    /\ UNCHANGED <<iceState, count, nominated, polling, addLocal, requestVars, remotes, pairs,
                   lock, listener, expired, doubled, deaf, reopened, budget>>

\* Without a relay polling stops and the controller is CLOSED, with one it waits.
Destroyed ==
    /\ session.at = "destroy" /\ session.i > count
    /\ session' = [session EXCEPT !.at = "idle"]
    /\ IF session.tls = "IN_PROGRESS"
       THEN Arm /\ UNCHANGED <<iceState, polling>>
       ELSE iceState' = "CLOSED" /\ polling' = FALSE /\ UNCHANGED timer
    /\ UNCHANGED <<sockVars, addLocal, request, closeReq, iceVars, lock, listener, envVars>>

\* Mutant: the controller is CLOSED while a TURN session still waits for its end.
AddressClosing_NoWait ==
    /\ session.at = "idle" /\ request = "CLOSING" /\ request' = "none"
    /\ iceState' = "CLOSED" /\ polling' = FALSE
    /\ UNCHANGED <<lock, session, sockVars, addLocal, timer, closeReq, iceVars, listener, envVars>>

\* IceController_AddressClosing: requests go on until every context is closed.
IceController_AddressClosing ==
    /\ session.at = "idle" /\ request = "CLOSING" /\ request' = "none"
    /\ IF \E i \in 1..count : Live(i)
       THEN /\ lock = "free" /\ lock' = "session"
            /\ session' = [session EXCEPT !.at = "local", !.i = 1]
            /\ UNCHANGED <<iceState, polling>>
       ELSE /\ iceState' = "CLOSED" /\ polling' = FALSE
            /\ UNCHANGED <<lock, session>>
    /\ UNCHANGED <<sockVars, addLocal, timer, closeReq, iceVars, listener, envVars>>

------------------------------------------------------------------------------
(* The listener. *)

ListenerAt(step) == listener' = [listener EXCEPT !.at = step]

\* pollingSockets: the descriptors are copied under the mutex, one becomes readable.
Poll(i) ==
    /\ listener.at = "idle" /\ polling
    /\ i <= count /\ sock[i].open
    /\ listener' = [listener EXCEPT !.at = "dispatch", !.i = i]
    /\ UNCHANGED <<iceState, sockVars, polling, addLocal, requestVars, iceVars, lock, session, envVars>>

\* A connection in progress goes on with its handshake, others are read.
Dispatch ==
    /\ listener.at = "dispatch"
    /\ listener' = [listener EXCEPT !.ret = "OK", !.peer = NoPeer,
                       !.at = IF sock[listener.i].state = "PROGRESS" THEN "tls" ELSE "recv"]
    /\ UNCHANGED <<iceState, sockVars, polling, addLocal, requestVars, iceVars, lock, session, envVars>>

\* IceControllerNet_ExecuteTlsHandshake in the listener, which does not hold iceMutex.
ListenerHandshake ==
    /\ listener.at = "tls"
    /\ \E result \in Results :
         /\ Handshake(listener.i, result)
         /\ CASE result = "SUCCESS" -> ListenerAt("tlsAdd") /\ UNCHANGED <<sock, raced>>
              [] result = "FAIL" -> /\ sock' = FreeSocketContext(sock, listener.i)
                                    /\ raced' = (raced \/ InSession(listener.i))
                                    /\ ListenerAt("idle")
              [] OTHER -> ListenerAt("idle") /\ UNCHANGED <<sock, raced>>
    /\ UNCHANGED <<iceState, count, nominated, polling, addLocal, requestVars, iceVars, lock,
                   session, expired, doubled, deaf, reopened>>

ListenerAddCandidate ==
    /\ listener.at = "tlsAdd" /\ lock = "free"
    /\ IF LibraryFull
       THEN /\ sock' = FreeSocketContext(sock, listener.i) /\ ListenerAt("idle")
            /\ raced' = (raced \/ InSession(listener.i))
            /\ UNCHANGED <<cands, pairs>>
       ELSE Ice_AddCandidate("relay") /\ ListenerAt("tlsUpdate") /\ UNCHANGED <<sock, raced>>
    /\ doubled' = (doubled \/ session.at = "update")
    /\ UNCHANGED <<iceState, count, nominated, polling, addLocal, requestVars, remotes, lock,
                   session, expired, deaf, reopened, budget>>

ListenerUpdate ==
    /\ listener.at = "tlsUpdate" /\ ListenerAt("idle")
    /\ sock' = UpdateSocketContext(sock, listener.i, "CREATE", Len(cands), NoPeer)
    /\ UNCHANGED <<iceState, count, nominated, polling, addLocal, requestVars, iceVars, lock,
                   session, envVars>>

\* HandleRxPacket: nothing is left to read.
RxNothing ==
    /\ listener.at = "recv" /\ sock[listener.i].open /\ ListenerAt("idle")
    /\ UNCHANGED <<iceState, sockVars, polling, addLocal, requestVars, iceVars, lock, session, envVars>>

\* A read error, or a socket that was closed: the candidate and the context are closed.
RxError ==
    /\ listener.at = "recv" /\ (IF sock[listener.i].open THEN Fault ELSE NoFault)
    /\ Ice_CloseCandidate(sock[listener.i].cand)
    /\ sock' = FreeSocketContext(sock, listener.i)
    /\ raced' = (raced \/ (sock[listener.i].open /\ InSession(listener.i)))
    /\ deaf' = (deaf \/ listener.i = nominated)
    /\ ListenerAt("idle")
    /\ UNCHANGED <<iceState, count, nominated, polling, addLocal, requestVars, remotes, pairs,
                   lock, session, expired, doubled, reopened>>

\* The STUN or TURN server tells the candidate its address.
RxAddress ==
    /\ listener.at = "recv" /\ Reachable(listener.i) /\ lock = "free"
    /\ Kind(listener.i) \in {"srflx", "relay"} /\ ~cands[sock[listener.i].cand].valid
    /\ Ice_Validate(sock[listener.i].cand)
    /\ ListenerAt("ready")
    /\ UNCHANGED <<iceState, sockVars, polling, addLocal, requestVars, remotes, lock, session, envVars>>

\* The context becomes READY and the candidate is sent to the peer; if that fails the code
\* logs it and goes on.
RxReady ==
    /\ listener.at = "ready"
    /\ sock' = UpdateSocketContext(sock, listener.i, "READY", sock[listener.i].cand,
                                   sock[listener.i].peer)
    /\ listener' = [listener EXCEPT !.at = "recv", !.ret = "OK"]
    /\ UNCHANGED <<iceState, count, nominated, polling, addLocal, requestVars, iceVars, lock, session, envVars>>

\* CheckNomination: a pair that has succeeded is found only as long as none is nominated.
NominationOpen == nominated = 0

\* SendBindingResponse and SendNominationRequest: an answer that cannot be sent ends the
\* handling of the packet.
Answer(r) ==
    \/ /\ UNCHANGED <<cands, sock, raced, closeReq, timer, budget>>
       /\ pairs' = pairs \cup {<<sock[listener.i].cand, r>>}
       /\ \/ listener' = [listener EXCEPT !.ret = "OK"]
          \/ /\ NominationOpen
             /\ listener' = [listener EXCEPT !.at = "nominate", !.peer = r, !.ret = "FOUND"]
    \/ SendPacketFails(listener.i) /\ listener' = [listener EXCEPT !.ret = "FAIL"]

\* A binding request or response of the peer: it is answered, and CheckNomination looks
\* whether a pair was nominated before.  A pair not known yet is made.
RxRequest ==
    /\ listener.at = "recv" /\ Reachable(listener.i) /\ lock = "free"
    /\ cands[sock[listener.i].cand].valid
    /\ \E r \in remotes : Answer(r)
    /\ UNCHANGED <<iceState, count, nominated, polling, addLocal, request, remotes, lock,
                   session, expired, doubled, deaf, reopened>>

\* UpdateNominatedSocketContext needs a pair of the library: a host or reflexive candidate
\* looks it up, a relay knows it from the channel the packet came through, if it did.
PairKnown(i, r) == <<sock[i].cand, r>> \in pairs

\* Mutant: the remote candidate is not taken over.
NominateSocket_NoPeer(i, r) ==
    /\ sock' = [sock EXCEPT ![i].state = "SELECTED"]
    /\ nominated' = i
    /\ IF nominated = 0
       THEN iceState' = "READY" /\ Arm /\ reopened' = (reopened \/ iceState = "CLOSING")
       ELSE UNCHANGED <<iceState, timer, reopened>>

NominateSocket(i, r) ==
    /\ sock' = [sock EXCEPT ![i].state = "SELECTED", ![i].peer = r]
    /\ nominated' = i
    /\ IF nominated = 0
       THEN iceState' = "READY" /\ Arm /\ reopened' = (reopened \/ iceState = "CLOSING")
       ELSE UNCHANGED <<iceState, timer, reopened>>

\* The pair found is nominated: READY, whatever the state of the controller.
Nominate ==
    /\ listener.at = "nominate"
    /\ \/ PairKnown(listener.i, listener.peer) /\ NominateSocket(listener.i, listener.peer)
       \/ /\ (Kind(listener.i) = "relay" \/ ~PairKnown(listener.i, listener.peer))
          /\ UNCHANGED <<sock, nominated, iceState, timer, reopened>>
    /\ ListenerAt("recv")
    /\ UNCHANGED <<count, polling, addLocal, request, closeReq, iceVars, lock, session,
                   expired, raced, doubled, deaf, budget>>

\* DTLS or media: it moves the nomination to its own socket and is delivered unless ret,
\* which keeps its value from the packet before, says otherwise.
RxData ==
    /\ listener.at = "recv" /\ Reachable(listener.i) /\ lock = "free"
    /\ cands[sock[listener.i].cand].valid
    /\ \E r \in remotes :
         IF nominated = listener.i
         THEN /\ UNCHANGED <<sock, nominated, iceState, timer, reopened>>
              /\ IF listener.ret = "OK" THEN ListenerAt("deliver") ELSE UNCHANGED listener
         ELSE \/ /\ PairKnown(listener.i, r) /\ NominateSocket(listener.i, r)
                 /\ listener' = [listener EXCEPT !.ret = "OK", !.at = "deliver"]
              \/ /\ (Kind(listener.i) = "relay" \/ ~PairKnown(listener.i, r))
                 /\ listener' = [listener EXCEPT !.ret = "FAIL"]
                 /\ UNCHANGED <<sock, nominated, iceState, timer, reopened>>
    /\ UNCHANGED <<count, polling, addLocal, request, closeReq, iceVars, lock, session,
                   expired, raced, doubled, deaf, budget>>

\* ReleaseOtherSockets closes all contexts but the nominated one; relays are asked to end.
ReleaseOtherSockets ==
    LET others == {i \in 1..count : i # nominated /\ sock[i].open}
        freed == {i \in others : Kind(i) # "relay"}
    IN /\ lock = "free" /\ nominated # 0
       /\ sock' = [i \in Slots |-> IF i \in freed THEN FreeSocketContext(sock, i)[i] ELSE sock[i]]
       /\ cands' = [c \in DOMAIN cands |->
            IF \E i \in others \ freed : sock[i].cand = c
            THEN [cands[c] EXCEPT !.closing = TRUE] ELSE cands[c]]
       /\ raced' = (raced \/ (session.at # "idle" /\ session.i \in freed))

\* The peer connection takes the packet; the one that completes the DTLS handshake makes
\* it call IceController_CloseOtherCandidatePairs.
Deliver ==
    /\ listener.at = "deliver" /\ ListenerAt("recv")
    /\ UNCHANGED <<sock, cands, raced>> \/ ReleaseOtherSockets
    /\ UNCHANGED <<iceState, count, nominated, polling, addLocal, requestVars, remotes, pairs,
                   lock, session, expired, doubled, deaf, reopened, budget>>

\* The TURN server confirms the end of an allocation: the library hears of it under
\* iceMutex, then the socket is closed.
RxTurnTerminated ==
    /\ listener.at = "recv" /\ Reachable(listener.i)
    /\ Kind(listener.i) = "relay" /\ cands[sock[listener.i].cand].closing
    /\ ListenerAt("ended")
    /\ UNCHANGED <<iceState, sockVars, polling, addLocal, requestVars, iceVars, lock, session, envVars>>

TurnSessionTerminated ==
    /\ listener.at = "ended" /\ lock = "free"
    /\ sock' = FreeSocketContext(sock, listener.i)
    /\ raced' = (raced \/ InSession(listener.i))
    /\ deaf' = (deaf \/ listener.i = nominated)
    /\ ListenerAt("idle")
    /\ UNCHANGED <<iceState, count, nominated, polling, addLocal, requestVars, iceVars, lock,
                   session, expired, doubled, reopened, budget>>

------------------------------------------------------------------------------
\* IceController_SendToRemotePeer: media leaves through the nominated context.
SendToRemotePeer ==
    /\ lock = "free" /\ nominated # 0 /\ sock[nominated].state = "SELECTED"
    /\ SendPacketFails(nominated)
    /\ UNCHANGED <<iceState, count, nominated, polling, addLocal, request, remotes, lock,
                   session, listener, expired, doubled, deaf, reopened>>

SessionStep ==
    \/ ProcessIceCandidatesAndPairs \/ CreateSocketContext \/ GatherFails \/ GatherNoSocket
    \/ AddCandidate \/ UpdateGathered \/ CandidateNotSent \/ ProcessCandidatePairs \/ PeriodConnectionCheck
    \/ LocalCandidate \/ ExecuteTlsHandshake \/ TlsHandshakeDone \/ RequestsSent
    \/ IceController_Destroy \/ DestroyContext \/ Destroyed \/ IceController_AddressClosing

ListenerStep ==
    \/ Dispatch \/ ListenerHandshake \/ ListenerAddCandidate \/ ListenerUpdate
    \/ RxNothing \/ RxError \/ RxAddress \/ RxReady \/ RxRequest \/ Nominate \/ RxData
    \/ Deliver \/ RxTurnTerminated \/ TurnSessionTerminated

Next ==
    \/ IceController_Start \/ IceController_AddRemoteCandidate \/ TimerExpires \/ DeadlinePasses
    \/ SessionStep \/ (\E i \in Slots : Poll(i)) \/ ListenerStep \/ SendToRemotePeer

Spec == Init /\ [][Next]_vars

\* Both tasks and the timer run, the queue is first in first out, and a mutex given back
\* again and again is got; a socket that stays readable is polled, a drained one is left,
\* and a TURN server that is asked often enough ends the allocation.
Fairness ==
    /\ WF_vars(SessionStep) /\ WF_vars(TimerExpires) /\ WF_vars(DeadlinePasses)
    /\ SF_vars(IceController_Destroy) /\ SF_vars(ListenerStep)
    /\ SF_vars(RxNothing) /\ SF_vars(RxTurnTerminated)
    /\ \A i \in Slots : SF_vars(Poll(i))

LiveSpec == Spec /\ Fairness

------------------------------------------------------------------------------
(* Properties. *)

TypeOK ==
    /\ iceState \in {"NEW", "PROCESS", "READY", "CLOSING", "CLOSED"}
    /\ sock \in [Slots -> [state : SlotStates, open : BOOLEAN, tls : BOOLEAN,
                           cand : 0..MaxContexts, peer : Remotes \cup {NoPeer}]]
    /\ count \in 0..MaxContexts /\ nominated \in 0..MaxContexts
    /\ polling \in BOOLEAN /\ addLocal \in BOOLEAN /\ timer \in BOOLEAN /\ closeReq \in BOOLEAN
    /\ request \in {"none", "PROCESS", "READY", "CLOSING"}
    /\ cands \in Seq([kind : {"host", "srflx", "relay"}, valid : BOOLEAN, closing : BOOLEAN])
    /\ Len(cands) <= MaxContexts
    /\ remotes \subseteq Remotes /\ pairs \subseteq (DOMAIN cands) \X remotes
    /\ lock \in {"free", "session"}
    /\ session.jobs \subseteq Job /\ session.kind \in Kinds \cup {"none"}
    /\ session.tls \in Results /\ session.late \in BOOLEAN
    /\ listener.ret \in {"OK", "FOUND", "FAIL"}
    /\ expired \in BOOLEAN /\ raced \in BOOLEAN /\ doubled \in BOOLEAN /\ deaf \in BOOLEAN /\ reopened \in BOOLEAN

\* A controller that has told the session it is closed holds no socket: neither Destroy
\* nor AddressClosing leaves one open, however the closes and the reads interleave.
ClosedReleasesSockets ==
    iceState = "CLOSED" /\ session.at = "idle" => \A i \in Slots : ~sock[i].open

\* A context that looks alive has a socket, unless one task closed it under the hands of
\* the other (UpdateSocketContext does not look at socketFd): AddressClosing waits for
\* such a context for ever.
GhostsExplained ==
    \A i \in 1..count : (sock[i].state # "NONE" /\ ~sock[i].open) => raced

\* The state of a context and its socket agree, in the end and on the way
\* (IceControllerNet_FreeSocketContext, IceControllerNet_UpdateSocketContext).
SocketsFollowState == ClosedReleasesSockets /\ GhostsExplained

\* In one life of the session two live contexts have different candidates, unless both
\* tasks added one at the same time and both looked up the newest after giving iceMutex back.
OneOwner ==
    \A i, j \in 1..count :
        (i # j /\ Live(i) /\ Live(j) /\ sock[i].cand # 0 /\ sock[i].cand = sock[j].cand) => doubled

\* The connection check of a READY controller finds a nominated context, its candidate
\* and a pair the library knows ("nominated pair must be set before entering ready state").
ReadyHasPair ==
    iceState = "READY" =>
        /\ nominated # 0
        /\ <<sock[nominated].cand, sock[nominated].peer>> \in pairs

\* Contexts, candidates and pairs belong together, for the nominated pair above all.
PairsHaveContexts == OneOwner /\ ReadyHasPair

\* The loss of the nominated context ends the session: a close is asked for or under way,
\* before sends on it are skipped without an error.  Only the listener closes it without
\* telling anybody, and a late nomination forgets a close that is under way.
LossNoticed ==
    (nominated # 0 /\ sock[nominated].state = "NONE") =>
        (closeReq \/ iceState \in {"CLOSING", "CLOSED"} \/ deaf \/ reopened)

\* Connectivity checks end: with a nomination, or with a close after the deadline.
DeadlineDecides == iceState = "PROCESS" ~> iceState # "PROCESS"

\* A close that was begun ends.  It does not when a context has become a ghost, when a late
\* nomination has made the controller READY again, or when a second candidate has replaced
\* the one Destroy had asked to end.
ClosingEnds ==
    iceState = "CLOSING" ~> (iceState = "CLOSED" \/ raced \/ reopened \/ doubled)

\* Neither the checks nor a close goes on for ever (the deadline of the checks, the
\* timer that asks again for the end of every TURN session).
ChecksAndClosesEnd == DeadlineDecides /\ ClosingEnds
==============================================================================
