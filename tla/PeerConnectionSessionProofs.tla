--------------------- MODULE PeerConnectionSessionProofs ---------------------
(***************************************************************************)
(* Proofs about PeerConnectionSession for any number of offers and         *)
(* candidates, any capacity of the request queue, with and without a       *)
(* relay: the types, that a session that is READY is secured and counted   *)
(* once, that a session becomes INITED only by being closed, that one that *)
(* can be used again holds nothing of its last connection, and that the    *)
(* session keeps the promise of SessionLife.                               *)
(*                                                                         *)
(* They hold while no message comes for a session that is still being      *)
(* closed and no deadline races what the peer sends (Calm); where one of   *)
(* the two happens they do not. A clean reuse also needs that no packet    *)
(* comes while the relay candidate is made, or its socket would be opened  *)
(* after the close. The four tasks share the session without a lock, so    *)
(* the invariant says for each of them what the others cannot be doing     *)
(* meanwhile: while the session is started the others wait (AppInv,        *)
(* DaemonInv); while the listener handles a packet the session task does   *)
(* not close (ListenerInv, CloserInv); and a request that ends a session   *)
(* is in the queue only as long as there is something to end (QueueInv).   *)
(* CleanInv says what each step of a close has released by then.           *)
(***************************************************************************)
EXTENDS PeerConnectionSession, TLAPS

------------------------------------------------------------------------------
(* The invariant. *)

Calm == "quickOffer" \notin Timings /\ "raceDeadline" \notin Timings

Types ==
    /\ state \in States /\ ice \in IceStates /\ pc \in Steps
    /\ queue \in Seq(Requests) /\ Len(queue) <= QueueCap
    /\ sockets \subseteq {"host", "relay"} /\ nominated \in {"none", "host", "relay"}
    /\ dtls \in {"none", "handshaking", "broken", "ready"} /\ expired \subseteq Deadlines
    /\ trx \in BOOLEAN /\ barrier \in BOOLEAN /\ addLocal \in BOOLEAN /\ turnClosing \in BOOLEAN
    /\ polling \in BOOLEAN /\ iceTimer \in BOOLEAN /\ closeTimer \in BOOLEAN
    /\ reportTimer \in BOOLEAN /\ srtp \in BOOLEAN /\ silent \in BOOLEAN
    /\ after \in [session : {"idle", "check", "recv", "onClose"}, listener : {"idle"}]

Queued(m) == \E i \in 1..Len(queue) : queue[i] = m
Pending(m) == pc.session = m \/ Queued(m)

\* The listener cannot receive: the peer is silent or nobody polls.
Quiet == silent \/ ~polling

\* Steps of the signaling task: it makes a session ready to start; it handles an
\* offer before and after ICE has been started.
Starting == {"offerEmpty", "offerRecv", "offerStart", "candidateEmpty", "candidateRecv",
  "candidateStart"}
Describing == {"offer", "iceStart"}
Kicking == {"kick", "find"}
Calls == CloseSteps \cup {"onClose"}

AppInv ==
    /\ pc.app \in Starting => state = "INITED"
    /\ pc.app \in Describing \cup Kicking => state = "START"
    /\ pc.app \in Starting \cup Describing \cup {"kick"}
             => SessionWaits /\ ~iceTimer /\ ~reportTimer
    /\ pc.app \in Starting \cup Describing \cup Kicking
             => pc.listener = "idle" /\ pc.daemon = "idle"
    /\ pc.app \in {"offerStart", "candidateStart"} => queue = <<>>
    /\ pc.app \in Kicking => silent /\ ice = "PROCESS" /\ nominated = "none"
    /\ pc.app = "iceStart" => "handshake" \notin expired
    /\ pc.app \in Kicking => "handshake" \notin expired /\ "connect" \notin expired

DaemonInv ==
    /\ pc.daemon # "idle" =>
        /\ state = "START" /\ pc.app = "idle" /\ pc.listener = "idle" /\ SessionWaits
        /\ ~iceTimer /\ ~reportTimer
    /\ pc.daemon = "notify" => queue = <<>>

\* What the state of the session says of the rest.
StateInv ==
    /\ state \in {"INITED", "START"} /\ pc.app \notin Kicking => ~polling
    /\ state = "START" /\ pc.app \notin Kicking =>
        /\ ~iceTimer
        /\ pc.session \in {"barrier", "recv", "ADD", "REPORT", "check", "CLOSE_NO_ICE", "close"}
        /\ \A i \in 1..Len(queue) : queue[i] \in {"ADD", "REPORT", "CLOSE_NO_ICE"}
    /\ state \in {"FIND", "P2P", "READY"} => ice \in {"PROCESS", "READY"}
    /\ state = "READY" => ice = "READY" /\ dtls \in {"ready", "none"} /\ srtp /\ reportTimer
                          /\ nominated # "none"
    /\ state \notin {"INITED", "CLOSING"} \/ pc.app \in Starting => trx
    /\ viewers = IF state = "READY" THEN 1 ELSE 0

\* While packets may come.
PacketInv ==
    /\ ~Quiet /\ nominated = "none" => state = "FIND" /\ ice = "PROCESS"
    /\ ~Quiet /\ nominated # "none" /\ pc.listener \notin {"nominated", "handshake", "p2p"} =>
        state \in {"P2P", "READY", "CLOSING"}
    /\ ~Quiet /\ nominated # "none" /\ pc.listener # "nominated" => ice \in {"READY", "CLOSING"}
    /\ ~Quiet /\ state = "CLOSING" => dtls # "handshaking"
    /\ ice = "CLOSED" => ~polling
    /\ "handshake" \in expired \/ "connect" \in expired => silent
    /\ state = "READY" /\ "idle" \in expired => silent

ListenerInv ==
    /\ pc.listener # "idle" => ~silent /\ pc.app \in {"idle", "candidate"} /\ nominated # "none"
    /\ pc.listener \notin {"idle", "destroyed", "deinit", "resetTimers"} => polling /\ sockets # {}
    /\ pc.listener \in {"nominated", "handshake", "p2p"} => state = "FIND"
    /\ pc.listener \in {"complete", "setTimers", "ready"} => state = "P2P" /\ dtls = "ready"
    /\ pc.listener = "releaseOthers" => state = "READY"
    /\ pc.listener \in {"disconnect", "close"} => state \in {"P2P", "READY", "CLOSING"}
    /\ pc.listener \in {"destroy", "freeSockets"} => state = "CLOSING"
    /\ pc.listener \in {"destroyed", "deinit", "resetTimers"} => state \in {"CLOSING", "INITED"}
    /\ pc.listener = "destroyed" => ~polling
    /\ pc.listener \in CloseSteps => dtls \in {"none", "ready"}
    /\ pc.listener \in {"setTimers", "ready"} => srtp
    /\ pc.listener = "ready" => reportTimer

CloserInv ==
    /\ pc.session \in Calls \cup {"CLOSE", "CLOSE_NO_ICE"} =>
        pc.listener = "idle" /\ Quiet /\ pc.app \in {"idle", "candidate"}
    /\ pc.session \in Calls \ {"close"} => state = "CLOSING"
    /\ pc.session \in CloseSteps => after.session # "idle"
    /\ pc.session = "onClose" \/ (pc.session \in CloseSteps /\ after.session = "onClose")
             => ~polling
    /\ pc.session = "destroyed" => ~polling
    /\ reportTimer =>
        \/ state = "READY"
        \/ pc.listener \in {"ready", "destroy", "freeSockets", "destroyed", "deinit", "resetTimers"}
        \/ pc.session \in {"freeSockets", "destroyed", "deinit", "resetTimers"}
        \/ pc.session = "destroy" /\ ice \notin {"NONE", "CLOSED"}

QueueInv ==
    /\ Pending("ICE_CLOSING") \/ Pending("ICE_CLOSED") => state \in {"CLOSING", "INITED"}
    /\ Pending("ICE_CLOSED") => ~polling
    /\ Pending("CLOSE") => silent /\ state # "START"
    /\ Pending("CLOSE_NO_ICE")
             => state = "START" /\ pc.app \in {"idle", "candidate"} /\ pc.daemon = "idle"
    /\ Queued("CLOSE_NO_ICE") =>
        /\ ~SessionWaits
        /\ pc.session \notin Calls \cup {"CLOSE_NO_ICE"}
    /\ \A i, j \in 1..Len(queue) :
          queue[i] = "CLOSE_NO_ICE" /\ queue[j] = "CLOSE_NO_ICE" => i = j

\* Some task is at one of these steps; a close is past the end of ICE.
At(steps) == pc.session \in steps \/ pc.listener \in steps
Ending == At({"freeSockets", "destroyed", "deinit", "resetTimers"})

\* ICE is closed when the session can be used, but for the moment in which the listener has
\* posted ICE_CLOSED and not yet set the state.
IceInv ==
    /\ state \in {"INITED", "START"} /\ pc.app \notin Kicking =>
        ice \in {"NEW", "CLOSED"} \/ (ice = "CLOSING" /\ pc.listener = "destroyed")
    /\ ice = "NONE" => pc.session \in {"freeSockets", "destroyed"}
    /\ ice \in {"NEW", "NONE"} => sockets = {} /\ pc.session # "relay"
    /\ At({"freeSockets", "destroyed"}) => ice \in {"NONE", "CLOSING", "CLOSED"}
    /\ Pending("ICE_CLOSED") => ice = "CLOSED" \/ At({"destroyed"})
    /\ Pending("ICE_CLOSING") => ice \in {"CLOSING", "CLOSED"}
    /\ pc.session = "onClose" \/ (pc.session \in CloseSteps /\ after.session = "onClose") =>
        /\ pc.session \in {"close", "destroy"} => ice \in {"NEW", "CLOSED"}
        /\ pc.session \in {"freeSockets", "destroyed"} => ice = "NONE"
        /\ pc.session \in {"deinit", "resetTimers", "onClose"} => ice = "CLOSED"

\* The candidates are made while the session looks for a path, before any packet comes.
GatherInv ==
    addLocal =>
        /\ ice = "PROCESS" /\ sockets = {} /\ (pc.app \in Kicking \/ state = "FIND")
        /\ pc.session \in {"barrier", "recv", "ADD", "REPORT", "check", "PROCESS"}
        /\ \A i \in 1..Len(queue) : queue[i] \in {"ADD", "REPORT", "PROCESS"}

\* What a connection has set up is taken down by a close that is still going on: the SRTP
\* sessions after ICE, the close timer by what comes after it, the transceivers at last.
SrtpInv == srtp => ice = "READY" \/ At({"freeSockets", "destroyed", "deinit"})

\* Nothing but candidates, reports and the request to close a session that got no SDP can
\* be posted or handled: what a session does until the next offer is answered.
NoIceFlow ==
    /\ ~iceTimer
    /\ pc.session \in CloseSteps \cup {"barrier", "recv", "ADD", "REPORT", "check",
                                       "CLOSE_NO_ICE", "onClose"}
    /\ \A i \in 1..Len(queue) : queue[i] \in {"ADD", "REPORT", "CLOSE_NO_ICE"}

TimerInv ==
    closeTimer =>
        /\ ice = "CLOSING" => Ending
        /\ ice = "CLOSED" => Ending \/ NoIceFlow
        /\ state = "INITED" => Ending \/ pc.session # "barrier"

TrxInv == state = "INITED" /\ pc.app \notin Starting => ~trx

\* Unless packets come while the relay candidate is made, no socket is opened after a close.
SocketInv ==
    "slowGather" \notin Timings =>
        /\ pc.session = "relay" =>
            /\ ice = "PROCESS" /\ (pc.app = "find" \/ state = "FIND")
            /\ ~addLocal /\ pc.listener = "idle"
        /\ ice \in {"NEW", "NONE", "CLOSED"} \/ At({"destroyed"}) => sockets = {}

CleanInv == IceInv /\ GatherInv /\ SrtpInv /\ TimerInv /\ TrxInv /\ SocketInv

IInv ==
    /\ Types /\ AppInv /\ DaemonInv /\ StateInv /\ PacketInv /\ ListenerInv /\ CloserInv /\ QueueInv
    /\ CleanInv
------------------------------------------------------------------------------
(* Where the tasks go, and what is posted. *)

SessionSteps == Requests \cup CloseSteps
                \cup {"barrier", "recv", "relay", "processed", "retry", "onClose", "check"}
ListenerSteps == CloseSteps
                 \cup {"idle", "nominated", "handshake", "p2p", "complete", "setTimers",
                       "ready", "releaseOthers", "disconnect"}
AppSteps == {"idle"} \cup Starting \cup Describing \cup Kicking \cup {"candidate"}
DaemonSteps == {"idle", "empty", "recv", "notify"}

\* A task goes to one of its own steps and the others stay where they are.
LEMMA GotoFacts ==
    ASSUME pc \in Steps, NEW step
    PROVE  /\ Goto("session", step) =>
                /\ pc'.session = step /\ pc'.listener = pc.listener
                /\ pc'.app = pc.app /\ pc'.daemon = pc.daemon
                /\ (step \in SessionSteps => pc' \in Steps)
           /\ Goto("listener", step) =>
                /\ pc'.listener = step /\ pc'.session = pc.session
                /\ pc'.app = pc.app /\ pc'.daemon = pc.daemon
                /\ (step \in ListenerSteps => pc' \in Steps)
           /\ Goto("app", step) =>
                /\ pc'.app = step /\ pc'.session = pc.session
                /\ pc'.listener = pc.listener /\ pc'.daemon = pc.daemon
                /\ (step \in AppSteps => pc' \in Steps)
           /\ Goto("daemon", step) =>
                /\ pc'.daemon = step /\ pc'.session = pc.session
                /\ pc'.listener = pc.listener /\ pc'.app = pc.app
                /\ (step \in DaemonSteps => pc' \in Steps)
<1>1. pc \in [session : SessionSteps, listener : ListenerSteps, app : AppSteps,
        daemon : DaemonSteps]
  BY DEF Steps, SessionSteps, ListenerSteps, AppSteps, DaemonSteps, Starting, Describing, Kicking
<1>2. \A x : x \in [session : SessionSteps, listener : ListenerSteps, app : AppSteps,
        daemon : DaemonSteps]
                => x \in Steps
  BY DEF Steps, SessionSteps, ListenerSteps, AppSteps, DaemonSteps, Starting, Describing, Kicking
<1>3. QED
  BY <1>1, <1>2 DEF Goto

\* A request is put at the end, or dropped.
LEMMA PostFacts ==
    ASSUME NEW q \in Seq(Requests), Len(q) <= QueueCap, NEW m \in Requests
    PROVE  /\ Post(q, m) \in Seq(Requests) /\ Len(Post(q, m)) <= QueueCap
           /\ \A i \in 1..Len(Post(q, m)) :
                 \/ i \in 1..Len(q) /\ Post(q, m)[i] = q[i]
                 \/ i = Len(q) + 1 /\ Post(q, m)[i] = m
<1>1. QueueCap \in Nat /\ Len(q) \in Nat
  BY BoundsAssumption
<1>2. CASE Len(q) < QueueCap
  <2>1. Post(q, m) = Append(q, m) /\ Len(Append(q, m)) = Len(q) + 1
        /\ Append(q, m) \in Seq(Requests)
    BY <1>2 DEF Post
  <2>2. \A i \in 1..(Len(q) + 1) : (i \in 1..Len(q) /\ Append(q, m)[i] = q[i]) \/ i = Len(q) + 1
    BY <1>1
  <2>3. Append(q, m)[Len(q) + 1] = m
    OBVIOUS
  <2>4. QED
    BY <1>1, <1>2, <2>1, <2>2, <2>3
<1>3. CASE ~(Len(q) < QueueCap)
  BY <1>3 DEF Post
<1>4. QED
  BY <1>2, <1>3

\* The first request is taken.
LEMMA TakeFacts ==
    ASSUME NEW q \in Seq(Requests), q # <<>>, Len(q) <= QueueCap
    PROVE  /\ Tail(q) \in Seq(Requests) /\ Len(Tail(q)) <= QueueCap
           /\ Head(q) \in Requests /\ 1 \in 1..Len(q) /\ Head(q) = q[1]
           /\ \A i \in 1..Len(Tail(q)) : i + 1 \in 1..Len(q) /\ i + 1 # 1 /\ Tail(q)[i] = q[i + 1]
           /\ \A i, j \in 1..Len(Tail(q)) : i + 1 = j + 1 => i = j
  BY BoundsAssumption
USE DEF At, Ending, Pending, Queued, SessionWaits, Quiet, Starting, Describing, Kicking, Calls,
  CloseSteps,
        iceVars, timerVars, peerVars, envVars

\* What a queue that has got the request m at its end, or not, says of what is queued.
LEMMA PostedFacts ==
    ASSUME Types, NEW m \in Requests, queue' = Post(queue, m)
    PROVE  /\ queue' \in Seq(Requests) /\ Len(queue') <= QueueCap
           /\ \A r : r # m /\ Queued(r)' => Queued(r)
           /\ \A S : m \in S /\ (\A i \in 1..Len(queue) : queue[i] \in S)
                        => \A i \in 1..Len(queue') : queue'[i] \in S
           /\ m # "CLOSE_NO_ICE" /\ (\A i, j \in 1..Len(queue) :
                    queue[i] = "CLOSE_NO_ICE" /\ queue[j] = "CLOSE_NO_ICE" => i = j)
                 => \A i, j \in 1..Len(queue') :
                       queue'[i] = "CLOSE_NO_ICE" /\ queue'[j] = "CLOSE_NO_ICE" => i = j
           /\ queue = <<>> => \A i, j \in 1..Len(queue') : i = j
           /\ queue' = <<>> => queue = <<>>
<1>1. queue \in Seq(Requests) /\ Len(queue) <= QueueCap
  BY DEF Types
<1>2. /\ queue' \in Seq(Requests) /\ Len(queue') <= QueueCap
      /\ \A i \in 1..Len(queue') :
            \/ i \in 1..Len(queue) /\ queue'[i] = queue[i]
            \/ i = Len(queue) + 1 /\ queue'[i] = m
  BY <1>1, PostFacts
<1>3. queue' = <<>> => queue = <<>>
  BY <1>1 DEF Post
<1>4. QED
  BY <1>1, <1>2, <1>3

\* What a queue that has lost its first request says of what is queued.
LEMMA TakenFacts ==
    ASSUME Types, queue # <<>>, queue' = Tail(queue)
    PROVE  /\ queue' \in Seq(Requests) /\ Len(queue') <= QueueCap
           /\ Head(queue) \in Requests /\ Queued(Head(queue))
           /\ \A r : Queued(r)' => Queued(r)
           /\ \A S : (\A i \in 1..Len(queue) : queue[i] \in S)
                        => Head(queue) \in S /\ \A i \in 1..Len(queue') : queue'[i] \in S
           /\ (\A i, j \in 1..Len(queue) :
                    queue[i] = "CLOSE_NO_ICE" /\ queue[j] = "CLOSE_NO_ICE" => i = j)
                 => /\ \A i, j \in 1..Len(queue') :
                         queue'[i] = "CLOSE_NO_ICE" /\ queue'[j] = "CLOSE_NO_ICE" => i = j
                    /\ Head(queue) = "CLOSE_NO_ICE" => ~Queued("CLOSE_NO_ICE")'
<1>1. queue \in Seq(Requests) /\ Len(queue) <= QueueCap
  BY DEF Types
<1>2. /\ Tail(queue) \in Seq(Requests) /\ Len(Tail(queue)) <= QueueCap
      /\ Head(queue) \in Requests /\ 1 \in 1..Len(queue) /\ Head(queue) = queue[1]
      /\ \A i \in 1..Len(Tail(queue)) :
            i + 1 \in 1..Len(queue) /\ i + 1 # 1 /\ Tail(queue)[i] = queue[i + 1]
      /\ \A i, j \in 1..Len(Tail(queue)) : i + 1 = j + 1 => i = j
  BY <1>1, TakeFacts
<1>3. QED
  BY <1>2

------------------------------------------------------------------------------
(* Every action preserves the invariant. *)

\* The session task passes the barrier: nobody who relies on its waiting is at work, since
\* the barrier was open.
LEMMA SessionTaskInv ==
    ASSUME Calm, IInv, SessionTask
    PROVE  IInv'
<1>1. /\ Types /\ AppInv /\ DaemonInv /\ StateInv /\ PacketInv /\ ListenerInv /\ CloserInv
      /\ QueueInv
      /\ CleanInv
  BY DEF IInv
<1>2. /\ pc'.session = "recv"
      /\ pc'.listener = pc.listener /\ pc'.app = pc.app /\ pc'.daemon = pc.daemon /\ pc' \in Steps
  BY <1>1, GotoFacts DEF SessionTask, Types, SessionSteps, States
<1>3. Types'
  <2>1. barrier' \in BOOLEAN
    BY <1>1 DEF SessionTask, Types
  <2>2. QED
    BY <1>1, <1>2, <2>1 DEF SessionTask, Types, States, IceStates
<1>4. AppInv' /\ DaemonInv' /\ StateInv' /\ PacketInv' /\ ListenerInv' /\ CloserInv' /\ QueueInv'
  BY <1>1, <1>2 DEF SessionTask, Calm, AppInv, DaemonInv, StateInv, PacketInv, ListenerInv,
     CloserInv, QueueInv
<1>5. CleanInv'
  <2>1. IceInv'
    BY <1>1, <1>2 DEF SessionTask, CleanInv, IceInv
  <2>2. GatherInv'
    BY <1>1, <1>2 DEF SessionTask, CleanInv, GatherInv
  <2>3. SrtpInv'
    BY <1>1, <1>2 DEF SessionTask, CleanInv, SrtpInv
  <2>4. TimerInv'
    BY <1>1, <1>2 DEF SessionTask, CleanInv, NoIceFlow, TimerInv
  <2>5. TrxInv'
    BY <1>1, <1>2 DEF SessionTask, CleanInv, TrxInv
  <2>6. SocketInv'
    BY <1>1, <1>2 DEF SessionTask, CleanInv, SocketInv
  <2>7. QED
    BY <2>1, <2>2, <2>3, <2>4, <2>5, <2>6 DEF CleanInv
<1>6. QED
  BY <1>3, <1>4, <1>5 DEF IInv

\* A remote candidate or a sender report only ends the iteration.
LEMMA HandleAddOrReportInv ==
    ASSUME Calm, IInv, HandleAddOrReport
    PROVE  IInv'
<1>1. /\ Types /\ AppInv /\ DaemonInv /\ StateInv /\ PacketInv /\ ListenerInv /\ CloserInv
      /\ QueueInv
      /\ CleanInv
  BY DEF IInv
<1>2. /\ pc'.session = "check"
      /\ pc'.listener = pc.listener /\ pc'.app = pc.app /\ pc'.daemon = pc.daemon /\ pc' \in Steps
  BY <1>1, GotoFacts DEF HandleAddOrReport, Types, SessionSteps, States
<1>3. Types'
  BY <1>1, <1>2 DEF HandleAddOrReport, Types, States, IceStates
<1>4. AppInv' /\ DaemonInv' /\ StateInv' /\ PacketInv' /\ ListenerInv' /\ CloserInv' /\ QueueInv'
  BY <1>1, <1>2 DEF HandleAddOrReport, Calm, AppInv, DaemonInv, StateInv, PacketInv, ListenerInv,
     CloserInv, QueueInv
<1>5. CleanInv'
  <2>1. IceInv'
    BY <1>1, <1>2 DEF HandleAddOrReport, CleanInv, IceInv
  <2>2. GatherInv'
    BY <1>1, <1>2 DEF HandleAddOrReport, CleanInv, GatherInv
  <2>3. SrtpInv'
    BY <1>1, <1>2 DEF HandleAddOrReport, CleanInv, SrtpInv
  <2>4. TimerInv'
    BY <1>1, <1>2 DEF HandleAddOrReport, CleanInv, NoIceFlow, TimerInv
  <2>5. TrxInv'
    BY <1>1, <1>2 DEF HandleAddOrReport, CleanInv, TrxInv
  <2>6. SocketInv'
    BY <1>1, <1>2 DEF HandleAddOrReport, CleanInv, SocketInv
  <2>7. QED
    BY <2>1, <2>2, <2>3, <2>4, <2>5, <2>6 DEF CleanInv
<1>6. QED
  BY <1>3, <1>4, <1>5 DEF IInv

\* Gathering adds sockets, which no part relies on being few.
LEMMA AddLocalCandidatesInv ==
    ASSUME Calm, IInv, AddLocalCandidates
    PROVE  IInv'
<1>1. /\ Types /\ AppInv /\ DaemonInv /\ StateInv /\ PacketInv /\ ListenerInv /\ CloserInv
      /\ QueueInv
      /\ CleanInv
  BY DEF IInv
<1>2. /\ pc'.session \in {"relay", "processed"}
      /\ pc'.listener = pc.listener /\ pc'.app = pc.app /\ pc'.daemon = pc.daemon /\ pc' \in Steps
  BY <1>1, GotoFacts DEF AddLocalCandidates, Types, SessionSteps, States
<1>3. Types'
  <2>1. addLocal' \in BOOLEAN
    BY <1>1 DEF AddLocalCandidates, Types
  <2>2. QED
    BY <1>1, <1>2, <2>1 DEF AddLocalCandidates, Types, States, IceStates
<1>4. AppInv' /\ DaemonInv' /\ StateInv' /\ PacketInv' /\ ListenerInv' /\ CloserInv' /\ QueueInv'
  BY <1>1, <1>2 DEF AddLocalCandidates, Calm, AppInv, DaemonInv, StateInv, PacketInv, ListenerInv,
     CloserInv, QueueInv
<1>5. CleanInv'
  <2>1. IceInv'
    <3>1. pc.session = "PROCESS" /\ ice' = ice /\ queue' = queue /\ state' = state /\ after' = after
      BY DEF AddLocalCandidates
    <3>2. addLocal => ice = "PROCESS"
      BY <1>1 DEF CleanInv, GatherInv
    <3>3. ~addLocal => sockets' = sockets /\ pc'.session = "processed"
      BY <1>1, GotoFacts DEF AddLocalCandidates, Types
    <3>4. QED
      BY <1>1, <1>2, <3>1, <3>2, <3>3 DEF CleanInv, IceInv, Queued
  <2>2. GatherInv'
    BY <1>1, <1>2 DEF AddLocalCandidates, CleanInv, GatherInv
  <2>3. SrtpInv'
    BY <1>1, <1>2 DEF AddLocalCandidates, CleanInv, SrtpInv
  <2>4. TimerInv'
    BY <1>1, <1>2 DEF AddLocalCandidates, CleanInv, NoIceFlow, TimerInv
  <2>5. TrxInv'
    BY <1>1, <1>2 DEF AddLocalCandidates, CleanInv, TrxInv
  <2>6. SocketInv'
    <3>1. pc.session = "PROCESS" /\ ~addLocal' /\ ice' = ice /\ state' = state
      BY DEF AddLocalCandidates
    <3>2. addLocal => ice = "PROCESS" /\ sockets = {} /\ (pc.app \in Kicking \/ state = "FIND")
      BY <1>1 DEF CleanInv, GatherInv
    <3>3. ~addLocal => sockets' = sockets /\ pc'.session = "processed"
      BY <1>1, GotoFacts DEF AddLocalCandidates, Types
    <3>4. addLocal => pc.listener = "idle" /\ (pc.app = "find" \/ state = "FIND")
      BY <1>1, <3>1, <3>2 DEF AppInv, ListenerInv
    <3>5. QED
      BY <1>1, <1>2, <3>1, <3>2, <3>3, <3>4 DEF CleanInv, SocketInv
  <2>7. QED
    BY <2>1, <2>2, <2>3, <2>4, <2>5, <2>6 DEF CleanInv
<1>6. QED
  BY <1>3, <1>4, <1>5 DEF IInv

\* The relay socket comes late, without a change of the session.
LEMMA AddRelayCandidatesInv ==
    ASSUME Calm, IInv, AddRelayCandidates
    PROVE  IInv'
<1>1. /\ Types /\ AppInv /\ DaemonInv /\ StateInv /\ PacketInv /\ ListenerInv /\ CloserInv
      /\ QueueInv
      /\ CleanInv
  BY DEF IInv
<1>2. /\ pc'.session = "processed"
      /\ pc'.listener = pc.listener /\ pc'.app = pc.app /\ pc'.daemon = pc.daemon /\ pc' \in Steps
  BY <1>1, GotoFacts DEF AddRelayCandidates, Types, SessionSteps, States
<1>3. Types'
  BY <1>1, <1>2 DEF AddRelayCandidates, Types, States, IceStates
<1>4. AppInv' /\ DaemonInv' /\ StateInv' /\ PacketInv' /\ ListenerInv' /\ CloserInv' /\ QueueInv'
  BY <1>1, <1>2 DEF AddRelayCandidates, Calm, AppInv, DaemonInv, StateInv, PacketInv, ListenerInv,
     CloserInv, QueueInv
<1>5. CleanInv'
  <2>1. IceInv'
    BY <1>1, <1>2 DEF AddRelayCandidates, CleanInv, IceInv
  <2>2. GatherInv'
    BY <1>1, <1>2 DEF AddRelayCandidates, CleanInv, GatherInv
  <2>3. SrtpInv'
    BY <1>1, <1>2 DEF AddRelayCandidates, CleanInv, SrtpInv
  <2>4. TimerInv'
    BY <1>1, <1>2 DEF AddRelayCandidates, CleanInv, NoIceFlow, TimerInv
  <2>5. TrxInv'
    BY <1>1, <1>2 DEF AddRelayCandidates, CleanInv, TrxInv
  <2>6. SocketInv'
    BY <1>1, <1>2 DEF AddRelayCandidates, CleanInv, SocketInv
  <2>7. QED
    BY <2>1, <2>2, <2>3, <2>4, <2>5, <2>6 DEF CleanInv
<1>6. QED
  BY <1>3, <1>4, <1>5 DEF IInv

\* The check arms the ICE timer again; a session in START has no such request.
LEMMA PeriodConnectionCheckInv ==
    ASSUME Calm, IInv, PeriodConnectionCheck
    PROVE  IInv'
<1>1. /\ Types /\ AppInv /\ DaemonInv /\ StateInv /\ PacketInv /\ ListenerInv /\ CloserInv
      /\ QueueInv
      /\ CleanInv
  BY DEF IInv
<1>2. /\ pc'.session = "retry"
      /\ pc'.listener = pc.listener /\ pc'.app = pc.app /\ pc'.daemon = pc.daemon /\ pc' \in Steps
  BY <1>1, GotoFacts DEF PeriodConnectionCheck, Types, SessionSteps, States
<1>3. Types'
  BY <1>1, <1>2 DEF PeriodConnectionCheck, Types, States, IceStates
<1>4. AppInv' /\ DaemonInv' /\ StateInv' /\ PacketInv' /\ ListenerInv' /\ CloserInv' /\ QueueInv'
  BY <1>1, <1>2 DEF PeriodConnectionCheck, Calm, AppInv, DaemonInv, StateInv, PacketInv,
     ListenerInv, CloserInv, QueueInv
<1>5. CleanInv'
  <2>1. IceInv'
    BY <1>1, <1>2 DEF PeriodConnectionCheck, CleanInv, IceInv
  <2>2. GatherInv'
    BY <1>1, <1>2 DEF PeriodConnectionCheck, CleanInv, GatherInv
  <2>3. SrtpInv'
    BY <1>1, <1>2 DEF PeriodConnectionCheck, CleanInv, SrtpInv
  <2>4. TimerInv'
    BY <1>1, <1>2 DEF PeriodConnectionCheck, CleanInv, NoIceFlow, TimerInv
  <2>5. TrxInv'
    BY <1>1, <1>2 DEF PeriodConnectionCheck, CleanInv, TrxInv
  <2>6. SocketInv'
    BY <1>1, <1>2 DEF PeriodConnectionCheck, CleanInv, SocketInv
  <2>7. QED
    BY <2>1, <2>2, <2>3, <2>4, <2>5, <2>6 DEF CleanInv
<1>6. QED
  BY <1>3, <1>4, <1>5 DEF IInv

\* The retry closes the session only after a deadline, when the peer is silent.
LEMMA RetryHandshakeInv ==
    ASSUME Calm, IInv, RetryHandshake
    PROVE  IInv'
<1>1. /\ Types /\ AppInv /\ DaemonInv /\ StateInv /\ PacketInv /\ ListenerInv /\ CloserInv
      /\ QueueInv
      /\ CleanInv
  BY DEF IInv
<1>2. /\ \/ pc'.session = "check" /\ after' = after
         \/ /\ pc'.session = "close" /\ state = "P2P" /\ "handshake" \in expired
            /\ after' = [after EXCEPT !["session"] = "check"]
      /\ pc'.listener = pc.listener /\ pc'.app = pc.app /\ pc'.daemon = pc.daemon /\ pc' \in Steps
  BY <1>1, GotoFacts DEF RetryHandshake, ExecuteDtlsHandshake, CallClose, Types, SessionSteps,
     States
<1>3. Types'
  BY <1>1, <1>2 DEF RetryHandshake, ExecuteDtlsHandshake, CallClose, Types, States, IceStates
<1>4a. AppInv'
  BY <1>1, <1>2, <1>3 DEF RetryHandshake, ExecuteDtlsHandshake, CallClose, AppInv
<1>4b. DaemonInv'
  BY <1>1, <1>2, <1>3 DEF RetryHandshake, ExecuteDtlsHandshake, CallClose, DaemonInv
<1>4c. StateInv'
  BY <1>1, <1>2, <1>3 DEF RetryHandshake, ExecuteDtlsHandshake, CallClose, StateInv
<1>4d. PacketInv'
  BY <1>1, <1>2, <1>3 DEF RetryHandshake, ExecuteDtlsHandshake, CallClose, PacketInv
<1>4e. ListenerInv'
  BY <1>1, <1>2, <1>3 DEF RetryHandshake, ExecuteDtlsHandshake, CallClose, ListenerInv
<1>4f. CloserInv'
  <2>1. pc'.session = "close" =>
          /\ state = "P2P" /\ silent /\ pc.listener = "idle" /\ pc.app \in {"idle", "candidate"}
          /\ after'.session = "check"
    BY <1>1, <1>2 DEF Types, Steps, AppInv, PacketInv, ListenerInv
  <2>2. QED
    BY <1>1, <1>2, <2>1 DEF RetryHandshake, CloserInv, ListenerInv
<1>4g. QueueInv'
  BY <1>1, <1>2, <1>3 DEF RetryHandshake, ExecuteDtlsHandshake, CallClose, QueueInv
<1>5. CleanInv'
  <2>1. IceInv'
    BY <1>1, <1>2
       DEF RetryHandshake, ExecuteDtlsHandshake, CallClose, Types, Steps, CleanInv, IceInv
  <2>2. GatherInv'
    BY <1>1, <1>2 DEF RetryHandshake, ExecuteDtlsHandshake, CallClose, CleanInv, GatherInv
  <2>3. SrtpInv'
    BY <1>1, <1>2 DEF RetryHandshake, ExecuteDtlsHandshake, CallClose, CleanInv, SrtpInv
  <2>4. TimerInv'
    BY <1>1, <1>2 DEF RetryHandshake, ExecuteDtlsHandshake, CallClose, CleanInv, NoIceFlow, TimerInv
  <2>5. TrxInv'
    BY <1>1, <1>2 DEF RetryHandshake, ExecuteDtlsHandshake, CallClose, CleanInv, TrxInv
  <2>6. SocketInv'
    BY <1>1, <1>2 DEF RetryHandshake, ExecuteDtlsHandshake, CallClose, CleanInv, SocketInv
  <2>7. QED
    BY <2>1, <2>2, <2>3, <2>4, <2>5, <2>6 DEF CleanInv
<1>6. QED
  BY <1>3, <1>4a, <1>4b, <1>4c, <1>4d, <1>4e, <1>4f, <1>4g, <1>5 DEF IInv

\* ICE_CLOSED ends a session that nobody polls for and that is CLOSING, or INITED again.
LEMMA HandleIceClosedInv ==
    ASSUME Calm, IInv, HandleIceClosed
    PROVE  IInv'
<1>1. /\ Types /\ AppInv /\ DaemonInv /\ StateInv /\ PacketInv /\ ListenerInv /\ CloserInv
      /\ QueueInv
      /\ CleanInv
  BY DEF IInv
<1>2. /\ pc'.session = "barrier"
      /\ pc'.listener = pc.listener /\ pc'.app = pc.app /\ pc'.daemon = pc.daemon /\ pc' \in Steps
  BY <1>1, GotoFacts DEF HandleIceClosed, OnClosePeerConnection, Types, SessionSteps, States
<1>3. Types'
  <2>1. trx' \in BOOLEAN
    BY <1>1 DEF HandleIceClosed, OnClosePeerConnection, Types
  <2>2. QED
    BY <1>1, <1>2, <2>1 DEF HandleIceClosed, OnClosePeerConnection, Types, States, IceStates
<1>4. AppInv' /\ DaemonInv' /\ StateInv' /\ PacketInv' /\ ListenerInv' /\ CloserInv' /\ QueueInv'
  BY <1>1, <1>2 DEF HandleIceClosed, OnClosePeerConnection, Calm, AppInv, DaemonInv, StateInv,
     PacketInv, ListenerInv, CloserInv, QueueInv
<1>5. CleanInv'
  <2>1. IceInv'
    BY <1>1, <1>2 DEF HandleIceClosed, OnClosePeerConnection, CleanInv, IceInv
  <2>2. GatherInv'
    BY <1>1, <1>2 DEF HandleIceClosed, OnClosePeerConnection, CleanInv, GatherInv
  <2>3. SrtpInv'
    BY <1>1, <1>2 DEF HandleIceClosed, OnClosePeerConnection, CleanInv, SrtpInv
  <2>4. TimerInv'
    BY <1>1, <1>2 DEF HandleIceClosed, OnClosePeerConnection, CleanInv, NoIceFlow, IceInv, TimerInv
  <2>5. TrxInv'
    BY <1>1, <1>2 DEF HandleIceClosed, OnClosePeerConnection, CleanInv, TrxInv
  <2>6. SocketInv'
    BY <1>1, <1>2 DEF HandleIceClosed, OnClosePeerConnection, CleanInv, SocketInv
  <2>7. QED
    BY <2>1, <2>2, <2>3, <2>4, <2>5, <2>6 DEF CleanInv
<1>6. QED
  BY <1>3, <1>4, <1>5 DEF IInv

\* CLOSE finds a silent peer, CLOSE_NO_ICE a session that is still in START.
LEMMA HandleCloseInv ==
    ASSUME Calm, IInv, HandleClose
    PROVE  IInv'
<1>1. /\ Types /\ AppInv /\ DaemonInv /\ StateInv /\ PacketInv /\ ListenerInv /\ CloserInv
      /\ QueueInv
      /\ CleanInv
  BY DEF IInv
<1>2. /\ pc'.session = "close"
      /\ pc'.listener = pc.listener /\ pc'.app = pc.app /\ pc'.daemon = pc.daemon /\ pc' \in Steps
  BY <1>1, GotoFacts DEF HandleClose, CallClose, Types, SessionSteps, States
<1>3. Types'
  BY <1>1, <1>2 DEF HandleClose, CallClose, Types, States, IceStates
<1>4a. AppInv'
  BY <1>1, <1>2, <1>3 DEF HandleClose, CallClose, AppInv
<1>4b. DaemonInv'
  BY <1>1, <1>2, <1>3 DEF HandleClose, CallClose, DaemonInv
<1>4c. StateInv'
  BY <1>1, <1>2, <1>3 DEF HandleClose, CallClose, StateInv
<1>4d. PacketInv'
  BY <1>1, <1>2, <1>3 DEF HandleClose, CallClose, PacketInv
<1>4e. ListenerInv'
  BY <1>1, <1>2, <1>3 DEF HandleClose, CallClose, ListenerInv
<1>4f. CloserInv'
  BY <1>1, <1>2, <1>3 DEF HandleClose, CallClose, Types, StateInv, CloserInv, QueueInv
<1>4g. QueueInv'
  BY <1>1, <1>2, <1>3 DEF HandleClose, CallClose, QueueInv
<1>5. CleanInv'
  <2>1. IceInv'
    BY <1>1, <1>2
       DEF HandleClose, CallClose, Types, Steps, AppInv, StateInv, ListenerInv, CloserInv, QueueInv,
           CleanInv, IceInv, GatherInv
  <2>2. GatherInv'
    BY <1>1, <1>2 DEF HandleClose, CallClose, CleanInv, GatherInv
  <2>3. SrtpInv'
    BY <1>1, <1>2 DEF HandleClose, CallClose, CleanInv, SrtpInv
  <2>4. TimerInv'
    BY <1>1, <1>2 DEF HandleClose, CallClose, CleanInv, NoIceFlow, TimerInv
  <2>5. TrxInv'
    BY <1>1, <1>2 DEF HandleClose, CallClose, CleanInv, TrxInv
  <2>6. SocketInv'
    BY <1>1, <1>2 DEF HandleClose, CallClose, CleanInv, SocketInv
  <2>7. QED
    BY <2>1, <2>2, <2>3, <2>4, <2>5, <2>6 DEF CleanInv
<1>6. QED
  BY <1>3, <1>4a, <1>4b, <1>4c, <1>4d, <1>4e, <1>4f, <1>4g, <1>5 DEF IInv

\* The session that got no SDP has been closed and may be used again.
LEMMA HandleCloseNoIceFlowInv ==
    ASSUME Calm, IInv, HandleCloseNoIceFlow
    PROVE  IInv'
<1>1. /\ Types /\ AppInv /\ DaemonInv /\ StateInv /\ PacketInv /\ ListenerInv /\ CloserInv
      /\ QueueInv
      /\ CleanInv
  BY DEF IInv
<1>2. /\ pc'.session = "check"
      /\ pc'.listener = pc.listener /\ pc'.app = pc.app /\ pc'.daemon = pc.daemon /\ pc' \in Steps
  BY <1>1, GotoFacts DEF HandleCloseNoIceFlow, OnClosePeerConnection, Types, SessionSteps, States
<1>3. Types'
  <2>1. trx' \in BOOLEAN
    BY <1>1 DEF HandleCloseNoIceFlow, OnClosePeerConnection, Types
  <2>2. QED
    BY <1>1, <1>2, <2>1 DEF HandleCloseNoIceFlow, OnClosePeerConnection, Types, States, IceStates
<1>4. AppInv' /\ DaemonInv' /\ StateInv' /\ PacketInv' /\ ListenerInv' /\ CloserInv' /\ QueueInv'
  BY <1>1, <1>2 DEF HandleCloseNoIceFlow, OnClosePeerConnection, Calm, AppInv, DaemonInv,
     StateInv, PacketInv, ListenerInv, CloserInv, QueueInv
<1>5. CleanInv'
  <2>1. IceInv'
    BY <1>1, <1>2 DEF HandleCloseNoIceFlow, OnClosePeerConnection, CleanInv, IceInv
  <2>2. GatherInv'
    BY <1>1, <1>2 DEF HandleCloseNoIceFlow, OnClosePeerConnection, CleanInv, GatherInv
  <2>3. SrtpInv'
    BY <1>1, <1>2 DEF HandleCloseNoIceFlow, OnClosePeerConnection, CleanInv, SrtpInv
  <2>4. TimerInv'
    BY <1>1, <1>2 DEF HandleCloseNoIceFlow, OnClosePeerConnection, CleanInv, NoIceFlow, TimerInv
  <2>5. TrxInv'
    BY <1>1, <1>2 DEF HandleCloseNoIceFlow, OnClosePeerConnection, CleanInv, TrxInv
  <2>6. SocketInv'
    BY <1>1, <1>2 DEF HandleCloseNoIceFlow, OnClosePeerConnection, CleanInv, SocketInv
  <2>7. QED
    BY <2>1, <2>2, <2>3, <2>4, <2>5, <2>6 DEF CleanInv
<1>6. QED
  BY <1>3, <1>4, <1>5 DEF IInv

\* An idle connection is closed when the peer is silent.
LEMMA CheckInactivityInv ==
    ASSUME Calm, IInv, CheckInactivity
    PROVE  IInv'
<1>1. /\ Types /\ AppInv /\ DaemonInv /\ StateInv /\ PacketInv /\ ListenerInv /\ CloserInv
      /\ QueueInv
      /\ CleanInv
  BY DEF IInv
<1>2. /\ \/ pc'.session = "recv" /\ after' = after
         \/ /\ pc'.session = "close" /\ state = "READY" /\ "idle" \in expired
            /\ after' = [after EXCEPT !["session"] = "recv"]
      /\ pc'.listener = pc.listener /\ pc'.app = pc.app /\ pc'.daemon = pc.daemon /\ pc' \in Steps
  BY <1>1, GotoFacts DEF CheckInactivity, CallClose, Types, SessionSteps, States
<1>3. Types'
  BY <1>1, <1>2 DEF CheckInactivity, CallClose, Types, States, IceStates
<1>4a. AppInv'
  BY <1>1, <1>2, <1>3 DEF CheckInactivity, CallClose, AppInv
<1>4b. DaemonInv'
  BY <1>1, <1>2, <1>3 DEF CheckInactivity, CallClose, DaemonInv
<1>4c. StateInv'
  BY <1>1, <1>2, <1>3 DEF CheckInactivity, CallClose, StateInv
<1>4d. PacketInv'
  BY <1>1, <1>2, <1>3 DEF CheckInactivity, CallClose, PacketInv
<1>4e. ListenerInv'
  BY <1>1, <1>2, <1>3 DEF CheckInactivity, CallClose, ListenerInv
<1>4f. CloserInv'
  <2>1. pc'.session = "close" =>
          /\ state = "READY" /\ silent /\ pc.listener = "idle" /\ pc.app \in {"idle", "candidate"}
          /\ after'.session = "recv"
    BY <1>1, <1>2 DEF Types, Steps, AppInv, PacketInv, ListenerInv
  <2>2. QED
    BY <1>1, <1>2, <2>1 DEF CheckInactivity, CloserInv
<1>4g. QueueInv'
  BY <1>1, <1>2 DEF CheckInactivity, QueueInv
<1>5. CleanInv'
  <2>1. IceInv'
    BY <1>1, <1>2 DEF CheckInactivity, CallClose, Types, Steps, CleanInv, IceInv
  <2>2. GatherInv'
    BY <1>1, <1>2 DEF CheckInactivity, CallClose, StateInv, CleanInv, GatherInv
  <2>3. SrtpInv'
    BY <1>1, <1>2 DEF CheckInactivity, CallClose, CleanInv, SrtpInv
  <2>4. TimerInv'
    BY <1>1, <1>2 DEF CheckInactivity, CallClose, CleanInv, NoIceFlow, TimerInv
  <2>5. TrxInv'
    BY <1>1, <1>2 DEF CheckInactivity, CallClose, CleanInv, TrxInv
  <2>6. SocketInv'
    BY <1>1, <1>2 DEF CheckInactivity, CallClose, CleanInv, SocketInv
  <2>7. QED
    BY <2>1, <2>2, <2>3, <2>4, <2>5, <2>6 DEF CleanInv
<1>6. QED
  BY <1>3, <1>4a, <1>4b, <1>4c, <1>4d, <1>4e, <1>4f, <1>4g, <1>5 DEF IInv

\* The session task closes: the viewer, if there was one, is counted out.
LEMMA SessionCloseInv ==
    ASSUME Calm, IInv, Close("session")
    PROVE  IInv'
<1>1. /\ Types /\ AppInv /\ DaemonInv /\ StateInv /\ PacketInv /\ ListenerInv /\ CloserInv
      /\ QueueInv
      /\ CleanInv
  BY DEF IInv
<1>2. /\ pc'.session = "destroy"
      /\ pc'.listener = pc.listener /\ pc'.app = pc.app /\ pc'.daemon = pc.daemon /\ pc' \in Steps
  BY <1>1, GotoFacts DEF Close, Types, SessionSteps, States
<1>3. Types'
  BY <1>1, <1>2 DEF Close, Types, States, IceStates
<1>4. AppInv' /\ DaemonInv' /\ StateInv' /\ PacketInv' /\ ListenerInv' /\ CloserInv' /\ QueueInv'
  BY <1>1, <1>2 DEF Close, Calm, AppInv, DaemonInv, StateInv, PacketInv, ListenerInv, CloserInv,
     QueueInv
<1>5. CleanInv'
  <2>1. IceInv'
    BY <1>1, <1>2 DEF Close, CleanInv, IceInv
  <2>2. GatherInv'
    BY <1>1, <1>2 DEF Close, CleanInv, GatherInv
  <2>3. SrtpInv'
    BY <1>1, <1>2 DEF Close, CleanInv, SrtpInv
  <2>4. TimerInv'
    BY <1>1, <1>2 DEF Close, CleanInv, NoIceFlow, TimerInv
  <2>5. TrxInv'
    BY <1>1, <1>2 DEF Close, CleanInv, TrxInv
  <2>6. SocketInv'
    BY <1>1, <1>2 DEF Close, CleanInv, SocketInv
  <2>7. QED
    BY <2>1, <2>2, <2>3, <2>4, <2>5, <2>6 DEF CleanInv
<1>6. QED
  BY <1>3, <1>4, <1>5 DEF IInv

\* A controller that is closed already ends the close early.
LEMMA SessionDestroyInv ==
    ASSUME Calm, IInv, Destroy("session")
    PROVE  IInv'
<1>1. /\ Types /\ AppInv /\ DaemonInv /\ StateInv /\ PacketInv /\ ListenerInv /\ CloserInv
      /\ QueueInv
      /\ CleanInv
  BY DEF IInv
<1>2. /\ pc'.session = (IF ice \in {"NONE", "CLOSED"} THEN after.session ELSE "freeSockets")
      /\ pc'.listener = pc.listener /\ pc'.app = pc.app /\ pc'.daemon = pc.daemon /\ pc' \in Steps
  BY <1>1, GotoFacts DEF Destroy, Types, SessionSteps, States, CloserInv
<1>3. Types'
  BY <1>1, <1>2 DEF Destroy, Types, States, IceStates
<1>4a. AppInv'
  BY <1>1, <1>2, <1>3 DEF Destroy, AppInv, CloserInv
<1>4b. DaemonInv'
  BY <1>1, <1>2, <1>3 DEF Destroy, DaemonInv
<1>4c. StateInv'
  BY <1>1, <1>2, <1>3 DEF Destroy, StateInv, CloserInv
<1>4d. PacketInv'
  BY <1>1, <1>2, <1>3 DEF Destroy, PacketInv, CloserInv
<1>4e. ListenerInv'
  BY <1>1, <1>2, <1>3 DEF Destroy, ListenerInv
<1>4f. CloserInv'
  BY <1>1, <1>2, <1>3 DEF Destroy, Types, CloserInv
<1>4g. QueueInv'
  BY <1>1, <1>2, <1>3 DEF Destroy, Types, QueueInv
<1>5. CleanInv'
  <2>1. IceInv'
    <3>1. /\ pc.session = "destroy" /\ queue' = queue /\ state' = state /\ after' = after
          /\ sockets' = sockets /\ state = "CLOSING" /\ pc.listener = "idle"
          /\ after.session \in {"check", "recv", "onClose"} /\ ice # "NONE" /\ ice \in IceStates
      BY <1>1 DEF Destroy, Types, CloserInv, CleanInv, IceInv
    <3>2. ice' = CASE ice = "NEW" -> "NONE"
                  [] ice \in {"PROCESS", "READY", "CLOSING"} -> "CLOSING"
                  [] OTHER -> ice
      BY DEF Destroy
    <3>3. CASE ice = "NEW"
      BY <1>1, <1>2, <3>1, <3>2, <3>3 DEF CleanInv, IceInv, Queued
    <3>4. CASE ice \in {"PROCESS", "READY", "CLOSING"}
      BY <1>1, <1>2, <3>1, <3>2, <3>4 DEF CleanInv, IceInv, Queued
    <3>5. CASE ice = "CLOSED"
      BY <1>1, <1>2, <3>1, <3>2, <3>5 DEF CleanInv, IceInv, Queued
    <3>6. QED
      BY <3>1, <3>3, <3>4, <3>5 DEF IceStates
  <2>2. GatherInv'
    BY <1>1, <1>2 DEF Destroy, CleanInv, GatherInv
  <2>3. SrtpInv'
    BY <1>1, <1>2 DEF Destroy, CleanInv, SrtpInv
  <2>4. TimerInv'
    BY <1>1, <1>2
       DEF Destroy, Types, Steps, AppInv, StateInv, ListenerInv, CloserInv, CleanInv, NoIceFlow,
           TimerInv
  <2>5. TrxInv'
    BY <1>1, <1>2 DEF Destroy, CleanInv, TrxInv
  <2>6. SocketInv'
    BY <1>1, <1>2 DEF Destroy, Types, Steps, CleanInv, SocketInv
  <2>7. QED
    BY <2>1, <2>2, <2>3, <2>4, <2>5, <2>6 DEF CleanInv
<1>6. QED
  BY <1>3, <1>4a, <1>4b, <1>4c, <1>4d, <1>4e, <1>4f, <1>4g, <1>5 DEF IInv

\* The controller is CLOSED and nobody polls.
LEMMA SessionDestroyedInv ==
    ASSUME Calm, IInv, Destroyed("session")
    PROVE  IInv'
<1>1. /\ Types /\ AppInv /\ DaemonInv /\ StateInv /\ PacketInv /\ ListenerInv /\ CloserInv
      /\ QueueInv
      /\ CleanInv
  BY DEF IInv
<1>2. /\ pc'.session = "deinit"
      /\ pc'.listener = pc.listener /\ pc'.app = pc.app /\ pc'.daemon = pc.daemon /\ pc' \in Steps
  BY <1>1, GotoFacts DEF Destroyed, Types, SessionSteps, States
<1>3. Types'
  BY <1>1, <1>2 DEF Destroyed, Types, States, IceStates
<1>4. AppInv' /\ DaemonInv' /\ StateInv' /\ PacketInv' /\ ListenerInv' /\ CloserInv' /\ QueueInv'
  BY <1>1, <1>2 DEF Destroyed, Calm, AppInv, DaemonInv, StateInv, PacketInv, ListenerInv,
     CloserInv, QueueInv
<1>5. CleanInv'
  <2>1. IceInv'
    BY <1>1, <1>2 DEF Destroyed, CleanInv, IceInv
  <2>2. GatherInv'
    BY <1>1, <1>2 DEF Destroyed, CleanInv, GatherInv
  <2>3. SrtpInv'
    BY <1>1, <1>2 DEF Destroyed, CleanInv, SrtpInv
  <2>4. TimerInv'
    BY <1>1, <1>2 DEF Destroyed, CleanInv, NoIceFlow, TimerInv
  <2>5. TrxInv'
    BY <1>1, <1>2 DEF Destroyed, CleanInv, TrxInv
  <2>6. SocketInv'
    BY <1>1, <1>2 DEF Destroyed, CleanInv, SocketInv
  <2>7. QED
    BY <2>1, <2>2, <2>3, <2>4, <2>5, <2>6 DEF CleanInv
<1>6. QED
  BY <1>3, <1>4, <1>5 DEF IInv

\* The SRTP sessions go while the state is CLOSING.
LEMMA SessionDeInitInv ==
    ASSUME Calm, IInv, DeInit("session")
    PROVE  IInv'
<1>1. /\ Types /\ AppInv /\ DaemonInv /\ StateInv /\ PacketInv /\ ListenerInv /\ CloserInv
      /\ QueueInv
      /\ CleanInv
  BY DEF IInv
<1>2. /\ pc'.session = "resetTimers"
      /\ pc'.listener = pc.listener /\ pc'.app = pc.app /\ pc'.daemon = pc.daemon /\ pc' \in Steps
  BY <1>1, GotoFacts DEF DeInit, Types, SessionSteps, States
<1>3. Types'
  <2>1. srtp' \in BOOLEAN
    BY <1>1 DEF DeInit, Types
  <2>2. QED
    BY <1>1, <1>2, <2>1 DEF DeInit, Types, States, IceStates
<1>4. AppInv' /\ DaemonInv' /\ StateInv' /\ PacketInv' /\ ListenerInv' /\ CloserInv' /\ QueueInv'
  BY <1>1, <1>2 DEF DeInit, Calm, AppInv, DaemonInv, StateInv, PacketInv, ListenerInv, CloserInv,
     QueueInv
<1>5. CleanInv'
  <2>1. IceInv'
    BY <1>1, <1>2 DEF DeInit, CleanInv, IceInv
  <2>2. GatherInv'
    BY <1>1, <1>2 DEF DeInit, CleanInv, GatherInv
  <2>3. SrtpInv'
    BY <1>1, <1>2 DEF DeInit, CleanInv, SrtpInv
  <2>4. TimerInv'
    BY <1>1, <1>2 DEF DeInit, CleanInv, NoIceFlow, TimerInv
  <2>5. TrxInv'
    BY <1>1, <1>2 DEF DeInit, CleanInv, TrxInv
  <2>6. SocketInv'
    BY <1>1, <1>2 DEF DeInit, CleanInv, SocketInv
  <2>7. QED
    BY <2>1, <2>2, <2>3, <2>4, <2>5, <2>6 DEF CleanInv
<1>6. QED
  BY <1>3, <1>4, <1>5 DEF IInv

\* The report timers stop and the session task goes on where it was called.
LEMMA SessionResetTimerInv ==
    ASSUME Calm, IInv, PeerConnection_ResetTimer("session")
    PROVE  IInv'
<1>1. /\ Types /\ AppInv /\ DaemonInv /\ StateInv /\ PacketInv /\ ListenerInv /\ CloserInv
      /\ QueueInv
      /\ CleanInv
  BY DEF IInv
<1>2. /\ pc'.session = after.session
      /\ pc'.listener = pc.listener /\ pc'.app = pc.app /\ pc'.daemon = pc.daemon /\ pc' \in Steps
  BY <1>1, GotoFacts DEF PeerConnection_ResetTimer, Types, SessionSteps, States, CloserInv
<1>3. Types'
  <2>1. closeTimer' \in BOOLEAN /\ reportTimer' \in BOOLEAN
    BY <1>1 DEF PeerConnection_ResetTimer, Types
  <2>2. QED
    BY <1>1, <1>2, <2>1 DEF PeerConnection_ResetTimer, Types, States, IceStates
<1>4a. AppInv'
  BY <1>1, <1>2, <1>3 DEF PeerConnection_ResetTimer, AppInv
<1>4b. DaemonInv'
  BY <1>1, <1>2, <1>3 DEF PeerConnection_ResetTimer, DaemonInv
<1>4c. StateInv'
  BY <1>1, <1>2, <1>3 DEF PeerConnection_ResetTimer, StateInv, CloserInv
<1>4d. PacketInv'
  BY <1>1, <1>2, <1>3 DEF PeerConnection_ResetTimer, PacketInv
<1>4e. ListenerInv'
  BY <1>1, <1>2, <1>3 DEF PeerConnection_ResetTimer, ListenerInv, CloserInv
<1>4f. CloserInv'
  BY <1>1, <1>2, <1>3 DEF PeerConnection_ResetTimer, Types, CloserInv
<1>4g. QueueInv'
  BY <1>1, <1>2, <1>3 DEF PeerConnection_ResetTimer, Types, QueueInv
<1>5. CleanInv'
  <2>1. IceInv'
    BY <1>1, <1>2 DEF PeerConnection_ResetTimer, Types, Steps, CleanInv, IceInv
  <2>2. GatherInv'
    BY <1>1, <1>2 DEF PeerConnection_ResetTimer, CleanInv, GatherInv
  <2>3. SrtpInv'
    BY <1>1, <1>2 DEF PeerConnection_ResetTimer, CleanInv, SrtpInv
  <2>4. TimerInv'
    BY <1>1, <1>2 DEF PeerConnection_ResetTimer, CleanInv, NoIceFlow, TimerInv
  <2>5. TrxInv'
    BY <1>1, <1>2 DEF PeerConnection_ResetTimer, CleanInv, TrxInv
  <2>6. SocketInv'
    BY <1>1, <1>2 DEF PeerConnection_ResetTimer, Types, Steps, CleanInv, SocketInv
  <2>7. QED
    BY <2>1, <2>2, <2>3, <2>4, <2>5, <2>6 DEF CleanInv
<1>6. QED
  BY <1>3, <1>4a, <1>4b, <1>4c, <1>4d, <1>4e, <1>4f, <1>4g, <1>5 DEF IInv

\* The listener closes: the viewer, if there was one, is counted out.
LEMMA ListenerCloseInv ==
    ASSUME Calm, IInv, Close("listener")
    PROVE  IInv'
<1>1. /\ Types /\ AppInv /\ DaemonInv /\ StateInv /\ PacketInv /\ ListenerInv /\ CloserInv
      /\ QueueInv
      /\ CleanInv
  BY DEF IInv
<1>2. /\ pc'.listener = "destroy"
      /\ pc'.session = pc.session /\ pc'.app = pc.app /\ pc'.daemon = pc.daemon /\ pc' \in Steps
  BY <1>1, GotoFacts DEF Close, Types, ListenerSteps, States
<1>3. Types'
  BY <1>1, <1>2 DEF Close, Types, States, IceStates
<1>4. AppInv' /\ DaemonInv' /\ StateInv' /\ PacketInv' /\ ListenerInv' /\ CloserInv' /\ QueueInv'
  BY <1>1, <1>2 DEF Close, Calm, AppInv, DaemonInv, StateInv, PacketInv, ListenerInv, CloserInv,
     QueueInv
<1>5. CleanInv'
  <2>1. IceInv'
    BY <1>1, <1>2 DEF Close, CleanInv, IceInv
  <2>2. GatherInv'
    BY <1>1, <1>2 DEF Close, ListenerInv, CleanInv, GatherInv
  <2>3. SrtpInv'
    BY <1>1, <1>2 DEF Close, CleanInv, SrtpInv
  <2>4. TimerInv'
    BY <1>1, <1>2 DEF Close, CleanInv, NoIceFlow, TimerInv
  <2>5. TrxInv'
    BY <1>1, <1>2 DEF Close, CleanInv, TrxInv
  <2>6. SocketInv'
    BY <1>1, <1>2 DEF Close, CleanInv, SocketInv
  <2>7. QED
    BY <2>1, <2>2, <2>3, <2>4, <2>5, <2>6 DEF CleanInv
<1>6. QED
  BY <1>3, <1>4, <1>5 DEF IInv

\* The same in the listener.
LEMMA ListenerDestroyInv ==
    ASSUME Calm, IInv, Destroy("listener")
    PROVE  IInv'
<1>1. /\ Types /\ AppInv /\ DaemonInv /\ StateInv /\ PacketInv /\ ListenerInv /\ CloserInv
      /\ QueueInv
      /\ CleanInv
  BY DEF IInv
<1>2. /\ pc'.listener = (IF ice \in {"NONE", "CLOSED"} THEN after.listener ELSE "freeSockets")
      /\ pc'.session = pc.session /\ pc'.app = pc.app /\ pc'.daemon = pc.daemon /\ pc' \in Steps
  BY <1>1, GotoFacts DEF Destroy, Types, ListenerSteps, States, CloserInv
<1>3. Types'
  BY <1>1, <1>2 DEF Destroy, Types, States, IceStates
<1>4a. AppInv'
  BY <1>1, <1>2, <1>3 DEF Destroy, AppInv
<1>4b. DaemonInv'
  BY <1>1, <1>2, <1>3 DEF Destroy, DaemonInv
<1>4c. StateInv'
  BY <1>1, <1>2, <1>3 DEF Destroy, StateInv, ListenerInv
<1>4d. PacketInv'
  BY <1>1, <1>2, <1>3 DEF Destroy, PacketInv, ListenerInv
<1>4e. ListenerInv'
  BY <1>1, <1>2, <1>3 DEF Destroy, Types, ListenerInv
<1>4f. CloserInv'
  BY <1>1, <1>2, <1>3 DEF Destroy, PacketInv, ListenerInv, CloserInv
<1>4g. QueueInv'
  BY <1>1, <1>2, <1>3 DEF Destroy, QueueInv
<1>5. CleanInv'
  <2>1. IceInv'
    BY <1>1, <1>2 DEF Destroy, PacketInv, ListenerInv, CleanInv, IceInv
  <2>2. GatherInv'
    BY <1>1, <1>2 DEF Destroy, ListenerInv, CleanInv, GatherInv
  <2>3. SrtpInv'
    BY <1>1, <1>2 DEF Destroy, CleanInv, SrtpInv
  <2>4. TimerInv'
    BY <1>1, <1>2 DEF Destroy, CleanInv, NoIceFlow, TimerInv
  <2>5. TrxInv'
    BY <1>1, <1>2 DEF Destroy, CleanInv, TrxInv
  <2>6. SocketInv'
    BY <1>1, <1>2 DEF Destroy, CleanInv, SocketInv
  <2>7. QED
    BY <2>1, <2>2, <2>3, <2>4, <2>5, <2>6 DEF CleanInv
<1>6. QED
  BY <1>3, <1>4a, <1>4b, <1>4c, <1>4d, <1>4e, <1>4f, <1>4g, <1>5 DEF IInv

\* The same in the listener.
LEMMA ListenerDestroyedInv ==
    ASSUME Calm, IInv, Destroyed("listener")
    PROVE  IInv'
<1>1. /\ Types /\ AppInv /\ DaemonInv /\ StateInv /\ PacketInv /\ ListenerInv /\ CloserInv
      /\ QueueInv
      /\ CleanInv
  BY DEF IInv
<1>2. /\ pc'.listener = "deinit"
      /\ pc'.session = pc.session /\ pc'.app = pc.app /\ pc'.daemon = pc.daemon /\ pc' \in Steps
  BY <1>1, GotoFacts DEF Destroyed, Types, ListenerSteps, States
<1>3. Types'
  BY <1>1, <1>2 DEF Destroyed, Types, States, IceStates
<1>4. AppInv' /\ DaemonInv' /\ StateInv' /\ PacketInv' /\ ListenerInv' /\ CloserInv' /\ QueueInv'
  BY <1>1, <1>2 DEF Destroyed, Calm, AppInv, DaemonInv, StateInv, PacketInv, ListenerInv,
     CloserInv, QueueInv
<1>5. CleanInv'
  <2>1. IceInv'
    BY <1>1, <1>2 DEF Destroyed, CloserInv, CleanInv, IceInv
  <2>2. GatherInv'
    BY <1>1, <1>2 DEF Destroyed, ListenerInv, CleanInv, GatherInv
  <2>3. SrtpInv'
    BY <1>1, <1>2 DEF Destroyed, CleanInv, SrtpInv
  <2>4. TimerInv'
    BY <1>1, <1>2 DEF Destroyed, CleanInv, NoIceFlow, TimerInv
  <2>5. TrxInv'
    BY <1>1, <1>2 DEF Destroyed, CleanInv, TrxInv
  <2>6. SocketInv'
    BY <1>1, <1>2 DEF Destroyed, CleanInv, SocketInv
  <2>7. QED
    BY <2>1, <2>2, <2>3, <2>4, <2>5, <2>6 DEF CleanInv
<1>6. QED
  BY <1>3, <1>4, <1>5 DEF IInv

\* The same in the listener, by then the session may be INITED.
LEMMA ListenerDeInitInv ==
    ASSUME Calm, IInv, DeInit("listener")
    PROVE  IInv'
<1>1. /\ Types /\ AppInv /\ DaemonInv /\ StateInv /\ PacketInv /\ ListenerInv /\ CloserInv
      /\ QueueInv
      /\ CleanInv
  BY DEF IInv
<1>2. /\ pc'.listener = "resetTimers"
      /\ pc'.session = pc.session /\ pc'.app = pc.app /\ pc'.daemon = pc.daemon /\ pc' \in Steps
  BY <1>1, GotoFacts DEF DeInit, Types, ListenerSteps, States
<1>3. Types'
  <2>1. srtp' \in BOOLEAN
    BY <1>1 DEF DeInit, Types
  <2>2. QED
    BY <1>1, <1>2, <2>1 DEF DeInit, Types, States, IceStates
<1>4. AppInv' /\ DaemonInv' /\ StateInv' /\ PacketInv' /\ ListenerInv' /\ CloserInv' /\ QueueInv'
  BY <1>1, <1>2 DEF DeInit, Calm, AppInv, DaemonInv, StateInv, PacketInv, ListenerInv, CloserInv,
     QueueInv
<1>5. CleanInv'
  <2>1. IceInv'
    BY <1>1, <1>2 DEF DeInit, CleanInv, IceInv
  <2>2. GatherInv'
    BY <1>1, <1>2 DEF DeInit, CleanInv, GatherInv
  <2>3. SrtpInv'
    BY <1>1, <1>2 DEF DeInit, CleanInv, SrtpInv
  <2>4. TimerInv'
    BY <1>1, <1>2 DEF DeInit, CleanInv, NoIceFlow, TimerInv
  <2>5. TrxInv'
    BY <1>1, <1>2 DEF DeInit, CleanInv, TrxInv
  <2>6. SocketInv'
    BY <1>1, <1>2 DEF DeInit, CleanInv, SocketInv
  <2>7. QED
    BY <2>1, <2>2, <2>3, <2>4, <2>5, <2>6 DEF CleanInv
<1>6. QED
  BY <1>3, <1>4, <1>5 DEF IInv

\* The report timers stop and the listener is idle again.
LEMMA ListenerResetTimerInv ==
    ASSUME Calm, IInv, PeerConnection_ResetTimer("listener")
    PROVE  IInv'
<1>1. /\ Types /\ AppInv /\ DaemonInv /\ StateInv /\ PacketInv /\ ListenerInv /\ CloserInv
      /\ QueueInv
      /\ CleanInv
  BY DEF IInv
<1>2. /\ pc'.listener = after.listener
      /\ pc'.session = pc.session /\ pc'.app = pc.app /\ pc'.daemon = pc.daemon /\ pc' \in Steps
  BY <1>1, GotoFacts DEF PeerConnection_ResetTimer, Types, ListenerSteps, States, CloserInv
<1>3. Types'
  <2>1. closeTimer' \in BOOLEAN /\ reportTimer' \in BOOLEAN
    BY <1>1 DEF PeerConnection_ResetTimer, Types
  <2>2. QED
    BY <1>1, <1>2, <2>1 DEF PeerConnection_ResetTimer, Types, States, IceStates
<1>4a. AppInv'
  BY <1>1, <1>2, <1>3 DEF PeerConnection_ResetTimer, AppInv
<1>4b. DaemonInv'
  BY <1>1, <1>2, <1>3 DEF PeerConnection_ResetTimer, DaemonInv
<1>4c. StateInv'
  BY <1>1, <1>2, <1>3 DEF PeerConnection_ResetTimer, StateInv, ListenerInv
<1>4d. PacketInv'
  BY <1>1, <1>2, <1>3 DEF PeerConnection_ResetTimer, PacketInv
<1>4e. ListenerInv'
  BY <1>1, <1>2, <1>3 DEF PeerConnection_ResetTimer, Types, ListenerInv
<1>4f. CloserInv'
  BY <1>1, <1>2, <1>3 DEF PeerConnection_ResetTimer, CloserInv
<1>4g. QueueInv'
  BY <1>1, <1>2, <1>3 DEF PeerConnection_ResetTimer, QueueInv
<1>5. CleanInv'
  <2>1. IceInv'
    BY <1>1, <1>2 DEF PeerConnection_ResetTimer, Types, Steps, CleanInv, IceInv
  <2>2. GatherInv'
    BY <1>1, <1>2 DEF PeerConnection_ResetTimer, CleanInv, GatherInv
  <2>3. SrtpInv'
    BY <1>1, <1>2 DEF PeerConnection_ResetTimer, CleanInv, SrtpInv
  <2>4. TimerInv'
    BY <1>1, <1>2 DEF PeerConnection_ResetTimer, CleanInv, NoIceFlow, TimerInv
  <2>5. TrxInv'
    BY <1>1, <1>2 DEF PeerConnection_ResetTimer, CleanInv, TrxInv
  <2>6. SocketInv'
    BY <1>1, <1>2 DEF PeerConnection_ResetTimer, Types, Steps, CleanInv, SocketInv
  <2>7. QED
    BY <2>1, <2>2, <2>3, <2>4, <2>5, <2>6 DEF CleanInv
<1>6. QED
  BY <1>3, <1>4a, <1>4b, <1>4c, <1>4d, <1>4e, <1>4f, <1>4g, <1>5 DEF IInv

\* Packets without a nominated pair come only to a session that looks for one.
LEMMA NominateInv ==
    ASSUME Calm, IInv, Nominate
    PROVE  IInv'
<1>1. /\ Types /\ AppInv /\ DaemonInv /\ StateInv /\ PacketInv /\ ListenerInv /\ CloserInv
      /\ QueueInv
      /\ CleanInv
  BY DEF IInv
<1>2. /\ pc'.listener = "nominated"
      /\ pc'.session = pc.session /\ pc'.app = pc.app /\ pc'.daemon = pc.daemon /\ pc' \in Steps
  BY <1>1, GotoFacts DEF Nominate, CanReceive, Types, ListenerSteps, States
<1>3. Types'
  BY <1>1, <1>2 DEF Nominate, CanReceive, Types, States, IceStates
<1>4a. AppInv'
  BY <1>1, <1>2, <1>3 DEF Nominate, CanReceive, AppInv, StateInv
<1>4b. DaemonInv'
  BY <1>1, <1>2, <1>3 DEF Nominate, CanReceive, DaemonInv, StateInv
<1>4c. StateInv'
  BY <1>1, <1>2, <1>3 DEF Nominate, CanReceive, StateInv
<1>4d. PacketInv'
  BY <1>1, <1>2, <1>3 DEF Nominate, CanReceive, PacketInv
<1>4e. ListenerInv'
  <2>1. /\ state = "FIND" /\ ~silent /\ polling /\ sockets # {} /\ nominated' # "none"
        /\ pc.app \in {"idle", "candidate"}
    BY <1>1, <1>3 DEF Nominate, CanReceive, Types, Steps, AppInv, PacketInv
  <2>2. QED
    BY <1>1, <1>2, <2>1 DEF Nominate, ListenerInv
<1>4f. CloserInv'
  BY <1>1, <1>2, <1>3 DEF Nominate, CanReceive, CloserInv
<1>4g. QueueInv'
  BY <1>1, <1>2, <1>3 DEF Nominate, CanReceive, QueueInv
<1>5. CleanInv'
  <2>1. IceInv'
    BY <1>1, <1>2 DEF Nominate, CanReceive, CleanInv, IceInv
  <2>2. GatherInv'
    BY <1>1, <1>2 DEF Nominate, CanReceive, CleanInv, GatherInv
  <2>3. SrtpInv'
    BY <1>1, <1>2 DEF Nominate, CanReceive, CleanInv, SrtpInv
  <2>4. TimerInv'
    BY <1>1, <1>2 DEF Nominate, CanReceive, CleanInv, NoIceFlow, TimerInv
  <2>5. TrxInv'
    BY <1>1, <1>2 DEF Nominate, CanReceive, CleanInv, TrxInv
  <2>6. SocketInv'
    BY <1>1, <1>2 DEF Nominate, CanReceive, CleanInv, SocketInv
  <2>7. QED
    BY <2>1, <2>2, <2>3, <2>4, <2>5, <2>6 DEF CleanInv
<1>6. QED
  BY <1>3, <1>4a, <1>4b, <1>4c, <1>4d, <1>4e, <1>4f, <1>4g, <1>5 DEF IInv

\* The controller is READY and its timer armed.
LEMMA NominatedInv ==
    ASSUME Calm, IInv, Nominated
    PROVE  IInv'
<1>1. /\ Types /\ AppInv /\ DaemonInv /\ StateInv /\ PacketInv /\ ListenerInv /\ CloserInv
      /\ QueueInv
      /\ CleanInv
  BY DEF IInv
<1>2. /\ pc'.listener = "handshake"
      /\ pc'.session = pc.session /\ pc'.app = pc.app /\ pc'.daemon = pc.daemon /\ pc' \in Steps
  BY <1>1, GotoFacts DEF Nominated, Types, ListenerSteps, States
<1>3. Types'
  BY <1>1, <1>2 DEF Nominated, Types, States, IceStates
<1>4. AppInv' /\ DaemonInv' /\ StateInv' /\ PacketInv' /\ ListenerInv' /\ CloserInv' /\ QueueInv'
  BY <1>1, <1>2 DEF Nominated, Calm, AppInv, DaemonInv, StateInv, PacketInv, ListenerInv,
     CloserInv, QueueInv
<1>5. CleanInv'
  <2>1. IceInv'
    BY <1>1, <1>2 DEF Nominated, StateInv, ListenerInv, CleanInv, IceInv
  <2>2. GatherInv'
    BY <1>1, <1>2 DEF Nominated, ListenerInv, CleanInv, GatherInv
  <2>3. SrtpInv'
    BY <1>1, <1>2 DEF Nominated, CleanInv, SrtpInv
  <2>4. TimerInv'
    BY <1>1, <1>2 DEF Nominated, CleanInv, NoIceFlow, TimerInv
  <2>5. TrxInv'
    BY <1>1, <1>2 DEF Nominated, CleanInv, TrxInv
  <2>6. SocketInv'
    BY <1>1, <1>2 DEF Nominated, CleanInv, SocketInv
  <2>7. QED
    BY <2>1, <2>2, <2>3, <2>4, <2>5, <2>6 DEF CleanInv
<1>6. QED
  BY <1>3, <1>4, <1>5 DEF IInv

\* The first handshake call cannot meet the deadline: packets still come.
LEMMA StartHandshakeInv ==
    ASSUME Calm, IInv, StartHandshake
    PROVE  IInv'
<1>1. /\ Types /\ AppInv /\ DaemonInv /\ StateInv /\ PacketInv /\ ListenerInv /\ CloserInv
      /\ QueueInv
      /\ CleanInv
  BY DEF IInv
<1>2. /\ pc'.listener = "p2p" /\ after' = after
      /\ pc'.session = pc.session /\ pc'.app = pc.app /\ pc'.daemon = pc.daemon /\ pc' \in Steps
  <2>1. "handshake" \notin expired
    BY <1>1 DEF StartHandshake, PacketInv, ListenerInv
  <2>2. QED
    BY <1>1, <2>1, GotoFacts DEF StartHandshake, ExecuteDtlsHandshake, CallClose, Types,
       ListenerSteps
<1>3. Types'
  BY <1>1, <1>2 DEF StartHandshake, ExecuteDtlsHandshake, CallClose, Types, States, IceStates
<1>4a. AppInv'
  BY <1>1, <1>2, <1>3 DEF StartHandshake, ExecuteDtlsHandshake, CallClose, AppInv
<1>4b. DaemonInv'
  BY <1>1, <1>2, <1>3 DEF StartHandshake, ExecuteDtlsHandshake, CallClose, DaemonInv
<1>4c. StateInv'
  BY <1>1, <1>2, <1>3 DEF StartHandshake, ExecuteDtlsHandshake, CallClose, StateInv
<1>4d. PacketInv'
  BY <1>1, <1>2, <1>3 DEF StartHandshake, ExecuteDtlsHandshake, CallClose, PacketInv
<1>4e. ListenerInv'
  BY <1>1, <1>2, <1>3 DEF StartHandshake, ExecuteDtlsHandshake, CallClose, ListenerInv
<1>4f. CloserInv'
  BY <1>1, <1>2, <1>3 DEF StartHandshake, ExecuteDtlsHandshake, CallClose, CloserInv
<1>4g. QueueInv'
  BY <1>1, <1>2, <1>3 DEF StartHandshake, ExecuteDtlsHandshake, CallClose, QueueInv
<1>5. CleanInv'
  <2>1. IceInv'
    BY <1>1, <1>2 DEF StartHandshake, ExecuteDtlsHandshake, CallClose, CleanInv, IceInv
  <2>2. GatherInv'
    BY <1>1, <1>2 DEF StartHandshake, ExecuteDtlsHandshake, CallClose, CleanInv, GatherInv
  <2>3. SrtpInv'
    BY <1>1, <1>2 DEF StartHandshake, ExecuteDtlsHandshake, CallClose, CleanInv, SrtpInv
  <2>4. TimerInv'
    BY <1>1, <1>2 DEF StartHandshake, ExecuteDtlsHandshake, CallClose, CleanInv, NoIceFlow, TimerInv
  <2>5. TrxInv'
    BY <1>1, <1>2 DEF StartHandshake, ExecuteDtlsHandshake, CallClose, CleanInv, TrxInv
  <2>6. SocketInv'
    BY <1>1, <1>2 DEF StartHandshake, ExecuteDtlsHandshake, CallClose, CleanInv, SocketInv
  <2>7. QED
    BY <2>1, <2>2, <2>3, <2>4, <2>5, <2>6 DEF CleanInv
<1>6. QED
  BY <1>3, <1>4a, <1>4b, <1>4c, <1>4d, <1>4e, <1>4f, <1>4g, <1>5 DEF IInv

\* The session is P2P once the handshake was started.
LEMMA SetP2PInv ==
    ASSUME Calm, IInv, SetP2P
    PROVE  IInv'
<1>1. /\ Types /\ AppInv /\ DaemonInv /\ StateInv /\ PacketInv /\ ListenerInv /\ CloserInv
      /\ QueueInv
      /\ CleanInv
  BY DEF IInv
<1>2. /\ pc'.listener = "idle"
      /\ pc'.session = pc.session /\ pc'.app = pc.app /\ pc'.daemon = pc.daemon /\ pc' \in Steps
  BY <1>1, GotoFacts DEF SetP2P, Types, ListenerSteps, States
<1>3. Types'
  BY <1>1, <1>2 DEF SetP2P, Types, States, IceStates
<1>4. AppInv' /\ DaemonInv' /\ StateInv' /\ PacketInv' /\ ListenerInv' /\ CloserInv' /\ QueueInv'
  BY <1>1, <1>2 DEF SetP2P, Calm, AppInv, DaemonInv, StateInv, PacketInv, ListenerInv, CloserInv,
     QueueInv
<1>5. CleanInv'
  <2>1. IceInv'
    BY <1>1, <1>2 DEF SetP2P, CleanInv, IceInv
  <2>2. GatherInv'
    BY <1>1, <1>2 DEF SetP2P, ListenerInv, CleanInv, GatherInv
  <2>3. SrtpInv'
    BY <1>1, <1>2 DEF SetP2P, CleanInv, SrtpInv
  <2>4. TimerInv'
    BY <1>1, <1>2 DEF SetP2P, CleanInv, NoIceFlow, TimerInv
  <2>5. TrxInv'
    BY <1>1, <1>2 DEF SetP2P, CleanInv, TrxInv
  <2>6. SocketInv'
    BY <1>1, <1>2 DEF SetP2P, CleanInv, SocketInv
  <2>7. QED
    BY <2>1, <2>2, <2>3, <2>4, <2>5, <2>6 DEF CleanInv
<1>6. QED
  BY <1>3, <1>4, <1>5 DEF IInv

\* The handshake ends in a session that is P2P: READY and CLOSING have ended theirs.
LEMMA RxHandshakeDoneInv ==
    ASSUME Calm, IInv, RxHandshakeDone
    PROVE  IInv'
<1>1. /\ Types /\ AppInv /\ DaemonInv /\ StateInv /\ PacketInv /\ ListenerInv /\ CloserInv
      /\ QueueInv
      /\ CleanInv
  BY DEF IInv
<1>2. /\ pc'.listener = "complete"
      /\ pc'.session = pc.session /\ pc'.app = pc.app /\ pc'.daemon = pc.daemon /\ pc' \in Steps
  BY <1>1, GotoFacts DEF RxHandshakeDone, CanReceive, Types, ListenerSteps, States
<1>3. Types'
  BY <1>1, <1>2 DEF RxHandshakeDone, CanReceive, Types, States, IceStates
<1>4a. AppInv'
  BY <1>1, <1>2, <1>3 DEF RxHandshakeDone, CanReceive, AppInv, StateInv
<1>4b. DaemonInv'
  BY <1>1, <1>2, <1>3 DEF RxHandshakeDone, CanReceive, DaemonInv, StateInv
<1>4c. StateInv'
  BY <1>1, <1>2, <1>3 DEF RxHandshakeDone, CanReceive, StateInv
<1>4d. PacketInv'
  BY <1>1, <1>2, <1>3 DEF RxHandshakeDone, CanReceive, PacketInv
<1>4e. ListenerInv'
  <2>1. /\ state \in {"P2P", "READY", "CLOSING"} /\ ~silent /\ polling /\ sockets # {}
        /\ nominated # "none"
        /\ pc.app \in {"idle", "candidate"}
    BY <1>1 DEF RxHandshakeDone, CanReceive, Types, Steps, AppInv, PacketInv
  <2>2. QED
    BY <1>1, <1>2, <2>1 DEF RxHandshakeDone, ListenerInv, StateInv, PacketInv
<1>4f. CloserInv'
  BY <1>1, <1>2, <1>3 DEF RxHandshakeDone, CanReceive, CloserInv
<1>4g. QueueInv'
  BY <1>1, <1>2, <1>3 DEF RxHandshakeDone, CanReceive, QueueInv
<1>5. CleanInv'
  <2>1. IceInv'
    BY <1>1, <1>2 DEF RxHandshakeDone, CanReceive, CleanInv, IceInv
  <2>2. GatherInv'
    BY <1>1, <1>2 DEF RxHandshakeDone, CanReceive, CleanInv, GatherInv
  <2>3. SrtpInv'
    BY <1>1, <1>2 DEF RxHandshakeDone, CanReceive, CleanInv, SrtpInv
  <2>4. TimerInv'
    BY <1>1, <1>2 DEF RxHandshakeDone, CanReceive, CleanInv, NoIceFlow, TimerInv
  <2>5. TrxInv'
    BY <1>1, <1>2 DEF RxHandshakeDone, CanReceive, CleanInv, TrxInv
  <2>6. SocketInv'
    BY <1>1, <1>2 DEF RxHandshakeDone, CanReceive, CleanInv, SocketInv
  <2>7. QED
    BY <2>1, <2>2, <2>3, <2>4, <2>5, <2>6 DEF CleanInv
<1>6. QED
  BY <1>3, <1>4a, <1>4b, <1>4c, <1>4d, <1>4e, <1>4f, <1>4g, <1>5 DEF IInv

\* A packet ends a connection that was found.
LEMMA RxTerminationInv ==
    ASSUME Calm, IInv, RxTermination
    PROVE  IInv'
<1>1. /\ Types /\ AppInv /\ DaemonInv /\ StateInv /\ PacketInv /\ ListenerInv /\ CloserInv
      /\ QueueInv
      /\ CleanInv
  BY DEF IInv
<1>2. /\ pc'.listener = "disconnect"
      /\ pc'.session = pc.session /\ pc'.app = pc.app /\ pc'.daemon = pc.daemon /\ pc' \in Steps
  BY <1>1, GotoFacts DEF RxTermination, CanReceive, Types, ListenerSteps, States
<1>3. Types'
  BY <1>1, <1>2 DEF RxTermination, CanReceive, Types, States, IceStates
<1>4a. AppInv'
  BY <1>1, <1>2, <1>3 DEF RxTermination, CanReceive, AppInv, StateInv
<1>4b. DaemonInv'
  BY <1>1, <1>2, <1>3 DEF RxTermination, CanReceive, DaemonInv, StateInv
<1>4c. StateInv'
  BY <1>1, <1>2, <1>3 DEF RxTermination, CanReceive, StateInv
<1>4d. PacketInv'
  BY <1>1, <1>2, <1>3 DEF RxTermination, CanReceive, PacketInv
<1>4e. ListenerInv'
  <2>1. /\ state \in {"P2P", "READY", "CLOSING"} /\ ~silent /\ polling /\ sockets # {}
        /\ nominated # "none"
        /\ pc.app \in {"idle", "candidate"}
    BY <1>1 DEF RxTermination, CanReceive, Types, Steps, AppInv, PacketInv
  <2>2. QED
    BY <1>1, <1>2, <2>1 DEF RxTermination, ListenerInv, StateInv, PacketInv
<1>4f. CloserInv'
  BY <1>1, <1>2, <1>3 DEF RxTermination, CanReceive, CloserInv
<1>4g. QueueInv'
  BY <1>1, <1>2, <1>3 DEF RxTermination, CanReceive, QueueInv
<1>5. CleanInv'
  <2>1. IceInv'
    BY <1>1, <1>2 DEF RxTermination, CanReceive, CleanInv, IceInv
  <2>2. GatherInv'
    BY <1>1, <1>2 DEF RxTermination, CanReceive, CleanInv, GatherInv
  <2>3. SrtpInv'
    BY <1>1, <1>2 DEF RxTermination, CanReceive, CleanInv, SrtpInv
  <2>4. TimerInv'
    BY <1>1, <1>2 DEF RxTermination, CanReceive, CleanInv, NoIceFlow, TimerInv
  <2>5. TrxInv'
    BY <1>1, <1>2 DEF RxTermination, CanReceive, CleanInv, TrxInv
  <2>6. SocketInv'
    BY <1>1, <1>2 DEF RxTermination, CanReceive, CleanInv, SocketInv
  <2>7. QED
    BY <2>1, <2>2, <2>3, <2>4, <2>5, <2>6 DEF CleanInv
<1>6. QED
  BY <1>3, <1>4a, <1>4b, <1>4c, <1>4d, <1>4e, <1>4f, <1>4g, <1>5 DEF IInv

\* The DTLS context is freed and the listener closes the session.
LEMMA DisconnectInv ==
    ASSUME Calm, IInv, Disconnect
    PROVE  IInv'
<1>1. /\ Types /\ AppInv /\ DaemonInv /\ StateInv /\ PacketInv /\ ListenerInv /\ CloserInv
      /\ QueueInv
      /\ CleanInv
  BY DEF IInv
<1>2. /\ pc'.listener = "close"
      /\ pc'.session = pc.session /\ pc'.app = pc.app /\ pc'.daemon = pc.daemon /\ pc' \in Steps
  BY <1>1, GotoFacts DEF Disconnect, CallClose, Types, ListenerSteps, States
<1>3. Types'
  BY <1>1, <1>2 DEF Disconnect, CallClose, Types, States, IceStates
<1>4. AppInv' /\ DaemonInv' /\ StateInv' /\ PacketInv' /\ ListenerInv' /\ CloserInv' /\ QueueInv'
  BY <1>1, <1>2 DEF Disconnect, CallClose, Calm, AppInv, DaemonInv, StateInv, PacketInv,
     ListenerInv, CloserInv, QueueInv
<1>5. CleanInv'
  <2>1. IceInv'
    BY <1>1, <1>2 DEF Disconnect, CallClose, CleanInv, IceInv
  <2>2. GatherInv'
    BY <1>1, <1>2 DEF Disconnect, CallClose, CleanInv, GatherInv
  <2>3. SrtpInv'
    BY <1>1, <1>2 DEF Disconnect, CallClose, CleanInv, SrtpInv
  <2>4. TimerInv'
    BY <1>1, <1>2 DEF Disconnect, CallClose, CleanInv, NoIceFlow, TimerInv
  <2>5. TrxInv'
    BY <1>1, <1>2 DEF Disconnect, CallClose, CleanInv, TrxInv
  <2>6. SocketInv'
    BY <1>1, <1>2 DEF Disconnect, CallClose, CleanInv, SocketInv
  <2>7. QED
    BY <2>1, <2>2, <2>3, <2>4, <2>5, <2>6 DEF CleanInv
<1>6. QED
  BY <1>3, <1>4, <1>5 DEF IInv

\* The SRTP sessions are made, or the listener closes the session.
LEMMA HandshakeCompleteInv ==
    ASSUME Calm, IInv, HandshakeComplete
    PROVE  IInv'
<1>1. /\ Types /\ AppInv /\ DaemonInv /\ StateInv /\ PacketInv /\ ListenerInv /\ CloserInv
      /\ QueueInv
      /\ CleanInv
  BY DEF IInv
<1>2. /\ \/ pc'.listener = "setTimers" /\ srtp' /\ after' = after
         \/ pc'.listener = "close" /\ after' = [after EXCEPT !["listener"] = "idle"]
      /\ pc'.session = pc.session /\ pc'.app = pc.app /\ pc'.daemon = pc.daemon /\ pc' \in Steps
  BY <1>1, GotoFacts DEF HandshakeComplete, CallClose, Types, ListenerSteps, States
<1>3. Types'
  <2>1. srtp' \in BOOLEAN
    BY <1>1 DEF HandshakeComplete, CallClose, Types
  <2>2. QED
    BY <1>1, <1>2, <2>1 DEF HandshakeComplete, CallClose, Types, States, IceStates
<1>4a. AppInv'
  BY <1>1, <1>2, <1>3 DEF HandshakeComplete, CallClose, AppInv
<1>4b. DaemonInv'
  BY <1>1, <1>2, <1>3 DEF HandshakeComplete, CallClose, DaemonInv
<1>4c. StateInv'
  BY <1>1, <1>2, <1>3 DEF HandshakeComplete, CallClose, StateInv
<1>4d. PacketInv'
  BY <1>1, <1>2, <1>3 DEF HandshakeComplete, CallClose, PacketInv
<1>4e. ListenerInv'
  BY <1>1, <1>2, <1>3 DEF HandshakeComplete, CallClose, ListenerInv
<1>4f. CloserInv'
  BY <1>1, <1>2, <1>3 DEF HandshakeComplete, CallClose, CloserInv
<1>4g. QueueInv'
  BY <1>1, <1>2, <1>3 DEF HandshakeComplete, CallClose, QueueInv
<1>5. CleanInv'
  <2>1. IceInv'
    BY <1>1, <1>2 DEF HandshakeComplete, CallClose, CloserInv, CleanInv, IceInv
  <2>2. GatherInv'
    BY <1>1, <1>2 DEF HandshakeComplete, CallClose, CleanInv, GatherInv
  <2>3. SrtpInv'
    BY <1>1, <1>2
       DEF HandshakeComplete, CallClose, StateInv, PacketInv, ListenerInv, CloserInv, CleanInv,
           IceInv, SrtpInv
  <2>4. TimerInv'
    BY <1>1, <1>2 DEF HandshakeComplete, CallClose, CleanInv, NoIceFlow, TimerInv
  <2>5. TrxInv'
    BY <1>1, <1>2 DEF HandshakeComplete, CallClose, CleanInv, TrxInv
  <2>6. SocketInv'
    BY <1>1, <1>2 DEF HandshakeComplete, CallClose, CleanInv, SocketInv
  <2>7. QED
    BY <2>1, <2>2, <2>3, <2>4, <2>5, <2>6 DEF CleanInv
<1>6. QED
  BY <1>3, <1>4a, <1>4b, <1>4c, <1>4d, <1>4e, <1>4f, <1>4g, <1>5 DEF IInv

\* The report timers start in a session that is P2P and secured.
LEMMA SetTimerInv ==
    ASSUME Calm, IInv, PeerConnection_SetTimer
    PROVE  IInv'
<1>1. /\ Types /\ AppInv /\ DaemonInv /\ StateInv /\ PacketInv /\ ListenerInv /\ CloserInv
      /\ QueueInv
      /\ CleanInv
  BY DEF IInv
<1>2. /\ pc'.listener = "ready"
      /\ pc'.session = pc.session /\ pc'.app = pc.app /\ pc'.daemon = pc.daemon /\ pc' \in Steps
  BY <1>1, GotoFacts DEF PeerConnection_SetTimer, Types, ListenerSteps, States
<1>3. Types'
  BY <1>1, <1>2 DEF PeerConnection_SetTimer, Types, States, IceStates
<1>4. AppInv' /\ DaemonInv' /\ StateInv' /\ PacketInv' /\ ListenerInv' /\ CloserInv' /\ QueueInv'
  BY <1>1, <1>2 DEF PeerConnection_SetTimer, Calm, AppInv, DaemonInv, StateInv, PacketInv,
     ListenerInv, CloserInv, QueueInv
<1>5. CleanInv'
  <2>1. IceInv'
    BY <1>1, <1>2 DEF PeerConnection_SetTimer, CleanInv, IceInv
  <2>2. GatherInv'
    BY <1>1, <1>2 DEF PeerConnection_SetTimer, CleanInv, GatherInv
  <2>3. SrtpInv'
    BY <1>1, <1>2 DEF PeerConnection_SetTimer, CleanInv, SrtpInv
  <2>4. TimerInv'
    BY <1>1, <1>2 DEF PeerConnection_SetTimer, CleanInv, NoIceFlow, TimerInv
  <2>5. TrxInv'
    BY <1>1, <1>2 DEF PeerConnection_SetTimer, CleanInv, TrxInv
  <2>6. SocketInv'
    BY <1>1, <1>2 DEF PeerConnection_SetTimer, CleanInv, SocketInv
  <2>7. QED
    BY <2>1, <2>2, <2>3, <2>4, <2>5, <2>6 DEF CleanInv
<1>6. QED
  BY <1>3, <1>4, <1>5 DEF IInv

\* What READY promises is there, and the viewer is counted in.
LEMMA ConnectionReadyInv ==
    ASSUME Calm, IInv, ConnectionReady
    PROVE  IInv'
<1>1. /\ Types /\ AppInv /\ DaemonInv /\ StateInv /\ PacketInv /\ ListenerInv /\ CloserInv
      /\ QueueInv
      /\ CleanInv
  BY DEF IInv
<1>2. /\ pc'.listener = "releaseOthers"
      /\ pc'.session = pc.session /\ pc'.app = pc.app /\ pc'.daemon = pc.daemon /\ pc' \in Steps
  BY <1>1, GotoFacts DEF ConnectionReady, Types, ListenerSteps, States
<1>3. Types'
  BY <1>1, <1>2 DEF ConnectionReady, Types, States, IceStates
<1>4. AppInv' /\ DaemonInv' /\ StateInv' /\ PacketInv' /\ ListenerInv' /\ CloserInv' /\ QueueInv'
  BY <1>1, <1>2 DEF ConnectionReady, Calm, AppInv, DaemonInv, StateInv, PacketInv, ListenerInv,
     CloserInv, QueueInv
<1>5. CleanInv'
  <2>1. IceInv'
    BY <1>1, <1>2 DEF ConnectionReady, CleanInv, IceInv
  <2>2. GatherInv'
    BY <1>1, <1>2 DEF ConnectionReady, ListenerInv, CleanInv, GatherInv
  <2>3. SrtpInv'
    BY <1>1, <1>2 DEF ConnectionReady, CleanInv, SrtpInv
  <2>4. TimerInv'
    BY <1>1, <1>2 DEF ConnectionReady, CleanInv, NoIceFlow, TimerInv
  <2>5. TrxInv'
    BY <1>1, <1>2 DEF ConnectionReady, CleanInv, TrxInv
  <2>6. SocketInv'
    BY <1>1, <1>2 DEF ConnectionReady, CleanInv, SocketInv
  <2>7. QED
    BY <2>1, <2>2, <2>3, <2>4, <2>5, <2>6 DEF CleanInv
<1>6. QED
  BY <1>3, <1>4, <1>5 DEF IInv

\* The nominated socket stays.
LEMMA ReleaseOtherSocketsInv ==
    ASSUME Calm, IInv, ReleaseOtherSockets
    PROVE  IInv'
<1>1. /\ Types /\ AppInv /\ DaemonInv /\ StateInv /\ PacketInv /\ ListenerInv /\ CloserInv
      /\ QueueInv
      /\ CleanInv
  BY DEF IInv
<1>2. /\ pc'.listener = "idle"
      /\ pc'.session = pc.session /\ pc'.app = pc.app /\ pc'.daemon = pc.daemon /\ pc' \in Steps
  BY <1>1, GotoFacts DEF ReleaseOtherSockets, Types, ListenerSteps, States
<1>3. Types'
  <2>1. turnClosing' \in BOOLEAN /\ sockets' \subseteq {"host", "relay"}
    BY <1>1 DEF ReleaseOtherSockets, Types
  <2>2. QED
    BY <1>1, <1>2, <2>1 DEF ReleaseOtherSockets, Types
<1>4. AppInv' /\ DaemonInv' /\ StateInv' /\ PacketInv' /\ ListenerInv' /\ CloserInv' /\ QueueInv'
  BY <1>1, <1>2 DEF ReleaseOtherSockets, Calm, AppInv, DaemonInv, StateInv, PacketInv,
     ListenerInv, CloserInv, QueueInv
<1>5. CleanInv'
  <2>1. IceInv'
    BY <1>1, <1>2 DEF ReleaseOtherSockets, CleanInv, IceInv
  <2>2. GatherInv'
    BY <1>1, <1>2 DEF ReleaseOtherSockets, CleanInv, GatherInv
  <2>3. SrtpInv'
    BY <1>1, <1>2 DEF ReleaseOtherSockets, CleanInv, SrtpInv
  <2>4. TimerInv'
    BY <1>1, <1>2 DEF ReleaseOtherSockets, CleanInv, NoIceFlow, TimerInv
  <2>5. TrxInv'
    BY <1>1, <1>2 DEF ReleaseOtherSockets, CleanInv, TrxInv
  <2>6. SocketInv'
    BY <1>1, <1>2 DEF ReleaseOtherSockets, CleanInv, SocketInv
  <2>7. QED
    BY <2>1, <2>2, <2>3, <2>4, <2>5, <2>6 DEF CleanInv
<1>6. QED
  BY <1>3, <1>4, <1>5 DEF IInv

\* Media keeps the connection alive.
LEMMA RxMediaInv ==
    ASSUME Calm, IInv, RxMedia
    PROVE  IInv'
<1>1. /\ Types /\ AppInv /\ DaemonInv /\ StateInv /\ PacketInv /\ ListenerInv /\ CloserInv
      /\ QueueInv
      /\ CleanInv
  BY DEF IInv
<1>2. pc' = pc
  BY DEF RxMedia, CanReceive
<1>3. Types'
  BY <1>1, <1>2 DEF RxMedia, CanReceive, Types, States, IceStates
<1>4. AppInv' /\ DaemonInv' /\ StateInv' /\ PacketInv' /\ ListenerInv' /\ CloserInv' /\ QueueInv'
  BY <1>1, <1>2 DEF RxMedia, CanReceive, Calm, AppInv, DaemonInv, StateInv, PacketInv,
     ListenerInv, CloserInv, QueueInv
<1>5. CleanInv'
  <2>1. IceInv'
    BY <1>1, <1>2 DEF RxMedia, CanReceive, CleanInv, IceInv
  <2>2. GatherInv'
    BY <1>1, <1>2 DEF RxMedia, CanReceive, CleanInv, GatherInv
  <2>3. SrtpInv'
    BY <1>1, <1>2 DEF RxMedia, CanReceive, CleanInv, SrtpInv
  <2>4. TimerInv'
    BY <1>1, <1>2 DEF RxMedia, CanReceive, CleanInv, NoIceFlow, TimerInv
  <2>5. TrxInv'
    BY <1>1, <1>2 DEF RxMedia, CanReceive, CleanInv, TrxInv
  <2>6. SocketInv'
    BY <1>1, <1>2 DEF RxMedia, CanReceive, CleanInv, SocketInv
  <2>7. QED
    BY <2>1, <2>2, <2>3, <2>4, <2>5, <2>6 DEF CleanInv
<1>6. QED
  BY <1>3, <1>4, <1>5 DEF IInv

\* The relay socket goes.
LEMMA RxTurnTerminatedInv ==
    ASSUME Calm, IInv, RxTurnTerminated
    PROVE  IInv'
<1>1. /\ Types /\ AppInv /\ DaemonInv /\ StateInv /\ PacketInv /\ ListenerInv /\ CloserInv
      /\ QueueInv
      /\ CleanInv
  BY DEF IInv
<1>2. pc' = pc
  BY DEF RxTurnTerminated
<1>3. Types'
  BY <1>1, <1>2 DEF RxTurnTerminated, Types, States, IceStates
<1>4. AppInv' /\ DaemonInv' /\ StateInv' /\ PacketInv' /\ ListenerInv' /\ CloserInv' /\ QueueInv'
  BY <1>1, <1>2 DEF RxTurnTerminated, Calm, AppInv, DaemonInv, StateInv, PacketInv, ListenerInv,
     CloserInv, QueueInv
<1>5. CleanInv'
  <2>1. IceInv'
    BY <1>1, <1>2 DEF RxTurnTerminated, CleanInv, IceInv
  <2>2. GatherInv'
    BY <1>1, <1>2 DEF RxTurnTerminated, CleanInv, GatherInv
  <2>3. SrtpInv'
    BY <1>1, <1>2 DEF RxTurnTerminated, CleanInv, SrtpInv
  <2>4. TimerInv'
    BY <1>1, <1>2 DEF RxTurnTerminated, CleanInv, NoIceFlow, TimerInv
  <2>5. TrxInv'
    BY <1>1, <1>2 DEF RxTurnTerminated, CleanInv, TrxInv
  <2>6. SocketInv'
    BY <1>1, <1>2 DEF RxTurnTerminated, CleanInv, SocketInv
  <2>7. QED
    BY <2>1, <2>2, <2>3, <2>4, <2>5, <2>6 DEF CleanInv
<1>6. QED
  BY <1>3, <1>4, <1>5 DEF IInv

\* A socket goes; the listener is idle.
LEMMA RxErrorInv ==
    ASSUME Calm, IInv, RxError
    PROVE  IInv'
<1>1. /\ Types /\ AppInv /\ DaemonInv /\ StateInv /\ PacketInv /\ ListenerInv /\ CloserInv
      /\ QueueInv
      /\ CleanInv
  BY DEF IInv
<1>2. pc' = pc
  BY DEF RxError, CanReceive
<1>3. Types'
  BY <1>1, <1>2 DEF RxError, CanReceive, Types, States, IceStates
<1>4. AppInv' /\ DaemonInv' /\ StateInv' /\ PacketInv' /\ ListenerInv' /\ CloserInv' /\ QueueInv'
  BY <1>1, <1>2 DEF RxError, CanReceive, Calm, AppInv, DaemonInv, StateInv, PacketInv,
     ListenerInv, CloserInv, QueueInv
<1>5. CleanInv'
  <2>1. IceInv'
    BY <1>1, <1>2 DEF RxError, CanReceive, CleanInv, IceInv
  <2>2. GatherInv'
    BY <1>1, <1>2 DEF RxError, CanReceive, CleanInv, GatherInv
  <2>3. SrtpInv'
    BY <1>1, <1>2 DEF RxError, CanReceive, CleanInv, SrtpInv
  <2>4. TimerInv'
    BY <1>1, <1>2 DEF RxError, CanReceive, CleanInv, NoIceFlow, TimerInv
  <2>5. TrxInv'
    BY <1>1, <1>2 DEF RxError, CanReceive, CleanInv, TrxInv
  <2>6. SocketInv'
    BY <1>1, <1>2 DEF RxError, CanReceive, CleanInv, SocketInv
  <2>7. QED
    BY <2>1, <2>2, <2>3, <2>4, <2>5, <2>6 DEF CleanInv
<1>6. QED
  BY <1>3, <1>4, <1>5 DEF IInv

\* A message starts a session only when every task has settled.
LEMMA GetSessionInv ==
    ASSUME Calm, IInv, NEW message \in {"offer", "candidate"},
           NEW counter \in {"offers", "candidates"},
           GetSession(message, counter)
    PROVE  IInv'
<1>1. /\ Types /\ AppInv /\ DaemonInv /\ StateInv /\ PacketInv /\ ListenerInv /\ CloserInv
      /\ QueueInv
      /\ CleanInv
  BY DEF IInv
<1>2. /\ pc'.app = (IF state # "INITED" THEN message
                    ELSE IF message = "offer" THEN "offerEmpty" ELSE "candidateEmpty")
      /\ pc'.session = pc.session /\ pc'.listener = pc.listener /\ pc'.daemon = pc.daemon
      /\ pc' \in Steps
  BY <1>1, GotoFacts DEF GetSession, Settled, InTime, Types, AppSteps, States
<1>3. Types'
  BY <1>1, <1>2 DEF GetSession, Settled, InTime, Types, States, IceStates
<1>4a. AppInv'
  BY <1>1, <1>2, <1>3 DEF GetSession, Settled, InTime, Calm, AppInv, StateInv, CloserInv
<1>4b. DaemonInv'
  BY <1>1, <1>2, <1>3 DEF GetSession, Settled, InTime, Calm, DaemonInv
<1>4c. StateInv'
  BY <1>1, <1>2, <1>3 DEF GetSession, Settled, InTime, StateInv
<1>4d. PacketInv'
  BY <1>1, <1>2, <1>3 DEF GetSession, Settled, InTime, PacketInv
<1>4e. ListenerInv'
  BY <1>1, <1>2, <1>3 DEF GetSession, Settled, InTime, Calm, ListenerInv
<1>4f. CloserInv'
  BY <1>1, <1>2, <1>3 DEF GetSession, Settled, InTime, Calm, CloserInv
<1>4g. QueueInv'
  BY <1>1, <1>2, <1>3 DEF GetSession, Settled, InTime, Calm, QueueInv
<1>5. CleanInv'
  <2>1. IceInv'
    BY <1>1, <1>2 DEF GetSession, Settled, InTime, CleanInv, IceInv
  <2>2. GatherInv'
    BY <1>1, <1>2 DEF GetSession, Settled, InTime, CleanInv, GatherInv
  <2>3. SrtpInv'
    BY <1>1, <1>2 DEF GetSession, Settled, InTime, CleanInv, SrtpInv
  <2>4. TimerInv'
    BY <1>1, <1>2 DEF GetSession, Settled, InTime, CleanInv, NoIceFlow, TimerInv
  <2>5. TrxInv'
    BY <1>1, <1>2 DEF GetSession, Settled, InTime, CleanInv, TrxInv
  <2>6. SocketInv'
    BY <1>1, <1>2 DEF GetSession, Settled, InTime, CleanInv, SocketInv
  <2>7. QED
    BY <2>1, <2>2, <2>3, <2>4, <2>5, <2>6 DEF CleanInv
<1>6. QED
  BY <1>3, <1>4a, <1>4b, <1>4c, <1>4d, <1>4e, <1>4f, <1>4g, <1>5 DEF IInv

\* The session is START, with an empty queue.
LEMMA PeerConnectionStartInv ==
    ASSUME Calm, IInv, PeerConnection_Start
    PROVE  IInv'
<1>1. /\ Types /\ AppInv /\ DaemonInv /\ StateInv /\ PacketInv /\ ListenerInv /\ CloserInv
      /\ QueueInv
      /\ CleanInv
  BY DEF IInv
<1>2. /\ pc'.app \in {"offer", "candidate"}
      /\ pc'.session = pc.session /\ pc'.listener = pc.listener /\ pc'.daemon = pc.daemon
      /\ pc' \in Steps
  BY <1>1, GotoFacts DEF PeerConnection_Start, Types, AppSteps, States
<1>3. Types'
  BY <1>1, <1>2 DEF PeerConnection_Start, Types, States, IceStates
<1>4. AppInv' /\ DaemonInv' /\ StateInv' /\ PacketInv' /\ ListenerInv' /\ CloserInv' /\ QueueInv'
  BY <1>1, <1>2 DEF PeerConnection_Start, Calm, AppInv, DaemonInv, StateInv, PacketInv,
     ListenerInv, CloserInv, QueueInv
<1>5. CleanInv'
  <2>1. IceInv'
    BY <1>1, <1>2 DEF PeerConnection_Start, AppInv, CleanInv, IceInv
  <2>2. GatherInv'
    BY <1>1, <1>2 DEF PeerConnection_Start, AppInv, CleanInv, GatherInv
  <2>3. SrtpInv'
    BY <1>1, <1>2 DEF PeerConnection_Start, CleanInv, SrtpInv
  <2>4. TimerInv'
    BY <1>1, <1>2 DEF PeerConnection_Start, CleanInv, NoIceFlow, TimerInv
  <2>5. TrxInv'
    BY <1>1, <1>2 DEF PeerConnection_Start, CleanInv, TrxInv
  <2>6. SocketInv'
    BY <1>1, <1>2 DEF PeerConnection_Start, AppInv, CleanInv, SocketInv
  <2>7. QED
    BY <2>1, <2>2, <2>3, <2>4, <2>5, <2>6 DEF CleanInv
<1>6. QED
  BY <1>3, <1>4, <1>5 DEF IInv

\* The DTLS context is new, and with it the deadline.
LEMMA SetRemoteDescriptionInv ==
    ASSUME Calm, IInv, SetRemoteDescription
    PROVE  IInv'
<1>1. /\ Types /\ AppInv /\ DaemonInv /\ StateInv /\ PacketInv /\ ListenerInv /\ CloserInv
      /\ QueueInv
      /\ CleanInv
  BY DEF IInv
<1>2. /\ pc'.app = "idle" \/ (pc'.app = "iceStart" /\ "handshake" \notin expired')
      /\ pc'.session = pc.session /\ pc'.listener = pc.listener /\ pc'.daemon = pc.daemon
      /\ pc' \in Steps
  <2>1. Goto("app", "idle") \/ (Goto("app", "iceStart") /\ expired' = expired \ {"handshake"})
    BY DEF SetRemoteDescription
  <2>2. expired' = expired \ {"handshake"} => "handshake" \notin expired'
    OBVIOUS
  <2>3. QED
    BY <1>1, <2>1, <2>2, GotoFacts DEF Types, AppSteps
<1>3. Types'
  BY <1>1, <1>2 DEF SetRemoteDescription, Types, States, IceStates
<1>4a. AppInv'
  BY <1>1, <1>2, <1>3 DEF SetRemoteDescription, AppInv
<1>4b. DaemonInv'
  BY <1>1, <1>2, <1>3 DEF SetRemoteDescription, DaemonInv
<1>4c. StateInv'
  BY <1>1, <1>2, <1>3 DEF SetRemoteDescription, AppInv, StateInv
<1>4d. PacketInv'
  BY <1>1, <1>2, <1>3 DEF SetRemoteDescription, AppInv, PacketInv
<1>4e. ListenerInv'
  BY <1>1, <1>2, <1>3 DEF SetRemoteDescription, ListenerInv
<1>4f. CloserInv'
  BY <1>1, <1>2, <1>3 DEF SetRemoteDescription, CloserInv
<1>4g. QueueInv'
  BY <1>1, <1>2, <1>3 DEF SetRemoteDescription, QueueInv
<1>5. CleanInv'
  <2>1. IceInv'
    BY <1>1, <1>2 DEF SetRemoteDescription, CleanInv, IceInv
  <2>2. GatherInv'
    BY <1>1, <1>2 DEF SetRemoteDescription, CleanInv, GatherInv
  <2>3. SrtpInv'
    BY <1>1, <1>2 DEF SetRemoteDescription, CleanInv, SrtpInv
  <2>4. TimerInv'
    BY <1>1, <1>2 DEF SetRemoteDescription, CleanInv, NoIceFlow, TimerInv
  <2>5. TrxInv'
    BY <1>1, <1>2 DEF SetRemoteDescription, CleanInv, TrxInv
  <2>6. SocketInv'
    BY <1>1, <1>2 DEF SetRemoteDescription, CleanInv, SocketInv
  <2>7. QED
    BY <2>1, <2>2, <2>3, <2>4, <2>5, <2>6 DEF CleanInv
<1>6. QED
  BY <1>3, <1>4a, <1>4b, <1>4c, <1>4d, <1>4e, <1>4f, <1>4g, <1>5 DEF IInv

\* The controller polls again; the peer knows nothing of it yet.
LEMMA IceControllerStartInv ==
    ASSUME Calm, IInv, IceController_Start
    PROVE  IInv'
<1>1. /\ Types /\ AppInv /\ DaemonInv /\ StateInv /\ PacketInv /\ ListenerInv /\ CloserInv
      /\ QueueInv
      /\ CleanInv
  BY DEF IInv
<1>2. /\ pc'.app = "kick"
      /\ pc'.session = pc.session /\ pc'.listener = pc.listener /\ pc'.daemon = pc.daemon
      /\ pc' \in Steps
  BY <1>1, GotoFacts DEF IceController_Start, Types, AppSteps, States
<1>3. Types'
  <2>1. addLocal' \in BOOLEAN /\ polling' \in BOOLEAN /\ silent' \in BOOLEAN
    BY Zenon DEF IceController_Start
  <2>2. /\ ice' \in IceStates /\ sockets' \subseteq {"host", "relay"} /\ nominated' = "none"
        /\ expired' \subseteq Deadlines /\ turnClosing' \in BOOLEAN
    BY <1>1, Zenon DEF IceController_Start, Types, IceStates
  <2>3. UNCHANGED <<state, queue, dtls, trx, barrier, iceTimer, closeTimer, reportTimer, srtp, after>>
    BY DEF IceController_Start
  <2>4. QED
    BY <1>1, <1>2, <2>1, <2>2, <2>3, Zenon DEF Types
<1>4. AppInv' /\ DaemonInv' /\ StateInv' /\ PacketInv' /\ ListenerInv' /\ CloserInv' /\ QueueInv'
  BY <1>1, <1>2 DEF IceController_Start, Calm, AppInv, DaemonInv, StateInv, PacketInv,
     ListenerInv, CloserInv, QueueInv
<1>5. CleanInv'
  <2>1. IceInv'
    BY <1>1, <1>2 DEF IceController_Start, AppInv, StateInv, CleanInv, IceInv
  <2>2. GatherInv'
    BY <1>1, <1>2
       DEF IceController_Start, Types, Steps, AppInv, StateInv, ListenerInv, CloserInv, QueueInv,
           CleanInv, IceInv, GatherInv
  <2>3. SrtpInv'
    BY <1>1, <1>2
       DEF IceController_Start, Types, Steps, AppInv, StateInv, ListenerInv, CloserInv, QueueInv,
           CleanInv, IceInv, GatherInv, SrtpInv
  <2>4. TimerInv'
    BY <1>1, <1>2 DEF IceController_Start, CleanInv, NoIceFlow, TimerInv
  <2>5. TrxInv'
    BY <1>1, <1>2 DEF IceController_Start, CleanInv, TrxInv
  <2>6. SocketInv'
    BY <1>1, <1>2 DEF IceController_Start, AppInv, CleanInv, SocketInv
  <2>7. QED
    BY <2>1, <2>2, <2>3, <2>4, <2>5, <2>6 DEF CleanInv
<1>6. QED
  BY <1>3, <1>4, <1>5 DEF IInv

\* From FIND on packets may come and the session task runs.
LEMMA FindConnectionInv ==
    ASSUME Calm, IInv, FindConnection
    PROVE  IInv'
<1>1. /\ Types /\ AppInv /\ DaemonInv /\ StateInv /\ PacketInv /\ ListenerInv /\ CloserInv
      /\ QueueInv
      /\ CleanInv
  BY DEF IInv
<1>2. /\ pc'.app = "idle"
      /\ pc'.session = pc.session /\ pc'.listener = pc.listener /\ pc'.daemon = pc.daemon
      /\ pc' \in Steps
  BY <1>1, GotoFacts DEF FindConnection, Types, AppSteps, States
<1>3. Types'
  <2>1. barrier' \in BOOLEAN /\ silent' \in BOOLEAN
    BY <1>1 DEF FindConnection, Types
  <2>2. QED
    BY <1>1, <1>2, <2>1 DEF FindConnection, Types, States, IceStates
<1>4. AppInv' /\ DaemonInv' /\ StateInv' /\ PacketInv' /\ ListenerInv' /\ CloserInv' /\ QueueInv'
  BY <1>1, <1>2 DEF FindConnection, Calm, AppInv, DaemonInv, StateInv, PacketInv, ListenerInv,
     CloserInv, QueueInv
<1>5. CleanInv'
  <2>1. IceInv'
    BY <1>1, <1>2 DEF FindConnection, CleanInv, IceInv
  <2>2. GatherInv'
    BY <1>1, <1>2 DEF FindConnection, CleanInv, GatherInv
  <2>3. SrtpInv'
    BY <1>1, <1>2 DEF FindConnection, CleanInv, SrtpInv
  <2>4. TimerInv'
    BY <1>1, <1>2 DEF FindConnection, CleanInv, NoIceFlow, TimerInv
  <2>5. TrxInv'
    BY <1>1, <1>2 DEF FindConnection, CleanInv, TrxInv
  <2>6. SocketInv'
    BY <1>1, <1>2 DEF FindConnection, CleanInv, SocketInv
  <2>7. QED
    BY <2>1, <2>2, <2>3, <2>4, <2>5, <2>6 DEF CleanInv
<1>6. QED
  BY <1>3, <1>4, <1>5 DEF IInv

\* The timer task closes a session only in START, with every other task waiting.
LEMMA CloseTimerExpiresInv ==
    ASSUME Calm, IInv, CloseTimerExpires
    PROVE  IInv'
<1>1. /\ Types /\ AppInv /\ DaemonInv /\ StateInv /\ PacketInv /\ ListenerInv /\ CloserInv
      /\ QueueInv
      /\ CleanInv
  BY DEF IInv
<1>2. /\ pc'.daemon = (IF state = "START" THEN "empty" ELSE "idle")
      /\ pc'.session = pc.session /\ pc'.listener = pc.listener /\ pc'.app = pc.app /\ pc' \in Steps
  BY <1>1, GotoFacts DEF CloseTimerExpires, Types, DaemonSteps, States
<1>3. Types'
  <2>1. closeTimer' \in BOOLEAN
    BY <1>1 DEF CloseTimerExpires, Types
  <2>2. QED
    BY <1>1, <1>2, <2>1 DEF CloseTimerExpires, Types, States, IceStates
<1>4. AppInv' /\ DaemonInv' /\ StateInv' /\ PacketInv' /\ ListenerInv' /\ CloserInv' /\ QueueInv'
  BY <1>1, <1>2 DEF CloseTimerExpires, Calm, AppInv, DaemonInv, StateInv, PacketInv, ListenerInv,
     CloserInv, QueueInv
<1>5. CleanInv'
  <2>1. IceInv'
    BY <1>1, <1>2 DEF CloseTimerExpires, CleanInv, IceInv
  <2>2. GatherInv'
    BY <1>1, <1>2 DEF CloseTimerExpires, CleanInv, GatherInv
  <2>3. SrtpInv'
    BY <1>1, <1>2 DEF CloseTimerExpires, CleanInv, SrtpInv
  <2>4. TimerInv'
    BY <1>1, <1>2 DEF CloseTimerExpires, CleanInv, NoIceFlow, TimerInv
  <2>5. TrxInv'
    BY <1>1, <1>2 DEF CloseTimerExpires, CleanInv, TrxInv
  <2>6. SocketInv'
    BY <1>1, <1>2 DEF CloseTimerExpires, CleanInv, SocketInv
  <2>7. QED
    BY <2>1, <2>2, <2>3, <2>4, <2>5, <2>6 DEF CleanInv
<1>6. QED
  BY <1>3, <1>4, <1>5 DEF IInv

\* After a deadline the peer is silent, and the listener was idle.
LEMMA DeadlineInv ==
    ASSUME Calm, IInv, NEW d \in Deadlines, Deadline(d)
    PROVE  IInv'
<1>1. /\ Types /\ AppInv /\ DaemonInv /\ StateInv /\ PacketInv /\ ListenerInv /\ CloserInv
      /\ QueueInv
      /\ CleanInv
  BY DEF IInv
<1>2. pc' = pc
  BY DEF Deadline
<1>3. Types'
  BY <1>1, <1>2 DEF Deadline, Types, States, IceStates, Deadlines
<1>4a. AppInv'
  BY <1>1, <1>2, <1>3 DEF Deadline, Calm, AppInv
<1>4b. DaemonInv'
  BY <1>1, <1>2, <1>3 DEF Deadline, DaemonInv
<1>4c. StateInv'
  BY <1>1, <1>2, <1>3 DEF Deadline, StateInv
<1>4d. PacketInv'
  BY <1>1, <1>2, <1>3 DEF Deadline, Calm, PacketInv
<1>4e. ListenerInv'
  BY <1>1, <1>2, <1>3 DEF Deadline, ListenerInv
<1>4f. CloserInv'
  BY <1>1, <1>2, <1>3 DEF Deadline, CloserInv
<1>4g. QueueInv'
  BY <1>1, <1>2, <1>3 DEF Deadline, QueueInv
<1>5. CleanInv'
  <2>1. IceInv'
    BY <1>1, <1>2 DEF Deadline, CleanInv, IceInv
  <2>2. GatherInv'
    BY <1>1, <1>2 DEF Deadline, CleanInv, GatherInv
  <2>3. SrtpInv'
    BY <1>1, <1>2 DEF Deadline, CleanInv, SrtpInv
  <2>4. TimerInv'
    BY <1>1, <1>2 DEF Deadline, CleanInv, NoIceFlow, TimerInv
  <2>5. TrxInv'
    BY <1>1, <1>2 DEF Deadline, CleanInv, TrxInv
  <2>6. SocketInv'
    BY <1>1, <1>2 DEF Deadline, CleanInv, SocketInv
  <2>7. QED
    BY <2>1, <2>2, <2>3, <2>4, <2>5, <2>6 DEF CleanInv
<1>6. QED
  BY <1>3, <1>4a, <1>4b, <1>4c, <1>4d, <1>4e, <1>4f, <1>4g, <1>5 DEF IInv
------------------------------------------------------------------------------
(* The actions that change the queue preserve the invariant. *)

HIDE DEF Queued

\* CLOSE is asked for only after the deadline of the checks.
LEMMA CheckConnectivityInv ==
    ASSUME Calm, IInv, CheckConnectivity
    PROVE  IInv'
<1>1. /\ Types /\ AppInv /\ DaemonInv /\ StateInv /\ PacketInv /\ ListenerInv /\ CloserInv
      /\ QueueInv
      /\ CleanInv
  BY DEF IInv
<1>2. /\ pc'.session = "check"
      /\ pc'.listener = pc.listener /\ pc'.app = pc.app /\ pc'.daemon = pc.daemon /\ pc' \in Steps
  BY <1>1, GotoFacts DEF CheckConnectivity, Types, SessionSteps
<1>3. CASE ~("connect" \in expired)
  <2>1. Types'
    BY <1>1, <1>2, <1>3 DEF CheckConnectivity, Types, IceStates, Requests
  <2>2. AppInv'
    BY <1>1, <1>2, <1>3 DEF CheckConnectivity, AppInv
  <2>3. DaemonInv'
    BY <1>1, <1>2, <1>3 DEF CheckConnectivity, DaemonInv
  <2>4. StateInv'
    BY <1>1, <1>2, <1>3 DEF CheckConnectivity, StateInv
  <2>5. PacketInv'
    BY <1>1, <1>2, <1>3 DEF CheckConnectivity, PacketInv
  <2>6. ListenerInv'
    BY <1>1, <1>2, <1>3 DEF CheckConnectivity, ListenerInv
  <2>7. CloserInv'
    BY <1>1, <1>2, <1>3 DEF CheckConnectivity, CloserInv
  <2>8. QueueInv'
    BY <1>1, <1>2, <1>3 DEF CheckConnectivity, QueueInv, Queued
  <2>9. CleanInv'
    <3>1. IceInv'
      BY <1>1, <1>2, <1>3 DEF CheckConnectivity, CleanInv, IceInv, Queued
    <3>2. GatherInv'
      BY <1>1, <1>2, <1>3 DEF CheckConnectivity, CleanInv, GatherInv
    <3>3. SrtpInv'
      BY <1>1, <1>2, <1>3 DEF CheckConnectivity, CleanInv, SrtpInv
    <3>4. TimerInv'
      BY <1>1, <1>2, <1>3 DEF CheckConnectivity, CleanInv, NoIceFlow, TimerInv
    <3>5. TrxInv'
      BY <1>1, <1>2, <1>3 DEF CheckConnectivity, CleanInv, TrxInv
    <3>6. SocketInv'
      BY <1>1, <1>2, <1>3 DEF CheckConnectivity, CleanInv, SocketInv
    <3>7. QED
      BY <3>1, <3>2, <3>3, <3>4, <3>5, <3>6 DEF CleanInv
  <2>10. QED
    BY <2>1, <2>2, <2>3, <2>4, <2>5, <2>6, <2>7, <2>8, <2>9 DEF IInv
<1>4. CASE "connect" \in expired
  <2>1. /\ queue' \in Seq(Requests) /\ Len(queue') <= QueueCap
        /\ Queued("ICE_CLOSING")' => Queued("ICE_CLOSING")
        /\ Queued("ICE_CLOSED")' => Queued("ICE_CLOSED")
        /\ Queued("CLOSE_NO_ICE")' => Queued("CLOSE_NO_ICE")
        /\ \A T : "CLOSE" \in T /\ (\A i \in 1..Len(queue) : queue[i] \in T)
                 => \A i \in 1..Len(queue') : queue'[i] \in T
        /\ \A i, j \in 1..Len(queue') : queue'[i] = "CLOSE_NO_ICE" /\ queue'[j] = "CLOSE_NO_ICE"
                 => i = j
        /\ queue' = <<>> => queue = <<>>
    BY <1>1, <1>4, PostedFacts DEF CheckConnectivity, Queued, QueueInv, Requests
  <2>2. Types'
    BY <1>1, <1>2, <1>4, <2>1 DEF CheckConnectivity, Types, IceStates, Requests
  <2>3. AppInv'
    BY <1>1, <1>2, <1>4, <2>1 DEF CheckConnectivity, AppInv
  <2>4. DaemonInv'
    BY <1>1, <1>2, <1>4, <2>1 DEF CheckConnectivity, DaemonInv
  <2>5. StateInv'
    BY <1>1, <1>2, <1>4, <2>1 DEF CheckConnectivity, StateInv
  <2>6. PacketInv'
    BY <1>1, <1>2, <1>4, <2>1 DEF CheckConnectivity, PacketInv
  <2>7. ListenerInv'
    BY <1>1, <1>2, <1>4, <2>1 DEF CheckConnectivity, ListenerInv
  <2>8. CloserInv'
    BY <1>1, <1>2, <1>4, <2>1 DEF CheckConnectivity, CloserInv
  <2>9. QueueInv'
    BY <1>1, <1>2, <1>4, <2>1 DEF CheckConnectivity, AppInv, StateInv, PacketInv, QueueInv
  <2>10. CleanInv'
    <3>1. IceInv'
      BY <1>1, <1>2, <1>4, <2>1 DEF CheckConnectivity, CleanInv, IceInv, Queued
    <3>2. GatherInv'
      BY <1>1, <1>2, <1>4, <2>1 DEF CheckConnectivity, CleanInv, GatherInv
    <3>3. SrtpInv'
      BY <1>1, <1>2, <1>4, <2>1 DEF CheckConnectivity, CleanInv, SrtpInv
    <3>4. TimerInv'
      BY <1>1, <1>2, <1>4, <2>1 DEF CheckConnectivity, CleanInv, NoIceFlow, TimerInv
    <3>5. TrxInv'
      BY <1>1, <1>2, <1>4, <2>1 DEF CheckConnectivity, CleanInv, TrxInv
    <3>6. SocketInv'
      BY <1>1, <1>2, <1>4, <2>1 DEF CheckConnectivity, CleanInv, SocketInv
    <3>7. QED
      BY <3>1, <3>2, <3>3, <3>4, <3>5, <3>6 DEF CleanInv
  <2>11. QED
    BY <2>2, <2>3, <2>4, <2>5, <2>6, <2>7, <2>8, <2>9, <2>10 DEF IInv
<1>5. QED
  BY <1>3, <1>4

\* ICE_CLOSED is asked for only once nobody polls.
LEMMA AddressClosingInv ==
    ASSUME Calm, IInv, AddressClosing
    PROVE  IInv'
<1>1. /\ Types /\ AppInv /\ DaemonInv /\ StateInv /\ PacketInv /\ ListenerInv /\ CloserInv
      /\ QueueInv
      /\ CleanInv
  BY DEF IInv
<1>2. /\ pc'.session = "check"
      /\ pc'.listener = pc.listener /\ pc'.app = pc.app /\ pc'.daemon = pc.daemon /\ pc' \in Steps
  BY <1>1, GotoFacts DEF AddressClosing, Types, SessionSteps
<1>3. CASE ~(sockets = {})
  <2>1. Types'
    <3>1. polling' \in BOOLEAN /\ iceTimer' \in BOOLEAN
      BY <1>1 DEF AddressClosing, Types
    <3>2. QED
      BY <1>1, <1>2, <1>3, <3>1 DEF AddressClosing, Types, IceStates, Requests
  <2>2. AppInv'
    BY <1>1, <1>2, <1>3 DEF AddressClosing, AppInv
  <2>3. DaemonInv'
    BY <1>1, <1>2, <1>3 DEF AddressClosing, DaemonInv
  <2>4. StateInv'
    BY <1>1, <1>2, <1>3 DEF AddressClosing, StateInv
  <2>5. PacketInv'
    BY <1>1, <1>2, <1>3 DEF AddressClosing, PacketInv
  <2>6. ListenerInv'
    BY <1>1, <1>2, <1>3 DEF AddressClosing, ListenerInv
  <2>7. CloserInv'
    BY <1>1, <1>2, <1>3 DEF AddressClosing, CloserInv
  <2>8. QueueInv'
    BY <1>1, <1>2, <1>3 DEF AddressClosing, QueueInv, Queued
  <2>9. CleanInv'
    <3>1. IceInv'
      BY <1>1, <1>2, <1>3 DEF AddressClosing, CleanInv, IceInv, Queued
    <3>2. GatherInv'
      BY <1>1, <1>2, <1>3 DEF AddressClosing, CleanInv, GatherInv
    <3>3. SrtpInv'
      BY <1>1, <1>2, <1>3 DEF AddressClosing, CleanInv, SrtpInv
    <3>4. TimerInv'
      BY <1>1, <1>2, <1>3 DEF AddressClosing, CleanInv, NoIceFlow, TimerInv
    <3>5. TrxInv'
      BY <1>1, <1>2, <1>3 DEF AddressClosing, CleanInv, TrxInv
    <3>6. SocketInv'
      BY <1>1, <1>2, <1>3 DEF AddressClosing, CleanInv, SocketInv
    <3>7. QED
      BY <3>1, <3>2, <3>3, <3>4, <3>5, <3>6 DEF CleanInv
  <2>10. QED
    BY <2>1, <2>2, <2>3, <2>4, <2>5, <2>6, <2>7, <2>8, <2>9 DEF IInv
<1>4. CASE sockets = {}
  <2>1. /\ queue' \in Seq(Requests) /\ Len(queue') <= QueueCap
        /\ Queued("ICE_CLOSING")' => Queued("ICE_CLOSING")
        /\ Queued("CLOSE")' => Queued("CLOSE")
        /\ Queued("CLOSE_NO_ICE")' => Queued("CLOSE_NO_ICE")
        /\ \A T : "ICE_CLOSED" \in T /\ (\A i \in 1..Len(queue) : queue[i] \in T)
                 => \A i \in 1..Len(queue') : queue'[i] \in T
        /\ \A i, j \in 1..Len(queue') : queue'[i] = "CLOSE_NO_ICE" /\ queue'[j] = "CLOSE_NO_ICE"
                 => i = j
        /\ queue' = <<>> => queue = <<>>
    BY <1>1, <1>4, PostedFacts DEF AddressClosing, Queued, QueueInv, Requests
  <2>2. Types'
    <3>1. polling' \in BOOLEAN /\ iceTimer' \in BOOLEAN
      BY <1>1 DEF AddressClosing, Types
    <3>2. QED
      BY <1>1, <1>2, <1>4, <2>1, <3>1 DEF AddressClosing, Types, IceStates, Requests
  <2>3. AppInv'
    BY <1>1, <1>2, <1>4, <2>1 DEF AddressClosing, AppInv, QueueInv
  <2>4. DaemonInv'
    BY <1>1, <1>2, <1>4, <2>1 DEF AddressClosing, DaemonInv
  <2>5. StateInv'
    BY <1>1, <1>2, <1>4, <2>1 DEF AddressClosing, StateInv, QueueInv
  <2>6. PacketInv'
    BY <1>1, <1>2, <1>4, <2>1 DEF AddressClosing, PacketInv
  <2>7. ListenerInv'
    BY <1>1, <1>2, <1>4, <2>1 DEF AddressClosing, ListenerInv
  <2>8. CloserInv'
    BY <1>1, <1>2, <1>4, <2>1 DEF AddressClosing, CloserInv
  <2>9. QueueInv'
    BY <1>1, <1>2, <1>4, <2>1 DEF AddressClosing, QueueInv
  <2>10. CleanInv'
    <3>1. IceInv'
      BY <1>1, <1>2, <1>4, <2>1 DEF AddressClosing, CleanInv, IceInv, Queued
    <3>2. GatherInv'
      BY <1>1, <1>2, <1>4, <2>1 DEF AddressClosing, CleanInv, GatherInv
    <3>3. SrtpInv'
      BY <1>1, <1>2, <1>4, <2>1 DEF AddressClosing, CleanInv, IceInv, SrtpInv
    <3>4. TimerInv'
      BY <1>1, <1>2, <1>4, <2>1 DEF AddressClosing, CleanInv, NoIceFlow, IceInv, TimerInv
    <3>5. TrxInv'
      BY <1>1, <1>2, <1>4, <2>1 DEF AddressClosing, CleanInv, TrxInv
    <3>6. SocketInv'
      BY <1>1, <1>2, <1>4, <2>1 DEF AddressClosing, CleanInv, SocketInv
    <3>7. QED
      BY <3>1, <3>2, <3>3, <3>4, <3>5, <3>6 DEF CleanInv
  <2>11. QED
    BY <2>2, <2>3, <2>4, <2>5, <2>6, <2>7, <2>8, <2>9, <2>10 DEF IInv
<1>5. QED
  BY <1>3, <1>4

\* The session task closes the sockets, or waits for the TURN session.
LEMMA SessionFreeSocketsInv ==
    ASSUME Calm, IInv, FreeSockets("session")
    PROVE  IInv'
<1>1. /\ Types /\ AppInv /\ DaemonInv /\ StateInv /\ PacketInv /\ ListenerInv /\ CloserInv
      /\ QueueInv
      /\ CleanInv
  BY DEF IInv
<1>2. /\ pc'.session = (IF "relay" \in sockets THEN "deinit" ELSE "destroyed")
      /\ pc'.listener = pc.listener /\ pc'.app = pc.app /\ pc'.daemon = pc.daemon /\ pc' \in Steps
  BY <1>1, GotoFacts DEF FreeSockets, Types, SessionSteps
<1>3. CASE ~("relay" \notin sockets)
  <2>1. Types'
    <3>1. polling' \in BOOLEAN /\ iceTimer' \in BOOLEAN /\ turnClosing' \in BOOLEAN
      BY <1>1 DEF FreeSockets, Types
    <3>2. QED
      BY <1>1, <1>2, <1>3, <3>1 DEF FreeSockets, Types, IceStates, Requests
  <2>2. AppInv'
    BY <1>1, <1>2, <1>3 DEF FreeSockets, AppInv
  <2>3. DaemonInv'
    BY <1>1, <1>2, <1>3 DEF FreeSockets, DaemonInv
  <2>4. StateInv'
    BY <1>1, <1>2, <1>3 DEF FreeSockets, StateInv
  <2>5. PacketInv'
    BY <1>1, <1>2, <1>3 DEF FreeSockets, PacketInv
  <2>6. ListenerInv'
    BY <1>1, <1>2, <1>3 DEF FreeSockets, ListenerInv
  <2>7. CloserInv'
    BY <1>1, <1>2, <1>3 DEF FreeSockets, CloserInv
  <2>8. QueueInv'
    BY <1>1, <1>2, <1>3 DEF FreeSockets, QueueInv, Queued
  <2>9. CleanInv'
    <3>1. IceInv'
      BY <1>1, <1>2, <1>3 DEF FreeSockets, CleanInv, IceInv, Queued
    <3>2. GatherInv'
      BY <1>1, <1>2, <1>3 DEF FreeSockets, CleanInv, GatherInv
    <3>3. SrtpInv'
      BY <1>1, <1>2, <1>3 DEF FreeSockets, CleanInv, SrtpInv
    <3>4. TimerInv'
      BY <1>1, <1>2, <1>3 DEF FreeSockets, CleanInv, NoIceFlow, TimerInv
    <3>5. TrxInv'
      BY <1>1, <1>2, <1>3 DEF FreeSockets, CleanInv, TrxInv
    <3>6. SocketInv'
      BY <1>1, <1>2, <1>3 DEF FreeSockets, CleanInv, SocketInv
    <3>7. QED
      BY <3>1, <3>2, <3>3, <3>4, <3>5, <3>6 DEF CleanInv
  <2>10. QED
    BY <2>1, <2>2, <2>3, <2>4, <2>5, <2>6, <2>7, <2>8, <2>9 DEF IInv
<1>4. CASE "relay" \notin sockets
  <2>1. /\ queue' \in Seq(Requests) /\ Len(queue') <= QueueCap
        /\ Queued("ICE_CLOSING")' => Queued("ICE_CLOSING")
        /\ Queued("CLOSE")' => Queued("CLOSE")
        /\ Queued("CLOSE_NO_ICE")' => Queued("CLOSE_NO_ICE")
        /\ \A T : "ICE_CLOSED" \in T /\ (\A i \in 1..Len(queue) : queue[i] \in T)
                 => \A i \in 1..Len(queue') : queue'[i] \in T
        /\ \A i, j \in 1..Len(queue') : queue'[i] = "CLOSE_NO_ICE" /\ queue'[j] = "CLOSE_NO_ICE"
                 => i = j
        /\ queue' = <<>> => queue = <<>>
    BY <1>1, <1>4, PostedFacts DEF FreeSockets, Queued, QueueInv, Requests
  <2>2. Types'
    <3>1. polling' \in BOOLEAN /\ iceTimer' \in BOOLEAN /\ turnClosing' \in BOOLEAN
      BY <1>1 DEF FreeSockets, Types
    <3>2. QED
      BY <1>1, <1>2, <1>4, <2>1, <3>1 DEF FreeSockets, Types, IceStates, Requests
  <2>3. AppInv'
    BY <1>1, <1>2, <1>4, <2>1 DEF FreeSockets, AppInv
  <2>4. DaemonInv'
    BY <1>1, <1>2, <1>4, <2>1 DEF FreeSockets, DaemonInv
  <2>5. StateInv'
    BY <1>1, <1>2, <1>4, <2>1 DEF FreeSockets, StateInv
  <2>6. PacketInv'
    BY <1>1, <1>2, <1>4, <2>1 DEF FreeSockets, PacketInv
  <2>7. ListenerInv'
    BY <1>1, <1>2, <1>4, <2>1 DEF FreeSockets, ListenerInv, CloserInv
  <2>8. CloserInv'
    BY <1>1, <1>2, <1>4, <2>1 DEF FreeSockets, CloserInv
  <2>9. QueueInv'
    BY <1>1, <1>2, <1>4, <2>1 DEF FreeSockets, CloserInv, QueueInv
  <2>10. CleanInv'
    <3>1. IceInv'
      BY <1>1, <1>2, <1>4, <2>1 DEF FreeSockets, CleanInv, IceInv, Queued
    <3>2. GatherInv'
      BY <1>1, <1>2, <1>4, <2>1 DEF FreeSockets, CleanInv, GatherInv
    <3>3. SrtpInv'
      BY <1>1, <1>2, <1>4, <2>1 DEF FreeSockets, CleanInv, SrtpInv
    <3>4. TimerInv'
      BY <1>1, <1>2, <1>4, <2>1 DEF FreeSockets, CleanInv, NoIceFlow, TimerInv
    <3>5. TrxInv'
      BY <1>1, <1>2, <1>4, <2>1 DEF FreeSockets, CleanInv, TrxInv
    <3>6. SocketInv'
      BY <1>1, <1>2, <1>4, <2>1 DEF FreeSockets, CleanInv, SocketInv
    <3>7. QED
      BY <3>1, <3>2, <3>3, <3>4, <3>5, <3>6 DEF CleanInv
  <2>11. QED
    BY <2>2, <2>3, <2>4, <2>5, <2>6, <2>7, <2>8, <2>9, <2>10 DEF IInv
<1>5. QED
  BY <1>3, <1>4

\* The listener closes the sockets, or waits for the TURN session.
LEMMA ListenerFreeSocketsInv ==
    ASSUME Calm, IInv, FreeSockets("listener")
    PROVE  IInv'
<1>1. /\ Types /\ AppInv /\ DaemonInv /\ StateInv /\ PacketInv /\ ListenerInv /\ CloserInv
      /\ QueueInv
      /\ CleanInv
  BY DEF IInv
<1>2. /\ pc'.listener = (IF "relay" \in sockets THEN "deinit" ELSE "destroyed")
      /\ pc'.session = pc.session /\ pc'.app = pc.app /\ pc'.daemon = pc.daemon /\ pc' \in Steps
  BY <1>1, GotoFacts DEF FreeSockets, Types, ListenerSteps
<1>3. CASE ~("relay" \notin sockets)
  <2>1. Types'
    <3>1. polling' \in BOOLEAN /\ iceTimer' \in BOOLEAN /\ turnClosing' \in BOOLEAN
      BY <1>1 DEF FreeSockets, Types
    <3>2. QED
      BY <1>1, <1>2, <1>3, <3>1 DEF FreeSockets, Types, IceStates, Requests
  <2>2. AppInv'
    BY <1>1, <1>2, <1>3 DEF FreeSockets, AppInv
  <2>3. DaemonInv'
    BY <1>1, <1>2, <1>3 DEF FreeSockets, DaemonInv
  <2>4. StateInv'
    BY <1>1, <1>2, <1>3 DEF FreeSockets, StateInv, ListenerInv
  <2>5. PacketInv'
    BY <1>1, <1>2, <1>3 DEF FreeSockets, PacketInv
  <2>6. ListenerInv'
    BY <1>1, <1>2, <1>3 DEF FreeSockets, ListenerInv
  <2>7. CloserInv'
    BY <1>1, <1>2, <1>3 DEF FreeSockets, CloserInv
  <2>8. QueueInv'
    BY <1>1, <1>2, <1>3 DEF FreeSockets, QueueInv, Queued
  <2>9. CleanInv'
    <3>1. IceInv'
      BY <1>1, <1>2, <1>3 DEF FreeSockets, CleanInv, IceInv, Queued
    <3>2. GatherInv'
      BY <1>1, <1>2, <1>3 DEF FreeSockets, CleanInv, GatherInv
    <3>3. SrtpInv'
      BY <1>1, <1>2, <1>3 DEF FreeSockets, CleanInv, SrtpInv
    <3>4. TimerInv'
      BY <1>1, <1>2, <1>3 DEF FreeSockets, CleanInv, NoIceFlow, TimerInv
    <3>5. TrxInv'
      BY <1>1, <1>2, <1>3 DEF FreeSockets, CleanInv, TrxInv
    <3>6. SocketInv'
      BY <1>1, <1>2, <1>3 DEF FreeSockets, CleanInv, SocketInv
    <3>7. QED
      BY <3>1, <3>2, <3>3, <3>4, <3>5, <3>6 DEF CleanInv
  <2>10. QED
    BY <2>1, <2>2, <2>3, <2>4, <2>5, <2>6, <2>7, <2>8, <2>9 DEF IInv
<1>4. CASE "relay" \notin sockets
  <2>1. /\ queue' \in Seq(Requests) /\ Len(queue') <= QueueCap
        /\ Queued("ICE_CLOSING")' => Queued("ICE_CLOSING")
        /\ Queued("CLOSE")' => Queued("CLOSE")
        /\ Queued("CLOSE_NO_ICE")' => Queued("CLOSE_NO_ICE")
        /\ \A T : "ICE_CLOSED" \in T /\ (\A i \in 1..Len(queue) : queue[i] \in T)
                 => \A i \in 1..Len(queue') : queue'[i] \in T
        /\ \A i, j \in 1..Len(queue') : queue'[i] = "CLOSE_NO_ICE" /\ queue'[j] = "CLOSE_NO_ICE"
                 => i = j
        /\ queue' = <<>> => queue = <<>>
    BY <1>1, <1>4, PostedFacts DEF FreeSockets, Queued, QueueInv, Requests
  <2>2. Types'
    <3>1. polling' \in BOOLEAN /\ iceTimer' \in BOOLEAN /\ turnClosing' \in BOOLEAN
      BY <1>1 DEF FreeSockets, Types
    <3>2. QED
      BY <1>1, <1>2, <1>4, <2>1, <3>1 DEF FreeSockets, Types, IceStates, Requests
  <2>3. AppInv'
    BY <1>1, <1>2, <1>4, <2>1 DEF FreeSockets, AppInv
  <2>4. DaemonInv'
    BY <1>1, <1>2, <1>4, <2>1 DEF FreeSockets, DaemonInv
  <2>5. StateInv'
    BY <1>1, <1>2, <1>4, <2>1 DEF FreeSockets, StateInv, ListenerInv
  <2>6. PacketInv'
    BY <1>1, <1>2, <1>4, <2>1 DEF FreeSockets, PacketInv
  <2>7. ListenerInv'
    BY <1>1, <1>2, <1>4, <2>1 DEF FreeSockets, ListenerInv
  <2>8. CloserInv'
    BY <1>1, <1>2, <1>4, <2>1 DEF FreeSockets, CloserInv
  <2>9. QueueInv'
    BY <1>1, <1>2, <1>4, <2>1 DEF FreeSockets, ListenerInv, QueueInv
  <2>10. CleanInv'
    <3>1. IceInv'
      BY <1>1, <1>2, <1>4, <2>1 DEF FreeSockets, CleanInv, IceInv, Queued
    <3>2. GatherInv'
      BY <1>1, <1>2, <1>4, <2>1 DEF FreeSockets, ListenerInv, CleanInv, GatherInv
    <3>3. SrtpInv'
      BY <1>1, <1>2, <1>4, <2>1 DEF FreeSockets, CleanInv, SrtpInv
    <3>4. TimerInv'
      BY <1>1, <1>2, <1>4, <2>1 DEF FreeSockets, CleanInv, NoIceFlow, TimerInv
    <3>5. TrxInv'
      BY <1>1, <1>2, <1>4, <2>1 DEF FreeSockets, CleanInv, TrxInv
    <3>6. SocketInv'
      BY <1>1, <1>2, <1>4, <2>1 DEF FreeSockets, CleanInv, SocketInv
    <3>7. QED
      BY <3>1, <3>2, <3>3, <3>4, <3>5, <3>6 DEF CleanInv
  <2>11. QED
    BY <2>2, <2>3, <2>4, <2>5, <2>6, <2>7, <2>8, <2>9, <2>10 DEF IInv
<1>5. QED
  BY <1>3, <1>4

\* A candidate queues ADD and may arm the timer of a session in START.
LEMMA AddRemoteCandidateInv ==
    ASSUME Calm, IInv, AddRemoteCandidate
    PROVE  IInv'
<1>1. /\ Types /\ AppInv /\ DaemonInv /\ StateInv /\ PacketInv /\ ListenerInv /\ CloserInv
      /\ QueueInv
      /\ CleanInv
  BY DEF IInv
<1>2. /\ pc'.app = "idle"
      /\ pc'.session = pc.session /\ pc'.listener = pc.listener /\ pc'.daemon = pc.daemon
      /\ pc' \in Steps
  BY <1>1, GotoFacts DEF AddRemoteCandidate, Types, AppSteps
<1>3. /\ queue' \in Seq(Requests) /\ Len(queue') <= QueueCap
      /\ Queued("ICE_CLOSING")' => Queued("ICE_CLOSING")
      /\ Queued("ICE_CLOSED")' => Queued("ICE_CLOSED")
      /\ Queued("CLOSE")' => Queued("CLOSE")
      /\ Queued("CLOSE_NO_ICE")' => Queued("CLOSE_NO_ICE")
      /\ \A T : "ADD" \in T /\ (\A i \in 1..Len(queue) : queue[i] \in T)
               => \A i \in 1..Len(queue') : queue'[i] \in T
      /\ \A i, j \in 1..Len(queue') : queue'[i] = "CLOSE_NO_ICE" /\ queue'[j] = "CLOSE_NO_ICE"
               => i = j
      /\ queue' = <<>> => queue = <<>>
  BY <1>1, PostedFacts DEF AddRemoteCandidate, DaemonInv, Queued, QueueInv, Requests
<1>4. Types'
  BY <1>1, <1>2, <1>3 DEF AddRemoteCandidate, Types, IceStates, Requests
<1>5. AppInv'
  BY <1>1, <1>2, <1>3 DEF AddRemoteCandidate, AppInv
<1>6. DaemonInv'
  BY <1>1, <1>2, <1>3 DEF AddRemoteCandidate, DaemonInv
<1>7. StateInv'
  BY <1>1, <1>2, <1>3 DEF AddRemoteCandidate, StateInv
<1>8. PacketInv'
  BY <1>1, <1>2, <1>3 DEF AddRemoteCandidate, PacketInv
<1>9. ListenerInv'
  BY <1>1, <1>2, <1>3 DEF AddRemoteCandidate, ListenerInv
<1>10. CloserInv'
  BY <1>1, <1>2, <1>3 DEF AddRemoteCandidate, CloserInv
<1>11. QueueInv'
  BY <1>1, <1>2, <1>3 DEF AddRemoteCandidate, QueueInv
<1>12. CleanInv'
  <2>1. IceInv'
    BY <1>1, <1>2, <1>3 DEF AddRemoteCandidate, CleanInv, IceInv
  <2>2. GatherInv'
    BY <1>1, <1>2, <1>3 DEF AddRemoteCandidate, CleanInv, GatherInv
  <2>3. SrtpInv'
    BY <1>1, <1>2, <1>3 DEF AddRemoteCandidate, CleanInv, SrtpInv
  <2>4. TimerInv'
    BY <1>1, <1>2, <1>3
       DEF AddRemoteCandidate, StateInv, ListenerInv, CleanInv, NoIceFlow, IceInv, TimerInv
  <2>5. TrxInv'
    BY <1>1, <1>2, <1>3 DEF AddRemoteCandidate, CleanInv, TrxInv
  <2>6. SocketInv'
    BY <1>1, <1>2, <1>3 DEF AddRemoteCandidate, CleanInv, SocketInv
  <2>7. QED
    BY <2>1, <2>2, <2>3, <2>4, <2>5, <2>6 DEF CleanInv
<1>13. QED
  BY <1>4, <1>5, <1>6, <1>7, <1>8, <1>9, <1>10, <1>11, <1>12 DEF IInv

\* CLOSE_NO_ICE is put into an empty queue, and the session task is woken.
LEMMA CloseTimerNotifiesInv ==
    ASSUME Calm, IInv, CloseTimerNotifies
    PROVE  IInv'
<1>1. /\ Types /\ AppInv /\ DaemonInv /\ StateInv /\ PacketInv /\ ListenerInv /\ CloserInv
      /\ QueueInv
      /\ CleanInv
  BY DEF IInv
<1>2. /\ pc'.daemon = "idle"
      /\ pc'.session = pc.session /\ pc'.listener = pc.listener /\ pc'.app = pc.app /\ pc' \in Steps
  BY <1>1, GotoFacts DEF CloseTimerNotifies, Types, DaemonSteps
<1>3. /\ queue' \in Seq(Requests) /\ Len(queue') <= QueueCap
      /\ Queued("ICE_CLOSING")' => Queued("ICE_CLOSING")
      /\ Queued("ICE_CLOSED")' => Queued("ICE_CLOSED")
      /\ Queued("CLOSE")' => Queued("CLOSE")
      /\ \A T : "CLOSE_NO_ICE" \in T /\ (\A i \in 1..Len(queue) : queue[i] \in T)
               => \A i \in 1..Len(queue') : queue'[i] \in T
      /\ \A i, j \in 1..Len(queue') : queue'[i] = "CLOSE_NO_ICE" /\ queue'[j] = "CLOSE_NO_ICE"
               => i = j
      /\ queue' = <<>> => queue = <<>>
  BY <1>1, PostedFacts DEF CloseTimerNotifies, DaemonInv, Queued, QueueInv, Requests
<1>4. Types'
  <2>1. barrier' \in BOOLEAN
    BY <1>1 DEF CloseTimerNotifies, Types
  <2>2. QED
    BY <1>1, <1>2, <1>3, <2>1 DEF CloseTimerNotifies, Types, IceStates, Requests
<1>5. AppInv'
  BY <1>1, <1>2, <1>3 DEF CloseTimerNotifies, AppInv
<1>6. DaemonInv'
  BY <1>1, <1>2, <1>3 DEF CloseTimerNotifies, DaemonInv
<1>7. StateInv'
  BY <1>1, <1>2, <1>3 DEF CloseTimerNotifies, StateInv
<1>8. PacketInv'
  BY <1>1, <1>2, <1>3 DEF CloseTimerNotifies, PacketInv
<1>9. ListenerInv'
  BY <1>1, <1>2, <1>3 DEF CloseTimerNotifies, ListenerInv
<1>10. CloserInv'
  BY <1>1, <1>2, <1>3 DEF CloseTimerNotifies, CloserInv
<1>11. QueueInv'
  <2>1. Queued("CLOSE_NO_ICE")' => queue' # <<>>
    BY DEF Queued
  <2>2. QED
    BY <1>1, <1>2, <1>3, <2>1 DEF CloseTimerNotifies, Calm, AppInv, DaemonInv, StateInv,
       PacketInv, ListenerInv, CloserInv, QueueInv
<1>12. CleanInv'
  <2>1. IceInv'
    BY <1>1, <1>2, <1>3 DEF CloseTimerNotifies, CleanInv, IceInv
  <2>2. GatherInv'
    BY <1>1, <1>2, <1>3 DEF CloseTimerNotifies, Types, DaemonInv, CleanInv, GatherInv
  <2>3. SrtpInv'
    BY <1>1, <1>2, <1>3 DEF CloseTimerNotifies, CleanInv, SrtpInv
  <2>4. TimerInv'
    BY <1>1, <1>2, <1>3 DEF CloseTimerNotifies, CleanInv, NoIceFlow, TimerInv
  <2>5. TrxInv'
    BY <1>1, <1>2, <1>3 DEF CloseTimerNotifies, CleanInv, TrxInv
  <2>6. SocketInv'
    BY <1>1, <1>2, <1>3 DEF CloseTimerNotifies, CleanInv, SocketInv
  <2>7. QED
    BY <2>1, <2>2, <2>3, <2>4, <2>5, <2>6 DEF CleanInv
<1>13. QED
  BY <1>4, <1>5, <1>6, <1>7, <1>8, <1>9, <1>10, <1>11, <1>12 DEF IInv

\* REPORT never touches a session in START: its report timers are off.
LEMMA ReportTimerExpiresInv ==
    ASSUME Calm, IInv, ReportTimerExpires
    PROVE  IInv'
<1>1. /\ Types /\ AppInv /\ DaemonInv /\ StateInv /\ PacketInv /\ ListenerInv /\ CloserInv
      /\ QueueInv
      /\ CleanInv
  BY DEF IInv
<1>2. pc' = pc /\ pc' \in Steps
  BY <1>1 DEF ReportTimerExpires, Types
<1>3. CASE ~(trx)
  <2>1. Types'
    BY <1>1, <1>2, <1>3 DEF ReportTimerExpires, Types, IceStates, Requests
  <2>2. AppInv'
    BY <1>1, <1>2, <1>3 DEF ReportTimerExpires, AppInv
  <2>3. DaemonInv'
    BY <1>1, <1>2, <1>3 DEF ReportTimerExpires, DaemonInv
  <2>4. StateInv'
    BY <1>1, <1>2, <1>3 DEF ReportTimerExpires, StateInv
  <2>5. PacketInv'
    BY <1>1, <1>2, <1>3 DEF ReportTimerExpires, PacketInv
  <2>6. ListenerInv'
    BY <1>1, <1>2, <1>3 DEF ReportTimerExpires, ListenerInv
  <2>7. CloserInv'
    BY <1>1, <1>2, <1>3 DEF ReportTimerExpires, CloserInv
  <2>8. QueueInv'
    BY <1>1, <1>2, <1>3 DEF ReportTimerExpires, QueueInv, Queued
  <2>9. CleanInv'
    <3>1. IceInv'
      BY <1>1, <1>2, <1>3 DEF ReportTimerExpires, CleanInv, IceInv, Queued
    <3>2. GatherInv'
      BY <1>1, <1>2, <1>3 DEF ReportTimerExpires, CleanInv, GatherInv
    <3>3. SrtpInv'
      BY <1>1, <1>2, <1>3 DEF ReportTimerExpires, CleanInv, SrtpInv
    <3>4. TimerInv'
      BY <1>1, <1>2, <1>3 DEF ReportTimerExpires, CleanInv, NoIceFlow, TimerInv
    <3>5. TrxInv'
      BY <1>1, <1>2, <1>3 DEF ReportTimerExpires, CleanInv, TrxInv
    <3>6. SocketInv'
      BY <1>1, <1>2, <1>3 DEF ReportTimerExpires, CleanInv, SocketInv
    <3>7. QED
      BY <3>1, <3>2, <3>3, <3>4, <3>5, <3>6 DEF CleanInv
  <2>10. QED
    BY <2>1, <2>2, <2>3, <2>4, <2>5, <2>6, <2>7, <2>8, <2>9 DEF IInv
<1>4. CASE trx
  <2>1. /\ queue' \in Seq(Requests) /\ Len(queue') <= QueueCap
        /\ Queued("ICE_CLOSING")' => Queued("ICE_CLOSING")
        /\ Queued("ICE_CLOSED")' => Queued("ICE_CLOSED")
        /\ Queued("CLOSE")' => Queued("CLOSE")
        /\ Queued("CLOSE_NO_ICE")' => Queued("CLOSE_NO_ICE")
        /\ \A T : "REPORT" \in T /\ (\A i \in 1..Len(queue) : queue[i] \in T)
                 => \A i \in 1..Len(queue') : queue'[i] \in T
        /\ \A i, j \in 1..Len(queue') : queue'[i] = "CLOSE_NO_ICE" /\ queue'[j] = "CLOSE_NO_ICE"
                 => i = j
        /\ queue' = <<>> => queue = <<>>
    BY <1>1, <1>4, PostedFacts DEF ReportTimerExpires, Queued, QueueInv, Requests
  <2>2. Types'
    BY <1>1, <1>2, <1>4, <2>1 DEF ReportTimerExpires, Types, IceStates, Requests
  <2>3. AppInv'
    BY <1>1, <1>2, <1>4, <2>1 DEF ReportTimerExpires, AppInv
  <2>4. DaemonInv'
    BY <1>1, <1>2, <1>4, <2>1 DEF ReportTimerExpires, DaemonInv
  <2>5. StateInv'
    BY <1>1, <1>2, <1>4, <2>1 DEF ReportTimerExpires, StateInv
  <2>6. PacketInv'
    BY <1>1, <1>2, <1>4, <2>1 DEF ReportTimerExpires, PacketInv
  <2>7. ListenerInv'
    BY <1>1, <1>2, <1>4, <2>1 DEF ReportTimerExpires, ListenerInv
  <2>8. CloserInv'
    BY <1>1, <1>2, <1>4, <2>1 DEF ReportTimerExpires, CloserInv
  <2>9. QueueInv'
    BY <1>1, <1>2, <1>4, <2>1 DEF ReportTimerExpires, QueueInv
  <2>10. CleanInv'
    <3>1. IceInv'
      BY <1>1, <1>2, <1>4, <2>1 DEF ReportTimerExpires, CleanInv, IceInv, Queued
    <3>2. GatherInv'
      BY <1>1, <1>2, <1>4, <2>1 DEF ReportTimerExpires, CleanInv, GatherInv
    <3>3. SrtpInv'
      BY <1>1, <1>2, <1>4, <2>1 DEF ReportTimerExpires, CleanInv, SrtpInv
    <3>4. TimerInv'
      BY <1>1, <1>2, <1>4, <2>1 DEF ReportTimerExpires, CleanInv, NoIceFlow, TimerInv
    <3>5. TrxInv'
      BY <1>1, <1>2, <1>4, <2>1 DEF ReportTimerExpires, CleanInv, TrxInv
    <3>6. SocketInv'
      BY <1>1, <1>2, <1>4, <2>1 DEF ReportTimerExpires, CleanInv, SocketInv
    <3>7. QED
      BY <3>1, <3>2, <3>3, <3>4, <3>5, <3>6 DEF CleanInv
  <2>11. QED
    BY <2>2, <2>3, <2>4, <2>5, <2>6, <2>7, <2>8, <2>9, <2>10 DEF IInv
<1>5. QED
  BY <1>3, <1>4
\* What the callback of the ICE timer queues, and that the timer stays a flag.
LEMMA TimerFacts ==
    ASSUME Types, QueueInv, NEW armed \in BOOLEAN, OnTimerExpire(armed)
    PROVE  /\ iceTimer' \in BOOLEAN
           /\ queue' \in Seq(Requests) /\ Len(queue') <= QueueCap
           /\ Queued("ICE_CLOSING")' => Queued("ICE_CLOSING") \/ ice = "CLOSING"
           /\ Queued("ICE_CLOSED")' => Queued("ICE_CLOSED") \/ ice = "CLOSED"
           /\ Queued("CLOSE")' => Queued("CLOSE")
           /\ Queued("CLOSE_NO_ICE")' => Queued("CLOSE_NO_ICE")
           /\ \A i, j \in 1..Len(queue') : queue'[i] = "CLOSE_NO_ICE" /\ queue'[j] = "CLOSE_NO_ICE"
                    => i = j
           /\ queue' = <<>> => queue = <<>>
<1>1. iceTimer' \in BOOLEAN
  BY DEF OnTimerExpire
<1>2. /\ IceRequest \in {"PROCESS", "PERIOD", "ICE_CLOSING", "ICE_CLOSED", "none"}
      /\ IceRequest = "ICE_CLOSING" => ice = "CLOSING"
      /\ IceRequest = "ICE_CLOSED" => ice = "CLOSED"
  BY DEF IceRequest, Types, IceStates
<1>3. CASE IceRequest = "none"
  <2>1. queue' = queue
    BY <1>3 DEF OnTimerExpire
  <2>2. QED
    BY <1>1, <2>1 DEF Types, QueueInv, Queued
<1>4. CASE IceRequest # "none"
  <2>1. queue' = Post(queue, IceRequest)
    BY <1>4 DEF OnTimerExpire
  <2>2. IceRequest \in Requests
    BY <1>2, <1>4 DEF Requests
  <2>3. IceRequest # "CLOSE" /\ IceRequest # "CLOSE_NO_ICE"
    BY <1>2
  <2>4. /\ queue' \in Seq(Requests) /\ Len(queue') <= QueueCap
        /\ Queued("ICE_CLOSING")' => Queued("ICE_CLOSING") \/ IceRequest = "ICE_CLOSING"
        /\ Queued("ICE_CLOSED")' => Queued("ICE_CLOSED") \/ IceRequest = "ICE_CLOSED"
        /\ Queued("CLOSE")' => Queued("CLOSE")
        /\ Queued("CLOSE_NO_ICE")' => Queued("CLOSE_NO_ICE")
        /\ \A i, j \in 1..Len(queue') : queue'[i] = "CLOSE_NO_ICE" /\ queue'[j] = "CLOSE_NO_ICE"
                 => i = j
        /\ queue' = <<>> => queue = <<>>
    BY <2>1, <2>2, <2>3, PostedFacts DEF Queued, QueueInv
  <2>5. QED
    BY <1>1, <1>2, <2>4
<1>5. QED
  BY <1>3, <1>4

\* The ICE timer is armed in START only while the app starts the session.
LEMMA IceTimerExpiresInv ==
    ASSUME Calm, IInv, IceTimerExpires
    PROVE  IInv'
<1>1. /\ Types /\ AppInv /\ DaemonInv /\ StateInv /\ PacketInv /\ ListenerInv /\ CloserInv
      /\ QueueInv
      /\ CleanInv
  BY DEF IInv
<1>2. pc' = pc /\ pc' \in Steps
  BY <1>1 DEF IceTimerExpires, Types
<1>3. /\ iceTimer' \in BOOLEAN
      /\ queue' \in Seq(Requests) /\ Len(queue') <= QueueCap
      /\ Queued("ICE_CLOSING")' => Queued("ICE_CLOSING") \/ ice = "CLOSING"
      /\ Queued("ICE_CLOSED")' => Queued("ICE_CLOSED") \/ ice = "CLOSED"
      /\ Queued("CLOSE")' => Queued("CLOSE")
      /\ Queued("CLOSE_NO_ICE")' => Queued("CLOSE_NO_ICE")
      /\ \A i, j \in 1..Len(queue') : queue'[i] = "CLOSE_NO_ICE" /\ queue'[j] = "CLOSE_NO_ICE"
               => i = j
      /\ queue' = <<>> => queue = <<>>
  <2>1. OnTimerExpire(FALSE) /\ FALSE \in BOOLEAN
    BY <1>1 DEF IceTimerExpires, Types
  <2>2. QED
    BY <1>1, <2>1, TimerFacts
<1>4. Types'
  BY <1>1, <1>2, <1>3 DEF IceTimerExpires, Types
<1>5. AppInv'
  BY <1>1, <1>2, <1>3 DEF IceTimerExpires, AppInv
<1>6. DaemonInv'
  BY <1>1, <1>2, <1>3 DEF IceTimerExpires, DaemonInv
<1>7. StateInv'
  BY <1>1, <1>2, <1>3 DEF IceTimerExpires, StateInv
<1>8. PacketInv'
  BY <1>1, <1>2, <1>3 DEF IceTimerExpires, PacketInv
<1>9. ListenerInv'
  BY <1>1, <1>2, <1>3 DEF IceTimerExpires, ListenerInv
<1>10. CloserInv'
  BY <1>1, <1>2, <1>3 DEF IceTimerExpires, CloserInv
<1>11. QueueInv'
  <2>1. ice \in {"CLOSING", "CLOSED"} => state \in {"CLOSING", "INITED"}
    BY <1>1 DEF IceTimerExpires, Types, States, AppInv, StateInv
  <2>2. QED
    BY <1>1, <1>2, <1>3, <2>1 DEF IceTimerExpires, PacketInv, QueueInv
<1>12. CleanInv'
  <2>1. IceInv'
    BY <1>1, <1>2, <1>3 DEF IceTimerExpires, CleanInv, IceInv
  <2>2. GatherInv'
    <3>1. SUFFICES ASSUME addLocal'
                   PROVE  GatherInv'
      BY DEF GatherInv
    <3>2. addLocal /\ ice = "PROCESS" /\ queue' = Post(queue, "PROCESS")
      BY <1>1, <3>1 DEF IceTimerExpires, OnTimerExpire, IceRequest, CleanInv, GatherInv
    <3>3. \A i \in 1..Len(queue) : queue[i] \in {"ADD", "REPORT", "PROCESS"}
      BY <1>1, <3>2 DEF CleanInv, GatherInv
    <3>4. \A i \in 1..Len(queue') : queue'[i] \in {"ADD", "REPORT", "PROCESS"}
      <4>1. "PROCESS" \in Requests
        BY DEF Requests
      <4>2. QED
        BY <1>1, <3>2, <3>3, <4>1, PostedFacts
    <3>5. QED
      BY <1>1, <1>2, <3>2, <3>4 DEF IceTimerExpires, CleanInv, GatherInv
  <2>3. SrtpInv'
    BY <1>1, <1>2, <1>3 DEF IceTimerExpires, CleanInv, SrtpInv
  <2>4. TimerInv'
    BY <1>1, <1>2, <1>3 DEF IceTimerExpires, CleanInv, NoIceFlow, TimerInv
  <2>5. TrxInv'
    BY <1>1, <1>2, <1>3 DEF IceTimerExpires, CleanInv, TrxInv
  <2>6. SocketInv'
    BY <1>1, <1>2, <1>3 DEF IceTimerExpires, CleanInv, SocketInv
  <2>7. QED
    BY <2>1, <2>2, <2>3, <2>4, <2>5, <2>6 DEF CleanInv
<1>13. QED
  BY <1>4, <1>5, <1>6, <1>7, <1>8, <1>9, <1>10, <1>11, <1>12 DEF IInv

\* The first request of a session that is started is PROCESS.
LEMMA IceControllerStartKickInv ==
    ASSUME Calm, IInv, IceController_StartKick
    PROVE  IInv'
<1>1. /\ Types /\ AppInv /\ DaemonInv /\ StateInv /\ PacketInv /\ ListenerInv /\ CloserInv
      /\ QueueInv
      /\ CleanInv
  BY DEF IInv
<1>2. /\ pc'.app = "find"
      /\ pc'.session = pc.session /\ pc'.listener = pc.listener /\ pc'.daemon = pc.daemon
      /\ pc' \in Steps
  BY <1>1, GotoFacts DEF IceController_StartKick, Types, AppSteps
<1>3. /\ iceTimer' \in BOOLEAN
      /\ queue' \in Seq(Requests) /\ Len(queue') <= QueueCap
      /\ Queued("ICE_CLOSING")' => Queued("ICE_CLOSING") \/ ice = "CLOSING"
      /\ Queued("ICE_CLOSED")' => Queued("ICE_CLOSED") \/ ice = "CLOSED"
      /\ Queued("CLOSE")' => Queued("CLOSE")
      /\ Queued("CLOSE_NO_ICE")' => Queued("CLOSE_NO_ICE")
      /\ \A i, j \in 1..Len(queue') : queue'[i] = "CLOSE_NO_ICE" /\ queue'[j] = "CLOSE_NO_ICE"
               => i = j
      /\ queue' = <<>> => queue = <<>>
  <2>1. OnTimerExpire(iceTimer) /\ iceTimer \in BOOLEAN
    BY <1>1 DEF IceController_StartKick, Types
  <2>2. QED
    BY <1>1, <2>1, TimerFacts
<1>4. Types'
  BY <1>1, <1>2, <1>3 DEF IceController_StartKick, Types
<1>5. AppInv'
  BY <1>1, <1>2, <1>3 DEF IceController_StartKick, AppInv
<1>6. DaemonInv'
  BY <1>1, <1>2, <1>3 DEF IceController_StartKick, DaemonInv
<1>7. StateInv'
  BY <1>1, <1>2, <1>3 DEF IceController_StartKick, StateInv
<1>8. PacketInv'
  BY <1>1, <1>2, <1>3 DEF IceController_StartKick, PacketInv
<1>9. ListenerInv'
  BY <1>1, <1>2, <1>3 DEF IceController_StartKick, ListenerInv
<1>10. CloserInv'
  BY <1>1, <1>2, <1>3 DEF IceController_StartKick, CloserInv
<1>11. QueueInv'
  BY <1>1, <1>2, <1>3 DEF IceController_StartKick, AppInv, QueueInv
<1>12. CleanInv'
  <2>1. IceInv'
    BY <1>1, <1>2, <1>3 DEF IceController_StartKick, CleanInv, IceInv
  <2>2. GatherInv'
    <3>1. SUFFICES ASSUME addLocal'
                   PROVE  GatherInv'
      BY DEF GatherInv
    <3>2. addLocal /\ ice = "PROCESS" /\ queue' = Post(queue, "PROCESS")
      BY <1>1, <3>1 DEF IceController_StartKick, OnTimerExpire, IceRequest, CleanInv, GatherInv
    <3>3. \A i \in 1..Len(queue) : queue[i] \in {"ADD", "REPORT", "PROCESS"}
      BY <1>1, <3>2 DEF CleanInv, GatherInv
    <3>4. \A i \in 1..Len(queue') : queue'[i] \in {"ADD", "REPORT", "PROCESS"}
      <4>1. "PROCESS" \in Requests
        BY DEF Requests
      <4>2. QED
        BY <1>1, <3>2, <3>3, <4>1, PostedFacts
    <3>5. QED
      BY <1>1, <1>2, <3>2, <3>4 DEF IceController_StartKick, CleanInv, GatherInv
  <2>3. SrtpInv'
    BY <1>1, <1>2, <1>3 DEF IceController_StartKick, CleanInv, SrtpInv
  <2>4. TimerInv'
    BY <1>1, <1>2, <1>3 DEF IceController_StartKick, AppInv, CleanInv, NoIceFlow, TimerInv
  <2>5. TrxInv'
    BY <1>1, <1>2, <1>3 DEF IceController_StartKick, CleanInv, TrxInv
  <2>6. SocketInv'
    BY <1>1, <1>2, <1>3 DEF IceController_StartKick, CleanInv, SocketInv
  <2>7. QED
    BY <2>1, <2>2, <2>3, <2>4, <2>5, <2>6 DEF CleanInv
<1>13. QED
  BY <1>4, <1>5, <1>6, <1>7, <1>8, <1>9, <1>10, <1>11, <1>12 DEF IInv
\* What Recv leaves behind.
LEMMA RecvFacts ==
    ASSUME Types, QueueInv, queue # <<>>, queue' = Tail(queue)
    PROVE  /\ queue' \in Seq(Requests) /\ Len(queue') <= QueueCap
           /\ Head(queue) \in Requests
           /\ Queued("ICE_CLOSING")' => Queued("ICE_CLOSING")
           /\ Queued("ICE_CLOSED")' => Queued("ICE_CLOSED")
           /\ Queued("CLOSE")' => Queued("CLOSE")
           /\ Queued("CLOSE_NO_ICE")' => Queued("CLOSE_NO_ICE")
           /\ Head(queue) = "ICE_CLOSING" => Queued("ICE_CLOSING")
           /\ Head(queue) = "ICE_CLOSED" => Queued("ICE_CLOSED")
           /\ Head(queue) = "CLOSE" => Queued("CLOSE")
           /\ Head(queue) = "CLOSE_NO_ICE" => Queued("CLOSE_NO_ICE")
           /\ (\A i \in 1..Len(queue) : queue[i] \in {"ADD", "REPORT", "CLOSE_NO_ICE"}) =>
                 /\ Head(queue) \in {"ADD", "REPORT", "CLOSE_NO_ICE"}
                 /\ \A i \in 1..Len(queue') : queue'[i] \in {"ADD", "REPORT", "CLOSE_NO_ICE"}
           /\ \A i, j \in 1..Len(queue') : queue'[i] = "CLOSE_NO_ICE" /\ queue'[j] = "CLOSE_NO_ICE"
                    => i = j
           /\ Head(queue) = "CLOSE_NO_ICE" => ~Queued("CLOSE_NO_ICE")'
<1>1. \A i, j \in 1..Len(queue) : queue[i] = "CLOSE_NO_ICE" /\ queue[j] = "CLOSE_NO_ICE" => i = j
  BY DEF QueueInv
<1>2. QED
  BY <1>1, TakenFacts DEF Queued

\* The session task takes a request: what was queued is now what it does.
LEMMA RecvInv ==
    ASSUME Calm, IInv, Recv
    PROVE  IInv'
<1>1. /\ Types /\ AppInv /\ DaemonInv /\ StateInv /\ PacketInv /\ ListenerInv /\ CloserInv
      /\ QueueInv
      /\ CleanInv
  BY DEF IInv
<1>2. /\ queue' \in Seq(Requests) /\ Len(queue') <= QueueCap
      /\ Head(queue) \in Requests
      /\ Queued("ICE_CLOSING")' => Queued("ICE_CLOSING")
      /\ Queued("ICE_CLOSED")' => Queued("ICE_CLOSED")
      /\ Queued("CLOSE")' => Queued("CLOSE")
      /\ Queued("CLOSE_NO_ICE")' => Queued("CLOSE_NO_ICE")
      /\ Head(queue) = "ICE_CLOSING" => Queued("ICE_CLOSING")
      /\ Head(queue) = "ICE_CLOSED" => Queued("ICE_CLOSED")
      /\ Head(queue) = "CLOSE" => Queued("CLOSE")
      /\ Head(queue) = "CLOSE_NO_ICE" => Queued("CLOSE_NO_ICE")
      /\ (\A i \in 1..Len(queue) : queue[i] \in {"ADD", "REPORT", "CLOSE_NO_ICE"}) =>
            /\ Head(queue) \in {"ADD", "REPORT", "CLOSE_NO_ICE"}
            /\ \A i \in 1..Len(queue') : queue'[i] \in {"ADD", "REPORT", "CLOSE_NO_ICE"}
      /\ \A i, j \in 1..Len(queue') : queue'[i] = "CLOSE_NO_ICE" /\ queue'[j] = "CLOSE_NO_ICE"
               => i = j
      /\ Head(queue) = "CLOSE_NO_ICE" => ~Queued("CLOSE_NO_ICE")'
  BY <1>1, RecvFacts DEF Recv
<1>3. /\ pc'.session = Head(queue)
      /\ pc'.listener = pc.listener /\ pc'.app = pc.app /\ pc'.daemon = pc.daemon /\ pc' \in Steps
  BY <1>1, <1>2, GotoFacts DEF Recv, Types, SessionSteps
<1>4. Types'
  BY <1>1, <1>2, <1>3 DEF Recv, Types
<1>5. AppInv'
  BY <1>1, <1>2, <1>3 DEF Recv, AppInv
<1>6. DaemonInv'
  BY <1>1, <1>2, <1>3 DEF Recv, DaemonInv
<1>7. StateInv'
  BY <1>1, <1>2, <1>3 DEF Recv, StateInv
<1>8. PacketInv'
  BY <1>1, <1>2, <1>3 DEF Recv, PacketInv
<1>9. ListenerInv'
  BY <1>1, <1>2, <1>3 DEF Recv, ListenerInv
<1>10. CloserInv'
  <2>1. Head(queue) = "CLOSE" => pc.listener = "idle" /\ Quiet /\ pc.app \in {"idle", "candidate"}
    BY <1>1, <1>2 DEF Recv, Types, Steps, AppInv, ListenerInv, QueueInv
  <2>2. Head(queue) = "CLOSE_NO_ICE" =>
          pc.listener = "idle" /\ Quiet /\ pc.app \in {"idle", "candidate"}
    BY <1>1, <1>2 DEF Types, Steps, StateInv, ListenerInv, QueueInv
  <2>3. Head(queue) \notin Calls
    BY <1>2 DEF Requests
  <2>4. QED
    BY <1>1, <1>3, <2>1, <2>2, <2>3 DEF Recv, CloserInv
<1>11. QueueInv'
  BY <1>1, <1>2, <1>3 DEF Recv, StateInv, QueueInv
<1>12. CleanInv'
  <2>1. IceInv'
    <3>1. /\ pc.session = "recv" /\ ice' = ice /\ state' = state /\ after' = after
          /\ sockets' = sockets
          /\ pc'.session \in Requests
      BY <1>2, <1>3 DEF Recv
    <3>2. pc'.session \notin CloseSteps \cup {"relay", "onClose"}
      BY <3>1 DEF Requests
    <3>3. /\ Pending("ICE_CLOSED")' => Pending("ICE_CLOSED")
          /\ Pending("ICE_CLOSING")' => Pending("ICE_CLOSING")
      BY <1>2, <1>3
    <3>4. QED
      BY <1>1, <1>3, <3>1, <3>2, <3>3 DEF CleanInv, IceInv
  <2>2. GatherInv'
    BY <1>1, <1>2, <1>3 DEF Recv, CleanInv, GatherInv
  <2>3. SrtpInv'
    BY <1>1, <1>2, <1>3 DEF Recv, CleanInv, SrtpInv
  <2>4. TimerInv'
    <3>1. /\ pc.session = "recv" /\ ice' = ice /\ state' = state /\ iceTimer' = iceTimer
          /\ closeTimer' = closeTimer /\ pc'.session \in Requests /\ pc'.session # "barrier"
      BY <1>2, <1>3 DEF Recv, Requests
    <3>2. NoIceFlow => NoIceFlow'
      BY <1>2, <1>3, <3>1 DEF NoIceFlow
    <3>3. Ending => Ending'
      BY <1>3, <3>1
    <3>4. QED
      BY <1>1, <3>1, <3>2, <3>3 DEF CleanInv, TimerInv
  <2>5. TrxInv'
    BY <1>1, <1>2, <1>3 DEF Recv, CleanInv, TrxInv
  <2>6. SocketInv'
    <3>1. /\ ice' = ice /\ sockets' = sockets /\ pc'.session \in Requests
      BY <1>2, <1>3 DEF Recv
    <3>2. pc'.session \notin {"relay", "destroyed"}
      BY <3>1 DEF Requests
    <3>3. QED
      BY <1>1, <1>3, <3>1, <3>2 DEF CleanInv, SocketInv
  <2>7. QED
    BY <2>1, <2>2, <2>3, <2>4, <2>5, <2>6 DEF CleanInv
<1>13. QED
  BY <1>4, <1>5, <1>6, <1>7, <1>8, <1>9, <1>10, <1>11, <1>12 DEF IInv

\* The app empties the queue before the session is START.
LEMMA AppEmptiesQueueInv ==
    ASSUME Calm, IInv, AppEmptiesQueue
    PROVE  IInv'
<1>1. /\ Types /\ AppInv /\ DaemonInv /\ StateInv /\ PacketInv /\ ListenerInv /\ CloserInv
      /\ QueueInv
      /\ CleanInv
  BY DEF IInv
<1>2. /\ pc'.app \in Starting
      /\ pc'.app \in {"offerStart", "candidateStart"} => queue = <<>>
      /\ pc.app \in Starting
      /\ pc'.session = pc.session /\ pc'.listener = pc.listener /\ pc'.daemon = pc.daemon
      /\ pc' \in Steps
      /\ queue' = queue \/ (queue # <<>> /\ queue' = Tail(queue))
  BY <1>1, GotoFacts DEF AppEmptiesQueue, EmptyMessageQueue, Types, AppSteps
<1>3. /\ queue' \in Seq(Requests) /\ Len(queue') <= QueueCap
      /\ Queued("ICE_CLOSING")' => Queued("ICE_CLOSING")
      /\ Queued("ICE_CLOSED")' => Queued("ICE_CLOSED")
      /\ Queued("CLOSE")' => Queued("CLOSE")
      /\ Queued("CLOSE_NO_ICE")' => Queued("CLOSE_NO_ICE")
      /\ (\A i \in 1..Len(queue) : queue[i] \in {"ADD", "REPORT", "CLOSE_NO_ICE"})
               => \A i \in 1..Len(queue') : queue'[i] \in {"ADD", "REPORT", "CLOSE_NO_ICE"}
      /\ \A i, j \in 1..Len(queue') : queue'[i] = "CLOSE_NO_ICE" /\ queue'[j] = "CLOSE_NO_ICE"
               => i = j
      /\ queue = <<>> => queue' = <<>>
  <2>1. CASE queue' = queue
    BY <1>1, <2>1 DEF Types, QueueInv, Queued
  <2>2. CASE queue # <<>> /\ queue' = Tail(queue)
    BY <1>1, <2>2, RecvFacts
  <2>3. QED
    BY <1>2, <2>1, <2>2
<1>4. Types'
  BY <1>1, <1>2, <1>3 DEF AppEmptiesQueue, Types
<1>5. AppInv'
  BY <1>1, <1>2, <1>3 DEF AppEmptiesQueue, AppInv
<1>6. DaemonInv'
  BY <1>1, <1>2, <1>3 DEF AppEmptiesQueue, DaemonInv
<1>7. StateInv'
  BY <1>1, <1>2, <1>3 DEF AppEmptiesQueue, StateInv
<1>8. PacketInv'
  BY <1>1, <1>2, <1>3 DEF AppEmptiesQueue, PacketInv
<1>9. ListenerInv'
  BY <1>1, <1>2, <1>3 DEF AppEmptiesQueue, ListenerInv
<1>10. CloserInv'
  BY <1>1, <1>2, <1>3 DEF AppEmptiesQueue, CloserInv
<1>11. QueueInv'
  BY <1>1, <1>2, <1>3 DEF AppEmptiesQueue, QueueInv
<1>12. CleanInv'
  <2>1. IceInv'
    BY <1>1, <1>2, <1>3 DEF AppEmptiesQueue, EmptyMessageQueue, CleanInv, IceInv
  <2>2. GatherInv'
    BY <1>1, <1>2, <1>3 DEF AppEmptiesQueue, EmptyMessageQueue, AppInv, CleanInv, GatherInv
  <2>3. SrtpInv'
    BY <1>1, <1>2, <1>3 DEF AppEmptiesQueue, EmptyMessageQueue, CleanInv, SrtpInv
  <2>4. TimerInv'
    BY <1>1, <1>2, <1>3 DEF AppEmptiesQueue, EmptyMessageQueue, CleanInv, NoIceFlow, TimerInv
  <2>5. TrxInv'
    BY <1>1, <1>2, <1>3 DEF AppEmptiesQueue, EmptyMessageQueue, CleanInv, TrxInv
  <2>6. SocketInv'
    BY <1>1, <1>2, <1>3 DEF AppEmptiesQueue, EmptyMessageQueue, CleanInv, SocketInv
  <2>7. QED
    BY <2>1, <2>2, <2>3, <2>4, <2>5, <2>6 DEF CleanInv
<1>13. QED
  BY <1>4, <1>5, <1>6, <1>7, <1>8, <1>9, <1>10, <1>11, <1>12 DEF IInv

\* The timer task empties the queue while the session task waits.
LEMMA DaemonEmptiesQueueInv ==
    ASSUME Calm, IInv, DaemonEmptiesQueue
    PROVE  IInv'
<1>1. /\ Types /\ AppInv /\ DaemonInv /\ StateInv /\ PacketInv /\ ListenerInv /\ CloserInv
      /\ QueueInv
      /\ CleanInv
  BY DEF IInv
<1>2. /\ pc'.daemon \in {"empty", "recv", "notify"}
      /\ pc'.daemon = "notify" => queue = <<>>
      /\ pc.daemon # "idle"
      /\ pc'.session = pc.session /\ pc'.listener = pc.listener /\ pc'.app = pc.app /\ pc' \in Steps
      /\ queue' = queue \/ (queue # <<>> /\ queue' = Tail(queue))
  BY <1>1, GotoFacts DEF DaemonEmptiesQueue, EmptyMessageQueue, Types, DaemonSteps
<1>3. /\ queue' \in Seq(Requests) /\ Len(queue') <= QueueCap
      /\ Queued("ICE_CLOSING")' => Queued("ICE_CLOSING")
      /\ Queued("ICE_CLOSED")' => Queued("ICE_CLOSED")
      /\ Queued("CLOSE")' => Queued("CLOSE")
      /\ Queued("CLOSE_NO_ICE")' => Queued("CLOSE_NO_ICE")
      /\ (\A i \in 1..Len(queue) : queue[i] \in {"ADD", "REPORT", "CLOSE_NO_ICE"})
               => \A i \in 1..Len(queue') : queue'[i] \in {"ADD", "REPORT", "CLOSE_NO_ICE"}
      /\ \A i, j \in 1..Len(queue') : queue'[i] = "CLOSE_NO_ICE" /\ queue'[j] = "CLOSE_NO_ICE"
               => i = j
      /\ queue = <<>> => queue' = <<>>
  <2>1. CASE queue' = queue
    BY <1>1, <2>1 DEF Types, QueueInv, Queued
  <2>2. CASE queue # <<>> /\ queue' = Tail(queue)
    BY <1>1, <2>2, RecvFacts
  <2>3. QED
    BY <1>2, <2>1, <2>2
<1>4. Types'
  BY <1>1, <1>2, <1>3 DEF DaemonEmptiesQueue, Types
<1>5. AppInv'
  BY <1>1, <1>2, <1>3 DEF DaemonEmptiesQueue, AppInv
<1>6. DaemonInv'
  BY <1>1, <1>2, <1>3 DEF DaemonEmptiesQueue, DaemonInv
<1>7. StateInv'
  BY <1>1, <1>2, <1>3 DEF DaemonEmptiesQueue, StateInv
<1>8. PacketInv'
  BY <1>1, <1>2, <1>3 DEF DaemonEmptiesQueue, PacketInv
<1>9. ListenerInv'
  BY <1>1, <1>2, <1>3 DEF DaemonEmptiesQueue, ListenerInv
<1>10. CloserInv'
  BY <1>1, <1>2, <1>3 DEF DaemonEmptiesQueue, CloserInv
<1>11. QueueInv'
  BY <1>1, <1>2, <1>3 DEF DaemonEmptiesQueue, QueueInv
<1>12. CleanInv'
  <2>1. IceInv'
    BY <1>1, <1>2, <1>3 DEF DaemonEmptiesQueue, EmptyMessageQueue, CleanInv, IceInv
  <2>2. GatherInv'
    BY <1>1, <1>2, <1>3 DEF DaemonEmptiesQueue, EmptyMessageQueue, CleanInv, GatherInv
  <2>3. SrtpInv'
    BY <1>1, <1>2, <1>3 DEF DaemonEmptiesQueue, EmptyMessageQueue, CleanInv, SrtpInv
  <2>4. TimerInv'
    BY <1>1, <1>2, <1>3 DEF DaemonEmptiesQueue, EmptyMessageQueue, CleanInv, NoIceFlow, TimerInv
  <2>5. TrxInv'
    BY <1>1, <1>2, <1>3 DEF DaemonEmptiesQueue, EmptyMessageQueue, CleanInv, TrxInv
  <2>6. SocketInv'
    BY <1>1, <1>2, <1>3 DEF DaemonEmptiesQueue, EmptyMessageQueue, CleanInv, SocketInv
  <2>7. QED
    BY <2>1, <2>2, <2>3, <2>4, <2>5, <2>6 DEF CleanInv
<1>13. QED
  BY <1>4, <1>5, <1>6, <1>7, <1>8, <1>9, <1>10, <1>11, <1>12 DEF IInv
------------------------------------------------------------------------------
(* The invariant holds in every state. *)

\* The session has not been started and nothing is queued.
LEMMA InitIInv == ASSUME Init PROVE IInv
<1>1. pc \in Steps
  BY DEF Init, Steps
<1>2. queue \in Seq(Requests) /\ Len(queue) = 0 /\ 0 <= QueueCap
  BY BoundsAssumption DEF Init
<1>3. after \in [session : {"idle", "check", "recv", "onClose"}, listener : {"idle"}]
  BY DEF Init, Closers
<1>4. /\ barrier \in BOOLEAN /\ trx \in BOOLEAN /\ addLocal \in BOOLEAN /\ turnClosing \in BOOLEAN
      /\ polling \in BOOLEAN /\ iceTimer \in BOOLEAN /\ closeTimer \in BOOLEAN
      /\ reportTimer \in BOOLEAN /\ srtp \in BOOLEAN /\ silent \in BOOLEAN
  BY DEF Init
<1>5. Types
  BY <1>1, <1>2, <1>3, <1>4 DEF Init, Types, States, IceStates
<1>6. /\ ~trx /\ ~barrier /\ ~addLocal /\ ~polling /\ ~iceTimer /\ ~closeTimer /\ ~reportTimer
      /\ ~srtp
      /\ silent /\ state = "INITED" /\ ice = "NEW" /\ nominated = "none" /\ viewers = 0
      /\ queue = <<>> /\ expired = {}
      /\ pc.session = "barrier" /\ pc.listener = "idle" /\ pc.app = "idle" /\ pc.daemon = "idle"
  BY DEF Init
<1>7. AppInv /\ DaemonInv
  BY <1>6 DEF AppInv, DaemonInv
<1>8. StateInv /\ PacketInv
  BY <1>6 DEF StateInv, PacketInv
<1>9. ListenerInv /\ CloserInv
  BY <1>6 DEF ListenerInv, CloserInv
<1>10. QueueInv
  BY <1>2, <1>6 DEF QueueInv, Queued
<1>11. sockets = {}
  BY DEF Init
<1>12. CleanInv
  <2>1. ~Pending("ICE_CLOSED") /\ ~Pending("ICE_CLOSING")
    BY <1>2, <1>6 DEF Pending, Queued
  <2>2. QED
    BY <1>6, <1>11, <2>1 DEF CleanInv, IceInv, GatherInv, SrtpInv, TimerInv, TrxInv, SocketInv,
       At, Starting, CloseSteps
<1>13. QED
  BY <1>5, <1>7, <1>8, <1>9, <1>10, <1>12 DEF IInv

\* Both tasks that close, at every step of CloseSession.
LEMMA CloseSessionInv ==
    ASSUME Calm, IInv, NEW t \in Closers, CloseSession(t)
    PROVE  IInv'
<1>1. CASE t = "session"
  BY <1>1, SessionCloseInv, SessionDestroyInv, SessionFreeSocketsInv, SessionDestroyedInv,
     SessionDeInitInv, SessionResetTimerInv DEF CloseSession
<1>2. CASE t = "listener"
  BY <1>2, ListenerCloseInv, ListenerDestroyInv, ListenerFreeSocketsInv, ListenerDestroyedInv,
     ListenerDeInitInv, ListenerResetTimerInv DEF CloseSession
<1>3. QED
  BY <1>1, <1>2 DEF Closers

\* Each step of each task, a deadline that passes, and nothing at all.
LEMMA IInvStep == ASSUME Calm, IInv, [Next]_vars PROVE IInv'
<1>1. CASE Session
  BY <1>1, SessionTaskInv, RecvInv, HandleAddOrReportInv, AddLocalCandidatesInv,
     AddRelayCandidatesInv, CheckConnectivityInv, PeriodConnectionCheckInv, RetryHandshakeInv,
     AddressClosingInv, HandleIceClosedInv, HandleCloseInv, HandleCloseNoIceFlowInv,
     CheckInactivityInv, CloseSessionInv DEF Session, Closers
<1>2. CASE Listener
  BY <1>2, NominateInv, RxHandshakeDoneInv, RxTerminationInv, RxMediaInv, RxTurnTerminatedInv,
     RxErrorInv, NominatedInv, StartHandshakeInv, SetP2PInv, DisconnectInv, HandshakeCompleteInv,
     SetTimerInv, ConnectionReadyInv, ReleaseOtherSocketsInv, CloseSessionInv
     DEF Listener, ListenerRuns, Closers
<1>3. CASE App
  BY <1>3, GetSessionInv, AppEmptiesQueueInv, PeerConnectionStartInv, SetRemoteDescriptionInv,
     IceControllerStartInv, IceControllerStartKickInv, FindConnectionInv, AddRemoteCandidateInv
     DEF App, AppRuns
<1>4. CASE Daemon
  BY <1>4, IceTimerExpiresInv, CloseTimerExpiresInv, DaemonEmptiesQueueInv,
     CloseTimerNotifiesInv, ReportTimerExpiresInv DEF Daemon
<1>5. CASE \E d \in Deadlines : Deadline(d)
  BY <1>5, DeadlineInv
<1>6. CASE UNCHANGED vars
  <2>1. /\ pc' = pc /\ queue' = queue /\ state' = state /\ trx' = trx /\ barrier' = barrier
        /\ iceTimer' = iceTimer /\ after' = after
        /\ UNCHANGED <<iceVars, timerVars, peerVars, envVars>>
    BY <1>6 DEF vars
  <2>2. /\ UNCHANGED <<ice, addLocal, sockets, nominated, turnClosing, polling>>
        /\ UNCHANGED <<closeTimer, reportTimer, dtls, srtp, viewers, expired, silent, budget>>
    BY <2>1
  <2>3. Types'
    BY <2>1, <2>2 DEF IInv, Types
  <2>4. /\ AppInv' /\ DaemonInv' /\ StateInv' /\ PacketInv' /\ ListenerInv' /\ CloserInv'
        /\ QueueInv'
    BY <2>1, <2>2 DEF IInv, AppInv, DaemonInv, StateInv, PacketInv, ListenerInv, CloserInv,
       QueueInv, Queued
  <2>5. CleanInv'
    BY <2>1, <2>2 DEF IInv, CleanInv, IceInv, GatherInv, SrtpInv, TimerInv, NoIceFlow, TrxInv,
       SocketInv, Queued
  <2>6. QED
    BY <2>3, <2>4, <2>5 DEF IInv
<1>7. QED
  BY <1>1, <1>2, <1>3, <1>4, <1>5, <1>6 DEF Next

\* The invariant, along every behaviour without a quick offer or a deadline that races.
LEMMA IInvAlways == ASSUME Calm PROVE Spec => []IInv
<1>1. Init => IInv
  BY InitIInv
<1>2. IInv /\ [Next]_vars => IInv'
  BY IInvStep
<1>3. QED
  BY <1>1, <1>2, PTL DEF Spec

------------------------------------------------------------------------------
(* The theorems. *)

\* Every variable stays in its type, the request queue within its capacity and the
\* media source's count of this session in {0, 1}.
THEOREM TypeCorrect == ASSUME Calm PROVE Spec => []TypeOK
<1>1. IInv => TypeOK
  BY DEF IInv, Types, StateInv, TypeOK
<1>2. QED
  BY <1>1, IInvAlways, PTL

\* A session that is READY has its SRTP sessions, report timers, nominated socket and
\* transceivers and is counted once, whichever task closes it and when.
THEOREM ReadyIsSecuredAlways == ASSUME Calm PROVE Spec => []ReadyIsSecured
<1>1. IInv => ReadyIsSecured
  BY DEF IInv, Types, StateInv, ListenerInv, ReadyIsSecured, ViewersMatch, TransceiversPresent
<1>2. QED
  BY <1>1, IInvAlways, PTL

\* Once a session can be used again and its tasks rest, nothing of the last connection is
\* left, if no packet comes while the relay candidate is made: then the relay's socket would
\* be opened after the close (CloseSession, IceController_Destroy, AddressClosing,
\* PeerConnectionSrtp_DeInit, PeerConnection_ResetTimer, OnClosePeerConnection).
THEOREM ReusableIsCleanAlways ==
    ASSUME Calm, "slowGather" \notin Timings
    PROVE  Spec => []ReusableIsClean
<1>1. ASSUME IInv
      PROVE  ReusableIsClean
  <2>1. /\ Types /\ StateInv /\ CloserInv
        /\ IceInv /\ SrtpInv /\ TimerInv /\ TrxInv /\ SocketInv
    BY <1>1 DEF IInv, CleanInv
  <2>2. ClosedHasNoSocket
    BY <2>1 DEF SocketInv, ClosedHasNoSocket
  <2>3. ASSUME state = "INITED", AtRest
        PROVE  /\ ~srtp /\ ~reportTimer /\ ~closeTimer /\ ~trx /\ ~polling
               /\ sockets = {} /\ viewers = 0 /\ ice \in {"NEW", "CLOSED"}
    <3>1. pc.session = "barrier" /\ pc.listener = "idle" /\ pc.app = "idle"
      BY <2>3 DEF AtRest, Settled
    <3>2. ice \in {"NEW", "CLOSED"} /\ sockets = {}
      BY <2>1, <2>3, <3>1 DEF IceInv, SocketInv
    <3>3. ~srtp /\ ~reportTimer
      BY <2>1, <2>3, <3>1, <3>2 DEF SrtpInv, CloserInv
    <3>4. ~closeTimer /\ ~trx
      BY <2>1, <2>3, <3>1 DEF TimerInv, TrxInv
    <3>5. ~polling /\ viewers = 0
      BY <2>1, <2>3, <3>1 DEF StateInv
    <3>6. QED
      BY <3>2, <3>3, <3>4, <3>5
  <2>4. QED
    BY <2>2, <2>3 DEF ReusableIsClean
<1>2. QED
  BY <1>1, IInvAlways, PTL

\* Only a session that is CLOSING becomes INITED: no request left over from an earlier
\* connection resets one that is being set up or streams.
THEOREM ClosedBeforeReuseAlways == ASSUME Calm PROVE Spec => ClosedBeforeReuse
<1>1. IInv /\ [Next]_vars => [state' = "INITED" /\ state # "INITED" => state = "CLOSING"]_vars
  <2>1. SUFFICES ASSUME IInv, Next, state' = "INITED", state # "INITED"
                 PROVE  state = "CLOSING"
    BY DEF vars
  <2>2. CASE state' = state
    BY <2>1, <2>2
  <2>3. CASE HandleIceClosed
    BY <2>1, <2>3 DEF HandleIceClosed, IInv, QueueInv
  <2>4. CASE HandleCloseNoIceFlow
    BY <2>1, <2>4 DEF HandleCloseNoIceFlow, IInv, CloserInv
  <2>5. state' = state \/ state' # "INITED" \/ HandleIceClosed \/ HandleCloseNoIceFlow
    <3>1. CASE \E t \in Closers : CloseSession(t)
      BY <3>1 DEF CloseSession, Close, Destroy, FreeSockets, Destroyed, DeInit,
         PeerConnection_ResetTimer
    <3>2. CASE Session
      BY <3>1, <3>2 DEF Session, Closers, SessionTask, Recv, HandleAddOrReport, AddLocalCandidates,
         AddRelayCandidates, CheckConnectivity, PeriodConnectionCheck, RetryHandshake,
         AddressClosing, HandleClose, CheckInactivity
    <3>3. CASE Listener
      BY <3>1, <3>3 DEF Listener, ListenerRuns, Closers, Nominate, RxHandshakeDone, RxTermination,
         RxMedia, RxTurnTerminated, RxError, Nominated, StartHandshake, SetP2P, Disconnect,
         HandshakeComplete, PeerConnection_SetTimer, ConnectionReady, ReleaseOtherSockets
    <3>4. CASE App
      BY <3>4 DEF App, AppRuns, GetSession, AppEmptiesQueue, PeerConnection_Start,
         SetRemoteDescription, IceController_Start, IceController_StartKick, FindConnection,
         AddRemoteCandidate
    <3>5. CASE Daemon \/ \E d \in Deadlines : Deadline(d)
      BY <3>5 DEF Daemon, IceTimerExpires, CloseTimerExpires, DaemonEmptiesQueue,
         CloseTimerNotifies, ReportTimerExpires, Deadline
    <3>6. QED
      BY <2>1, <3>2, <3>3, <3>4, <3>5 DEF Next
  <2>6. QED
    BY <2>1, <2>2, <2>3, <2>4, <2>5
<1>2. Spec => []IInv
  BY IInvAlways
<1>3. QED
  BY <1>1, <1>2, PTL DEF Spec, ClosedBeforeReuse

------------------------------------------------------------------------------
(* The promise of SessionLife. *)

\* What the promise is about, in terms of the session.
LifeVars == <<state, srtp, reportTimer, viewers>>

\* What is held follows the SRTP sessions and the report timers.
LEMMA HeldFacts ==
    /\ Held = (IF srtp THEN {"keys"} ELSE {}) \cup (IF reportTimer THEN {"reports"} ELSE {})
    /\ Held' = (IF srtp' THEN {"keys"} ELSE {}) \cup (IF reportTimer' THEN {"reports"} ELSE {})
<1>1. Held = (IF srtp THEN {"keys"} ELSE {}) \cup (IF reportTimer THEN {"reports"} ELSE {})
  BY DEF Held
<1>2. Held' = (IF srtp' THEN {"keys"} ELSE {}) \cup (IF reportTimer' THEN {"reports"} ELSE {})
  BY DEF Held
<1> QED
  BY <1>1, <1>2

\* A step that leaves all of it alone is none of the promise's.
LEMMA LifeStutters == ASSUME UNCHANGED LifeVars PROVE UNCHANGED Life!vars
<1>1. Phase' = Phase
  BY DEF LifeVars, Phase
<1>2. Held' = Held
  BY HeldFacts DEF LifeVars
<1> QED
  BY <1>1, <1>2 DEF LifeVars, Life!vars

\* A step of the state alone.
LEMMA HeldKept == ASSUME srtp' = srtp, reportTimer' = reportTimer PROVE Held' = Held
  BY HeldFacts

LEMMA StartImplements ==
    ASSUME IInv, PeerConnection_Start
    PROVE  Life!Start
<1>1. /\ state = "INITED" /\ state' = "START"
      /\ srtp' = srtp /\ reportTimer' = reportTimer /\ viewers' = viewers
  BY DEF PeerConnection_Start, IInv, AppInv
<1>2. ~srtp /\ ~reportTimer
  <2>1. /\ pc.session \in {"barrier", "recv"} /\ pc.listener = "idle" /\ ~reportTimer
        /\ pc.app \notin Kicking
    BY DEF PeerConnection_Start, IInv, AppInv
  <2>2. ice \in {"NEW", "CLOSED"}
    BY <1>1, <2>1 DEF IInv, CleanInv, IceInv
  <2> QED
    BY <2>1, <2>2 DEF IInv, CleanInv, SrtpInv
<1>3. Held = {} /\ Held' = Held
  BY <1>1, <1>2, HeldFacts
<1>4. Phase = "idle" /\ Phase' = "starting"
  BY <1>1 DEF Phase
<1> QED
  BY <1>1, <1>3, <1>4 DEF Life!Start

LEMMA FindImplements == ASSUME IInv, FindConnection PROVE Life!Describe
<1>1. /\ state = "START" /\ state' = "FIND"
      /\ srtp' = srtp /\ reportTimer' = reportTimer /\ viewers' = viewers
  BY DEF FindConnection, IInv, AppInv
<1>2. Phase = "starting" /\ Phase' = "connecting"
  BY <1>1 DEF Phase
<1> QED
  BY <1>1, <1>2, HeldKept DEF Life!Describe

LEMMA P2PImplements == ASSUME IInv, SetP2P PROVE Life!PathFound
<1>1. /\ state = "FIND" /\ state' = "P2P"
      /\ srtp' = srtp /\ reportTimer' = reportTimer /\ viewers' = viewers
  BY DEF SetP2P, IInv, ListenerInv
<1>2. Phase = "connecting" /\ Phase' = "securing"
  BY <1>1 DEF Phase
<1> QED
  BY <1>1, <1>2, HeldKept DEF Life!PathFound

\* The keys, whether the handshake succeeds or what follows it fails.
LEMMA KeysImplement ==
    ASSUME IInv, HandshakeComplete
    PROVE  Life!Acquire("keys") \/ UNCHANGED LifeVars
<1>1. state = "P2P" /\ state' = state /\ reportTimer' = reportTimer /\ viewers' = viewers
  BY DEF HandshakeComplete, IInv, ListenerInv
<1>2. srtp' = TRUE \/ srtp' = srtp
  BY DEF HandshakeComplete
<1>3. Phase = "securing" /\ Phase' = Phase
  BY <1>1 DEF Phase
<1>4. CASE srtp' = TRUE
  <2>1. Held' = Held \cup {"keys"}
    BY <1>1, <1>4, HeldFacts
  <2> QED
    BY <1>1, <1>3, <2>1 DEF Life!Acquire
<1> QED
  BY <1>1, <1>2, <1>4 DEF LifeVars

LEMMA ReportsImplement ==
    ASSUME IInv, PeerConnection_SetTimer
    PROVE  Life!Acquire("reports")
<1>1. state = "P2P" /\ state' = state /\ reportTimer' = TRUE /\ srtp' = srtp /\ viewers' = viewers
  BY DEF PeerConnection_SetTimer, IInv, ListenerInv
<1>2. Phase = "securing" /\ Phase' = Phase
  BY <1>1 DEF Phase
<1>3. Held' = Held \cup {"reports"}
  BY <1>1, HeldFacts
<1> QED
  BY <1>1, <1>2, <1>3 DEF Life!Acquire

LEMMA ReadyImplements == ASSUME IInv, ConnectionReady PROVE Life!Stream
<1>1. /\ state = "P2P" /\ state' = "READY" /\ srtp /\ reportTimer
      /\ srtp' = srtp /\ reportTimer' = reportTimer
  BY DEF ConnectionReady, IInv, ListenerInv
<1>2. viewers' = viewers + 1
  BY <1>1 DEF ConnectionReady, IInv, StateInv
<1>3. Held = Life!Needs /\ Held' = Held
  BY <1>1, HeldFacts DEF Life!Needs
<1>4. Phase = "securing" /\ Phase' = "streaming"
  BY <1>1 DEF Phase
<1> QED
  BY <1>2, <1>3, <1>4 DEF Life!Stream

\* The first step of CloseSession, in whatever state the session is.
LEMMA CloseImplements ==
    ASSUME IInv, NEW t \in Closers, Close(t)
    PROVE  Life!Close \/ Life!CloseAgain \/ UNCHANGED LifeVars
<1>1. /\ state \in States /\ state' = "CLOSING"
      /\ srtp' = srtp /\ reportTimer' = reportTimer
      /\ viewers' = IF state = "READY" /\ trx THEN viewers - 1 ELSE viewers
  BY DEF Close, IInv, Types
<1>2. state = "READY" => trx
  BY DEF IInv, StateInv, AppInv
<1>3. Phase' = "closing" /\ Held' = Held
  BY <1>1, HeldKept DEF Phase
<1>4. CASE state = "CLOSING"
  BY <1>1, <1>4 DEF LifeVars
<1>5. CASE state = "INITED"
  <2>1. Phase = "idle" /\ viewers' = viewers
    BY <1>1, <1>5 DEF Phase
  <2> QED
    BY <1>3, <2>1 DEF Life!CloseAgain
<1>6. CASE state \in {"START", "FIND", "P2P", "READY"}
  <2>1. Phase \notin {"idle", "closing"} /\ (Phase = "streaming" <=> state = "READY")
    BY <1>6 DEF Phase
  <2> QED
    BY <1>1, <1>2, <1>3, <2>1 DEF Life!Close
<1> QED
  BY <1>1, <1>4, <1>5, <1>6 DEF States

\* The later steps of CloseSession give back what the session held.
LEMMA CloseSessionImplements ==
    ASSUME IInv, NEW t \in Closers, CloseSession(t)
    PROVE  \/ Life!Close \/ Life!CloseAgain \/ UNCHANGED LifeVars
           \/ \E r \in Life!Needs : Life!GiveBack(r)
<1>1. CASE Close(t)
  BY <1>1, CloseImplements
<1>2. CASE Destroy(t) \/ FreeSockets(t) \/ Destroyed(t)
  BY <1>2 DEF Destroy, FreeSockets, Destroyed, LifeVars
<1>3. ASSUME pc[t] \in {"deinit", "resetTimers"} PROVE state \in {"CLOSING", "INITED"}
  BY <1>3 DEF Closers, IInv, ListenerInv, CloserInv
<1>4. CASE DeInit(t)
  <2>1. /\ state \in {"CLOSING", "INITED"} /\ state' = state /\ srtp' = FALSE
        /\ reportTimer' = reportTimer /\ viewers' = viewers
    BY <1>3, <1>4 DEF DeInit
  <2>2. Phase \in {"closing", "idle"} /\ Phase' = Phase
    BY <2>1 DEF Phase
  <2>3. Held' = Held \ {"keys"}
    BY <2>1, HeldFacts
  <2> QED
    BY <2>1, <2>2, <2>3 DEF Life!GiveBack, Life!Needs
<1>5. CASE PeerConnection_ResetTimer(t)
  <2>1. /\ state \in {"CLOSING", "INITED"} /\ state' = state /\ srtp' = srtp
        /\ reportTimer' = FALSE /\ viewers' = viewers
    BY <1>3, <1>5 DEF PeerConnection_ResetTimer
  <2>2. Phase \in {"closing", "idle"} /\ Phase' = Phase
    BY <2>1 DEF Phase
  <2>3. Held' = Held \ {"reports"}
    BY <2>1, HeldFacts
  <2> QED
    BY <2>1, <2>2, <2>3 DEF Life!GiveBack, Life!Needs
<1> QED
  BY <1>1, <1>2, <1>4, <1>5 DEF CloseSession

\* OnClosePeerConnection: ICE_CLOSED may be handled for a session that is INITED.
LEMMA ResetImplements ==
    ASSUME IInv, HandleIceClosed \/ HandleCloseNoIceFlow
    PROVE  Life!Release \/ UNCHANGED LifeVars
<1>1. /\ state' = "INITED" /\ srtp' = srtp /\ reportTimer' = reportTimer /\ viewers' = viewers
  BY DEF HandleIceClosed, HandleCloseNoIceFlow, OnClosePeerConnection
<1>2. state \in {"CLOSING", "INITED"}
  BY DEF HandleIceClosed, HandleCloseNoIceFlow, IInv, QueueInv, CloserInv
<1>3. CASE state = "CLOSING"
  <2>1. Phase = "closing" /\ Phase' = "idle"
    BY <1>1, <1>3 DEF Phase
  <2> QED
    BY <1>1, <2>1, HeldKept DEF Life!Release
<1> QED
  BY <1>1, <1>2, <1>3 DEF LifeVars

\* Every step of the session is one step of the promise, or none.
LEMMA StepImplements == ASSUME IInv, [Next]_vars PROVE [Life!Next]_(Life!vars)
<1> USE DEF LifeVars
<1>1. CASE \E t \in Closers : CloseSession(t)
  BY <1>1, CloseSessionImplements, LifeStutters DEF Life!Next
<1>2. CASE Session
  <2>1. CASE HandleIceClosed \/ HandleCloseNoIceFlow
    BY <2>1, ResetImplements, LifeStutters DEF Life!Next
  <2>2. CASE \/ SessionTask \/ Recv \/ HandleAddOrReport \/ AddLocalCandidates
             \/ AddRelayCandidates \/ CheckConnectivity \/ PeriodConnectionCheck
             \/ RetryHandshake \/ AddressClosing \/ HandleClose \/ CheckInactivity
    <3>1. UNCHANGED LifeVars
      BY <2>2 DEF SessionTask, Recv, HandleAddOrReport, AddLocalCandidates, AddRelayCandidates,
         CheckConnectivity, PeriodConnectionCheck, RetryHandshake, AddressClosing, HandleClose,
         CheckInactivity
    <3> QED
      BY <3>1, LifeStutters
  <2> QED
    BY <1>1, <1>2, <2>1, <2>2 DEF Session, Closers
<1>3. CASE Listener
  <2>1. CASE SetP2P \/ ConnectionReady
    BY <2>1, P2PImplements, ReadyImplements DEF Life!Next
  <2>2. CASE HandshakeComplete \/ PeerConnection_SetTimer
    BY <2>2, KeysImplement, ReportsImplement, LifeStutters DEF Life!Next, Life!Needs
  <2>3. CASE \/ Nominate \/ RxHandshakeDone \/ RxTermination \/ RxMedia \/ RxTurnTerminated
             \/ RxError \/ Nominated \/ StartHandshake \/ Disconnect \/ ReleaseOtherSockets
    <3>1. UNCHANGED LifeVars
      BY <2>3 DEF Nominate, RxHandshakeDone, RxTermination, RxMedia, RxTurnTerminated, RxError,
         Nominated, StartHandshake, Disconnect, ReleaseOtherSockets
    <3> QED
      BY <3>1, LifeStutters
  <2> QED
    BY <1>1, <1>3, <2>1, <2>2, <2>3 DEF Listener, ListenerRuns, Closers
<1>4. CASE App
  <2>1. CASE PeerConnection_Start \/ FindConnection
    BY <2>1, StartImplements, FindImplements DEF Life!Next
  <2>2. CASE \/ GetSession("offer", "offers") \/ GetSession("candidate", "candidates")
             \/ AppEmptiesQueue \/ SetRemoteDescription \/ IceController_Start
             \/ IceController_StartKick \/ AddRemoteCandidate
    <3>1. UNCHANGED LifeVars
      BY <2>2 DEF GetSession, AppEmptiesQueue, SetRemoteDescription, IceController_Start,
         IceController_StartKick, AddRemoteCandidate
    <3> QED
      BY <3>1, LifeStutters
  <2> QED
    BY <1>4, <2>1, <2>2 DEF App, AppRuns
<1>5. CASE Daemon \/ (\E d \in Deadlines : Deadline(d)) \/ UNCHANGED vars
  <2>1. UNCHANGED LifeVars
    BY <1>5 DEF Daemon, IceTimerExpires, CloseTimerExpires, DaemonEmptiesQueue,
       CloseTimerNotifies, ReportTimerExpires, Deadline, vars
  <2> QED
    BY <2>1, LifeStutters
<1> QED
  BY <1>2, <1>3, <1>4, <1>5 DEF Next

\* PeerConnectionSession implements SessionLife: whatever its tasks do, the session goes
\* from viewer to viewer through the phases, is counted exactly while it streams, and has
\* its keys and report timers from before it streams until after (PeerConnection_Start,
\* OnDtlsHandshakeComplete, PeerConnection_CloseSession, OnClosePeerConnection).
THEOREM LifePromiseAlways == ASSUME Calm PROVE Spec => LifePromise
<1>1. Init => Life!Init
  <2> SUFFICES ASSUME Init PROVE Life!Init
    OBVIOUS
  <2>1. Phase = "idle"
    BY DEF Init, Phase
  <2>2. Held = {}
    BY HeldFacts DEF Init
  <2> QED
    BY <2>1, <2>2 DEF Init, Life!Init
<1>2. IInv /\ [Next]_vars => [Life!Next]_(Life!vars)
  BY StepImplements
<1>3. Spec => []IInv
  BY IInvAlways
<1> QED
  BY <1>1, <1>2, <1>3, PTL DEF Spec, LifePromise, Life!Spec
==============================================================================
