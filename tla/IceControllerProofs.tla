-------------------------- MODULE IceControllerProofs --------------------------
(***************************************************************************)
(* Proofs about IceController for any number of contexts, servers, remote  *)
(* candidates and faults: the types and that contexts follow their sockets *)
(* for any number of lives of the session; that the pairs have contexts    *)
(* and that the loss of the nominated one is noticed in the first life     *)
(* (OneLife).  A listener that handles a packet while the session ends and *)
(* is started again nominates a context of the life before, so the last    *)
(* two do not hold in a second life.                                       *)
(*                                                                         *)
(* Two tasks work on the contexts without a lock that spans a handler, so  *)
(* the invariants follow each task's hand on its context between its       *)
(* steps: SessionHand, ListenerHand (who may have closed it meanwhile has  *)
(* set raced) and Reserved (a candidate just made belongs to nobody else). *)
(***************************************************************************)
EXTENDS IceController, TLAPS

------------------------------------------------------------------------------
(* The invariant of every life. *)

SessionSteps == {"idle", "gather", "add", "update", "local", "tls", "tlsDone", "destroy"}
ListenerSteps == {"idle", "dispatch", "tls", "tlsAdd", "tlsUpdate", "recv", "ready",
                  "nominate", "deliver", "ended"}
Context == [state : SlotStates, open : BOOLEAN, tls : BOOLEAN,
            cand : 0..MaxContexts, peer : Remotes \cup {NoPeer}]
Candidate == [kind : Kinds, valid : BOOLEAN, closing : BOOLEAN]

Types ==
    /\ iceState \in {"NEW", "PROCESS", "READY", "CLOSING", "CLOSED"}
    /\ sock \in [Slots -> Context]
    /\ count \in 0..MaxContexts /\ nominated \in 0..MaxContexts
    /\ polling \in BOOLEAN /\ addLocal \in BOOLEAN /\ timer \in BOOLEAN /\ closeReq \in BOOLEAN
    /\ request \in {"none", "PROCESS", "READY", "CLOSING"}
    /\ cands \in Seq(Candidate) /\ Len(cands) <= MaxContexts
    /\ remotes \subseteq Remotes /\ pairs \subseteq (DOMAIN cands) \X remotes
    /\ lock \in {"free", "session"}
    /\ session \in [at : SessionSteps, i : 0..(MaxContexts + 1), jobs : SUBSET Job,
                    kind : Kinds \cup {"none"}, tls : Results, late : BOOLEAN]
    /\ listener \in [at : ListenerSteps, i : 0..MaxContexts, peer : Remotes \cup {NoPeer},
                     ret : {"OK", "FOUND", "FAIL"}]
    /\ budget \in [faults : Nat, starts : Nat]
    /\ expired \in BOOLEAN /\ raced \in BOOLEAN /\ doubled \in BOOLEAN
    /\ deaf \in BOOLEAN /\ reopened \in BOOLEAN

\* The context a task works on is one that exists, the lock is where the task says.
Places ==
    /\ session.at \in {"add", "update"} => session.i = count /\ session.i \in Slots
                                           /\ session.kind \in Kinds
    /\ session.at \in {"tls", "tlsDone"} => session.i \in 1..count
    /\ session.at \in {"local", "destroy"} => session.i \in 1..(count + 1)
    /\ listener.at # "idle" => listener.i \in Slots
    /\ lock = "session" <=> session.at \in {"local", "tls", "tlsDone"}

\* A socket that is open has a context in use, or one the session task has just made.
OpenInv ==
    \A i \in Slots : sock[i].open =>
        /\ i <= count
        /\ sock[i].state # "NONE" \/ (session.at \in {"add", "update"} /\ session.i = i)

\* Nothing is open in a controller that is CLOSED, and nothing will be opened.
ClosedInv ==
    /\ iceState = "CLOSED" => \A i \in Slots : ~sock[i].open
    /\ addLocal =>
        /\ request = "PROCESS" /\ session.at = "idle" /\ count = 0 /\ ~closeReq
        /\ iceState # "CLOSED"
    /\ session.at \in {"add", "update"} \/ (session.at = "gather" /\ session.jobs # {}) =>
        iceState # "CLOSED"
    /\ session.at = "destroy" /\ session.tls # "IN_PROGRESS" =>
        \A j \in Slots : j < session.i => ~sock[j].open

\* What each task may rely on about the context in its hand, until the other interferes.
SessionHand ==
    /\ session.at \in {"add", "update"} =>
        sock[session.i].open /\ sock[session.i].state = "NONE"
    /\ session.at \in {"tls", "tlsDone"} => sock[session.i].open

ListenerHand ==
    /\ listener.at # "idle" => listener.i <= count /\ sock[listener.i].open
    /\ listener.at \notin {"idle", "dispatch", "recv"} => sock[listener.i].state # "NONE"
    /\ listener.at = "deliver" => nominated = listener.i

GhostInv ==
    ~raced =>
        /\ \A i \in Slots : sock[i].state # "NONE" => sock[i].open
        /\ SessionHand /\ ListenerHand

IInv == Types /\ Places /\ OpenInv /\ ClosedInv /\ GhostInv

------------------------------------------------------------------------------
(* The invariant of the first life. *)

OneLife == MaxStarts <= 1

\* Until the controller is started there is nothing; afterwards it is not started again.
FirstStart ==
    /\ budget.starts > 0 => iceState = "NEW" /\ MaxStarts = 1 /\ budget.starts = 1
    /\ iceState = "NEW" =>
        /\ count = 0 /\ nominated = 0 /\ cands = <<>> /\ pairs = {}
        /\ session.at = "idle" /\ listener.at = "idle" /\ ~polling /\ ~timer /\ request = "none"
        /\ ~closeReq /\ ~addLocal

\* A context that was not used yet is as it was in the beginning; one that is connecting
\* has no candidate, and none a candidate that was not made.
Fresh ==
    /\ \A i \in Slots : i > count => sock[i].cand = 0 /\ sock[i].state = "NONE"
    /\ \A i \in Slots :
        sock[i].cand <= Len(cands) /\ (sock[i].state = "PROGRESS" => sock[i].cand = 0)

\* The context the session task is making, or connecting, is not the nominated one, nor one
\* the listener is about to nominate; the same for one that the listener connects.
Apart ==
    /\ nominated <= count /\ (nominated # 0 => sock[nominated].cand # 0)
    /\ listener.at # "idle" => listener.i <= count
    /\ listener.at \in {"ready", "nominate", "deliver"} => sock[listener.i].cand # 0
    /\ session.at \in {"add", "update"} =>
        /\ nominated # session.i /\ sock[session.i].cand = 0 /\ sock[session.i].state = "NONE"
        /\ listener.at \notin {"idle", "dispatch", "recv"} => listener.i # session.i
    /\ session.at \in {"tls", "tlsDone"} =>
        /\ nominated # session.i
        /\ listener.at \in {"ready", "nominate", "deliver"} => listener.i # session.i
    /\ listener.at \in {"tls", "tlsAdd", "tlsUpdate"} => nominated # listener.i
    /\ listener.at = "tlsUpdate" => cands # <<>>

LossInv ==
    /\ LossNoticed
    /\ session.at = "destroy" => iceState = "CLOSING" \/ reopened

\* A candidate that was made and not yet given to a context is the newest, and nobody's.
Newest == \A i \in Slots : sock[i].cand # Len(cands)
SessionReserves == session.at = "update" /\ session.tls # "IN_PROGRESS"

Reserved ==
    /\ SessionReserves => cands # <<>>
    /\ ~doubled =>
        /\ SessionReserves \/ listener.at = "tlsUpdate" => Newest
        /\ ~(SessionReserves /\ listener.at = "tlsUpdate")
        /\ \A i, j \in Slots : i # j /\ sock[i].cand # 0 => sock[i].cand # sock[j].cand

LifeInv == FirstStart /\ Fresh /\ Apart /\ LossInv /\ Reserved /\ ReadyHasPair
------------------------------------------------------------------------------
(* What becomes of contexts, candidates and pairs. *)

USE DEF SessionSteps, ListenerSteps, Results, InListener, InSession

\* Freeing a context closes its socket and, if it had one, resets its state.
LEMMA FreeFacts ==
    ASSUME sock \in [Slots -> Context], NEW i \in Slots
    PROVE  /\ FreeSocketContext(sock, i) \in [Slots -> Context]
           /\ \A j \in Slots :
                /\ FreeSocketContext(sock, i)[j].cand = sock[j].cand
                /\ FreeSocketContext(sock, i)[j].peer = sock[j].peer
                /\ j # i => FreeSocketContext(sock, i)[j] = sock[j]
           /\ ~FreeSocketContext(sock, i)[i].open
           /\ FreeSocketContext(sock, i)[i].state = IF sock[i].open THEN "NONE" ELSE sock[i].state
           /\ ~sock[i].open => FreeSocketContext(sock, i) = sock
<1>1. CASE sock[i].open
  <2> DEFINE freed == [sock EXCEPT ![i].open = FALSE, ![i].state = "NONE"]
  <2>1. FreeSocketContext(sock, i) = freed
    BY <1>1 DEF FreeSocketContext
  <2>2. /\ \A j \in Slots : j # i => freed[j] = sock[j]
        /\ DOMAIN freed = Slots
        /\ freed[i] = [sock[i] EXCEPT !.open = FALSE, !.state = "NONE"]
        /\ freed = [j \in Slots |-> freed[j]]
    OBVIOUS
  <2>3. sock[i] \in Context /\ "NONE" \in SlotStates
    BY DEF SlotStates
  <2>4. /\ freed[i] \in Context /\ freed[i].state = "NONE"
        /\ freed[i].cand = sock[i].cand /\ freed[i].peer = sock[i].peer
    BY <2>2, <2>3 DEF Context
  <2>5. ~freed[i].open
    BY <2>2, <2>3, Zenon DEF Context
  <2>6. freed \in [Slots -> Context]
    BY <2>2, <2>4
  <2>7. QED
    BY <1>1, <2>1, <2>2, <2>4, <2>5, <2>6
<1>2. CASE ~sock[i].open
  BY <1>2 DEF FreeSocketContext
<1>3. QED
  BY <1>1, <1>2

\* Updating a context sets its state, candidate and peer, and leaves its socket alone.
LEMMA UpdateFacts ==
    ASSUME sock \in [Slots -> Context], NEW i \in Slots, NEW st \in SlotStates,
           NEW c \in 0..MaxContexts, NEW peer \in Remotes \cup {NoPeer}
    PROVE  /\ UpdateSocketContext(sock, i, st, c, peer) \in [Slots -> Context]
           /\ \A j \in Slots : j # i => UpdateSocketContext(sock, i, st, c, peer)[j] = sock[j]
           /\ UpdateSocketContext(sock, i, st, c, peer)[i].state = st
           /\ UpdateSocketContext(sock, i, st, c, peer)[i].cand = c
           /\ UpdateSocketContext(sock, i, st, c, peer)[i].peer = peer
           /\ UpdateSocketContext(sock, i, st, c, peer)[i].open = sock[i].open
  BY DEF UpdateSocketContext, Context

\* A new candidate becomes the last one.
LEMMA AddFacts ==
    ASSUME cands \in Seq(Candidate), Len(cands) < MaxContexts, NEW kind \in Kinds,
           pairs \subseteq (DOMAIN cands) \X remotes, Ice_AddCandidate(kind)
    PROVE  /\ cands' \in Seq(Candidate) /\ Len(cands') = Len(cands) + 1
           /\ pairs \subseteq pairs' /\ pairs' \subseteq (DOMAIN cands') \X remotes
<1>1. [kind |-> kind, valid |-> kind = "host", closing |-> FALSE] \in Candidate
  BY Zenon DEF Candidate
<1>2. cands' = Append(cands, [kind |-> kind, valid |-> kind = "host", closing |-> FALSE])
  BY DEF Ice_AddCandidate
<1>3. cands' \in Seq(Candidate) /\ Len(cands') = Len(cands) + 1
  BY <1>1, <1>2
<1>4. DOMAIN cands = 1..Len(cands) /\ DOMAIN cands' = 1..(Len(cands) + 1) /\ Len(cands) \in Nat
  BY <1>3
<1>5. QED
  BY <1>3, <1>4 DEF Ice_AddCandidate

\* Asking the server to end an allocation changes no candidate but this one.
LEMMA CloseCandidateFacts ==
    ASSUME cands \in Seq(Candidate), NEW c, Ice_CloseCandidate(c)
    PROVE  cands' \in Seq(Candidate) /\ Len(cands') = Len(cands) /\ DOMAIN cands' = DOMAIN cands
<1>1. CASE c \in DOMAIN cands
  <2>1. cands[c] \in Candidate
    BY <1>1
  <2>2. [cands[c] EXCEPT !.closing = TRUE] \in Candidate
    BY <2>1, Zenon DEF Candidate
  <2>3. cands' = [cands EXCEPT ![c] = [cands[c] EXCEPT !.closing = TRUE]]
    BY <1>1 DEF Ice_CloseCandidate
  <2>4. QED
    BY <1>1, <2>2, <2>3
<1>2. CASE c \notin DOMAIN cands
  BY <1>2 DEF Ice_CloseCandidate
<1>3. QED
  BY <1>1, <1>2

\* A candidate whose address is known is paired with remote ones.
LEMMA ValidateFacts ==
    ASSUME cands \in Seq(Candidate), NEW c \in DOMAIN cands,
           pairs \subseteq (DOMAIN cands) \X remotes, Ice_Validate(c)
    PROVE  /\ cands' \in Seq(Candidate) /\ Len(cands') = Len(cands) /\ DOMAIN cands' = DOMAIN cands
           /\ pairs \subseteq pairs' /\ pairs' \subseteq (DOMAIN cands') \X remotes
<1>1. [cands[c] EXCEPT !.valid = TRUE] \in Candidate
  <2>1. cands[c] \in Candidate
    OBVIOUS
  <2>2. QED
    BY <2>1, Zenon DEF Candidate
<1>2. cands' = [cands EXCEPT ![c] = [cands[c] EXCEPT !.valid = TRUE]]
  BY DEF Ice_Validate
<1>3. cands' \in Seq(Candidate) /\ Len(cands') = Len(cands) /\ DOMAIN cands' = DOMAIN cands
  BY <1>1, <1>2
<1>4. QED
  BY <1>3 DEF Ice_Validate

\* A fault that happens uses up the budget.
LEMMA FaultFacts ==
    ASSUME budget \in [faults : Nat, starts : Nat]
    PROVE  /\ Fault => budget' \in [faults : Nat, starts : Nat] /\ budget'.starts = budget.starts
           /\ NoFault => budget' = budget
  BY DEF Fault, NoFault

\* A send that fails closes its context and its candidate; the loss of the nominated
\* context is reported, that of one the listener works on is remembered.
LEMMA SendFailsFacts ==
    ASSUME Types, NEW i \in Slots, SendPacketFails(i)
    PROVE  /\ sock' = FreeSocketContext(sock, i)
           /\ i <= count /\ sock[i].state # "NONE"
           /\ cands' \in Seq(Candidate) /\ Len(cands') = Len(cands) /\ DOMAIN cands' = DOMAIN cands
           /\ raced' \in BOOLEAN /\ (~raced' => ~raced /\ ~(InListener /\ listener.i = i))
           /\ closeReq' \in BOOLEAN /\ (closeReq => closeReq') /\ (i = nominated => closeReq')
           /\ timer' \in BOOLEAN
           /\ budget' \in [faults : Nat, starts : Nat] /\ budget'.starts = budget.starts
           /\ pairs' = pairs
<1>1. /\ sock' = FreeSocketContext(sock, i)
      /\ i <= count /\ sock[i].state # "NONE" /\ pairs' = pairs
  BY DEF SendPacketFails, Live
<1>2. cands' \in Seq(Candidate) /\ Len(cands') = Len(cands) /\ DOMAIN cands' = DOMAIN cands
  BY CloseCandidateFacts DEF SendPacketFails, Types
<1>3. raced' \in BOOLEAN /\ (~raced' => ~raced /\ ~(InListener /\ listener.i = i))
  BY Zenon DEF SendPacketFails, Types
<1>4. /\ closeReq' \in BOOLEAN /\ (closeReq => closeReq') /\ (i = nominated => closeReq')
      /\ timer' \in BOOLEAN
  BY Zenon DEF SendPacketFails, Types, Arm
<1>5. budget' \in [faults : Nat, starts : Nat] /\ budget'.starts = budget.starts
  BY FaultFacts DEF SendPacketFails, Types
<1>6. QED
  BY <1>1, <1>2, <1>3, <1>4, <1>5

\* A round of requests fails to send at most one of them, through a context in use.
LEMMA SendingFacts ==
    ASSUME Types, NothingSent \/ \E i \in Slots : SendPacketFails(i)
    PROVE  /\ sock' \in [Slots -> Context]
           /\ \A j \in Slots :
                /\ sock'[j].cand = sock[j].cand /\ sock'[j].peer = sock[j].peer
                /\ \/ sock'[j] = sock[j]
                   \/ /\ j <= count /\ sock[j].state # "NONE" /\ ~sock'[j].open
                      /\ sock'[j].state = IF sock[j].open THEN "NONE" ELSE sock[j].state
                      /\ j = nominated => closeReq'
                      /\ ~raced' => ~(InListener /\ listener.i = j)
           /\ cands' \in Seq(Candidate) /\ Len(cands') = Len(cands) /\ DOMAIN cands' = DOMAIN cands
           /\ pairs' = pairs
           /\ raced' \in BOOLEAN /\ (~raced' => ~raced)
           /\ closeReq' \in BOOLEAN /\ (closeReq => closeReq')
           /\ (closeReq' => closeReq \/ count # 0)
           /\ timer' \in BOOLEAN /\ (timer' => timer \/ count # 0)
           /\ budget' \in [faults : Nat, starts : Nat] /\ budget'.starts = budget.starts
<1>1. CASE NothingSent
  BY <1>1 DEF NothingSent, Types
<1>2. ASSUME NEW i \in Slots, SendPacketFails(i)
      PROVE  /\ sock' \in [Slots -> Context]
             /\ \A j \in Slots :
                  /\ sock'[j].cand = sock[j].cand /\ sock'[j].peer = sock[j].peer
                  /\ \/ sock'[j] = sock[j]
                     \/ /\ j <= count /\ sock[j].state # "NONE" /\ ~sock'[j].open
                        /\ sock'[j].state = IF sock[j].open THEN "NONE" ELSE sock[j].state
                        /\ j = nominated => closeReq'
                        /\ ~raced' => ~(InListener /\ listener.i = j)
             /\ count # 0
  <2>1. /\ sock' = FreeSocketContext(sock, i) /\ i <= count /\ sock[i].state # "NONE"
        /\ (~raced' => ~raced /\ ~(InListener /\ listener.i = i)) /\ (i = nominated => closeReq')
    BY <1>2, SendFailsFacts
  <2>2. sock \in [Slots -> Context]
    BY DEF Types
  <2>3. count # 0
    BY <2>1 DEF Types, Slots
  <2>4. QED
    BY <2>1, <2>2, <2>3, FreeFacts
<1>3. QED
  BY <1>1, <1>2, SendFailsFacts

------------------------------------------------------------------------------
(* What the invariant of the first life needs of a step that gives no context *)
(* a candidate or a peer.                                                     *)

CandidatesKept ==
    \A i \in Slots :
        /\ sock'[i].cand = sock[i].cand /\ sock'[i].peer = sock[i].peer
        /\ sock'[i].state = sock[i].state \/ sock'[i].state = "NONE"

\* Contexts not used yet stay so, and candidates stay within those that were made.
LEMMA FreshKept ==
    ASSUME Types, Types', Fresh, CandidatesKept, count' = count, Len(cands) <= Len(cands')
    PROVE  Fresh'
<1>1. ASSUME NEW i \in Slots
      PROVE  /\ i > count' => sock'[i].cand = 0 /\ sock'[i].state = "NONE"
             /\ sock'[i].cand <= Len(cands') /\ (sock'[i].state = "PROGRESS" => sock'[i].cand = 0)
  <2>1. sock[i].cand \in Nat /\ Len(cands) \in Nat /\ Len(cands') \in Nat
    BY <1>1 DEF Types, Context
  <2>2. QED
    BY <1>1, <2>1 DEF CandidatesKept, Fresh
<1>2. QED
  BY <1>1 DEF Fresh

\* Nobody gets the candidate that one task has just made.
LEMMA ReservedKept ==
    ASSUME Reserved, CandidatesKept, Len(cands') = Len(cands), cands = <<>> <=> cands' = <<>>,
           SessionReserves' => SessionReserves,
           listener'.at = "tlsUpdate" => listener.at = "tlsUpdate", doubled => doubled'
    PROVE  Reserved'
<1>1. Newest => Newest'
  BY DEF Newest, CandidatesKept
<1>2. (\A i, j \in Slots : i # j /\ sock[i].cand # 0 => sock[i].cand # sock[j].cand)
        => \A i, j \in Slots : i # j /\ sock'[i].cand # 0 => sock'[i].cand # sock'[j].cand
  BY DEF CandidatesKept
<1>3. QED
  BY <1>1, <1>2 DEF Reserved

\* The pair of the nominated context stays known.
LEMMA PairKept ==
    ASSUME Types, ReadyHasPair, CandidatesKept, nominated' = nominated,
           iceState' = iceState \/ iceState' # "READY", pairs \subseteq pairs'
    PROVE  ReadyHasPair'
<1>1. nominated # 0 => nominated \in Slots
  BY BoundsAssumption DEF Types, Slots
<1>2. QED
  BY <1>1 DEF ReadyHasPair, CandidatesKept

\* A task that goes on with its context, or leaves it, does not come near the other's.
LEMMA ApartKept ==
    ASSUME Types, Apart, CandidatesKept, nominated' = nominated, count' = count,
           listener'.at \in {listener.at, "idle"}, listener'.i = listener.i,
           \/ session'.at = session.at /\ session'.i = session.i
           \/ session'.at \notin {"add", "update", "tls", "tlsDone"},
           cands' = <<>> => cands = <<>>, Places
    PROVE  Apart'
<1>1. nominated # 0 => nominated \in Slots
  BY BoundsAssumption DEF Types, Slots
<1>2. /\ nominated' <= count' /\ (nominated' # 0 => sock'[nominated'].cand # 0)
      /\ listener'.at # "idle" => listener'.i <= count'
      /\ listener'.at \in {"ready", "nominate", "deliver"} => sock'[listener'.i].cand # 0
      /\ listener'.at \in {"tls", "tlsAdd", "tlsUpdate"} => nominated' # listener'.i
      /\ listener'.at = "tlsUpdate" => cands' # <<>>
  BY <1>1 DEF Apart, CandidatesKept, Places
<1>3. session.at \in {"add", "update"} => session.i \in Slots
  BY DEF Places
<1>4. session'.at \in {"add", "update"} =>
        /\ nominated' # session'.i /\ sock'[session'.i].cand = 0 /\ sock'[session'.i].state = "NONE"
        /\ listener'.at \notin {"idle", "dispatch", "recv"} => listener'.i # session'.i
  BY <1>3 DEF Apart, CandidatesKept
<1>5. session'.at \in {"tls", "tlsDone"} =>
        /\ nominated' # session'.i
        /\ listener'.at \in {"ready", "nominate", "deliver"} => listener'.i # session'.i
  BY DEF Apart
<1>6. QED
  BY <1>2, <1>4, <1>5 DEF Apart

\* The loss of the nominated context stays noticed.
LEMMA LossKept ==
    ASSUME Types, LossInv, CandidatesKept, nominated' = nominated, iceState' = iceState,
           closeReq => closeReq', deaf => deaf', reopened => reopened',
           nominated # 0 /\ sock[nominated].state # "NONE" /\ sock'[nominated].state = "NONE"
             => closeReq' \/ deaf',
           session'.at = "destroy" => session.at = "destroy"
    PROVE  LossInv'
  BY DEF LossInv, LossNoticed

------------------------------------------------------------------------------
(* Every action preserves the invariants. *)

\* A remote candidate only adds pairs.
LEMMA AddRemoteCandidateInv ==
    ASSUME IInv, IceController_AddRemoteCandidate
    PROVE  IInv' /\ (OneLife /\ LifeInv => LifeInv')
<1>1. Types /\ Places /\ OpenInv /\ ClosedInv /\ GhostInv
  BY DEF IInv
<1>2. remotes' \subseteq Remotes /\ pairs' \subseteq (DOMAIN cands') \X remotes'
  BY <1>1 DEF IceController_AddRemoteCandidate, Types
<1>3. Types'
  BY <1>1, <1>2 DEF IceController_AddRemoteCandidate, sockVars, iceVars, requestVars, envVars, Types
<1>4. Places'
  BY <1>1, <1>2, <1>3 DEF IceController_AddRemoteCandidate, Places
<1>5. OpenInv'
  BY <1>1, <1>2, <1>3 DEF IceController_AddRemoteCandidate, sockVars, OpenInv
<1>6. ClosedInv'
  BY <1>1, <1>2, <1>3 DEF IceController_AddRemoteCandidate, sockVars, requestVars, ClosedInv
<1>7. GhostInv'
  BY <1>1, <1>2, <1>3
     DEF IceController_AddRemoteCandidate, sockVars, envVars, GhostInv, SessionHand, ListenerHand
<1>8. ASSUME OneLife, LifeInv
      PROVE  LifeInv'
  <2>1. FirstStart /\ Fresh /\ Apart /\ LossInv /\ Reserved /\ ReadyHasPair
    BY <1>8 DEF LifeInv
  <2>2. UNCHANGED <<iceState, sock, count, nominated, polling, addLocal, timer,
                      request, closeReq, cands, lock, session, listener,
                      expired, raced, doubled, deaf, reopened, budget>>
    BY DEF IceController_AddRemoteCandidate, sockVars, iceVars, requestVars, envVars
  <2>3. pairs \subseteq pairs' /\ iceState # "NEW"
    BY DEF IceController_AddRemoteCandidate
  <2>4. CandidatesKept
    BY <2>2 DEF CandidatesKept
  <2>5. FirstStart'
    BY <1>1, <1>3, <2>1, <2>2, <2>3, <2>4 DEF FirstStart
  <2>6. Fresh'
    BY <1>1, <1>3, <2>1, <2>2, <2>3, <2>4, FreshKept
  <2>7. Apart'
    BY <1>1, <1>3, <2>1, <2>2, <2>3, <2>4 DEF Apart
  <2>8. LossInv'
    BY <1>1, <1>3, <2>1, <2>2, <2>3, <2>4 DEF LossInv, LossNoticed
  <2>9. Reserved'
    BY <1>1, <1>3, <2>1, <2>2, <2>3, <2>4, ReservedKept DEF SessionReserves
  <2>10. ReadyHasPair'
    BY <1>1, <1>3, <2>1, <2>2, <2>3, <2>4, PairKept
  <2>11. QED
    BY <2>5, <2>6, <2>7, <2>8, <2>9, <2>10 DEF LifeInv
<1>9. QED
  BY <1>3, <1>4, <1>5, <1>6, <1>7, <1>8 DEF IInv

\* The request posted is that of the state: none asks to connect in a controller that is CLOSED.
LEMMA TimerExpiresInv ==
    ASSUME IInv, TimerExpires
    PROVE  IInv' /\ (OneLife /\ LifeInv => LifeInv')
<1>1. Types /\ Places /\ OpenInv /\ ClosedInv /\ GhostInv
  BY DEF IInv
<1>2. timer' \in BOOLEAN
  BY <1>1, Zenon DEF TimerExpires
<1>3. Types'
  BY <1>1, <1>2 DEF TimerExpires, sockVars, iceVars, requestVars, envVars, Types
<1>4. Places'
  BY <1>1, <1>2, <1>3 DEF TimerExpires, sockVars, Places
<1>5. OpenInv'
  BY <1>1, <1>2, <1>3 DEF TimerExpires, sockVars, OpenInv
<1>6. ClosedInv'
  BY <1>1, <1>2, <1>3 DEF TimerExpires, sockVars, ClosedInv
<1>7. GhostInv'
  BY <1>1, <1>2, <1>3 DEF TimerExpires, sockVars, envVars, GhostInv, SessionHand, ListenerHand
<1>8. ASSUME OneLife, LifeInv
      PROVE  LifeInv'
  <2>1. FirstStart /\ Fresh /\ Apart /\ LossInv /\ Reserved /\ ReadyHasPair
    BY <1>8 DEF LifeInv
  <2>2. UNCHANGED <<iceState, sock, count, nominated, polling, addLocal, closeReq,
                      cands, remotes, pairs, lock, session, listener, expired,
                      raced, doubled, deaf, reopened, budget>>
    BY DEF TimerExpires, sockVars, iceVars, requestVars, envVars
  <2>3. timer
    BY DEF TimerExpires
  <2>4. CandidatesKept
    BY <2>2 DEF CandidatesKept
  <2>5. FirstStart'
    BY <1>1, <1>3, <2>1, <2>2, <2>3, <2>4 DEF FirstStart
  <2>6. Fresh'
    BY <1>1, <1>3, <2>1, <2>2, <2>3, <2>4, FreshKept
  <2>7. Apart'
    BY <1>1, <1>3, <2>1, <2>2, <2>3, <2>4 DEF Apart
  <2>8. LossInv'
    BY <1>1, <1>3, <2>1, <2>2, <2>3, <2>4 DEF LossInv, LossNoticed
  <2>9. Reserved'
    BY <1>1, <1>3, <2>1, <2>2, <2>3, <2>4, ReservedKept DEF SessionReserves
  <2>10. ReadyHasPair'
    BY <1>1, <1>3, <2>1, <2>2, <2>3, <2>4, PairKept
  <2>11. QED
    BY <2>5, <2>6, <2>7, <2>8, <2>9, <2>10 DEF LifeInv
<1>9. QED
  BY <1>3, <1>4, <1>5, <1>6, <1>7, <1>8 DEF IInv

\* The deadline is a fact about time, no context changes.
LEMMA DeadlinePassesInv ==
    ASSUME IInv, DeadlinePasses
    PROVE  IInv' /\ (OneLife /\ LifeInv => LifeInv')
<1>1. Types /\ Places /\ OpenInv /\ ClosedInv /\ GhostInv
  BY DEF IInv
<1>2. expired' \in BOOLEAN
  BY <1>1, Zenon DEF DeadlinePasses
<1>3. Types'
  BY <1>1, <1>2 DEF DeadlinePasses, sockVars, iceVars, requestVars, envVars, Types
<1>4. Places'
  BY <1>1, <1>2, <1>3 DEF DeadlinePasses, sockVars, Places
<1>5. OpenInv'
  BY <1>1, <1>2, <1>3 DEF DeadlinePasses, sockVars, OpenInv
<1>6. ClosedInv'
  BY <1>1, <1>2, <1>3 DEF DeadlinePasses, sockVars, requestVars, ClosedInv
<1>7. GhostInv'
  BY <1>1, <1>2, <1>3 DEF DeadlinePasses, sockVars, GhostInv, SessionHand, ListenerHand
<1>8. ASSUME OneLife, LifeInv
      PROVE  LifeInv'
  <2>1. FirstStart /\ Fresh /\ Apart /\ LossInv /\ Reserved /\ ReadyHasPair
    BY <1>8 DEF LifeInv
  <2>2. UNCHANGED <<iceState, sock, count, nominated, polling, addLocal, timer,
                      request, closeReq, cands, remotes, pairs, lock, session,
                      listener, raced, doubled, deaf, reopened, budget>>
    BY DEF DeadlinePasses, sockVars, iceVars, requestVars, envVars
  <2>3. CandidatesKept
    BY <2>2 DEF CandidatesKept
  <2>4. FirstStart'
    BY <1>1, <1>3, <2>1, <2>2, <2>3 DEF FirstStart
  <2>5. Fresh'
    BY <1>1, <1>3, <2>1, <2>2, <2>3, FreshKept
  <2>6. Apart'
    BY <1>1, <1>3, <2>1, <2>2, <2>3 DEF Apart
  <2>7. LossInv'
    BY <1>1, <1>3, <2>1, <2>2, <2>3 DEF LossInv, LossNoticed
  <2>8. Reserved'
    BY <1>1, <1>3, <2>1, <2>2, <2>3, ReservedKept DEF SessionReserves
  <2>9. ReadyHasPair'
    BY <1>1, <1>3, <2>1, <2>2, <2>3, PairKept
  <2>10. QED
    BY <2>4, <2>5, <2>6, <2>7, <2>8, <2>9 DEF LifeInv
<1>9. QED
  BY <1>3, <1>4, <1>5, <1>6, <1>7, <1>8 DEF IInv

\* A round of requests begins: gathering first, while nothing is open yet.
LEMMA ProcessIceCandidatesAndPairsInv ==
    ASSUME IInv, ProcessIceCandidatesAndPairs
    PROVE  IInv' /\ (OneLife /\ LifeInv => LifeInv')
<1>1. Types /\ Places /\ OpenInv /\ ClosedInv /\ GhostInv
  BY DEF IInv
<1>2. session'.at = "gather" /\ (session'.jobs # {} => addLocal) /\ session'.tls = session.tls
  BY <1>1 DEF ProcessIceCandidatesAndPairs, Types
<1>3. session' \in [at : SessionSteps, i : 0..(MaxContexts + 1), jobs : SUBSET Job,
                       kind : Kinds \cup {"none"}, tls : Results, late : BOOLEAN]
  BY <1>1, <1>2 DEF ProcessIceCandidatesAndPairs, GatherJobs, Types
<1>4. addLocal' \in BOOLEAN /\ ~addLocal'
  BY <1>1, <1>2, <1>3, Zenon DEF ProcessIceCandidatesAndPairs
<1>5. Types'
  BY <1>1, <1>2, <1>3, <1>4
     DEF ProcessIceCandidatesAndPairs, sockVars, iceVars, requestVars, envVars, Types
<1>6. Places'
  BY <1>1, <1>2, <1>3, <1>4, <1>5 DEF ProcessIceCandidatesAndPairs, Places
<1>7. OpenInv'
  BY <1>1, <1>2, <1>3, <1>4, <1>5 DEF ProcessIceCandidatesAndPairs, sockVars, OpenInv
<1>8. ClosedInv'
  BY <1>1, <1>2, <1>3, <1>4, <1>5 DEF ProcessIceCandidatesAndPairs, sockVars, ClosedInv
<1>9. GhostInv'
  BY <1>1, <1>2, <1>3, <1>4, <1>5
     DEF ProcessIceCandidatesAndPairs, sockVars, envVars, GhostInv, SessionHand, ListenerHand
<1>10. ASSUME OneLife, LifeInv
      PROVE  LifeInv'
  <2>1. FirstStart /\ Fresh /\ Apart /\ LossInv /\ Reserved /\ ReadyHasPair
    BY <1>10 DEF LifeInv
  <2>2. UNCHANGED <<iceState, sock, count, nominated, polling, timer, closeReq, cands,
                      remotes, pairs, lock, listener, expired, raced, doubled,
                      deaf, reopened, budget>>
    BY DEF ProcessIceCandidatesAndPairs, sockVars, iceVars, requestVars, envVars
  <2>3. session.at = "idle" /\ request = "PROCESS" /\ session'.at = "gather"
        /\ session'.tls = session.tls
    BY <1>1 DEF ProcessIceCandidatesAndPairs, Types
  <2>4. CandidatesKept
    BY <2>2 DEF CandidatesKept
  <2>5. FirstStart'
    BY <1>1, <1>5, <2>1, <2>2, <2>3, <2>4 DEF FirstStart
  <2>6. Fresh'
    BY <1>1, <1>5, <2>1, <2>2, <2>3, <2>4, FreshKept
  <2>7. Apart'
    BY <1>1, <1>5, <2>1, <2>2, <2>3, <2>4 DEF Apart
  <2>8. LossInv'
    BY <1>1, <1>5, <2>1, <2>2, <2>3, <2>4 DEF LossInv, LossNoticed
  <2>9. Reserved'
    BY <1>1, <1>5, <2>1, <2>2, <2>3, <2>4, ReservedKept DEF SessionReserves
  <2>10. ReadyHasPair'
    BY <1>1, <1>5, <2>1, <2>2, <2>3, <2>4, PairKept
  <2>11. QED
    BY <2>5, <2>6, <2>7, <2>8, <2>9, <2>10 DEF LifeInv
<1>11. QED
  BY <1>5, <1>6, <1>7, <1>8, <1>9, <1>10 DEF IInv

\* A candidate that is not gathered leaves the contexts as they were.
LEMMA GatherFailsInv ==
    ASSUME IInv, GatherFails
    PROVE  IInv' /\ (OneLife /\ LifeInv => LifeInv')
<1>1. Types /\ Places /\ OpenInv /\ ClosedInv /\ GhostInv
  BY DEF IInv
<1>2. session'.at = "gather" /\ session'.tls = session.tls /\ session'.jobs \in SUBSET Job
      /\ session.at = "gather" /\ session.jobs # {}
  BY <1>1 DEF GatherFails, Types, Skip, IsNext
<1>3. session' \in [at : SessionSteps, i : 0..(MaxContexts + 1), jobs : SUBSET Job,
        kind : Kinds \cup {"none"}, tls : Results, late : BOOLEAN]
  BY <1>1, <1>2 DEF GatherFails, Types, Skip
<1>4. budget' \in [faults : Nat, starts : Nat]
  BY <1>1, <1>2, <1>3, FaultFacts DEF GatherFails, Types
<1>5. Types'
  BY <1>1, <1>2, <1>3, <1>4 DEF GatherFails, sockVars, iceVars, requestVars, envVars, Types
<1>6. Places'
  BY <1>1, <1>2, <1>3, <1>4, <1>5 DEF GatherFails, Places
<1>7. OpenInv'
  BY <1>1, <1>2, <1>3, <1>4, <1>5 DEF GatherFails, sockVars, OpenInv
<1>8. ClosedInv'
  BY <1>1, <1>2, <1>3, <1>4, <1>5 DEF GatherFails, ClosedInv
<1>9. GhostInv'
  BY <1>1, <1>2, <1>3, <1>4, <1>5 DEF GatherFails, sockVars, GhostInv, SessionHand, ListenerHand
<1>10. ASSUME OneLife, LifeInv
      PROVE  LifeInv'
  <2>1. FirstStart /\ Fresh /\ Apart /\ LossInv /\ Reserved /\ ReadyHasPair
    BY <1>10 DEF LifeInv
  <2>2. UNCHANGED <<iceState, sock, count, nominated, polling, addLocal, timer,
                      request, closeReq, cands, remotes, pairs, lock, listener,
                      expired, raced, doubled, deaf, reopened>>
    BY DEF GatherFails, sockVars, iceVars, requestVars, envVars
  <2>3. budget'.starts = budget.starts
    BY <1>1, FaultFacts DEF GatherFails, Types
  <2>4. CandidatesKept
    BY <2>2 DEF CandidatesKept
  <2>5. FirstStart'
    BY <1>1, <1>2, <1>5, <2>1, <2>2, <2>3, <2>4 DEF FirstStart
  <2>6. Fresh'
    BY <1>1, <1>2, <1>5, <2>1, <2>2, <2>3, <2>4, FreshKept
  <2>7. Apart'
    BY <1>1, <1>2, <1>5, <2>1, <2>2, <2>3, <2>4 DEF Apart
  <2>8. LossInv'
    BY <1>1, <1>2, <1>5, <2>1, <2>2, <2>3, <2>4 DEF LossInv, LossNoticed
  <2>9. Reserved'
    BY <1>1, <1>2, <1>5, <2>1, <2>2, <2>3, <2>4, ReservedKept DEF SessionReserves
  <2>10. ReadyHasPair'
    BY <1>1, <1>2, <1>5, <2>1, <2>2, <2>3, <2>4, PairKept
  <2>11. QED
    BY <2>5, <2>6, <2>7, <2>8, <2>9, <2>10 DEF LifeInv
<1>11. QED
  BY <1>5, <1>6, <1>7, <1>8, <1>9, <1>10 DEF IInv

\* A context counted without a socket is closed and unused.
LEMMA GatherNoSocketInv ==
    ASSUME IInv, GatherNoSocket
    PROVE  IInv' /\ (OneLife /\ LifeInv => LifeInv')
<1>1. Types /\ Places /\ OpenInv /\ ClosedInv /\ GhostInv
  BY DEF IInv
<1>2. UNCHANGED <<iceState, nominated, polling, addLocal, timer, request, closeReq,
                      cands, remotes, pairs, lock, listener, expired, raced,
                      doubled, deaf, reopened>>
  BY DEF GatherNoSocket, sockVars, iceVars, requestVars, envVars
<1>3. session.at = "gather" /\ session.jobs # {} /\ session'.at = "gather"
      /\ session'.tls = session.tls /\ session'.i = session.i
  BY <1>1, <1>2 DEF GatherNoSocket, Skip, IsNext
<1>4. session' \in [at : SessionSteps, i : 0..(MaxContexts + 1), jobs : SUBSET Job,
                       kind : Kinds \cup {"none"}, tls : Results, late : BOOLEAN]
  BY <1>1, <1>2, <1>3 DEF GatherNoSocket, Types, Skip
<1>5. count' = count + 1 /\ count' \in Slots /\ count' \in 0..MaxContexts
  BY <1>1, <1>2, <1>3, <1>4, BoundsAssumption DEF GatherNoSocket, Types, Slots
<1>6. sock[count + 1] \in Context /\ ~sock[count + 1].open
  BY <1>1, <1>5 DEF OpenInv, Types
<1>7. [sock[count + 1] EXCEPT !.open = FALSE] = sock[count + 1]
  BY <1>6, Zenon DEF Context
<1>8. sock' = sock
  BY <1>1, <1>5, <1>7 DEF GatherNoSocket, Types
<1>9. budget' \in [faults : Nat, starts : Nat] /\ budget'.starts = budget.starts
  BY <1>1, <1>2, <1>3, <1>4, <1>5, <1>6, <1>7, <1>8, FaultFacts DEF GatherNoSocket, Types
<1>10. Types'
  BY <1>1, <1>2, <1>3, <1>4, <1>5, <1>6, <1>7, <1>8, <1>9 DEF Types
<1>11. Places'
  BY <1>1, <1>2, <1>3, <1>4, <1>5, <1>6, <1>7, <1>8, <1>9, <1>10 DEF Places
<1>12. OpenInv'
  BY <1>1, <1>2, <1>3, <1>4, <1>5, <1>6, <1>7, <1>8, <1>9, <1>10 DEF Slots, Types, OpenInv
<1>13. ClosedInv'
  BY <1>1, <1>2, <1>3, <1>4, <1>5, <1>6, <1>7, <1>8, <1>9, <1>10 DEF ClosedInv
<1>14. GhostInv'
  BY <1>1, <1>2, <1>3, <1>4, <1>5, <1>6, <1>7, <1>8, <1>9, <1>10
     DEF Types, GhostInv, SessionHand, ListenerHand
<1>15. ASSUME OneLife, LifeInv
      PROVE  LifeInv'
  <2>1. FirstStart /\ Fresh /\ Apart /\ LossInv /\ Reserved /\ ReadyHasPair
    BY <1>15 DEF LifeInv
  <2>2. FirstStart'
    BY <1>1, <1>2, <1>3, <1>4, <1>5, <1>6, <1>7, <1>8, <1>9, <1>10, <2>1 DEF FirstStart
  <2>3. Fresh'
    BY <1>1, <1>2, <1>3, <1>4, <1>5, <1>6, <1>7, <1>8, <1>9, <1>10, <2>1 DEF Types, Slots, Fresh
  <2>4. Apart'
    BY <1>1, <1>2, <1>3, <1>4, <1>5, <1>6, <1>7, <1>8, <1>9, <1>10, <2>1 DEF Types, Apart
  <2>5. LossInv'
    BY <1>1, <1>2, <1>3, <1>4, <1>5, <1>6, <1>7, <1>8, <1>9, <1>10, <2>1 DEF LossInv, LossNoticed
  <2>6. Reserved'
    BY <1>1, <1>2, <1>3, <1>4, <1>5, <1>6, <1>7, <1>8, <1>9, <1>10, <2>1
       DEF Reserved, Newest, SessionReserves
  <2>7. ReadyHasPair'
    BY <1>1, <1>2, <1>3, <1>4, <1>5, <1>6, <1>7, <1>8, <1>9, <1>10, <2>1 DEF ReadyHasPair
  <2>8. QED
    BY <2>2, <2>3, <2>4, <2>5, <2>6, <2>7 DEF LifeInv
<1>16. QED
  BY <1>10, <1>11, <1>12, <1>13, <1>14, <1>15 DEF IInv

\* The new context is the last, and nobody else knows it.
LEMMA CreateSocketContextInv ==
    ASSUME IInv, CreateSocketContext
    PROVE  IInv' /\ (OneLife /\ LifeInv => LifeInv')
<1>1. Types /\ Places /\ OpenInv /\ ClosedInv /\ GhostInv
  BY DEF IInv
<1>2. PICK job \in session.jobs :
          /\ IsNext(job)
          /\ sock' = [sock EXCEPT ![count + 1].open = TRUE, ![count + 1].tls = OverTls(job)]
          /\ session' = [session EXCEPT !.i = count + 1, !.jobs = @ \ {job}, !.kind = job.kind,
                                       !.at = IF OverTls(job) THEN "update" ELSE "add",
                                       !.tls = IF OverTls(job) THEN "IN_PROGRESS" ELSE "SUCCESS"]
  BY DEF CreateSocketContext
<1>3. count' = count + 1 /\ count' \in Slots /\ count' \in 0..MaxContexts
  BY <1>1, <1>2, BoundsAssumption DEF CreateSocketContext, Types, Slots
<1>4. job \in Job /\ job.kind \in Kinds /\ session.at = "gather" /\ session.jobs # {}
  BY <1>1, <1>2 DEF Types, Job, IsNext
<1>5. /\ session'.at \in {"add", "update"} /\ session'.i = count + 1
      /\ session'.kind \in Kinds /\ session'.jobs \in SUBSET Job
  BY <1>1, <1>2, <1>4 DEF Types
<1>6. count + 1 \in 0..(MaxContexts + 1)
  BY <1>3, BoundsAssumption DEF Slots
<1>7. session' \in [at : SessionSteps, i : 0..(MaxContexts + 1), jobs : SUBSET Job,
                       kind : Kinds \cup {"none"}, tls : Results, late : BOOLEAN]
  BY <1>1, <1>2, <1>4, <1>5, <1>6 DEF Types
<1>8. sock[count + 1] \in Context /\ OverTls(job) \in BOOLEAN
  BY <1>1, <1>3, Zenon DEF Types, OverTls
<1>9. [sock[count + 1] EXCEPT !.open = TRUE, !.tls = OverTls(job)] \in Context
  BY <1>8, Zenon DEF Context
<1>10. /\ [sock[count + 1] EXCEPT !.open = TRUE, !.tls = OverTls(job)].open
      /\ [sock[count + 1] EXCEPT !.open = TRUE, !.tls = OverTls(job)].state = sock[count + 1].state
  BY <1>8, Zenon DEF Context
<1>11. sock' = [sock EXCEPT ![count + 1] = [sock[count + 1] EXCEPT !.open = TRUE,
         !.tls = OverTls(job)]]
  BY <1>1, <1>2, <1>3
<1>12. /\ sock' \in [Slots -> Context] /\ sock'[count + 1].open
       /\ sock'[count + 1].state = sock[count + 1].state
      /\ \A j \in Slots : j # count + 1 => sock'[j] = sock[j]
  BY <1>1, <1>3, <1>9, <1>10, <1>11 DEF Types
<1>13. UNCHANGED <<iceState, nominated, polling, addLocal, timer, request, closeReq,
                      cands, remotes, pairs, lock, listener, expired, raced,
                      doubled, deaf, reopened, budget>>
  BY DEF CreateSocketContext, sockVars, iceVars, requestVars, envVars
<1>14. Types'
  BY <1>1, <1>2, <1>3, <1>4, <1>5, <1>6, <1>7, <1>8, <1>9, <1>10, <1>11, <1>12, <1>13 DEF Types
<1>15. Places'
  BY <1>1, <1>2, <1>3, <1>4, <1>5, <1>6, <1>7, <1>8, <1>9, <1>10, <1>11, <1>12, <1>13, <1>14
     DEF Places
<1>16. OpenInv'
  BY <1>1, <1>2, <1>3, <1>4, <1>5, <1>6, <1>7, <1>8, <1>9, <1>10, <1>11, <1>12, <1>13, <1>14
     DEF Slots, Types, OpenInv
<1>17. ClosedInv'
  BY <1>1, <1>2, <1>3, <1>4, <1>5, <1>6, <1>7, <1>8, <1>9, <1>10, <1>11, <1>12, <1>13, <1>14
     DEF ClosedInv
<1>18. GhostInv'
  BY <1>1, <1>2, <1>3, <1>4, <1>5, <1>6, <1>7, <1>8, <1>9, <1>10, <1>11, <1>12, <1>13, <1>14
     DEF Types, Places, OpenInv, ClosedInv, SessionHand, ListenerHand, GhostInv
<1>19. ASSUME OneLife, LifeInv
      PROVE  LifeInv'
  <2>1. FirstStart /\ Fresh /\ Apart /\ LossInv /\ Reserved /\ ReadyHasPair
    BY <1>19 DEF LifeInv
  <2>2. FirstStart'
    BY <1>1, <1>2, <1>3, <1>4, <1>5, <1>6, <1>7, <1>8, <1>9, <1>10, <1>11, <1>12, <1>13, <1>14, <2>1
       DEF FirstStart
  <2>3. Fresh'
    BY <1>1, <1>2, <1>3, <1>4, <1>5, <1>6, <1>7, <1>8, <1>9, <1>10, <1>11, <1>12, <1>13, <1>14, <2>1
       DEF Types, Slots, Fresh, FirstStart
  <2>4. Apart'
    BY <1>1, <1>2, <1>3, <1>4, <1>5, <1>6, <1>7, <1>8, <1>9, <1>10, <1>11, <1>12, <1>13, <1>14, <2>1
       DEF Types, Slots, Places, Fresh, Apart
  <2>5. LossInv'
    BY <1>1, <1>2, <1>3, <1>4, <1>5, <1>6, <1>7, <1>8, <1>9, <1>10, <1>11, <1>12, <1>13, <1>14, <2>1
       DEF Types, Slots, LossInv, LossNoticed
  <2>6. Reserved'
    BY <1>1, <1>2, <1>3, <1>4, <1>5, <1>6, <1>7, <1>8, <1>9, <1>10, <1>11, <1>12, <1>13, <1>14, <2>1
       DEF Reserved, Newest, SessionReserves
  <2>7. ReadyHasPair'
    <3>1. iceState = "READY" => nominated \in Slots /\ nominated # count + 1
          /\ sock'[nominated] = sock[nominated]
      BY <1>1, <1>2, <1>3, <1>4, <1>5, <1>6, <1>7, <1>8, <1>9, <1>10, <1>11, <1>12, <1>13, <1>14,
         <2>1 DEF ReadyHasPair, Apart, Types, Slots
    <3>2. QED
      BY <1>12, <1>13, <1>14, <2>1, <3>1 DEF ReadyHasPair
  <2>8. QED
    BY <2>2, <2>3, <2>4, <2>5, <2>6, <2>7 DEF LifeInv
<1>20. QED
  BY <1>14, <1>15, <1>16, <1>17, <1>18, <1>19 DEF IInv

\* The candidate just made is the newest, and reserved for the context in hand.
LEMMA AddCandidateInv ==
    ASSUME IInv, AddCandidate
    PROVE  IInv' /\ (OneLife /\ LifeInv => LifeInv')
<1>1. Types /\ Places /\ OpenInv /\ ClosedInv /\ GhostInv
  BY DEF IInv
<1>2. /\ session.at = "add" /\ session.i \in Slots /\ session.i = count /\ session.kind \in Kinds
      /\ UNCHANGED <<iceState, count, nominated, polling, addLocal, timer, request, closeReq,
                      remotes, lock, listener, expired, deaf, reopened>>
  BY <1>1 DEF AddCandidate, Places, requestVars
<1>3. doubled' \in BOOLEAN
  BY <1>1, Zenon DEF AddCandidate
<1>4. CASE /\ ~LibraryFull /\ Ice_AddCandidate(session.kind) /\ NoFault
           /\ session' = [session EXCEPT !.at = "update"]
           /\ UNCHANGED <<sock, raced>>
  <2>1. /\ cands' \in Seq(Candidate) /\ Len(cands') = Len(cands) + 1 /\ Len(cands') <= MaxContexts
        /\ pairs' \subseteq (DOMAIN cands') \X remotes
    BY <1>1, <1>2, <1>4, AddFacts, BoundsAssumption DEF Types, LibraryFull
  <2>0. session' \in [at : SessionSteps, i : 0..(MaxContexts + 1), jobs : SUBSET Job,
                       kind : Kinds \cup {"none"}, tls : Results, late : BOOLEAN]
    BY <1>1, <1>4 DEF Types
  <2>2. Types'
    <3>1. UNCHANGED <<sock, raced, budget>>
      BY <1>4 DEF NoFault
    <3>2. QED
      BY <1>1, <1>2, <1>3, <2>0, <2>1, <3>1 DEF Types
  <2>3. Places'
    BY <1>1, <1>2, <1>4, <2>2 DEF Places
  <2>4. OpenInv'
    BY <1>1, <1>2, <1>4, <2>2 DEF OpenInv
  <2>5. ClosedInv'
    BY <1>1, <1>2, <1>4, <2>2 DEF ClosedInv
  <2>6. GhostInv'
    BY <1>1, <1>2, <1>4, <2>2 DEF GhostInv, SessionHand, ListenerHand
  <2>7. ASSUME OneLife, LifeInv
        PROVE  LifeInv'
    <3>1. FirstStart /\ Fresh /\ Apart /\ LossInv /\ Reserved /\ ReadyHasPair
      BY <2>7 DEF LifeInv
    <3>2. /\ UNCHANGED <<sock, count, nominated, iceState, listener, budget, closeReq, deaf,
               reopened>>
          /\ session'.at = "update" /\ session'.i = session.i /\ session'.tls = session.tls
      BY <1>1, <1>2, <1>4 DEF NoFault
    <3>3. CandidatesKept
      BY <3>2 DEF CandidatesKept
    <3>4. Len(cands) \in Nat /\ cands' # <<>> /\ pairs \subseteq pairs'
      <4>1. Len(cands) < MaxContexts /\ Len(cands) \in Nat
        BY <1>1, <1>4, BoundsAssumption DEF LibraryFull
      <4>2. pairs \subseteq pairs'
        BY <1>1, <1>2, <1>4, <4>1, AddFacts DEF Types
      <4>3. QED
        BY <2>1, <4>1, <4>2
    <3>5. ~doubled' => ~doubled /\ listener.at # "tlsUpdate"
      BY <1>1, Zenon DEF AddCandidate
    <3>6. FirstStart'
      BY <1>2, <3>1, <3>2 DEF FirstStart
    <3>7. Fresh'
      BY <1>1, <1>2, <2>1, <2>2, <3>1, <3>3, <3>4, FreshKept
    <3>8. Apart'
      BY <1>2, <3>1, <3>2, <3>4 DEF Apart
    <3>9. LossInv'
      BY <1>2, <3>1, <3>2 DEF LossInv, LossNoticed
    <3>10. Newest'
      BY <1>1, <2>1, <3>1, <3>2, <3>4 DEF Newest, Fresh, Context
    <3>11. Reserved'
      BY <3>1, <3>2, <3>4, <3>5, <3>10 DEF Reserved
    <3>12. ReadyHasPair'
      BY <1>1, <1>2, <3>1, <3>3, <3>4, PairKept
    <3>13. QED
      BY <3>6, <3>7, <3>8, <3>9, <3>11, <3>12 DEF LifeInv
  <2>8. QED
    BY <2>2, <2>3, <2>4, <2>5, <2>6, <2>7 DEF IInv
<1>5. CASE /\ (IF LibraryFull THEN NoFault ELSE Fault)
           /\ sock' = FreeSocketContext(sock, session.i)
           /\ session' = [session EXCEPT !.at = "gather", !.kind = "none",
                                         !.jobs = {job \in @ : job.kind # session.kind}]
           /\ raced' = (raced \/ (InListener /\ listener.i = session.i))
           /\ UNCHANGED <<cands, pairs>>
  <2>0. UNCHANGED <<cands, pairs>>
    BY <1>5
  <2>1. raced' \in BOOLEAN /\ (~raced' => ~raced /\ ~(InListener /\ listener.i = session.i))
    BY <1>1, <1>5, Zenon
  <2>2. /\ sock' \in [Slots -> Context] /\ ~sock'[session.i].open
        /\ sock'[session.i].state = IF sock[session.i].open THEN "NONE" ELSE sock[session.i].state
        /\ \A j \in Slots : j # session.i => sock'[j] = sock[j]
    BY <1>1, <1>2, <1>5, FreeFacts DEF Types
  <2>3. /\ session'.at = "gather" /\ session'.i = session.i /\ session'.tls = session.tls
        /\ session'.jobs \in SUBSET Job /\ (session'.jobs # {} => session.jobs # {})
    BY <1>1, <1>5 DEF Types
  <2>4. session' \in [at : SessionSteps, i : 0..(MaxContexts + 1), jobs : SUBSET Job,
                       kind : Kinds \cup {"none"}, tls : Results, late : BOOLEAN]
    BY <1>1, <1>5 DEF Types
  <2>5. budget' \in [faults : Nat, starts : Nat]
    BY <1>1, <1>5, FaultFacts DEF Types
  <2>6. Types'
    BY <1>1, <1>2, <1>3, <2>0, <2>1, <2>2, <2>4, <2>5 DEF Types
  <2>7. Places'
    BY <1>1, <1>2, <2>3, <2>6 DEF Places
  <2>8. OpenInv'
    BY <1>1, <1>2, <2>2, <2>3 DEF OpenInv
  <2>9. ClosedInv'
    BY <1>1, <1>2, <2>2, <2>3 DEF ClosedInv
  <2>10. GhostInv'
    <3> SUFFICES ASSUME ~raced'
                 PROVE  GhostInv'
      BY DEF GhostInv
    <3>1. ~raced /\ (listener.at # "idle" => listener.i # session.i)
      BY <2>1
    <3>2. sock'[session.i].state = "NONE"
      BY <1>1, <1>2, <2>2, <3>1 DEF GhostInv
    <3>3. QED
      BY <1>1, <1>2, <2>2, <2>3, <3>1, <3>2 DEF Places, GhostInv, SessionHand, ListenerHand
  <2>11. ASSUME OneLife, LifeInv
         PROVE  LifeInv'
    <3>1. FirstStart /\ Fresh /\ Apart /\ LossInv /\ Reserved /\ ReadyHasPair
      BY <2>11 DEF LifeInv
    <3>2. CandidatesKept
      <4>1. sock \in [Slots -> Context]
        BY <1>1 DEF Types
      <4>2. QED
        BY <1>2, <1>5, <4>1, FreeFacts DEF CandidatesKept
    <3>3. budget'.starts = budget.starts /\ nominated # session.i
          /\ (nominated # 0 => nominated \in Slots)
      BY <1>1, <1>2, <1>5, <3>1, FaultFacts DEF Types, Apart, Slots
    <3>4. doubled => doubled'
      BY <1>1, Zenon DEF AddCandidate
    <3>5. FirstStart'
      BY <1>2, <3>1, <3>3 DEF FirstStart
    <3>6. Fresh'
      BY <1>1, <1>2, <2>0, <2>6, <3>1, <3>2, FreshKept
    <3>7. Apart'
      BY <1>1, <1>2, <2>0, <2>3, <3>1, <3>2, ApartKept
    <3>8. LossInv'
      BY <1>2, <2>2, <2>3, <3>1, <3>3 DEF LossInv, LossNoticed
    <3>9. Reserved'
      BY <1>2, <2>0, <2>3, <3>1, <3>2, <3>4, ReservedKept DEF SessionReserves
    <3>10. ReadyHasPair'
      BY <1>1, <1>2, <2>0, <3>1, <3>2, PairKept
    <3>11. QED
      BY <3>5, <3>6, <3>7, <3>8, <3>9, <3>10 DEF LifeInv
  <2>12. QED
    BY <2>6, <2>7, <2>8, <2>9, <2>10, <2>11 DEF IInv
<1>6. QED
  BY <1>4, <1>5 DEF AddCandidate

\* The context gets the newest candidate: another context has it only if both tasks added one.
LEMMA UpdateGatheredInv ==
    ASSUME IInv, UpdateGathered
    PROVE  IInv' /\ (OneLife /\ LifeInv => LifeInv')
<1>1. Types /\ Places /\ OpenInv /\ ClosedInv /\ GhostInv
  BY DEF IInv
<1>2. /\ session.at = "update" /\ session'.at = "gather" /\ session'.tls = session.tls
      /\ session'.jobs = session.jobs /\ session.i \in Slots
  BY <1>1 DEF UpdateGathered, Places
<1>3. session' \in [at : SessionSteps, i : 0..(MaxContexts + 1), jobs : SUBSET Job,
                       kind : Kinds \cup {"none"}, tls : Results, late : BOOLEAN]
  BY <1>1, <1>2 DEF UpdateGathered, Types
<1>4. Len(cands) \in 0..MaxContexts
      /\ {"PROGRESS", "READY", "CREATE"} \subseteq SlotStates \ {"NONE"}
  BY <1>1 DEF Types, SlotStates
<1>5. PICK s \in SlotStates \ {"NONE"}, c \in 0..MaxContexts :
         sock' = UpdateSocketContext(sock, session.i, s, c, NoPeer)
  <2>1. CASE session.tls = "IN_PROGRESS"
    BY <1>4, <2>1, BoundsAssumption DEF UpdateGathered
  <2>2. CASE session.tls # "IN_PROGRESS" /\ session.kind = "host"
    BY <1>4, <2>2 DEF UpdateGathered
  <2>3. CASE session.tls # "IN_PROGRESS" /\ session.kind # "host"
    BY <1>4, <2>3 DEF UpdateGathered
  <2>4. QED
    BY <2>1, <2>2, <2>3
<1>6. /\ sock' \in [Slots -> Context] /\ sock'[session.i].state # "NONE"
      /\ sock'[session.i].open = sock[session.i].open
      /\ \A j \in Slots : j # session.i => sock'[j] = sock[j]
  BY <1>1, <1>2, <1>5, UpdateFacts DEF Types
<1>7. UNCHANGED <<iceState, count, nominated, polling, addLocal, timer, request,
                      closeReq, cands, remotes, pairs, lock, listener, expired,
                      raced, doubled, deaf, reopened, budget>>
  BY DEF UpdateGathered, sockVars, iceVars, requestVars, envVars
<1>8. Types'
  BY <1>1, <1>2, <1>3, <1>4, <1>5, <1>6, <1>7 DEF Types
<1>9. Places'
  BY <1>1, <1>2, <1>3, <1>4, <1>5, <1>6, <1>8, <1>7 DEF Places
<1>10. OpenInv'
  BY <1>1, <1>2, <1>3, <1>4, <1>5, <1>6, <1>8, <1>7 DEF OpenInv
<1>11. ClosedInv'
  BY <1>1, <1>2, <1>3, <1>4, <1>5, <1>6, <1>8, <1>7 DEF ClosedInv
<1>12. GhostInv'
  BY <1>1, <1>2, <1>3, <1>4, <1>5, <1>6, <1>8, <1>7 DEF Places, GhostInv, SessionHand, ListenerHand
<1>13. ASSUME OneLife, LifeInv
      PROVE  LifeInv'
  <2>1. FirstStart /\ Fresh /\ Apart /\ LossInv /\ Reserved /\ ReadyHasPair
    BY <1>13 DEF LifeInv
  <2>2. \/ session.tls = "IN_PROGRESS" /\ sock'[session.i].cand = 0
        \/ /\ session.tls # "IN_PROGRESS" /\ sock'[session.i].cand = Len(cands)
           /\ sock'[session.i].state # "PROGRESS"
    <3>1. sock \in [Slots -> Context] /\ NoPeer \in Remotes \cup {NoPeer} /\ 0 \in 0..MaxContexts
      BY <1>1, BoundsAssumption DEF Types
    <3>2. CASE session.tls = "IN_PROGRESS"
      BY <1>2, <1>4, <3>1, <3>2, UpdateFacts DEF UpdateGathered
    <3>3. CASE session.tls # "IN_PROGRESS" /\ session.kind = "host"
      BY <1>2, <1>4, <3>1, <3>3, UpdateFacts DEF UpdateGathered
    <3>4. CASE session.tls # "IN_PROGRESS" /\ session.kind # "host"
      BY <1>2, <1>4, <3>1, <3>4, UpdateFacts DEF UpdateGathered
    <3>5. QED
      BY <3>2, <3>3, <3>4
  <2>3. session.i = count /\ nominated # session.i /\ (nominated # 0 => nominated \in Slots)
    BY <1>1, <1>2, <2>1 DEF Types, Places, Apart, Slots
  <2>4. FirstStart'
    BY <1>1, <1>2, <1>4, <1>6, <1>8, <1>7, <2>1, <2>2, <2>3 DEF FirstStart
  <2>5. Fresh'
    <3>1. ASSUME NEW j \in Slots
          PROVE  /\ j > count => sock'[j].cand = 0 /\ sock'[j].state = "NONE"
                 /\ sock'[j].cand <= Len(cands)
                 /\ (sock'[j].state = "PROGRESS" => sock'[j].cand = 0)
      <4>1. sock[j].cand \in Nat /\ Len(cands) \in Nat /\ count \in Nat /\ j \in Nat
        BY <1>1, <3>1 DEF Types, Context, Slots
      <4>2. /\ j > count => sock[j].cand = 0 /\ sock[j].state = "NONE"
            /\ sock[j].cand <= Len(cands) /\ (sock[j].state = "PROGRESS" => sock[j].cand = 0)
        BY <2>1, <3>1 DEF Fresh
      <4>3. CASE j = session.i
        BY <1>1, <1>2, <1>4, <1>6, <1>8, <1>7, <2>1, <2>2, <2>3, <4>1, <4>2, <4>3
      <4>4. CASE j # session.i
        BY <1>1, <1>2, <1>4, <1>6, <1>8, <1>7, <2>1, <2>2, <2>3, <4>1, <4>2, <4>4
      <4>5. QED
        BY <4>3, <4>4
    <3>2. QED
      BY <1>1, <1>2, <1>4, <1>6, <1>8, <1>7, <2>1, <2>2, <2>3, <3>1 DEF Fresh
  <2>6. Apart'
    BY <1>1, <1>2, <1>4, <1>6, <1>8, <1>7, <2>1, <2>2, <2>3 DEF Places, Apart
  <2>7. LossInv'
    BY <1>1, <1>2, <1>4, <1>6, <1>8, <1>7, <2>1, <2>2, <2>3 DEF LossInv, LossNoticed
  <2>8. Reserved'
    BY <1>1, <1>2, <1>4, <1>6, <1>8, <1>7, <2>1, <2>2, <2>3
       DEF Slots, Places, Reserved, Newest, SessionReserves, Fresh, Apart, FirstStart
  <2>9. ReadyHasPair'
    BY <1>1, <1>2, <1>4, <1>6, <1>8, <1>7, <2>1, <2>2, <2>3 DEF ReadyHasPair
  <2>10. QED
    BY <2>4, <2>5, <2>6, <2>7, <2>8, <2>9 DEF LifeInv
<1>14. QED
  BY <1>8, <1>9, <1>10, <1>11, <1>12, <1>13 DEF IInv

\* The host candidate is not sent: its context is closed, which nothing has nominated yet.
LEMMA CandidateNotSentInv ==
    ASSUME IInv, CandidateNotSent
    PROVE  IInv' /\ (OneLife /\ LifeInv => LifeInv')
<1>1. Types /\ Places /\ OpenInv /\ ClosedInv /\ GhostInv
  BY DEF IInv
<1>2. /\ session.at = "update" /\ session.i \in Slots /\ session.i = count
      /\ UNCHANGED <<iceState, count, nominated, polling, addLocal, timer, request, closeReq,
                      cands, remotes, pairs, lock, listener, expired, doubled, deaf, reopened>>
  BY <1>1 DEF CandidateNotSent, Places, requestVars, iceVars
<1>3. raced' \in BOOLEAN /\ (~raced' => ~raced /\ ~(InListener /\ listener.i = session.i))
  BY <1>1, Zenon DEF CandidateNotSent, Types
<1>4. /\ sock' = FreeSocketContext(sock, session.i)
      /\ sock' \in [Slots -> Context] /\ ~sock'[session.i].open
      /\ sock'[session.i].state = IF sock[session.i].open THEN "NONE" ELSE sock[session.i].state
      /\ \A j \in Slots : j # session.i => sock'[j] = sock[j]
  BY <1>1, <1>2, FreeFacts DEF CandidateNotSent, Types
<1>5. /\ session'.at = "gather" /\ session'.i = session.i /\ session'.tls = session.tls
      /\ session'.jobs = session.jobs
      /\ session' \in [at : SessionSteps, i : 0..(MaxContexts + 1), jobs : SUBSET Job,
                        kind : Kinds \cup {"none"}, tls : Results, late : BOOLEAN]
  BY <1>1 DEF CandidateNotSent, Types
<1>6. budget' \in [faults : Nat, starts : Nat] /\ budget'.starts = budget.starts
  BY <1>1, FaultFacts DEF CandidateNotSent, Types
<1>7. Types'
  BY <1>1, <1>2, <1>3, <1>4, <1>5, <1>6 DEF Types
<1>8. Places'
  BY <1>1, <1>2, <1>5, <1>7 DEF Places
<1>9. OpenInv' /\ ClosedInv'
  BY <1>1, <1>2, <1>4, <1>5 DEF OpenInv, ClosedInv
<1>10. GhostInv'
  <2> SUFFICES ASSUME ~raced'
               PROVE  GhostInv'
    BY DEF GhostInv
  <2>1. ~raced /\ (listener.at # "idle" => listener.i # session.i)
    BY <1>3
  <2>2. sock'[session.i].state = "NONE"
    BY <1>1, <1>2, <1>4, <2>1 DEF GhostInv
  <2>3. QED
    BY <1>1, <1>2, <1>4, <1>5, <2>1, <2>2 DEF Places, GhostInv, SessionHand, ListenerHand
<1>11. ASSUME OneLife, LifeInv
       PROVE  LifeInv'
  <2>1. FirstStart /\ Fresh /\ Apart /\ LossInv /\ Reserved /\ ReadyHasPair
    BY <1>11 DEF LifeInv
  <2>2. CandidatesKept
    BY <1>1, <1>2, <1>4, FreeFacts DEF CandidatesKept, Types
  <2>3. nominated # session.i /\ (nominated # 0 => nominated \in Slots)
    BY <1>1, <1>2, <2>1 DEF Types, Apart, Slots
  <2>4. FirstStart'
    BY <1>2, <1>6, <2>1 DEF FirstStart
  <2>5. Fresh'
    BY <1>1, <1>2, <1>7, <2>1, <2>2, FreshKept
  <2>6. Apart'
    BY <1>1, <1>2, <1>5, <2>1, <2>2, ApartKept
  <2>7. LossInv'
    BY <1>2, <1>4, <1>5, <2>1, <2>3 DEF LossInv, LossNoticed
  <2>8. Reserved'
    BY <1>2, <1>5, <2>1, <2>2, ReservedKept DEF SessionReserves
  <2>9. ReadyHasPair'
    BY <1>1, <1>2, <2>1, <2>2, PairKept
  <2>10. QED
    BY <2>4, <2>5, <2>6, <2>7, <2>8, <2>9 DEF LifeInv
<1>12. QED
  BY <1>7, <1>8, <1>9, <1>10, <1>11 DEF IInv

\* At most one request fails to leave; its context is closed, and reported when nominated.
LEMMA ProcessCandidatePairsInv ==
    ASSUME IInv, ProcessCandidatePairs
    PROVE  IInv' /\ (OneLife /\ LifeInv => LifeInv')
<1>1. Types /\ Places /\ OpenInv /\ ClosedInv /\ GhostInv
  BY DEF IInv
<1>2. UNCHANGED <<iceState, count, nominated, polling, addLocal, request, remotes,
                      listener, expired, doubled, deaf, reopened>>
  BY DEF ProcessCandidatePairs, sockVars, iceVars, requestVars, envVars
<1>3. session.at = "gather" /\ session'.at = "local" /\ session'.i = 1 /\ lock' = "session"
  BY <1>1, <1>2 DEF ProcessCandidatePairs
<1>4. session' \in [at : SessionSteps, i : 0..(MaxContexts + 1), jobs : SUBSET Job,
                       kind : Kinds \cup {"none"}, tls : Results, late : BOOLEAN]
  <2>1. 1 \in 0..(MaxContexts + 1) /\ {"local", "gather", "destroy"} \subseteq SessionSteps
    BY BoundsAssumption
  <2>2. QED
    BY <1>1, <2>1 DEF ProcessCandidatePairs, Types
<1>5. NothingSent \/ \E i \in Slots : SendPacketFails(i)
  <2>1. 1..count \subseteq Slots
    BY <1>1, BoundsAssumption DEF Types, Slots
  <2>2. QED
    BY <2>1, <1>3, Zenon
       DEF ProcessCandidatePairs, CandidatePairRequest, SendPacket, SendPacketOk, NothingSent
<1>6. Types'
  BY <1>1, <1>2, <1>3, <1>4, <1>5, SendingFacts DEF Types
<1>7. Places'
  BY <1>1, <1>2, <1>3, <1>4, <1>5, <1>6, SendingFacts DEF Types, Places
<1>8. OpenInv'
  BY <1>1, <1>2, <1>3, <1>4, <1>5, <1>6, SendingFacts DEF OpenInv
<1>9. ClosedInv'
  BY <1>1, <1>2, <1>3, <1>4, <1>5, <1>6, SendingFacts DEF ClosedInv
<1>10. GhostInv'
  BY <1>1, <1>2, <1>3, <1>4, <1>5, <1>6, SendingFacts
     DEF Places, GhostInv, SessionHand, ListenerHand
<1>11. ASSUME OneLife, LifeInv
      PROVE  LifeInv'
  <2>1. FirstStart /\ Fresh /\ Apart /\ LossInv /\ Reserved /\ ReadyHasPair
    BY <1>11 DEF LifeInv
  <2>2. CandidatesKept
    BY <1>1, <1>5, SendingFacts DEF CandidatesKept
  <2>3. FirstStart'
    BY <1>1, <1>2, <1>3, <1>4, <1>5, <1>6, SendingFacts, <2>1, <2>2 DEF FirstStart
  <2>4. Fresh'
    BY <1>1, <1>2, <1>3, <1>4, <1>5, <1>6, SendingFacts, <2>1, <2>2, FreshKept
  <2>5. Apart'
    BY <1>1, <1>2, <1>3, <1>4, <1>5, <1>6, SendingFacts, <2>1, <2>2 DEF Types, Slots, Places, Apart
  <2>6. LossInv'
    BY <1>1, <1>2, <1>3, <1>4, <1>5, <1>6, SendingFacts, <2>1, <2>2
       DEF Types, Slots, LossInv, LossNoticed
  <2>7. Reserved'
    BY <1>1, <1>2, <1>3, <1>4, <1>5, <1>6, SendingFacts, <2>1, <2>2, ReservedKept
       DEF SessionReserves
  <2>8. ReadyHasPair'
    BY <1>1, <1>2, <1>3, <1>4, <1>5, <1>6, SendingFacts, <2>1, <2>2, PairKept
  <2>9. QED
    BY <2>3, <2>4, <2>5, <2>6, <2>7, <2>8 DEF LifeInv
<1>12. QED
  BY <1>6, <1>7, <1>8, <1>9, <1>10, <1>11 DEF IInv

\* The same with the one request of a READY controller.
LEMMA PeriodConnectionCheckInv ==
    ASSUME IInv, PeriodConnectionCheck
    PROVE  IInv' /\ (OneLife /\ LifeInv => LifeInv')
<1>1. Types /\ Places /\ OpenInv /\ ClosedInv /\ GhostInv
  BY DEF IInv
<1>2. UNCHANGED <<iceState, count, nominated, polling, addLocal, remotes, listener,
                      expired, doubled, deaf, reopened>>
  BY DEF PeriodConnectionCheck, sockVars, iceVars, requestVars, envVars
<1>3. /\ session.at = "idle" /\ request = "READY" /\ request' = "none"
      /\ \/ session' = session /\ lock' = lock
         \/ session'.at = "local" /\ session'.i = 1 /\ lock' = "session"
  BY <1>1, <1>2 DEF PeriodConnectionCheck, Types, NothingSent
<1>4. session' \in [at : SessionSteps, i : 0..(MaxContexts + 1), jobs : SUBSET Job,
                       kind : Kinds \cup {"none"}, tls : Results, late : BOOLEAN]
  <2>1. 1 \in 0..(MaxContexts + 1) /\ {"local", "gather", "destroy"} \subseteq SessionSteps
    BY BoundsAssumption
  <2>2. QED
    BY <1>1, <2>1, ZenonT(30) DEF PeriodConnectionCheck, Types, NothingSent
<1>5. NothingSent \/ \E i \in Slots : SendPacketFails(i)
  <2>1. 1..count \subseteq Slots
    BY <1>1, BoundsAssumption DEF Types, Slots
  <2>2. QED
    BY <2>1, <1>3, Zenon
       DEF PeriodConnectionCheck, CandidatePairRequest, SendPacket, SendPacketOk, NothingSent
<1>6. Types'
  BY <1>1, <1>2, <1>3, <1>4, <1>5, SendingFacts DEF Types
<1>7. Places'
  BY <1>1, <1>2, <1>3, <1>4, <1>5, <1>6, SendingFacts DEF Types, Places
<1>8. OpenInv'
  BY <1>1, <1>2, <1>3, <1>4, <1>5, <1>6, SendingFacts DEF OpenInv
<1>9. ClosedInv'
  BY <1>1, <1>2, <1>3, <1>4, <1>5, <1>6, SendingFacts DEF ClosedInv
<1>10. GhostInv'
  BY <1>1, <1>2, <1>3, <1>4, <1>5, <1>6, SendingFacts
     DEF Places, GhostInv, SessionHand, ListenerHand
<1>11. ASSUME OneLife, LifeInv
      PROVE  LifeInv'
  <2>1. FirstStart /\ Fresh /\ Apart /\ LossInv /\ Reserved /\ ReadyHasPair
    BY <1>11 DEF LifeInv
  <2>2. CandidatesKept
    BY <1>1, <1>5, SendingFacts DEF CandidatesKept
  <2>3. FirstStart'
    BY <1>1, <1>2, <1>3, <1>4, <1>5, <1>6, SendingFacts, <2>1, <2>2 DEF FirstStart
  <2>4. Fresh'
    BY <1>1, <1>2, <1>3, <1>4, <1>5, <1>6, SendingFacts, <2>1, <2>2, FreshKept
  <2>5. Apart'
    BY <1>1, <1>2, <1>3, <1>4, <1>5, <1>6, SendingFacts, <2>1, <2>2 DEF Types, Slots, Places, Apart
  <2>6. LossInv'
    BY <1>1, <1>2, <1>3, <1>4, <1>5, <1>6, SendingFacts, <2>1, <2>2
       DEF Types, Slots, LossInv, LossNoticed
  <2>7. Reserved'
    BY <1>1, <1>2, <1>3, <1>4, <1>5, <1>6, SendingFacts, <2>1, <2>2, ReservedKept
       DEF SessionReserves
  <2>8. ReadyHasPair'
    BY <1>1, <1>2, <1>3, <1>4, <1>5, <1>6, SendingFacts, <2>1, <2>2, PairKept
  <2>9. QED
    BY <2>3, <2>4, <2>5, <2>6, <2>7, <2>8 DEF LifeInv
<1>12. QED
  BY <1>6, <1>7, <1>8, <1>9, <1>10, <1>11 DEF IInv

\* A context whose TLS connection goes on is in the hand of the session task, which has iceMutex.
LEMMA LocalCandidateInv ==
    ASSUME IInv, LocalCandidate
    PROVE  IInv' /\ (OneLife /\ LifeInv => LifeInv')
<1>1. Types /\ Places /\ OpenInv /\ ClosedInv /\ GhostInv
  BY DEF IInv
<1>2. UNCHANGED <<iceState, count, nominated, polling, addLocal, request, remotes,
                      lock, listener, expired, doubled, deaf, reopened>>
  BY DEF LocalCandidate, sockVars, iceVars, requestVars, envVars
<1>3. /\ session.at = "local" /\ session.i \in 1..count
      /\ \/ /\ session'.at = "tls" /\ session'.i = session.i
            /\ sock[session.i].state = "PROGRESS" /\ sock' = sock
         \/ session'.at = "local" /\ session'.i = session.i + 1
  BY <1>1, <1>2 DEF LocalCandidate, Types, Places, NothingSent
<1>4. session' \in [at : SessionSteps, i : 0..(MaxContexts + 1), jobs : SUBSET Job,
                       kind : Kinds \cup {"none"}, tls : Results, late : BOOLEAN]
  BY <1>1, BoundsAssumption, SMTT(30) DEF LocalCandidate, Types, NothingSent
<1>5. NothingSent \/ \E i \in Slots : SendPacketFails(i)
  <2>1. 1..count \subseteq Slots
    BY <1>1, BoundsAssumption DEF Types, Slots
  <2>2. QED
    BY <2>1, <1>3, Zenon
       DEF LocalCandidate, CandidatePairRequest, SendPacket, SendPacketOk, NothingSent
<1>6. Types'
  BY <1>1, <1>2, <1>3, <1>4, <1>5, SendingFacts DEF Types
<1>7. Places'
  BY <1>1, <1>2, <1>3, <1>4, <1>5, <1>6, SendingFacts DEF Types, Places
<1>8. OpenInv'
  BY <1>1, <1>2, <1>3, <1>4, <1>5, <1>6, SendingFacts DEF OpenInv
<1>9. ClosedInv'
  BY <1>1, <1>2, <1>3, <1>4, <1>5, <1>6, SendingFacts DEF ClosedInv
<1>10. GhostInv'
  <2> SUFFICES ASSUME ~raced'
               PROVE  GhostInv'
    BY DEF GhostInv
  <2>1. ~raced /\ SessionHand /\ ListenerHand /\ \A i \in Slots : sock[i].state # "NONE"
          => sock[i].open
    BY <1>5, SendingFacts, <1>1 DEF GhostInv
  <2>2. \A i \in Slots : sock'[i].state # "NONE" => sock'[i].open
    BY <1>1, <1>5, SendingFacts, <2>1
  <2>3. SessionHand'
    <3>1. session.i \in Slots
      BY <1>1, <1>3, BoundsAssumption DEF Types, Slots
    <3>2. CASE session'.at = "tls"
      <4>1. sock' = sock /\ session'.i = session.i /\ sock[session.i].state = "PROGRESS"
        BY <1>3, <3>2
      <4>2. sock[session.i].open
        BY <4>1, <2>1, <3>1
      <4>3. QED
        BY <3>2, <4>1, <4>2 DEF SessionHand
    <3>3. QED
      BY <1>3, <3>2 DEF SessionHand
  <2>4. ListenerHand'
    BY <1>1, <1>2, <1>5, SendingFacts, <2>1 DEF ListenerHand, Places
  <2>5. QED
    BY <2>2, <2>3, <2>4 DEF GhostInv
<1>11. ASSUME OneLife, LifeInv
      PROVE  LifeInv'
  <2>1. FirstStart /\ Fresh /\ Apart /\ LossInv /\ Reserved /\ ReadyHasPair
    BY <1>11 DEF LifeInv
  <2>2. CandidatesKept
    BY <1>1, <1>5, SendingFacts DEF CandidatesKept
  <2>3. FirstStart'
    BY <1>1, <1>2, <1>3, <1>4, <1>5, <1>6, SendingFacts, <2>1, <2>2 DEF FirstStart
  <2>4. Fresh'
    BY <1>1, <1>2, <1>3, <1>4, <1>5, <1>6, SendingFacts, <2>1, <2>2, FreshKept
  <2>5. Apart'
    BY <1>1, <1>2, <1>3, <1>4, <1>5, <1>6, SendingFacts, <2>1, <2>2, BoundsAssumption, SMTT(30)
       DEF Types, Slots, Places, Fresh, FirstStart, Apart
  <2>6. LossInv'
    BY <1>1, <1>2, <1>3, <1>4, <1>5, <1>6, SendingFacts, <2>1, <2>2
       DEF Types, Slots, LossInv, LossNoticed, FirstStart
  <2>7. Reserved'
    BY <1>1, <1>2, <1>3, <1>4, <1>5, <1>6, SendingFacts, <2>1, <2>2, ReservedKept
       DEF SessionReserves
  <2>8. ReadyHasPair'
    BY <1>1, <1>2, <1>3, <1>4, <1>5, <1>6, SendingFacts, <2>1, <2>2, PairKept
  <2>9. QED
    BY <2>3, <2>4, <2>5, <2>6, <2>7, <2>8 DEF LifeInv
<1>12. QED
  BY <1>6, <1>7, <1>8, <1>9, <1>10, <1>11 DEF IInv

\* The connection goes on, done or not; the context stays in hand.
LEMMA ExecuteTlsHandshakeInv ==
    ASSUME IInv, ExecuteTlsHandshake
    PROVE  IInv' /\ (OneLife /\ LifeInv => LifeInv')
<1>1. Types /\ Places /\ OpenInv /\ ClosedInv /\ GhostInv
  BY DEF IInv
<1>2. UNCHANGED <<iceState, sock, count, nominated, polling, addLocal, timer,
                      request, closeReq, cands, remotes, pairs, lock, listener,
                      expired, raced, doubled, deaf, reopened>>
  BY DEF ExecuteTlsHandshake, sockVars, iceVars, requestVars, envVars
<1>3. session.at = "tls" /\ session'.at = "tlsDone" /\ session'.i = session.i
  BY <1>1, <1>2 DEF ExecuteTlsHandshake
<1>4. session' \in [at : SessionSteps, i : 0..(MaxContexts + 1), jobs : SUBSET Job,
                       kind : Kinds \cup {"none"}, tls : Results, late : BOOLEAN]
  BY <1>1 DEF ExecuteTlsHandshake, Types
<1>5. budget' \in [faults : Nat, starts : Nat] /\ budget'.starts = budget.starts
  BY <1>1, <1>2, <1>3, <1>4, FaultFacts DEF ExecuteTlsHandshake, Handshake, Types
<1>6. Types'
  BY <1>1, <1>2, <1>3, <1>4, <1>5 DEF Types
<1>7. Places'
  BY <1>1, <1>2, <1>3, <1>4, <1>5, <1>6 DEF Places
<1>8. OpenInv'
  BY <1>1, <1>2, <1>3, <1>4, <1>5, <1>6 DEF OpenInv
<1>9. ClosedInv'
  BY <1>1, <1>2, <1>3, <1>4, <1>5, <1>6 DEF ClosedInv
<1>10. GhostInv'
  BY <1>1, <1>2, <1>3, <1>4, <1>5, <1>6 DEF GhostInv, SessionHand, ListenerHand
<1>11. ASSUME OneLife, LifeInv
      PROVE  LifeInv'
  <2>1. FirstStart /\ Fresh /\ Apart /\ LossInv /\ Reserved /\ ReadyHasPair
    BY <1>11 DEF LifeInv
  <2>2. FirstStart'
    BY <1>1, <1>2, <1>3, <1>4, <1>5, <1>6, <2>1 DEF FirstStart
  <2>3. Fresh'
    BY <1>1, <1>2, <1>3, <1>4, <1>5, <1>6, <2>1 DEF Fresh
  <2>4. Apart'
    BY <1>1, <1>2, <1>3, <1>4, <1>5, <1>6, <2>1 DEF Apart
  <2>5. LossInv'
    BY <1>1, <1>2, <1>3, <1>4, <1>5, <1>6, <2>1 DEF LossInv, LossNoticed
  <2>6. Reserved'
    BY <1>1, <1>2, <1>3, <1>4, <1>5, <1>6, <2>1 DEF Reserved, Newest, SessionReserves
  <2>7. ReadyHasPair'
    BY <1>1, <1>2, <1>3, <1>4, <1>5, <1>6, <2>1 DEF ReadyHasPair
  <2>8. QED
    BY <2>2, <2>3, <2>4, <2>5, <2>6, <2>7 DEF LifeInv
<1>12. QED
  BY <1>6, <1>7, <1>8, <1>9, <1>10, <1>11 DEF IInv

\* The round ends: the timer is armed, or the session is asked to close.
LEMMA RequestsSentInv ==
    ASSUME IInv, RequestsSent
    PROVE  IInv' /\ (OneLife /\ LifeInv => LifeInv')
<1>1. Types /\ Places /\ OpenInv /\ ClosedInv /\ GhostInv
  BY DEF IInv
<1>2. UNCHANGED <<iceState, sock, count, nominated, polling, addLocal, request,
                      cands, remotes, pairs, listener, expired, raced, doubled,
                      deaf, reopened, budget>>
  BY DEF RequestsSent, sockVars, iceVars, requestVars, envVars
<1>3. session.at = "local" /\ session'.at = "idle" /\ lock' = "free" /\ session.i > count
  BY <1>1, <1>2 DEF RequestsSent
<1>4. session' \in [at : SessionSteps, i : 0..(MaxContexts + 1), jobs : SUBSET Job,
                       kind : Kinds \cup {"none"}, tls : Results, late : BOOLEAN]
  BY <1>1 DEF RequestsSent, Types
<1>5. closeReq' \in BOOLEAN /\ timer' \in BOOLEAN
  BY <1>1, <1>2, <1>3, <1>4, Zenon DEF RequestsSent, Arm
<1>6. Types'
  BY <1>1, <1>2, <1>3, <1>4, <1>5 DEF Types
<1>7. Places'
  BY <1>1, <1>2, <1>3, <1>4, <1>5, <1>6 DEF Places
<1>8. OpenInv'
  BY <1>1, <1>2, <1>3, <1>4, <1>5, <1>6 DEF OpenInv
<1>9. ClosedInv'
  BY <1>1, <1>2, <1>3, <1>4, <1>5, <1>6 DEF ClosedInv
<1>10. GhostInv'
  BY <1>1, <1>2, <1>3, <1>4, <1>5, <1>6 DEF GhostInv, SessionHand, ListenerHand
<1>11. ASSUME OneLife, LifeInv
      PROVE  LifeInv'
  <2>1. FirstStart /\ Fresh /\ Apart /\ LossInv /\ Reserved /\ ReadyHasPair
    BY <1>11 DEF LifeInv
  <2>2. closeReq => closeReq'
    BY <1>1, Zenon DEF RequestsSent
  <2>3. CandidatesKept
    BY <1>2 DEF CandidatesKept
  <2>4. FirstStart'
    BY <1>1, <1>2, <1>3, <1>4, <1>5, <1>6, <2>1, <2>2, <2>3 DEF FirstStart
  <2>5. Fresh'
    BY <1>1, <1>2, <1>3, <1>4, <1>5, <1>6, <2>1, <2>2, <2>3, FreshKept
  <2>6. Apart'
    BY <1>1, <1>2, <1>3, <1>4, <1>5, <1>6, <2>1, <2>2, <2>3 DEF Apart
  <2>7. LossInv'
    BY <1>1, <1>2, <1>3, <1>4, <1>5, <1>6, <2>1, <2>2, <2>3, LossKept
  <2>8. Reserved'
    BY <1>1, <1>2, <1>3, <1>4, <1>5, <1>6, <2>1, <2>2, <2>3, ReservedKept DEF SessionReserves
  <2>9. ReadyHasPair'
    BY <1>1, <1>2, <1>3, <1>4, <1>5, <1>6, <2>1, <2>2, <2>3, PairKept
  <2>10. QED
    BY <2>4, <2>5, <2>6, <2>7, <2>8, <2>9 DEF LifeInv
<1>12. QED
  BY <1>6, <1>7, <1>8, <1>9, <1>10, <1>11 DEF IInv

\* Destroy begins at the first context: none before it needs to be closed.
LEMMA DestroyInv ==
    ASSUME IInv, IceController_Destroy
    PROVE  IInv' /\ (OneLife /\ LifeInv => LifeInv')
<1>1. Types /\ Places /\ OpenInv /\ ClosedInv /\ GhostInv
  BY DEF IInv
<1>2. UNCHANGED <<sock, count, nominated, polling, addLocal, timer, request, cands,
                      remotes, pairs, lock, listener, expired, raced, doubled,
                      deaf, reopened, budget>>
  BY DEF IceController_Destroy, sockVars, iceVars, requestVars, envVars
<1>3. /\ session.at = "idle" /\ closeReq
      /\ \/ session' = session /\ iceState' = iceState
         \/ iceState' = "CLOSING" /\ session'.at = "destroy" /\ session'.i = 1
  BY <1>1, <1>2 DEF IceController_Destroy, Types
<1>4. session' \in [at : SessionSteps, i : 0..(MaxContexts + 1), jobs : SUBSET Job,
                       kind : Kinds \cup {"none"}, tls : Results, late : BOOLEAN]
  <2>1. \/ session' = session
        \/ session' = [session EXCEPT !.at = "destroy", !.i = 1, !.tls = "none"]
    BY Zenon DEF IceController_Destroy
  <2>2. 1 \in 0..(MaxContexts + 1)
    BY BoundsAssumption
  <2>3. QED
    BY <1>1, <2>1, <2>2, ZenonT(30) DEF Types
<1>5. closeReq' \in BOOLEAN /\ ~closeReq'
  BY <1>1, <1>2, <1>3, <1>4, Zenon DEF IceController_Destroy
<1>6. Types'
  BY <1>1, <1>2, <1>3, <1>4, <1>5 DEF Types
<1>7. Places'
  BY <1>1, <1>2, <1>3, <1>4, <1>5, <1>6 DEF Types, Places
<1>8. OpenInv'
  BY <1>1, <1>2, <1>3, <1>4, <1>5, <1>6 DEF OpenInv
<1>9. ClosedInv'
  BY <1>1, <1>2, <1>3, <1>4, <1>5, <1>6 DEF Slots, ClosedInv
<1>10. GhostInv'
  BY <1>1, <1>2, <1>3, <1>4, <1>5, <1>6 DEF GhostInv, SessionHand, ListenerHand
<1>11. ASSUME OneLife, LifeInv
      PROVE  LifeInv'
  <2>1. FirstStart /\ Fresh /\ Apart /\ LossInv /\ Reserved /\ ReadyHasPair
    BY <1>11 DEF LifeInv
  <2>2. \/ iceState' = "CLOSING" /\ session'.at = "destroy"
        \/ iceState' = iceState /\ session' = session
             /\ iceState \notin {"PROCESS", "READY", "CLOSING"}
    BY <1>1 DEF IceController_Destroy, Types
  <2>3. CandidatesKept
    BY <1>2 DEF CandidatesKept
  <2>4. FirstStart'
    BY <1>1, <1>2, <1>3, <1>4, <1>5, <1>6, <2>1, <2>2, <2>3 DEF FirstStart
  <2>5. Fresh'
    BY <1>1, <1>2, <1>3, <1>4, <1>5, <1>6, <2>1, <2>2, <2>3, FreshKept
  <2>6. Apart'
    BY <1>1, <1>2, <1>3, <1>4, <1>5, <1>6, <2>1, <2>2, <2>3 DEF Apart
  <2>7. LossInv'
    <3>1. CASE iceState' = "CLOSING"
      BY <3>1 DEF LossInv, LossNoticed
    <3>2. CASE iceState' = iceState /\ session' = session
          /\ iceState \notin {"PROCESS", "READY", "CLOSING"}
      <4>1. iceState = "CLOSED" /\ session.at # "destroy"
        BY <1>1, <1>3, <2>1, <3>2 DEF Types, FirstStart
      <4>2. QED
        BY <3>2, <4>1 DEF LossInv, LossNoticed
    <3>3. QED
      BY <2>2, <3>1, <3>2
  <2>8. Reserved'
    BY <1>1, <1>2, <1>3, <1>4, <1>5, <1>6, <2>1, <2>2, <2>3, ReservedKept DEF SessionReserves
  <2>9. ReadyHasPair'
    BY <1>1, <1>2, <1>3, <1>4, <1>5, <1>6, <2>1, <2>2, <2>3, PairKept
  <2>10. QED
    BY <2>4, <2>5, <2>6, <2>7, <2>8, <2>9 DEF LifeInv
<1>12. QED
  BY <1>6, <1>7, <1>8, <1>9, <1>10, <1>11 DEF IInv

\* Every context was closed, or a relay is left for which CLOSED has to wait.
LEMMA DestroyedInv ==
    ASSUME IInv, Destroyed
    PROVE  IInv' /\ (OneLife /\ LifeInv => LifeInv')
<1>1. Types /\ Places /\ OpenInv /\ ClosedInv /\ GhostInv
  BY DEF IInv
<1>2. UNCHANGED <<sock, count, nominated, addLocal, request, closeReq, cands,
                      remotes, pairs, lock, listener, expired, raced, doubled,
                      deaf, reopened, budget>>
  BY DEF Destroyed, sockVars, iceVars, requestVars, envVars
<1>3. /\ session.at = "destroy" /\ session'.at = "idle" /\ session.i > count
      /\ (session.tls = "IN_PROGRESS" => iceState' = iceState)
      /\ iceState' \in {iceState, "CLOSED"}
  BY <1>1, <1>2 DEF Destroyed
<1>4. session' \in [at : SessionSteps, i : 0..(MaxContexts + 1), jobs : SUBSET Job,
                       kind : Kinds \cup {"none"}, tls : Results, late : BOOLEAN]
  BY <1>1 DEF Destroyed, Types
<1>5. polling' \in BOOLEAN /\ timer' \in BOOLEAN
  BY <1>1, <1>2, <1>3, <1>4, Zenon DEF Destroyed, Arm, Types
<1>6. Types'
  BY <1>1, <1>2, <1>3, <1>4, <1>5 DEF Types
<1>7. Places'
  BY <1>1, <1>2, <1>3, <1>4, <1>5, <1>6 DEF Places
<1>8. OpenInv'
  BY <1>1, <1>2, <1>3, <1>4, <1>5, <1>6 DEF OpenInv
<1>9. ClosedInv'
  BY <1>1, <1>2, <1>3, <1>4, <1>5, <1>6 DEF Slots, Types, OpenInv, ClosedInv, GhostInv
<1>10. GhostInv'
  BY <1>1, <1>2, <1>3, <1>4, <1>5, <1>6 DEF GhostInv, SessionHand, ListenerHand
<1>11. ASSUME OneLife, LifeInv
      PROVE  LifeInv'
  <2>1. FirstStart /\ Fresh /\ Apart /\ LossInv /\ Reserved /\ ReadyHasPair
    BY <1>11 DEF LifeInv
  <2>2. FirstStart'
    BY <1>1, <1>2, <1>3, <1>4, <1>5, <1>6, <2>1 DEF FirstStart
  <2>3. Fresh'
    BY <1>1, <1>2, <1>3, <1>4, <1>5, <1>6, <2>1 DEF Fresh
  <2>4. Apart'
    BY <1>1, <1>2, <1>3, <1>4, <1>5, <1>6, <2>1 DEF Apart
  <2>5. LossInv'
    BY <1>1, <1>2, <1>3, <1>4, <1>5, <1>6, <2>1 DEF LossInv, LossNoticed
  <2>6. Reserved'
    BY <1>1, <1>2, <1>3, <1>4, <1>5, <1>6, <2>1 DEF Reserved, Newest, SessionReserves
  <2>7. ReadyHasPair'
    BY <1>1, <1>2, <1>3, <1>4, <1>5, <1>6, <2>1 DEF ReadyHasPair
  <2>8. QED
    BY <2>2, <2>3, <2>4, <2>5, <2>6, <2>7 DEF LifeInv
<1>12. QED
  BY <1>6, <1>7, <1>8, <1>9, <1>10, <1>11 DEF IInv

\* CLOSED is reached when no context is in use, thus none is open.
LEMMA AddressClosingInv ==
    ASSUME IInv, IceController_AddressClosing
    PROVE  IInv' /\ (OneLife /\ LifeInv => LifeInv')
<1>1. Types /\ Places /\ OpenInv /\ ClosedInv /\ GhostInv
  BY DEF IInv
<1>2. UNCHANGED <<sock, count, nominated, addLocal, timer, closeReq, cands, remotes,
                      pairs, listener, expired, raced, doubled, deaf, reopened,
                      budget>>
  BY DEF IceController_AddressClosing, sockVars, iceVars, requestVars, envVars
<1>3. /\ session.at = "idle" /\ request = "CLOSING" /\ request' = "none"
      /\ \/ session'.at = "local" /\ session'.i = 1 /\ lock' = "session" /\ iceState' = iceState
         \/ session' = session /\ lock' = lock /\ iceState' = "CLOSED"
              /\ \A i \in 1..count : sock[i].state = "NONE"
  <2>1. /\ session.at = "idle" /\ request = "CLOSING" /\ request' = "none"
        /\ \/ /\ session' = [session EXCEPT !.at = "local", !.i = 1]
              /\ lock' = "session" /\ iceState' = iceState
           \/ session' = session /\ lock' = lock /\ iceState' = "CLOSED"
                /\ ~\E i \in 1..count : Live(i)
    BY Zenon DEF IceController_AddressClosing
  <2>2. \A i \in 1..count : i <= count
    BY <1>1 DEF Types
  <2>3. session' = [session EXCEPT !.at = "local", !.i = 1] => session'.at = "local"
        /\ session'.i = 1
    BY <1>1 DEF Types
  <2>4. QED
    BY <2>1, <2>2, <2>3, Zenon DEF Live
<1>4. session' \in [at : SessionSteps, i : 0..(MaxContexts + 1), jobs : SUBSET Job,
                       kind : Kinds \cup {"none"}, tls : Results, late : BOOLEAN]
  <2>1. 1 \in 0..(MaxContexts + 1) /\ {"local", "gather", "destroy"} \subseteq SessionSteps
    BY BoundsAssumption
  <2>2. QED
    BY <1>1, <2>1, ZenonT(30) DEF IceController_AddressClosing, Types, Live
<1>5. polling' \in BOOLEAN
  BY <1>1, <1>2, <1>3, <1>4, Zenon DEF IceController_AddressClosing, Types
<1>6. Types'
  BY <1>1, <1>2, <1>3, <1>4, <1>5 DEF Types
<1>7. Places'
  BY <1>1, <1>2, <1>3, <1>4, <1>5, <1>6 DEF Types, Places
<1>8. OpenInv'
  BY <1>1, <1>2, <1>3, <1>4, <1>5, <1>6 DEF OpenInv
<1>9. ClosedInv'
  BY <1>1, <1>2, <1>3, <1>4, <1>5, <1>6, BoundsAssumption
     DEF Slots, OpenInv, ClosedInv, SessionHand, ListenerHand, GhostInv
<1>10. GhostInv'
  BY <1>1, <1>2, <1>3, <1>4, <1>5, <1>6 DEF GhostInv, SessionHand, ListenerHand
<1>11. ASSUME OneLife, LifeInv
      PROVE  LifeInv'
  <2>1. FirstStart /\ Fresh /\ Apart /\ LossInv /\ Reserved /\ ReadyHasPair
    BY <1>11 DEF LifeInv
  <2>2. FirstStart'
    BY <1>1, <1>2, <1>3, <1>4, <1>5, <1>6, <2>1 DEF FirstStart
  <2>3. Fresh'
    BY <1>1, <1>2, <1>3, <1>4, <1>5, <1>6, <2>1 DEF Fresh
  <2>4. Apart'
    BY <1>1, <1>2, <1>3, <1>4, <1>5, <1>6, <2>1 DEF Apart
  <2>5. LossInv'
    BY <1>1, <1>2, <1>3, <1>4, <1>5, <1>6, <2>1 DEF LossInv, LossNoticed
  <2>6. Reserved'
    BY <1>1, <1>2, <1>3, <1>4, <1>5, <1>6, <2>1 DEF Reserved, Newest, SessionReserves
  <2>7. ReadyHasPair'
    BY <1>1, <1>2, <1>3, <1>4, <1>5, <1>6, <2>1 DEF ReadyHasPair
  <2>8. QED
    BY <2>2, <2>3, <2>4, <2>5, <2>6, <2>7 DEF LifeInv
<1>12. QED
  BY <1>6, <1>7, <1>8, <1>9, <1>10, <1>11 DEF IInv

\* The listener takes a context that is open and counted.
LEMMA PollInv ==
    ASSUME IInv, NEW i \in Slots, Poll(i)
    PROVE  IInv' /\ (OneLife /\ LifeInv => LifeInv')
<1>1. Types /\ Places /\ OpenInv /\ ClosedInv /\ GhostInv
  BY DEF IInv
<1>2. UNCHANGED <<iceState, sock, count, nominated, polling, addLocal, timer,
                      request, closeReq, cands, remotes, pairs, lock, session,
                      expired, raced, doubled, deaf, reopened, budget>>
  BY DEF Poll, sockVars, iceVars, requestVars, envVars
<1>3. listener.at = "idle" /\ listener'.at = "dispatch" /\ listener'.i = i /\ i <= count
      /\ sock[i].open
  BY <1>1 DEF Poll, ListenerAt
<1>4. listener' \in [at : ListenerSteps, i : 0..MaxContexts, peer : Remotes \cup {NoPeer},
                        ret : {"OK", "FOUND", "FAIL"}]
  <2>1. i \in 0..MaxContexts
    BY BoundsAssumption DEF Slots
  <2>2. QED
    BY <1>1, <2>1 DEF Poll, Types
<1>5. Types'
  BY <1>1, <1>2, <1>3, <1>4 DEF Types
<1>6. Places'
  BY <1>1, <1>2, <1>3, <1>4, <1>5 DEF Places
<1>7. OpenInv'
  BY <1>1, <1>2, <1>3, <1>4, <1>5 DEF OpenInv
<1>8. ClosedInv'
  BY <1>1, <1>2, <1>3, <1>4, <1>5 DEF ClosedInv
<1>9. GhostInv'
  BY <1>1, <1>2, <1>3, <1>4, <1>5 DEF GhostInv, SessionHand, ListenerHand
<1>10. ASSUME OneLife, LifeInv
      PROVE  LifeInv'
  <2>1. FirstStart /\ Fresh /\ Apart /\ LossInv /\ Reserved /\ ReadyHasPair
    BY <1>10 DEF LifeInv
  <2>2. FirstStart'
    BY <1>1, <1>2, <1>3, <1>4, <1>5, <2>1, BoundsAssumption, SMTT(30) DEF Types, FirstStart
  <2>3. Fresh'
    BY <1>1, <1>2, <1>3, <1>4, <1>5, <2>1 DEF Fresh
  <2>4. Apart'
    BY <1>1, <1>2, <1>3, <1>4, <1>5, <2>1 DEF Apart
  <2>5. LossInv'
    BY <1>1, <1>2, <1>3, <1>4, <1>5, <2>1 DEF LossInv, LossNoticed
  <2>6. Reserved'
    BY <1>1, <1>2, <1>3, <1>4, <1>5, <2>1 DEF Reserved, Newest, SessionReserves
  <2>7. ReadyHasPair'
    BY <1>1, <1>2, <1>3, <1>4, <1>5, <2>1 DEF ReadyHasPair
  <2>8. QED
    BY <2>2, <2>3, <2>4, <2>5, <2>6, <2>7 DEF LifeInv
<1>11. QED
  BY <1>5, <1>6, <1>7, <1>8, <1>9, <1>10 DEF IInv

\* The listener connects a context in PROGRESS and reads one in any other state.
LEMMA DispatchInv ==
    ASSUME IInv, Dispatch
    PROVE  IInv' /\ (OneLife /\ LifeInv => LifeInv')
<1>1. Types /\ Places /\ OpenInv /\ ClosedInv /\ GhostInv
  BY DEF IInv
<1>2. UNCHANGED <<iceState, sock, count, nominated, polling, addLocal, timer,
                      request, closeReq, cands, remotes, pairs, lock, session,
                      expired, raced, doubled, deaf, reopened, budget>>
  BY DEF Dispatch, sockVars, iceVars, requestVars, envVars
<1>3. /\ listener.at = "dispatch" /\ listener'.i = listener.i
      /\ \/ listener'.at = "tls" /\ sock[listener.i].state = "PROGRESS"
         \/ listener'.at = "recv"
  BY <1>1 DEF Dispatch, ListenerAt
<1>4. listener' \in [at : ListenerSteps, i : 0..MaxContexts, peer : Remotes \cup {NoPeer},
                        ret : {"OK", "FOUND", "FAIL"}]
  BY <1>1 DEF Dispatch, ListenerAt, Types
<1>5. Types'
  BY <1>1, <1>2, <1>3, <1>4 DEF Types
<1>6. Places'
  BY <1>1, <1>2, <1>3, <1>4, <1>5 DEF Places
<1>7. OpenInv'
  BY <1>1, <1>2, <1>3, <1>4, <1>5 DEF OpenInv
<1>8. ClosedInv'
  BY <1>1, <1>2, <1>3, <1>4, <1>5 DEF ClosedInv
<1>9. GhostInv'
  BY <1>1, <1>2, <1>3, <1>4, <1>5 DEF GhostInv, SessionHand, ListenerHand
<1>10. ASSUME OneLife, LifeInv
      PROVE  LifeInv'
  <2>1. FirstStart /\ Fresh /\ Apart /\ LossInv /\ Reserved /\ ReadyHasPair
    BY <1>10 DEF LifeInv
  <2>2. FirstStart'
    BY <1>1, <1>2, <1>3, <1>4, <1>5, <2>1 DEF FirstStart
  <2>3. Fresh'
    BY <1>1, <1>2, <1>3, <1>4, <1>5, <2>1 DEF Fresh
  <2>4. Apart'
    BY <1>1, <1>2, <1>3, <1>4, <1>5, <2>1 DEF Slots, Places, Fresh, Apart
  <2>5. LossInv'
    BY <1>1, <1>2, <1>3, <1>4, <1>5, <2>1 DEF LossInv, LossNoticed
  <2>6. Reserved'
    BY <1>1, <1>2, <1>3, <1>4, <1>5, <2>1 DEF Reserved, Newest, SessionReserves
  <2>7. ReadyHasPair'
    BY <1>1, <1>2, <1>3, <1>4, <1>5, <2>1 DEF ReadyHasPair
  <2>8. QED
    BY <2>2, <2>3, <2>4, <2>5, <2>6, <2>7 DEF LifeInv
<1>11. QED
  BY <1>5, <1>6, <1>7, <1>8, <1>9, <1>10 DEF IInv

\* The listener leaves a socket that has no more to read.
LEMMA RxNothingInv ==
    ASSUME IInv, RxNothing
    PROVE  IInv' /\ (OneLife /\ LifeInv => LifeInv')
<1>1. Types /\ Places /\ OpenInv /\ ClosedInv /\ GhostInv
  BY DEF IInv
<1>2. UNCHANGED <<iceState, sock, count, nominated, polling, addLocal, timer,
                      request, closeReq, cands, remotes, pairs, lock, session,
                      expired, raced, doubled, deaf, reopened, budget>>
  BY DEF RxNothing, sockVars, iceVars, requestVars, envVars
<1>3. listener.at = "recv" /\ listener'.at = "idle" /\ listener'.i = listener.i
  BY <1>1 DEF RxNothing, ListenerAt
<1>4. listener' \in [at : ListenerSteps, i : 0..MaxContexts, peer : Remotes \cup {NoPeer},
                        ret : {"OK", "FOUND", "FAIL"}]
  BY <1>1 DEF RxNothing, ListenerAt, Types
<1>5. Types'
  BY <1>1, <1>2, <1>3, <1>4 DEF Types
<1>6. Places'
  BY <1>1, <1>2, <1>3, <1>4, <1>5 DEF Places
<1>7. OpenInv'
  BY <1>1, <1>2, <1>3, <1>4, <1>5 DEF OpenInv
<1>8. ClosedInv'
  BY <1>1, <1>2, <1>3, <1>4, <1>5 DEF ClosedInv
<1>9. GhostInv'
  BY <1>1, <1>2, <1>3, <1>4, <1>5 DEF GhostInv, SessionHand, ListenerHand
<1>10. ASSUME OneLife, LifeInv
      PROVE  LifeInv'
  <2>1. FirstStart /\ Fresh /\ Apart /\ LossInv /\ Reserved /\ ReadyHasPair
    BY <1>10 DEF LifeInv
  <2>2. FirstStart'
    BY <1>1, <1>2, <1>3, <1>4, <1>5, <2>1 DEF FirstStart
  <2>3. Fresh'
    BY <1>1, <1>2, <1>3, <1>4, <1>5, <2>1 DEF Fresh
  <2>4. Apart'
    BY <1>1, <1>2, <1>3, <1>4, <1>5, <2>1 DEF Apart
  <2>5. LossInv'
    BY <1>1, <1>2, <1>3, <1>4, <1>5, <2>1 DEF LossInv, LossNoticed
  <2>6. Reserved'
    BY <1>1, <1>2, <1>3, <1>4, <1>5, <2>1 DEF Reserved, Newest, SessionReserves
  <2>7. ReadyHasPair'
    BY <1>1, <1>2, <1>3, <1>4, <1>5, <2>1 DEF ReadyHasPair
  <2>8. QED
    BY <2>2, <2>3, <2>4, <2>5, <2>6, <2>7 DEF LifeInv
<1>11. QED
  BY <1>5, <1>6, <1>7, <1>8, <1>9, <1>10 DEF IInv

\* The end of an allocation is first told to the library, the context is as before.
LEMMA RxTurnTerminatedInv ==
    ASSUME IInv, RxTurnTerminated
    PROVE  IInv' /\ (OneLife /\ LifeInv => LifeInv')
<1>1. Types /\ Places /\ OpenInv /\ ClosedInv /\ GhostInv
  BY DEF IInv
<1>2. UNCHANGED <<iceState, sock, count, nominated, polling, addLocal, timer,
                      request, closeReq, cands, remotes, pairs, lock, session,
                      expired, raced, doubled, deaf, reopened, budget>>
  BY DEF RxTurnTerminated, sockVars, iceVars, requestVars, envVars
<1>3. /\ listener.at = "recv" /\ listener'.at = "ended" /\ listener'.i = listener.i
      /\ sock[listener.i].state # "NONE"
  BY <1>1 DEF RxTurnTerminated, ListenerAt, Reachable, Live
<1>4. listener' \in [at : ListenerSteps, i : 0..MaxContexts, peer : Remotes \cup {NoPeer},
                        ret : {"OK", "FOUND", "FAIL"}]
  BY <1>1 DEF RxTurnTerminated, ListenerAt, Types, Reachable, Live
<1>5. Types'
  BY <1>1, <1>2, <1>3, <1>4 DEF Types
<1>6. Places'
  BY <1>1, <1>2, <1>3, <1>4, <1>5 DEF Places
<1>7. OpenInv'
  BY <1>1, <1>2, <1>3, <1>4, <1>5 DEF OpenInv
<1>8. ClosedInv'
  BY <1>1, <1>2, <1>3, <1>4, <1>5 DEF ClosedInv
<1>9. GhostInv'
  BY <1>1, <1>2, <1>3, <1>4, <1>5 DEF GhostInv, SessionHand, ListenerHand
<1>10. ASSUME OneLife, LifeInv
      PROVE  LifeInv'
  <2>1. FirstStart /\ Fresh /\ Apart /\ LossInv /\ Reserved /\ ReadyHasPair
    BY <1>10 DEF LifeInv
  <2>2. FirstStart'
    BY <1>1, <1>2, <1>3, <1>4, <1>5, <2>1 DEF FirstStart
  <2>3. Fresh'
    BY <1>1, <1>2, <1>3, <1>4, <1>5, <2>1 DEF Fresh
  <2>4. Apart'
    BY <1>1, <1>2, <1>3, <1>4, <1>5, <2>1 DEF Apart
  <2>5. LossInv'
    BY <1>1, <1>2, <1>3, <1>4, <1>5, <2>1 DEF LossInv, LossNoticed
  <2>6. Reserved'
    BY <1>1, <1>2, <1>3, <1>4, <1>5, <2>1 DEF Reserved, Newest, SessionReserves
  <2>7. ReadyHasPair'
    BY <1>1, <1>2, <1>3, <1>4, <1>5, <2>1 DEF ReadyHasPair
  <2>8. QED
    BY <2>2, <2>3, <2>4, <2>5, <2>6, <2>7 DEF LifeInv
<1>11. QED
  BY <1>5, <1>6, <1>7, <1>8, <1>9, <1>10 DEF IInv

\* A context that becomes READY had a candidate; who closed it meanwhile set raced.
LEMMA RxReadyInv ==
    ASSUME IInv, RxReady
    PROVE  IInv' /\ (OneLife /\ LifeInv => LifeInv')
<1>1. Types /\ Places /\ OpenInv /\ ClosedInv /\ GhostInv
  BY DEF IInv
<1>2. UNCHANGED <<iceState, count, nominated, polling, addLocal, timer, request,
                      closeReq, cands, remotes, pairs, lock, session, expired,
                      raced, doubled, deaf, reopened, budget>>
  BY DEF RxReady, sockVars, iceVars, requestVars, envVars
<1>3. listener.at = "ready" /\ listener'.at = "recv" /\ listener'.i = listener.i
      /\ listener.i \in Slots
  BY <1>1 DEF RxReady, ListenerAt, Places
<1>4. listener' \in [at : ListenerSteps, i : 0..MaxContexts, peer : Remotes \cup {NoPeer},
                        ret : {"OK", "FOUND", "FAIL"}]
  BY <1>1 DEF RxReady, ListenerAt, Types
<1>5. sock[listener.i].cand \in 0..MaxContexts /\ sock[listener.i].peer \in Remotes \cup {NoPeer}
      /\ "READY" \in SlotStates
  BY <1>1, <1>3 DEF Types, Context, SlotStates
<1>6. /\ sock' \in [Slots -> Context] /\ \A j \in Slots : j # listener.i => sock'[j] = sock[j]
      /\ sock'[listener.i].state = "READY" /\ (sock'[listener.i].open <=> sock[listener.i].open)
  BY <1>1, <1>3, <1>5, UpdateFacts DEF RxReady, Types
<1>7. Types'
  BY <1>1, <1>2, <1>3, <1>4, <1>5, <1>6 DEF Types
<1>8. Places'
  BY <1>1, <1>2, <1>3, <1>4, <1>5, <1>6, <1>7 DEF Places
<1>9. OpenInv'
  BY <1>1, <1>2, <1>3, <1>4, <1>5, <1>6, <1>7 DEF OpenInv
<1>10. ClosedInv'
  BY <1>1, <1>2, <1>3, <1>4, <1>5, <1>6, <1>7 DEF ClosedInv
<1>11. GhostInv'
  <2> SUFFICES ASSUME ~raced'
               PROVE  GhostInv'
    BY DEF GhostInv
  <2>1. ~raced /\ SessionHand /\ ListenerHand /\ \A j \in Slots : sock[j].state # "NONE"
          => sock[j].open
    BY <1>1, <1>2 DEF GhostInv
  <2>2. sock[listener.i].open /\ (listener.at # "recv" => sock[listener.i].state # "NONE")
    BY <1>3, <2>1 DEF ListenerHand
  <2>3. \A j \in Slots : sock'[j].state # "NONE" => sock'[j].open
    BY <1>3, <1>6, <2>1, <2>2
  <2>4. SessionHand'
    <3>1. session.at \in {"add", "update", "tls", "tlsDone"} => session.i \in Slots
      BY <1>1, BoundsAssumption DEF Places, Types, Slots
    <3>2. session.at \in {"add", "update"} => session.i # listener.i
      BY <1>3, <2>1, <2>2 DEF SessionHand
    <3>3. QED
      BY <1>2, <1>3, <1>6, <2>1, <3>1, <3>2 DEF SessionHand
  <2>5. ListenerHand'
    BY <1>1, <1>2, <1>3, <1>6, <2>1, <2>2 DEF ListenerHand
  <2>6. QED
    BY <2>3, <2>4, <2>5 DEF GhostInv
<1>12. ASSUME OneLife, LifeInv
      PROVE  LifeInv'
  <2>1. FirstStart /\ Fresh /\ Apart /\ LossInv /\ Reserved /\ ReadyHasPair
    BY <1>12 DEF LifeInv
  <2>2. \A j \in Slots : sock'[j].cand = sock[j].cand /\ sock'[j].peer = sock[j].peer
    <3>1. sock \in [Slots -> Context]
      BY <1>1 DEF Types
    <3>2. sock' = UpdateSocketContext(sock, listener.i, "READY", sock[listener.i].cand,
            sock[listener.i].peer)
      BY DEF RxReady
    <3>3. sock'[listener.i].cand = sock[listener.i].cand
          /\ sock'[listener.i].peer = sock[listener.i].peer
      BY <1>3, <1>5, <3>1, <3>2, UpdateFacts
    <3>4. QED
      BY <1>6, <3>3
  <2>3. (nominated # 0 => nominated \in Slots)
    BY <1>1 DEF Types, Slots
  <2>4. FirstStart'
    BY <1>1, <1>2, <1>3, <1>4, <1>5, <1>6, <1>7, <2>1, <2>2, <2>3 DEF FirstStart
  <2>5. Fresh'
    <3>1. ASSUME NEW j \in Slots
          PROVE  /\ j > count => sock'[j].cand = 0 /\ sock'[j].state = "NONE"
                 /\ sock'[j].cand <= Len(cands)
                 /\ (sock'[j].state = "PROGRESS" => sock'[j].cand = 0)
      <4>1. sock[j].cand \in Nat /\ Len(cands) \in Nat /\ count \in Nat /\ j \in Nat
        BY <1>1, <3>1 DEF Types, Context, Slots
      <4>2. /\ j > count => sock[j].cand = 0 /\ sock[j].state = "NONE"
            /\ sock[j].cand <= Len(cands) /\ (sock[j].state = "PROGRESS" => sock[j].cand = 0)
        BY <2>1, <3>1 DEF Fresh
      <4>3. CASE j = listener.i
        BY <1>1, <1>2, <1>3, <1>4, <1>5, <1>6, <1>7, <2>1, <2>2, <2>3, <4>1, <4>2, <4>3, <2>1
           DEF Apart
      <4>4. CASE j # listener.i
        BY <1>1, <1>2, <1>3, <1>4, <1>5, <1>6, <1>7, <2>1, <2>2, <2>3, <4>1, <4>2, <4>4
      <4>5. QED
        BY <4>3, <4>4
    <3>2. QED
      BY <1>1, <1>2, <1>3, <1>4, <1>5, <1>6, <1>7, <2>1, <2>2, <2>3, <3>1 DEF Fresh
  <2>6. Apart'
    BY <1>1, <1>2, <1>3, <1>4, <1>5, <1>6, <1>7, <2>1, <2>2, <2>3 DEF Places, Apart
  <2>7. LossInv'
    BY <1>1, <1>2, <1>3, <1>4, <1>5, <1>6, <1>7, <2>1, <2>2, <2>3 DEF LossInv, LossNoticed
  <2>8. Reserved'
    <3>1. Newest => Newest'
      BY <1>1, <1>2, <1>3, <1>4, <1>5, <1>6, <1>7, <2>1, <2>2, <2>3 DEF Newest
    <3>3. (SessionReserves' <=> SessionReserves) /\ listener'.at # "tlsUpdate"
      BY <1>1, <1>2, <1>3, <1>4, <1>5, <1>6, <1>7, <2>1, <2>2, <2>3 DEF SessionReserves
    <3>4. (\A i, j \in Slots : i # j /\ sock[i].cand # 0 => sock[i].cand # sock[j].cand)
            => \A i, j \in Slots : i # j /\ sock'[i].cand # 0 => sock'[i].cand # sock'[j].cand
      BY <1>1, <1>2, <1>3, <1>4, <1>5, <1>6, <1>7, <2>1, <2>2, <2>3
    <3>5. QED
      BY <1>1, <1>2, <1>3, <1>4, <1>5, <1>6, <1>7, <2>1, <2>2, <2>3, <3>1, <3>3, <3>4 DEF Reserved
  <2>9. ReadyHasPair'
    BY <1>1, <1>2, <1>3, <1>4, <1>5, <1>6, <1>7, <2>1, <2>2, <2>3 DEF ReadyHasPair
  <2>10. QED
    BY <2>4, <2>5, <2>6, <2>7, <2>8, <2>9 DEF LifeInv
<1>13. QED
  BY <1>7, <1>8, <1>9, <1>10, <1>11, <1>12 DEF IInv

\* The listener's context gets the newest candidate, as UpdateGatheredInv says of the session's.
LEMMA ListenerUpdateInv ==
    ASSUME IInv, ListenerUpdate
    PROVE  IInv' /\ (OneLife /\ LifeInv => LifeInv')
<1>1. Types /\ Places /\ OpenInv /\ ClosedInv /\ GhostInv
  BY DEF IInv
<1>2. UNCHANGED <<iceState, count, nominated, polling, addLocal, timer, request,
                      closeReq, cands, remotes, pairs, lock, session, expired,
                      raced, doubled, deaf, reopened, budget>>
  BY DEF ListenerUpdate, sockVars, iceVars, requestVars, envVars
<1>3. listener.at = "tlsUpdate" /\ listener'.at = "idle" /\ listener'.i = listener.i
      /\ listener.i \in Slots
  BY <1>1 DEF ListenerUpdate, ListenerAt, Places
<1>4. listener' \in [at : ListenerSteps, i : 0..MaxContexts, peer : Remotes \cup {NoPeer},
                        ret : {"OK", "FOUND", "FAIL"}]
  BY <1>1 DEF ListenerUpdate, ListenerAt, Types
<1>5. Len(cands) \in 0..MaxContexts /\ "CREATE" \in SlotStates
  BY <1>1 DEF Types, SlotStates
<1>6. /\ sock' \in [Slots -> Context] /\ \A j \in Slots : j # listener.i => sock'[j] = sock[j]
      /\ sock'[listener.i].state = "CREATE" /\ (sock'[listener.i].open <=> sock[listener.i].open)
  BY <1>1, <1>3, <1>5, UpdateFacts DEF ListenerUpdate, Types
<1>7. Types'
  BY <1>1, <1>2, <1>3, <1>4, <1>5, <1>6 DEF Types
<1>8. Places'
  BY <1>1, <1>2, <1>3, <1>4, <1>5, <1>6, <1>7 DEF Places
<1>9. OpenInv'
  BY <1>1, <1>2, <1>3, <1>4, <1>5, <1>6, <1>7 DEF OpenInv
<1>10. ClosedInv'
  BY <1>1, <1>2, <1>3, <1>4, <1>5, <1>6, <1>7 DEF ClosedInv
<1>11. GhostInv'
  <2> SUFFICES ASSUME ~raced'
               PROVE  GhostInv'
    BY DEF GhostInv
  <2>1. ~raced /\ SessionHand /\ ListenerHand /\ \A j \in Slots : sock[j].state # "NONE"
          => sock[j].open
    BY <1>1, <1>2 DEF GhostInv
  <2>2. sock[listener.i].open /\ (listener.at # "recv" => sock[listener.i].state # "NONE")
    BY <1>3, <2>1 DEF ListenerHand
  <2>3. \A j \in Slots : sock'[j].state # "NONE" => sock'[j].open
    BY <1>3, <1>6, <2>1, <2>2
  <2>4. SessionHand'
    <3>1. session.at \in {"add", "update", "tls", "tlsDone"} => session.i \in Slots
      BY <1>1, BoundsAssumption DEF Places, Types, Slots
    <3>2. session.at \in {"add", "update"} => session.i # listener.i
      BY <1>3, <2>1, <2>2 DEF SessionHand
    <3>3. QED
      BY <1>2, <1>3, <1>6, <2>1, <3>1, <3>2 DEF SessionHand
  <2>5. ListenerHand'
    BY <1>1, <1>2, <1>3, <1>6, <2>1, <2>2 DEF ListenerHand
  <2>6. QED
    BY <2>3, <2>4, <2>5 DEF GhostInv
<1>12. ASSUME OneLife, LifeInv
      PROVE  LifeInv'
  <2>1. FirstStart /\ Fresh /\ Apart /\ LossInv /\ Reserved /\ ReadyHasPair
    BY <1>12 DEF LifeInv
  <2>2. sock'[listener.i].cand = Len(cands)
    BY <1>1, <1>3, <1>5, UpdateFacts DEF ListenerUpdate, Types
  <2>3. nominated # listener.i /\ (nominated # 0 => nominated \in Slots)
    BY <1>1, <1>3, <2>1 DEF Types, Apart, Slots
  <2>4. FirstStart'
    BY <1>1, <1>2, <1>3, <1>4, <1>5, <1>6, <1>7, <2>1, <2>2, <2>3 DEF FirstStart
  <2>5. Fresh'
    <3>1. ASSUME NEW j \in Slots
          PROVE  /\ j > count => sock'[j].cand = 0 /\ sock'[j].state = "NONE"
                 /\ sock'[j].cand <= Len(cands)
                 /\ (sock'[j].state = "PROGRESS" => sock'[j].cand = 0)
      <4>1. sock[j].cand \in Nat /\ Len(cands) \in Nat /\ count \in Nat /\ j \in Nat
        BY <1>1, <3>1 DEF Types, Context, Slots
      <4>2. /\ j > count => sock[j].cand = 0 /\ sock[j].state = "NONE"
            /\ sock[j].cand <= Len(cands) /\ (sock[j].state = "PROGRESS" => sock[j].cand = 0)
        BY <2>1, <3>1 DEF Fresh
      <4>3. CASE j = listener.i
        BY <1>1, <1>2, <1>3, <1>4, <1>5, <1>6, <1>7, <2>1, <2>2, <2>3, <4>1, <4>2, <4>3, <2>1
           DEF Apart
      <4>4. CASE j # listener.i
        BY <1>1, <1>2, <1>3, <1>4, <1>5, <1>6, <1>7, <2>1, <2>2, <2>3, <4>1, <4>2, <4>4
      <4>5. QED
        BY <4>3, <4>4
    <3>2. QED
      BY <1>1, <1>2, <1>3, <1>4, <1>5, <1>6, <1>7, <2>1, <2>2, <2>3, <3>1 DEF Fresh
  <2>6. Apart'
    BY <1>1, <1>2, <1>3, <1>4, <1>5, <1>6, <1>7, <2>1, <2>2, <2>3 DEF Places, Apart
  <2>7. LossInv'
    BY <1>1, <1>2, <1>3, <1>4, <1>5, <1>6, <1>7, <2>1, <2>2, <2>3 DEF LossInv, LossNoticed
  <2>8. Reserved'
    BY <1>1, <1>2, <1>3, <1>4, <1>5, <1>6, <1>7, <2>1, <2>2, <2>3
       DEF Reserved, Newest, SessionReserves
  <2>9. ReadyHasPair'
    BY <1>1, <1>2, <1>3, <1>4, <1>5, <1>6, <1>7, <2>1, <2>2, <2>3 DEF ReadyHasPair
  <2>10. QED
    BY <2>4, <2>5, <2>6, <2>7, <2>8, <2>9 DEF LifeInv
<1>13. QED
  BY <1>7, <1>8, <1>9, <1>10, <1>11, <1>12 DEF IInv

\* The candidate becomes valid and is paired; the context waits to become READY.
LEMMA RxAddressInv ==
    ASSUME IInv, RxAddress
    PROVE  IInv' /\ (OneLife /\ LifeInv => LifeInv')
<1>1. Types /\ Places /\ OpenInv /\ ClosedInv /\ GhostInv
  BY DEF IInv
<1>2. UNCHANGED <<iceState, sock, count, nominated, polling, addLocal, timer,
                      request, closeReq, remotes, lock, session, expired,
                      raced, doubled, deaf, reopened, budget>>
  BY DEF RxAddress, sockVars, iceVars, requestVars, envVars
<1>3. listener.at = "recv" /\ listener'.at = "ready" /\ listener'.i = listener.i
      /\ sock[listener.i].open /\ sock[listener.i].state # "NONE"
  BY <1>1 DEF RxAddress, ListenerAt, Reachable, Live
<1>4. listener' \in [at : ListenerSteps, i : 0..MaxContexts, peer : Remotes \cup {NoPeer},
                        ret : {"OK", "FOUND", "FAIL"}]
  BY <1>1 DEF RxAddress, ListenerAt, Types, Reachable, Live
<1>5. /\ cands' \in Seq(Candidate) /\ Len(cands') = Len(cands)
      /\ pairs' \subseteq (DOMAIN cands') \X remotes
  BY <1>1, ValidateFacts DEF RxAddress, Reachable, Types
<1>6. Types'
  BY <1>1, <1>2, <1>3, <1>4, <1>5 DEF Types
<1>7. Places'
  BY <1>1, <1>2, <1>3, <1>4, <1>5, <1>6 DEF Places
<1>8. OpenInv'
  BY <1>1, <1>2, <1>3, <1>4, <1>5, <1>6 DEF OpenInv
<1>9. ClosedInv'
  BY <1>1, <1>2, <1>3, <1>4, <1>5, <1>6 DEF ClosedInv
<1>10. GhostInv'
  BY <1>1, <1>2, <1>3, <1>4, <1>5, <1>6 DEF GhostInv, SessionHand, ListenerHand
<1>11. ASSUME OneLife, LifeInv
      PROVE  LifeInv'
  <2>1. FirstStart /\ Fresh /\ Apart /\ LossInv /\ Reserved /\ ReadyHasPair
    BY <1>11 DEF LifeInv
  <2>2. sock[listener.i].cand # 0 /\ lock = "free"
    BY <1>1 DEF RxAddress, Reachable, Types
  <2>3. pairs \subseteq pairs'
    BY <1>1, ValidateFacts DEF RxAddress, Reachable, Types
  <2>4. CandidatesKept
    BY <1>2 DEF CandidatesKept
  <2>5. FirstStart'
    BY <1>1, <1>2, <1>3, <1>4, <1>5, <1>6, <2>1, <2>2, <2>3, <2>4 DEF FirstStart
  <2>6. Fresh'
    BY <1>1, <1>2, <1>3, <1>4, <1>5, <1>6, <2>1, <2>2, <2>3, <2>4, FreshKept
  <2>7. Apart'
    BY <1>1, <1>2, <1>3, <1>4, <1>5, <1>6, <2>1, <2>2, <2>3, <2>4 DEF Places, Apart
  <2>8. LossInv'
    BY <1>1, <1>2, <1>3, <1>4, <1>5, <1>6, <2>1, <2>2, <2>3, <2>4 DEF LossInv, LossNoticed
  <2>9. Reserved'
    BY <1>1, <1>2, <1>3, <1>4, <1>5, <1>6, <2>1, <2>2, <2>3, <2>4, ReservedKept DEF SessionReserves
  <2>10. ReadyHasPair'
    BY <1>1, <1>2, <1>3, <1>4, <1>5, <1>6, <2>1, <2>2, <2>3, <2>4, PairKept
  <2>11. QED
    BY <2>5, <2>6, <2>7, <2>8, <2>9, <2>10 DEF LifeInv
<1>12. QED
  BY <1>6, <1>7, <1>8, <1>9, <1>10, <1>11 DEF IInv

\* The listener closes its context: of a nominated one nobody is told (deaf).
LEMMA RxErrorInv ==
    ASSUME IInv, RxError
    PROVE  IInv' /\ (OneLife /\ LifeInv => LifeInv')
<1>1. Types /\ Places /\ OpenInv /\ ClosedInv /\ GhostInv
  BY DEF IInv
<1>2. UNCHANGED <<iceState, count, nominated, polling, addLocal, timer, request,
                      closeReq, remotes, pairs, lock, session, expired,
                      doubled, reopened>>
  BY DEF RxError, sockVars, iceVars, requestVars, envVars
<1>3. listener.at = "recv" /\ listener'.at = "idle" /\ listener'.i = listener.i
      /\ listener.i \in Slots
  BY <1>1 DEF RxError, ListenerAt, Places
<1>4. listener' \in [at : ListenerSteps, i : 0..MaxContexts, peer : Remotes \cup {NoPeer},
                        ret : {"OK", "FOUND", "FAIL"}]
  BY <1>1 DEF RxError, ListenerAt, Types
<1>5. raced' \in BOOLEAN /\ (~raced' => ~raced)
  BY <1>1, Zenon DEF RxError
<1>6. sock' = FreeSocketContext(sock, listener.i)
  BY DEF RxError
<1>7. ~raced' /\ sock[listener.i].open => ~(session.at # "idle" /\ session.i = listener.i)
  BY <1>1, Zenon DEF RxError
<1>8. /\ sock' \in [Slots -> Context]
      /\ \A j \in Slots : j # listener.i => sock'[j] = sock[j]
      /\ \/ sock' = sock
         \/ ~sock'[listener.i].open /\ sock'[listener.i].state = "NONE"
            /\ ~(session.at # "idle" /\ session.i = listener.i /\ ~raced')
  BY <1>1, <1>3, <1>6, <1>7, FreeFacts DEF Types
<1>9. cands' \in Seq(Candidate) /\ Len(cands') = Len(cands) /\ DOMAIN cands' = DOMAIN cands
  BY <1>1, CloseCandidateFacts DEF RxError, Types
<1>10. deaf' \in BOOLEAN
  BY <1>1, Zenon DEF RxError
<1>11. budget' \in [faults : Nat, starts : Nat] /\ budget'.starts = budget.starts
  BY <1>1, <1>2, <1>3, <1>4, <1>5, <1>6, <1>7, <1>8, <1>9, <1>10, FaultFacts DEF RxError, Types
<1>12. Types'
  BY <1>1, <1>2, <1>3, <1>4, <1>5, <1>6, <1>7, <1>8, <1>9, <1>10, <1>11 DEF Types
<1>13. Places'
  BY <1>1, <1>2, <1>3, <1>4, <1>5, <1>6, <1>7, <1>8, <1>9, <1>10, <1>11, <1>12 DEF Places
<1>14. OpenInv'
  BY <1>1, <1>2, <1>3, <1>4, <1>5, <1>6, <1>7, <1>8, <1>9, <1>10, <1>11, <1>12 DEF OpenInv
<1>15. ClosedInv'
  BY <1>1, <1>2, <1>3, <1>4, <1>5, <1>6, <1>7, <1>8, <1>9, <1>10, <1>11, <1>12 DEF ClosedInv
<1>16. GhostInv'
  <2> SUFFICES ASSUME ~raced'
               PROVE  /\ \A j \in Slots : sock'[j].state # "NONE" => sock'[j].open
                      /\ SessionHand' /\ ListenerHand'
    BY DEF GhostInv
  <2>1. /\ SessionHand /\ \A j \in Slots : sock[j].state # "NONE" => sock[j].open
    BY <1>1, <1>5 DEF GhostInv
  <2>2. \A j \in Slots : sock'[j].state # "NONE" => sock'[j].open
    BY <1>3, <1>8, <2>1
  <2>3. session.at \in {"add", "update", "tls", "tlsDone"}
          => session.i \in Slots /\ session.at # "idle"
    BY <1>1, BoundsAssumption DEF Places, Types, Slots
  <2>4. SessionHand'
    BY <1>2, <1>8, <2>1, <2>3 DEF SessionHand
  <2>5. ListenerHand'
    BY <1>3 DEF ListenerHand
  <2>6. QED
    BY <2>2, <2>4, <2>5
<1>17. ASSUME OneLife, LifeInv
      PROVE  LifeInv'
  <2>1. FirstStart /\ Fresh /\ Apart /\ LossInv /\ Reserved /\ ReadyHasPair
    BY <1>17 DEF LifeInv
  <2>2. deaf => deaf'
    BY <1>1, Zenon DEF RxError
  <2>3. listener.i = nominated => deaf'
    BY <1>1, Zenon DEF RxError
  <2>4. CandidatesKept
    <3>1. sock \in [Slots -> Context]
      BY <1>1 DEF Types
    <3>2. QED
      BY <1>3, <1>6, <3>1, FreeFacts DEF CandidatesKept
  <2>5. FirstStart'
    BY <1>1, <1>2, <1>3, <1>4, <1>5, <1>6, <1>7, <1>8, <1>9, <1>10, <1>11, <1>12, <2>1, <2>2, <2>3,
       <2>4 DEF FirstStart
  <2>6. Fresh'
    BY <1>1, <1>2, <1>3, <1>4, <1>5, <1>6, <1>7, <1>8, <1>9, <1>10, <1>11, <1>12, <2>1, <2>2, <2>3,
       <2>4, FreshKept
  <2>7. Apart'
    BY <1>1, <1>2, <1>3, <1>4, <1>5, <1>6, <1>7, <1>8, <1>9, <1>10, <1>11, <1>12, <2>1, <2>2, <2>3,
       <2>4, ApartKept
  <2>8. LossInv'
    <3>1. nominated # 0 => nominated \in Slots
      BY <1>1 DEF Types, Slots
    <3>2. nominated # 0 /\ sock[nominated].state # "NONE" /\ sock'[nominated].state = "NONE"
            => deaf'
      BY <3>1, <1>1, <1>2, <1>3, <1>4, <1>5, <1>6, <1>7, <1>8, <1>9, <1>10, <1>11, <1>12, <2>1,
         <2>2, <2>3, <2>4
    <3>3. QED
      BY <1>1, <1>2, <1>3, <1>4, <1>5, <1>6, <1>7, <1>8, <1>9, <1>10, <1>11, <1>12, <2>1, <2>2,
         <2>3, <2>4, <3>2, LossKept
  <2>9. Reserved'
    BY <1>1, <1>2, <1>3, <1>4, <1>5, <1>6, <1>7, <1>8, <1>9, <1>10, <1>11, <1>12, <2>1, <2>2, <2>3,
       <2>4, ReservedKept DEF SessionReserves
  <2>10. ReadyHasPair'
    BY <1>1, <1>2, <1>3, <1>4, <1>5, <1>6, <1>7, <1>8, <1>9, <1>10, <1>11, <1>12, <2>1, <2>2, <2>3,
       <2>4, PairKept
  <2>11. QED
    BY <2>5, <2>6, <2>7, <2>8, <2>9, <2>10 DEF LifeInv
<1>18. QED
  BY <1>12, <1>13, <1>14, <1>15, <1>16, <1>17 DEF IInv

\* The listener closes the relay's context, which the session may hold.
LEMMA TurnSessionTerminatedInv ==
    ASSUME IInv, TurnSessionTerminated
    PROVE  IInv' /\ (OneLife /\ LifeInv => LifeInv')
<1>1. Types /\ Places /\ OpenInv /\ ClosedInv /\ GhostInv
  BY DEF IInv
<1>2. UNCHANGED <<iceState, count, nominated, polling, addLocal, timer, request,
                      closeReq, cands, remotes, pairs, lock, session, expired,
                      doubled, reopened, budget>>
  BY DEF TurnSessionTerminated, sockVars, iceVars, requestVars, envVars
<1>3. listener.at = "ended" /\ listener'.at = "idle" /\ listener'.i = listener.i
      /\ listener.i \in Slots
  BY <1>1 DEF TurnSessionTerminated, ListenerAt, Places
<1>4. listener' \in [at : ListenerSteps, i : 0..MaxContexts, peer : Remotes \cup {NoPeer},
                        ret : {"OK", "FOUND", "FAIL"}]
  BY <1>1 DEF TurnSessionTerminated, ListenerAt, Types
<1>5. raced' \in BOOLEAN /\ (~raced' => ~raced)
  BY <1>1, Zenon DEF TurnSessionTerminated
<1>6. sock' = FreeSocketContext(sock, listener.i)
  BY DEF TurnSessionTerminated
<1>7. ~raced' /\ sock[listener.i].open => ~(session.at # "idle" /\ session.i = listener.i)
  BY <1>1, Zenon DEF TurnSessionTerminated
<1>8. /\ sock' \in [Slots -> Context]
      /\ \A j \in Slots : j # listener.i => sock'[j] = sock[j]
      /\ \/ sock' = sock
         \/ ~sock'[listener.i].open /\ sock'[listener.i].state = "NONE"
            /\ ~(session.at # "idle" /\ session.i = listener.i /\ ~raced')
  BY <1>1, <1>3, <1>6, <1>7, FreeFacts DEF Types
<1>9. deaf' \in BOOLEAN
  BY <1>1, Zenon DEF TurnSessionTerminated
<1>10. Types'
  BY <1>1, <1>2, <1>3, <1>4, <1>5, <1>6, <1>7, <1>8, <1>9 DEF Types
<1>11. Places'
  BY <1>1, <1>2, <1>3, <1>4, <1>5, <1>6, <1>7, <1>8, <1>9, <1>10 DEF Places
<1>12. OpenInv'
  BY <1>1, <1>2, <1>3, <1>4, <1>5, <1>6, <1>7, <1>8, <1>9, <1>10 DEF OpenInv
<1>13. ClosedInv'
  BY <1>1, <1>2, <1>3, <1>4, <1>5, <1>6, <1>7, <1>8, <1>9, <1>10 DEF ClosedInv
<1>14. GhostInv'
  <2> SUFFICES ASSUME ~raced'
               PROVE  /\ \A j \in Slots : sock'[j].state # "NONE" => sock'[j].open
                      /\ SessionHand' /\ ListenerHand'
    BY DEF GhostInv
  <2>1. /\ SessionHand /\ \A j \in Slots : sock[j].state # "NONE" => sock[j].open
    BY <1>1, <1>5 DEF GhostInv
  <2>2. \A j \in Slots : sock'[j].state # "NONE" => sock'[j].open
    BY <1>3, <1>8, <2>1
  <2>3. session.at \in {"add", "update", "tls", "tlsDone"}
          => session.i \in Slots /\ session.at # "idle"
    BY <1>1, BoundsAssumption DEF Places, Types, Slots
  <2>4. SessionHand'
    BY <1>2, <1>8, <2>1, <2>3 DEF SessionHand
  <2>5. ListenerHand'
    BY <1>3 DEF ListenerHand
  <2>6. QED
    BY <2>2, <2>4, <2>5
<1>15. ASSUME OneLife, LifeInv
      PROVE  LifeInv'
  <2>1. FirstStart /\ Fresh /\ Apart /\ LossInv /\ Reserved /\ ReadyHasPair
    BY <1>15 DEF LifeInv
  <2>2. deaf => deaf'
    BY <1>1, Zenon DEF TurnSessionTerminated
  <2>3. listener.i = nominated => deaf'
    BY <1>1, Zenon DEF TurnSessionTerminated
  <2>4. CandidatesKept
    <3>1. sock \in [Slots -> Context]
      BY <1>1 DEF Types
    <3>2. QED
      BY <1>3, <1>6, <3>1, FreeFacts DEF CandidatesKept
  <2>5. FirstStart'
    BY <1>1, <1>2, <1>3, <1>4, <1>5, <1>6, <1>7, <1>8, <1>9, <1>10, <2>1, <2>2, <2>3, <2>4
       DEF FirstStart
  <2>6. Fresh'
    BY <1>1, <1>2, <1>3, <1>4, <1>5, <1>6, <1>7, <1>8, <1>9, <1>10, <2>1, <2>2, <2>3, <2>4,
       FreshKept
  <2>7. Apart'
    BY <1>1, <1>2, <1>3, <1>4, <1>5, <1>6, <1>7, <1>8, <1>9, <1>10, <2>1, <2>2, <2>3, <2>4,
       ApartKept
  <2>8. LossInv'
    <3>1. nominated # 0 => nominated \in Slots
      BY <1>1 DEF Types, Slots
    <3>2. nominated # 0 /\ sock[nominated].state # "NONE" /\ sock'[nominated].state = "NONE"
            => deaf'
      BY <3>1, <1>1, <1>2, <1>3, <1>4, <1>5, <1>6, <1>7, <1>8, <1>9, <1>10, <2>1, <2>2, <2>3, <2>4
    <3>3. QED
      BY <1>1, <1>2, <1>3, <1>4, <1>5, <1>6, <1>7, <1>8, <1>9, <1>10, <2>1, <2>2, <2>3, <2>4, <3>2,
         LossKept
  <2>9. Reserved'
    BY <1>1, <1>2, <1>3, <1>4, <1>5, <1>6, <1>7, <1>8, <1>9, <1>10, <2>1, <2>2, <2>3, <2>4,
       ReservedKept DEF SessionReserves
  <2>10. ReadyHasPair'
    BY <1>1, <1>2, <1>3, <1>4, <1>5, <1>6, <1>7, <1>8, <1>9, <1>10, <2>1, <2>2, <2>3, <2>4, PairKept
  <2>11. QED
    BY <2>5, <2>6, <2>7, <2>8, <2>9, <2>10 DEF LifeInv
<1>16. QED
  BY <1>10, <1>11, <1>12, <1>13, <1>14, <1>15 DEF IInv

\* A failed connection is closed; it had no candidate, so it was not nominated.
LEMMA ListenerHandshakeInv ==
    ASSUME IInv, ListenerHandshake
    PROVE  IInv' /\ (OneLife /\ LifeInv => LifeInv')
<1>1. Types /\ Places /\ OpenInv /\ ClosedInv /\ GhostInv
  BY DEF IInv
<1>2. UNCHANGED <<iceState, count, nominated, polling, addLocal, timer, request,
                      closeReq, cands, remotes, pairs, lock, session, expired,
                      doubled, deaf, reopened>>
  BY DEF ListenerHandshake, sockVars, iceVars, requestVars, envVars
<1>3. /\ listener.at = "tls" /\ listener.i \in Slots 
  BY <1>1 DEF ListenerHandshake, ListenerAt, Places
<1>4. listener' \in [at : ListenerSteps, i : 0..MaxContexts, peer : Remotes \cup {NoPeer},
                        ret : {"OK", "FOUND", "FAIL"}]
  BY <1>1 DEF ListenerHandshake, ListenerAt, Types
<1>5. \/ sock' = sock /\ raced' = raced /\ (ListenerAt("tlsAdd") \/ ListenerAt("idle"))
      \/ /\ sock' = FreeSocketContext(sock, listener.i) /\ ListenerAt("idle")
         /\ raced' = (raced \/ InSession(listener.i))
  BY Zenon DEF ListenerHandshake
<1>6. listener'.i = listener.i /\ (listener'.at = "tlsAdd" \/ listener'.at = "idle")
      /\ (ListenerAt("idle") => listener'.at = "idle")
  BY <1>1, <1>5 DEF ListenerAt, Types
<1>7. raced' \in BOOLEAN /\ (~raced' => ~raced)
  BY <1>1, <1>5, Zenon DEF Types
<1>8. \/ sock' = sock
      \/ /\ sock' = FreeSocketContext(sock, listener.i) /\ listener'.at = "idle"
         /\ (~raced' => ~InSession(listener.i))
  BY <1>1, <1>5, <1>6, Zenon
<1>9. /\ sock' \in [Slots -> Context]
      /\ \A j \in Slots :
           \/ sock'[j] = sock[j]
           \/ /\ j = listener.i /\ listener'.at = "idle"
              /\ ~sock'[j].open /\ sock'[j].state = "NONE" /\ (~raced' => ~InSession(j))
  BY <1>1, <1>3, <1>8, FreeFacts DEF Types
<1>10. budget' \in [faults : Nat, starts : Nat] /\ budget'.starts = budget.starts
  BY <1>1, <1>2, <1>3, <1>4, <1>5, <1>6, <1>7, <1>8, <1>9, FaultFacts
     DEF ListenerHandshake, Handshake, Types
<1>11. Types'
  BY <1>1, <1>2, <1>3, <1>4, <1>6, <1>7, <1>9, <1>10 DEF Types
<1>12. Places'
  BY <1>1, <1>2, <1>3, <1>4, <1>6, <1>7, <1>9, <1>10, <1>11 DEF Places
<1>13. OpenInv'
  BY <1>1, <1>2, <1>3, <1>4, <1>6, <1>7, <1>9, <1>10, <1>11 DEF OpenInv
<1>14. ClosedInv'
  BY <1>1, <1>2, <1>3, <1>4, <1>6, <1>7, <1>9, <1>10, <1>11 DEF ClosedInv
<1>15. GhostInv'
  BY <1>1, <1>2, <1>3, <1>4, <1>6, <1>7, <1>9, <1>10, <1>11, BoundsAssumption
     DEF Types, Slots, Places, GhostInv, SessionHand, ListenerHand
<1>16. ASSUME OneLife, LifeInv
      PROVE  LifeInv'
  <2>1. FirstStart /\ Fresh /\ Apart /\ LossInv /\ Reserved /\ ReadyHasPair
    BY <1>16 DEF LifeInv
  <2>2. CandidatesKept
    <3>1. sock \in [Slots -> Context]
      BY <1>1 DEF Types
    <3>2. QED
      BY <1>3, <1>8, <3>1, FreeFacts DEF CandidatesKept
  <2>3. FirstStart'
    BY <1>1, <1>2, <1>3, <1>4, <1>6, <1>7, <1>9, <1>10, <1>11, <2>1, <2>2 DEF FirstStart
  <2>4. Fresh'
    BY <1>1, <1>2, <1>3, <1>4, <1>6, <1>7, <1>9, <1>10, <1>11, <2>1, <2>2, FreshKept
  <2>5. Apart'
    BY <1>1, <1>2, <1>3, <1>4, <1>6, <1>7, <1>9, <1>10, <1>11, <2>1, <2>2
       DEF Types, Slots, Places, Apart
  <2>6. LossInv'
    BY <1>1, <1>2, <1>3, <1>4, <1>6, <1>7, <1>9, <1>10, <1>11, <2>1, <2>2
       DEF Types, Slots, LossInv, LossNoticed, Apart
  <2>7. Reserved'
    BY <1>1, <1>2, <1>3, <1>4, <1>6, <1>7, <1>9, <1>10, <1>11, <2>1, <2>2, ReservedKept
       DEF SessionReserves
  <2>8. ReadyHasPair'
    BY <1>1, <1>2, <1>3, <1>4, <1>6, <1>7, <1>9, <1>10, <1>11, <2>1, <2>2, PairKept
  <2>9. QED
    BY <2>3, <2>4, <2>5, <2>6, <2>7, <2>8 DEF LifeInv
<1>17. QED
  BY <1>11, <1>12, <1>13, <1>14, <1>15, <1>16 DEF IInv

\* The listener makes a candidate: the session may have reserved one too (doubled).
LEMMA ListenerAddCandidateInv ==
    ASSUME IInv, ListenerAddCandidate
    PROVE  IInv' /\ (OneLife /\ LifeInv => LifeInv')
<1>1. Types /\ Places /\ OpenInv /\ ClosedInv /\ GhostInv
  BY DEF IInv
<1>2. UNCHANGED <<iceState, count, nominated, polling, addLocal, timer, request,
                      closeReq, remotes, lock, session, expired, deaf,
                      reopened, budget>>
  BY DEF ListenerAddCandidate, sockVars, iceVars, requestVars, envVars
<1>3. listener.at = "tlsAdd" /\ listener.i \in Slots
      /\ session.at \notin {"local", "tls", "tlsDone"}
  BY <1>1 DEF ListenerAddCandidate, ListenerAt, Places
<1>4. listener' \in [at : ListenerSteps, i : 0..MaxContexts, peer : Remotes \cup {NoPeer},
                        ret : {"OK", "FOUND", "FAIL"}]
  BY <1>1 DEF ListenerAddCandidate, ListenerAt, Types
<1>5. \/ sock' = sock /\ raced' = raced /\ ListenerAt("tlsUpdate") /\ ~LibraryFull
           /\ Ice_AddCandidate("relay")
      \/ /\ sock' = FreeSocketContext(sock, listener.i) /\ ListenerAt("idle")
         /\ raced' = (raced \/ InSession(listener.i)) /\ cands' = cands /\ pairs' = pairs
  BY Zenon DEF ListenerAddCandidate
<1>6. /\ cands' \in Seq(Candidate) /\ Len(cands') \in Nat /\ Len(cands') <= MaxContexts
      /\ pairs' \subseteq (DOMAIN cands') \X remotes
  <2>1. "relay" \in Kinds
    BY DEF Kinds
  <2>2. QED
    BY <1>1, <1>5, <2>1, AddFacts, BoundsAssumption DEF Types, LibraryFull
<1>7. listener'.i = listener.i /\ (listener'.at = "tlsUpdate" \/ listener'.at = "idle")
      /\ (ListenerAt("idle") => listener'.at = "idle")
  BY <1>1, <1>5 DEF ListenerAt, Types
<1>8. raced' \in BOOLEAN /\ doubled' \in BOOLEAN /\ (~raced' => ~raced)
  BY <1>1, <1>5, Zenon DEF Types, ListenerAddCandidate
<1>9. \/ sock' = sock
      \/ /\ sock' = FreeSocketContext(sock, listener.i) /\ listener'.at = "idle"
         /\ (~raced' => ~InSession(listener.i))
  BY <1>1, <1>5, <1>7, Zenon
<1>10. /\ sock' \in [Slots -> Context]
      /\ \A j \in Slots :
           \/ sock'[j] = sock[j]
           \/ /\ j = listener.i /\ listener'.at = "idle"
              /\ ~sock'[j].open /\ sock'[j].state = "NONE" /\ (~raced' => ~InSession(j))
  BY <1>1, <1>3, <1>9, FreeFacts DEF Types
<1>11. Types'
  BY <1>1, <1>2, <1>3, <1>4, <1>6, <1>7, <1>8, <1>10 DEF Types
<1>12. Places'
  BY <1>1, <1>2, <1>3, <1>4, <1>6, <1>7, <1>8, <1>10, <1>11 DEF Places
<1>13. OpenInv'
  BY <1>1, <1>2, <1>3, <1>4, <1>6, <1>7, <1>8, <1>10, <1>11 DEF OpenInv
<1>14. ClosedInv'
  BY <1>1, <1>2, <1>3, <1>4, <1>6, <1>7, <1>8, <1>10, <1>11 DEF ClosedInv
<1>15. GhostInv'
  BY <1>1, <1>2, <1>3, <1>4, <1>6, <1>7, <1>8, <1>10, <1>11
     DEF Places, GhostInv, SessionHand, ListenerHand
<1>16. ASSUME OneLife, LifeInv
      PROVE  LifeInv'
  <2>1. FirstStart /\ Fresh /\ Apart /\ LossInv /\ Reserved /\ ReadyHasPair
    BY <1>16 DEF LifeInv
  <2>2. \/ /\ sock' = sock /\ listener'.at = "tlsUpdate" /\ Len(cands') = Len(cands) + 1
           /\ pairs \subseteq pairs'
        \/ /\ sock' = FreeSocketContext(sock, listener.i) /\ listener'.at = "idle"
           /\ cands' = cands /\ pairs' = pairs
    <3>1. "relay" \in Kinds
      BY DEF Kinds
    <3>2. CASE sock' = sock /\ ListenerAt("tlsUpdate") /\ ~LibraryFull /\ Ice_AddCandidate("relay")
      <4>1. Len(cands) < MaxContexts /\ listener'.at = "tlsUpdate"
        BY <1>1, <3>2, BoundsAssumption DEF LibraryFull, ListenerAt
      <4>2. QED
        BY <1>1, <3>1, <3>2, <4>1, AddFacts DEF Types
    <3>3. QED
      BY <1>5, <1>7, <3>2
  <2>3. ~doubled' => ~doubled /\ session.at # "update"
    BY <1>1, Zenon DEF ListenerAddCandidate
  <2>4. nominated # listener.i /\ (nominated # 0 => nominated \in Slots)
    BY <1>1, <1>3, <2>1 DEF Types, Apart, Slots
  <2>5. cands = <<>> <=> Len(cands) = 0
    BY <1>1 DEF Types
  <2>6. cands' = <<>> <=> Len(cands') = 0
    BY <1>6
  <2>7. Len(cands) \in Nat
    BY <1>1 DEF Types
  <2>8. CandidatesKept
    <3>1. sock \in [Slots -> Context]
      BY <1>1 DEF Types
    <3>2. QED
      BY <1>3, <1>9, <3>1, FreeFacts DEF CandidatesKept
  <2>9. FirstStart'
    BY <1>1, <1>2, <1>3, <1>4, <1>6, <1>7, <1>8, <1>10, <1>11, <2>1, <2>2, <2>3, <2>4, <2>5, <2>6,
       <2>7, <2>8 DEF FirstStart
  <2>10. Fresh'
    BY <1>1, <1>2, <1>3, <1>4, <1>6, <1>7, <1>8, <1>10, <1>11, <2>1, <2>2, <2>3, <2>4, <2>5, <2>6,
       <2>7, <2>8, FreshKept
  <2>11. Apart'
    BY <1>1, <1>2, <1>3, <1>4, <1>6, <1>7, <1>8, <1>10, <1>11, <2>1, <2>2, <2>3, <2>4, <2>5, <2>6,
       <2>7, <2>8 DEF Places, Apart
  <2>12. LossInv'
    BY <1>1, <1>2, <1>3, <1>4, <1>6, <1>7, <1>8, <1>10, <1>11, <2>1, <2>2, <2>3, <2>4, <2>5, <2>6,
       <2>7, <2>8 DEF LossInv, LossNoticed
  <2>13. Reserved'
    <3>1. CASE listener'.at = "idle"
      <4>1. doubled => doubled'
        BY <1>1, <1>8, <2>3, Zenon
      <4>2. QED
        BY <1>1, <1>2, <1>3, <1>4, <1>6, <1>7, <1>8, <1>10, <1>11, <2>1, <2>2, <2>3, <2>4, <2>5,
           <2>6, <2>7, <2>8, <3>1, <4>1, ReservedKept DEF SessionReserves
    <3>2. CASE Len(cands') = Len(cands) + 1 /\ sock' = sock /\ listener'.at = "tlsUpdate"
      <4>1. Newest'
        BY <1>1, <2>1, <2>7, <3>2 DEF Context, Fresh, Newest
      <4>2. QED
        BY <1>2, <2>1, <2>3, <2>6, <2>7, <3>2, <4>1 DEF Reserved, SessionReserves
    <3>3. QED
      BY <2>2, <3>1, <3>2
  <2>14. ReadyHasPair'
    BY <1>1, <1>2, <1>3, <1>4, <1>6, <1>7, <1>8, <1>10, <1>11, <2>1, <2>2, <2>3, <2>4, <2>5, <2>6,
       <2>7, <2>8, PairKept
  <2>15. QED
    BY <2>9, <2>10, <2>11, <2>12, <2>13, <2>14 DEF LifeInv
<1>17. QED
  BY <1>11, <1>12, <1>13, <1>14, <1>15, <1>16 DEF IInv

\* The nominated context is SELECTED and knows its peer, its socket is as it was.
LEMMA NominateFacts ==
    ASSUME Types, NEW r \in Remotes \cup {NoPeer}, listener.i \in Slots,
             NominateSocket(listener.i, r)
    PROVE  /\ sock' \in [Slots -> Context] /\ \A j \in Slots : j # listener.i => sock'[j] = sock[j]
           /\ sock'[listener.i].state = "SELECTED"
           /\ (sock'[listener.i].open <=> sock[listener.i].open)
           /\ sock'[listener.i].cand = sock[listener.i].cand /\ sock'[listener.i].peer = r
           /\ nominated' = listener.i
           /\ iceState' \in {iceState, "READY"} /\ timer' \in BOOLEAN /\ reopened' \in BOOLEAN
<1>1. sock[listener.i] \in Context /\ "SELECTED" \in SlotStates
  BY DEF Types, SlotStates
<1> DEFINE new == [sock[listener.i] EXCEPT !.state = "SELECTED", !.peer = r]
<1>2. new \in Context /\ new.state = "SELECTED" /\ new.cand = sock[listener.i].cand /\ new.peer = r
  BY <1>1 DEF Context
<1>3. new.open <=> sock[listener.i].open
  BY <1>1, Zenon DEF Context
<1>4. sock' = [sock EXCEPT ![listener.i] = new]
  BY DEF NominateSocket, Types
<1>5. sock' \in [Slots -> Context] /\ sock'[listener.i] = new /\ \A j \in Slots : j # listener.i
        => sock'[j] = sock[j]
  BY <1>2, <1>4 DEF Types
<1>6. timer' \in BOOLEAN /\ reopened' \in BOOLEAN
  BY Zenon DEF NominateSocket, Types, Arm
<1>7. nominated' = listener.i /\ iceState' \in {iceState, "READY"}
  BY DEF NominateSocket
<1> HIDE DEF new
<1>8. QED
  BY <1>2, <1>3, <1>5, <1>6, <1>7

\* The pair found is nominated, in the context of the packet; a late nomination in a
\* controller that is closing has set reopened.
LEMMA NominateInv ==
    ASSUME IInv, Nominate
    PROVE  IInv' /\ (OneLife /\ LifeInv => LifeInv')
<1>1. Types /\ Places /\ OpenInv /\ ClosedInv /\ GhostInv
  BY DEF IInv
<1>2. UNCHANGED <<count, polling, addLocal, request, closeReq, cands, remotes, pairs,
                      lock, session, expired, raced, doubled, deaf, budget>>
  BY DEF Nominate, sockVars, iceVars, requestVars, envVars
<1>3. /\ listener.at = "nominate" /\ listener'.at = "recv" /\ listener'.i = listener.i
      /\ listener.i \in Slots /\ listener.peer \in Remotes \cup {NoPeer}
  BY <1>1 DEF Nominate, ListenerAt, Types, Places
<1>4. listener' \in [at : ListenerSteps, i : 0..MaxContexts, peer : Remotes \cup {NoPeer},
                        ret : {"OK", "FOUND", "FAIL"}]
  BY <1>1 DEF Nominate, ListenerAt, Types
<1>5. \/ UNCHANGED <<sock, nominated, iceState, timer, reopened>>
      \/ \E r \in Remotes \cup {NoPeer} : NominateSocket(listener.i, r)
  BY <1>1, Zenon DEF Nominate, Types
<1>6. \/ UNCHANGED <<sock, nominated, iceState, timer, reopened>>
      \/ /\ sock' \in [Slots -> Context] /\ \A j \in Slots : j # listener.i => sock'[j] = sock[j]
         /\ sock'[listener.i].state = "SELECTED"
         /\ (sock'[listener.i].open <=> sock[listener.i].open)
         /\ sock'[listener.i].cand = sock[listener.i].cand
         /\ sock'[listener.i].peer \in Remotes \cup {NoPeer}
         /\ nominated' = listener.i
         /\ iceState' \in {iceState, "READY"} /\ timer' \in BOOLEAN /\ reopened' \in BOOLEAN
  BY <1>1, <1>3, <1>5, NominateFacts
<1>7. nominated' \in 0..MaxContexts
  BY <1>1, <1>3, <1>6 DEF Types
<1>8. Types'
  BY <1>1, <1>2, <1>3, <1>4, <1>5, <1>6, <1>7 DEF Types
<1>9. Places'
  BY <1>1, <1>2, <1>3, <1>4, <1>5, <1>6, <1>7, <1>8 DEF Places
<1>10. OpenInv'
  BY <1>1, <1>2, <1>3, <1>4, <1>5, <1>6, <1>7, <1>8 DEF OpenInv
<1>11. ClosedInv'
  BY <1>1, <1>2, <1>3, <1>4, <1>5, <1>6, <1>7, <1>8 DEF ClosedInv
<1>12. GhostInv'
  <2> SUFFICES ASSUME ~raced'
               PROVE  /\ \A j \in Slots : sock'[j].state # "NONE" => sock'[j].open
                      /\ SessionHand' /\ ListenerHand'
    BY DEF GhostInv
  <2>1. /\ SessionHand /\ ListenerHand /\ \A j \in Slots : sock[j].state # "NONE" => sock[j].open
    BY <1>1, <1>2 DEF GhostInv
  <2>2. listener.i <= count /\ sock[listener.i].open /\ sock[listener.i].state # "NONE"
    BY <1>3, <2>1 DEF ListenerHand
  <2>3. \A j \in Slots : sock'[j].state # "NONE" => sock'[j].open
    BY <1>3, <1>6, <2>1, <2>2
  <2>4. session.at \in {"add", "update", "tls", "tlsDone"} => session.i \in Slots
    BY <1>1, BoundsAssumption DEF Places, Types, Slots
  <2>5. SessionHand'
    BY <1>2, <1>6, <2>1, <2>2, <2>4 DEF SessionHand
  <2>6. ListenerHand'
    BY <1>2, <1>3, <1>6, <2>2 DEF ListenerHand
  <2>7. QED
    BY <2>3, <2>5, <2>6
<1>13. ASSUME OneLife, LifeInv
      PROVE  LifeInv'
  <2>1. FirstStart /\ Fresh /\ Apart /\ LossInv /\ Reserved /\ ReadyHasPair
    BY <1>13 DEF LifeInv
  <2>2. \/ UNCHANGED <<sock, nominated, iceState, timer, reopened>>
        \/ /\ \A j \in Slots : j # listener.i => sock'[j] = sock[j]
           /\ sock'[listener.i].state = "SELECTED" /\ nominated' = listener.i
           /\ \A j \in Slots : sock'[j].cand = sock[j].cand
           /\ <<sock'[listener.i].cand, sock'[listener.i].peer>> \in pairs
           /\ iceState' \in {iceState, "READY"} /\ (reopened => reopened')
           /\ (iceState = "CLOSING" => iceState' = "CLOSING" \/ reopened')
    <3>1. \/ UNCHANGED <<sock, nominated, iceState, timer, reopened>>
          \/ \E r \in Remotes \cup {NoPeer} : PairKnown(listener.i, r)
               /\ NominateSocket(listener.i, r)
      BY <1>1, Zenon DEF Nominate, Types
    <3>2. ASSUME NEW r \in Remotes \cup {NoPeer}, PairKnown(listener.i, r),
                   NominateSocket(listener.i, r)
          PROVE  /\ \A j \in Slots : j # listener.i => sock'[j] = sock[j]
                 /\ sock'[listener.i].state = "SELECTED" /\ nominated' = listener.i
                 /\ \A j \in Slots : sock'[j].cand = sock[j].cand
                 /\ <<sock'[listener.i].cand, sock'[listener.i].peer>> \in pairs
                 /\ iceState' \in {iceState, "READY"} /\ (reopened => reopened')
                 /\ (iceState = "CLOSING" => iceState' = "CLOSING" \/ reopened')
      <4>1. Types /\ listener.i \in Slots
        BY <1>1, <1>3
      <4>2. (reopened => reopened') /\ (iceState = "CLOSING" => iceState' = "CLOSING" \/ reopened')
        BY <3>2, Zenon DEF NominateSocket
      <4>3. QED
        BY <3>2, <4>1, <4>2, NominateFacts DEF PairKnown
    <3>3. QED
      BY <3>1, <3>2
  <2>3. listener.i <= count /\ sock[listener.i].cand # 0 /\ (nominated # 0 => nominated \in Slots)
        /\ listener.i # 0
    BY <1>1, <1>3, <2>1 DEF Apart, Types, Slots
  <2>4. session.at \in {"add", "update", "tls", "tlsDone"} => listener.i # session.i
    BY <1>3, <2>1 DEF Apart
  <2>5. FirstStart'
    BY <1>1, <1>2, <1>3, <1>8, <1>9, <2>1, <2>2, <2>3, <2>4 DEF FirstStart
  <2>6. Fresh'
    <3>1. ASSUME NEW j \in Slots
          PROVE  /\ j > count => sock'[j].cand = 0 /\ sock'[j].state = "NONE"
                 /\ sock'[j].cand <= Len(cands)
                 /\ (sock'[j].state = "PROGRESS" => sock'[j].cand = 0)
      <4>1. sock[j].cand \in Nat /\ Len(cands) \in Nat /\ count \in Nat /\ j \in Nat
        BY <1>1, <3>1 DEF Types, Context, Slots
      <4>2. /\ j > count => sock[j].cand = 0 /\ sock[j].state = "NONE"
            /\ sock[j].cand <= Len(cands) /\ (sock[j].state = "PROGRESS" => sock[j].cand = 0)
        BY <2>1, <3>1 DEF Fresh
      <4>3. CASE j = listener.i
        BY <1>1, <1>2, <1>3, <1>8, <1>9, <2>1, <2>2, <2>3, <2>4, <4>1, <4>2, <4>3, <2>1
      <4>4. CASE j # listener.i
        BY <1>1, <1>2, <1>3, <1>8, <1>9, <2>1, <2>2, <2>3, <2>4, <4>1, <4>2, <4>4
      <4>5. QED
        BY <4>3, <4>4
    <3>2. QED
      BY <1>1, <1>2, <1>3, <1>8, <1>9, <2>1, <2>2, <2>3, <2>4, <3>1 DEF Fresh
  <2>7. Apart'
    BY <1>1, <1>2, <1>3, <1>8, <1>9, <2>1, <2>2, <2>3, <2>4 DEF Places, Apart
  <2>8. LossInv'
    BY <1>1, <1>2, <1>3, <1>8, <1>9, <2>1, <2>2, <2>3, <2>4 DEF LossInv, LossNoticed
  <2>9. Reserved'
    <3>1. Newest => Newest'
      BY <1>1, <1>2, <1>3, <1>8, <1>9, <2>1, <2>2, <2>3, <2>4 DEF Newest
    <3>3. (SessionReserves' <=> SessionReserves) /\ listener'.at # "tlsUpdate"
      BY <1>1, <1>2, <1>3, <1>8, <1>9, <2>1, <2>2, <2>3, <2>4 DEF SessionReserves
    <3>4. (\A i, j \in Slots : i # j /\ sock[i].cand # 0 => sock[i].cand # sock[j].cand)
            => \A i, j \in Slots : i # j /\ sock'[i].cand # 0 => sock'[i].cand # sock'[j].cand
      BY <1>1, <1>2, <1>3, <1>8, <1>9, <2>1, <2>2, <2>3, <2>4
    <3>5. QED
      BY <1>1, <1>2, <1>3, <1>8, <1>9, <2>1, <2>2, <2>3, <2>4, <3>1, <3>3, <3>4 DEF Reserved
  <2>10. ReadyHasPair'
    BY <1>1, <1>2, <1>3, <1>8, <1>9, <2>1, <2>2, <2>3, <2>4 DEF ReadyHasPair
  <2>11. QED
    BY <2>5, <2>6, <2>7, <2>8, <2>9, <2>10 DEF LifeInv
<1>14. QED
  BY <1>8, <1>9, <1>10, <1>11, <1>12, <1>13 DEF IInv

\* Media moves the nomination to the context of the packet, which is in use.
LEMMA RxDataInv ==
    ASSUME IInv, RxData
    PROVE  IInv' /\ (OneLife /\ LifeInv => LifeInv')
<1>1. Types /\ Places /\ OpenInv /\ ClosedInv /\ GhostInv
  BY DEF IInv
<1>2. UNCHANGED <<count, polling, addLocal, request, closeReq, cands, remotes, pairs,
                      lock, session, expired, raced, doubled, deaf, budget>>
  BY DEF RxData, sockVars, iceVars, requestVars, envVars
<1>3. /\ listener.at = "recv" /\ listener.i \in Slots /\ sock[listener.i].open
      /\ sock[listener.i].state # "NONE"
      /\ listener'.i = listener.i
      /\ (listener'.at = "recv" \/ (listener'.at = "deliver" /\ nominated' = listener.i))
  BY <1>1 DEF RxData, ListenerAt, Types, Places, Reachable, Live, NominateSocket
<1>4. listener' \in [at : ListenerSteps, i : 0..MaxContexts, peer : Remotes \cup {NoPeer},
                        ret : {"OK", "FOUND", "FAIL"}]
  BY <1>1, ZenonT(30) DEF RxData, ListenerAt, Types, Reachable, Live, NominateSocket
<1>5. \/ UNCHANGED <<sock, nominated, iceState, timer, reopened>>
      \/ \E r \in Remotes \cup {NoPeer} : NominateSocket(listener.i, r)
  BY <1>1, Zenon DEF RxData, Types
<1>6. \/ UNCHANGED <<sock, nominated, iceState, timer, reopened>>
      \/ /\ sock' \in [Slots -> Context] /\ \A j \in Slots : j # listener.i => sock'[j] = sock[j]
         /\ sock'[listener.i].state = "SELECTED"
         /\ (sock'[listener.i].open <=> sock[listener.i].open)
         /\ sock'[listener.i].cand = sock[listener.i].cand
         /\ sock'[listener.i].peer \in Remotes \cup {NoPeer}
         /\ nominated' = listener.i
         /\ iceState' \in {iceState, "READY"} /\ timer' \in BOOLEAN /\ reopened' \in BOOLEAN
  BY <1>1, <1>3, <1>5, NominateFacts
<1>7. nominated' \in 0..MaxContexts
  BY <1>1, <1>3, <1>6 DEF Types
<1>8. Types'
  BY <1>1, <1>2, <1>3, <1>4, <1>5, <1>6, <1>7 DEF Types
<1>9. Places'
  BY <1>1, <1>2, <1>3, <1>4, <1>5, <1>6, <1>7, <1>8 DEF Places
<1>10. OpenInv'
  BY <1>1, <1>2, <1>3, <1>4, <1>5, <1>6, <1>7, <1>8 DEF Slots, Places, OpenInv
<1>11. ClosedInv'
  BY <1>1, <1>2, <1>3, <1>4, <1>5, <1>6, <1>7, <1>8 DEF ClosedInv
<1>12. GhostInv'
  <2> SUFFICES ASSUME ~raced'
               PROVE  /\ \A j \in Slots : sock'[j].state # "NONE" => sock'[j].open
                      /\ SessionHand' /\ ListenerHand'
    BY DEF GhostInv
  <2>1. /\ SessionHand /\ ListenerHand /\ \A j \in Slots : sock[j].state # "NONE" => sock[j].open
    BY <1>1, <1>2 DEF GhostInv
  <2>2. listener.i <= count /\ sock[listener.i].open /\ sock[listener.i].state # "NONE"
    BY <1>3, <2>1 DEF ListenerHand
  <2>3. \A j \in Slots : sock'[j].state # "NONE" => sock'[j].open
    BY <1>3, <1>6, <2>1, <2>2
  <2>4. session.at \in {"add", "update", "tls", "tlsDone"} => session.i \in Slots
    BY <1>1, BoundsAssumption DEF Places, Types, Slots
  <2>5. SessionHand'
    BY <1>2, <1>6, <2>1, <2>2, <2>4 DEF SessionHand
  <2>6. ListenerHand'
    BY <1>2, <1>3, <1>6, <2>2 DEF ListenerHand
  <2>7. QED
    BY <2>3, <2>5, <2>6
<1>13. ASSUME OneLife, LifeInv
      PROVE  LifeInv'
  <2>1. FirstStart /\ Fresh /\ Apart /\ LossInv /\ Reserved /\ ReadyHasPair
    BY <1>13 DEF LifeInv
  <2>2. \/ UNCHANGED <<sock, nominated, iceState, timer, reopened>>
        \/ /\ \A j \in Slots : j # listener.i => sock'[j] = sock[j]
           /\ sock'[listener.i].state = "SELECTED" /\ nominated' = listener.i
           /\ \A j \in Slots : sock'[j].cand = sock[j].cand
           /\ <<sock'[listener.i].cand, sock'[listener.i].peer>> \in pairs
           /\ iceState' \in {iceState, "READY"} /\ (reopened => reopened')
           /\ (iceState = "CLOSING" => iceState' = "CLOSING" \/ reopened')
    <3>1. \/ UNCHANGED <<sock, nominated, iceState, timer, reopened>>
          \/ \E r \in Remotes \cup {NoPeer} : PairKnown(listener.i, r)
               /\ NominateSocket(listener.i, r)
      BY <1>1, Zenon DEF RxData, Types
    <3>2. ASSUME NEW r \in Remotes \cup {NoPeer}, PairKnown(listener.i, r),
                   NominateSocket(listener.i, r)
          PROVE  /\ \A j \in Slots : j # listener.i => sock'[j] = sock[j]
                 /\ sock'[listener.i].state = "SELECTED" /\ nominated' = listener.i
                 /\ \A j \in Slots : sock'[j].cand = sock[j].cand
                 /\ <<sock'[listener.i].cand, sock'[listener.i].peer>> \in pairs
                 /\ iceState' \in {iceState, "READY"} /\ (reopened => reopened')
                 /\ (iceState = "CLOSING" => iceState' = "CLOSING" \/ reopened')
      <4>1. Types /\ listener.i \in Slots
        BY <1>1, <1>3
      <4>2. (reopened => reopened') /\ (iceState = "CLOSING" => iceState' = "CLOSING" \/ reopened')
        BY <3>2, Zenon DEF NominateSocket
      <4>3. QED
        BY <3>2, <4>1, <4>2, NominateFacts DEF PairKnown
    <3>3. QED
      BY <3>1, <3>2
  <2>3. listener.i <= count /\ sock[listener.i].cand # 0 /\ (nominated # 0 => nominated \in Slots)
        /\ listener.i # 0
    BY <1>1, <1>3, <2>1 DEF RxData, Reachable, Live, Types, Slots
  <2>4. session.at \in {"add", "update", "tls", "tlsDone"} => listener.i # session.i
    BY <1>1, <1>3, <2>1, <2>3 DEF RxData, Apart, Places
  <2>5. FirstStart'
    BY <1>1, <1>2, <1>3, <1>8, <1>9, <2>1, <2>2, <2>3, <2>4 DEF FirstStart
  <2>6. Fresh'
    <3>1. ASSUME NEW j \in Slots
          PROVE  /\ j > count => sock'[j].cand = 0 /\ sock'[j].state = "NONE"
                 /\ sock'[j].cand <= Len(cands)
                 /\ (sock'[j].state = "PROGRESS" => sock'[j].cand = 0)
      <4>1. sock[j].cand \in Nat /\ Len(cands) \in Nat /\ count \in Nat /\ j \in Nat
        BY <1>1, <3>1 DEF Types, Context, Slots
      <4>2. /\ j > count => sock[j].cand = 0 /\ sock[j].state = "NONE"
            /\ sock[j].cand <= Len(cands) /\ (sock[j].state = "PROGRESS" => sock[j].cand = 0)
        BY <2>1, <3>1 DEF Fresh
      <4>3. CASE j = listener.i
        BY <1>1, <1>2, <1>3, <1>8, <1>9, <2>1, <2>2, <2>3, <2>4, <4>1, <4>2, <4>3, <2>1
      <4>4. CASE j # listener.i
        BY <1>1, <1>2, <1>3, <1>8, <1>9, <2>1, <2>2, <2>3, <2>4, <4>1, <4>2, <4>4
      <4>5. QED
        BY <4>3, <4>4
    <3>2. QED
      BY <1>1, <1>2, <1>3, <1>8, <1>9, <2>1, <2>2, <2>3, <2>4, <3>1 DEF Fresh
  <2>7. Apart'
    BY <1>1, <1>2, <1>3, <1>8, <1>9, <2>1, <2>2, <2>3, <2>4 DEF Places, Apart
  <2>8. LossInv'
    BY <1>1, <1>2, <1>3, <1>8, <1>9, <2>1, <2>2, <2>3, <2>4 DEF LossInv, LossNoticed
  <2>9. Reserved'
    <3>1. Newest => Newest'
      BY <1>1, <1>2, <1>3, <1>8, <1>9, <2>1, <2>2, <2>3, <2>4 DEF Newest
    <3>3. (SessionReserves' <=> SessionReserves) /\ listener'.at # "tlsUpdate"
      BY <1>1, <1>2, <1>3, <1>8, <1>9, <2>1, <2>2, <2>3, <2>4 DEF SessionReserves
    <3>4. (\A i, j \in Slots : i # j /\ sock[i].cand # 0 => sock[i].cand # sock[j].cand)
            => \A i, j \in Slots : i # j /\ sock'[i].cand # 0 => sock'[i].cand # sock'[j].cand
      BY <1>1, <1>2, <1>3, <1>8, <1>9, <2>1, <2>2, <2>3, <2>4
    <3>5. QED
      BY <1>1, <1>2, <1>3, <1>8, <1>9, <2>1, <2>2, <2>3, <2>4, <3>1, <3>3, <3>4 DEF Reserved
  <2>10. ReadyHasPair'
    BY <1>1, <1>2, <1>3, <1>8, <1>9, <2>1, <2>2, <2>3, <2>4 DEF ReadyHasPair
  <2>11. QED
    BY <2>5, <2>6, <2>7, <2>8, <2>9, <2>10 DEF LifeInv
<1>14. QED
  BY <1>8, <1>9, <1>10, <1>11, <1>12, <1>13 DEF IInv

\* A request may add a pair and be answered; an answer that fails closes the context.
LEMMA RxRequestInv ==
    ASSUME IInv, RxRequest
    PROVE  IInv' /\ (OneLife /\ LifeInv => LifeInv')
<1>1. Types /\ Places /\ OpenInv /\ ClosedInv /\ GhostInv
  BY DEF IInv
<1>2. UNCHANGED <<iceState, count, nominated, polling, addLocal, request, remotes,
                      lock, session, expired, doubled, deaf, reopened>>
  BY DEF RxRequest, sockVars, iceVars, requestVars, envVars
<1>3. /\ listener.at = "recv" /\ listener.i \in Slots /\ sock[listener.i].open
      /\ sock[listener.i].state # "NONE" /\ listener'.i = listener.i
      /\ listener'.at \in {"recv", "nominate"}
  BY <1>1, ZenonT(30)
     DEF RxRequest, ListenerAt, Types, Places, Reachable, Live, Answer, NominationOpen
<1>4. listener' \in [at : ListenerSteps, i : 0..MaxContexts, peer : Remotes \cup {NoPeer},
                        ret : {"OK", "FOUND", "FAIL"}]
  BY <1>1, ZenonT(30) DEF RxRequest, ListenerAt, Types, Reachable, Live, Answer, NominationOpen
<1>5. sock[listener.i].cand \in DOMAIN cands
  BY DEF RxRequest, Reachable
<1>6. \/ /\ sock' = sock /\ cands' = cands /\ raced' = raced /\ closeReq' = closeReq
         /\ timer' = timer
         /\ budget' = budget
              /\ \E r \in remotes : pairs' = pairs \cup {<<sock[listener.i].cand, r>>}
      \/ SendPacketFails(listener.i)
  BY Zenon DEF RxRequest, Answer
<1>7. /\ sock' \in [Slots -> Context] /\ (~raced' => sock' = sock)
      /\ \A j \in Slots : \/ sock'[j] = sock[j]
                         \/ ~sock'[j].open
  <2>1. CASE SendPacketFails(listener.i)
    BY <1>1, <1>3, <2>1, SendFailsFacts, FreeFacts DEF Types
  <2>2. QED
    BY <1>1, <1>6, <2>1 DEF Types
<1>8. /\ cands' \in Seq(Candidate) /\ Len(cands') = Len(cands)
      /\ pairs' \subseteq (DOMAIN cands') \X remotes
  <2>1. CASE SendPacketFails(listener.i)
    BY <1>1, <1>3, <2>1, SendFailsFacts DEF Types
  <2>2. QED
    BY <1>1, <1>5, <1>6, <2>1 DEF Types
<1>9. /\ raced' \in BOOLEAN /\ (~raced' => ~raced) /\ closeReq' \in BOOLEAN
      /\ timer' \in BOOLEAN /\ (count = 0 => closeReq' = closeReq)
  <2>1. CASE SendPacketFails(listener.i)
    BY <1>1, <1>3, <2>1, SendFailsFacts DEF Slots
  <2>2. QED
    BY <1>1, <1>6, <2>1, Zenon DEF Types
<1>10. budget' \in [faults : Nat, starts : Nat]
  <2>1. CASE SendPacketFails(listener.i)
    BY <1>1, <1>3, <2>1, SendFailsFacts
  <2>2. QED
    BY <1>1, <1>6, <2>1 DEF Types
<1>11. Types'
  BY <1>1, <1>2, <1>3, <1>4, <1>7, <1>8, <1>9, <1>10 DEF Types
<1>12. Places'
  BY <1>1, <1>2, <1>3, <1>4, <1>7, <1>8, <1>9, <1>10, <1>11 DEF Places
<1>13. OpenInv'
  BY <1>1, <1>2, <1>3, <1>4, <1>7, <1>8, <1>9, <1>10, <1>11 DEF OpenInv
<1>14. ClosedInv'
  BY <1>1, <1>2, <1>3, <1>4, <1>7, <1>8, <1>9, <1>10, <1>11 DEF ClosedInv
<1>15. GhostInv'
  BY <1>1, <1>2, <1>3, <1>4, <1>7, <1>8, <1>9, <1>10, <1>11 DEF GhostInv, SessionHand, ListenerHand
<1>16. ASSUME OneLife, LifeInv
      PROVE  LifeInv'
  <2>1. FirstStart /\ Fresh /\ Apart /\ LossInv /\ Reserved /\ ReadyHasPair
    BY <1>16 DEF LifeInv
  <2>2. sock[listener.i].cand # 0 /\ lock = "free"
    BY <1>1, <1>5 DEF RxRequest, Types
  <2>3. pairs \subseteq pairs' /\ budget'.starts = budget.starts
    <3>1. CASE SendPacketFails(listener.i)
      BY <1>1, <1>3, <3>1, SendFailsFacts
    <3>2. QED
      BY <1>6, <3>1
  <2>4. (closeReq => closeReq')
        /\ \/ sock' = sock
           \/ sock' = FreeSocketContext(sock, listener.i) /\ (listener.i = nominated => closeReq')
    <3>1. CASE SendPacketFails(listener.i)
      BY <1>1, <1>3, <3>1, SendFailsFacts
    <3>2. QED
      BY <1>6, <3>1
  <2>5. CandidatesKept
    <3>1. CASE SendPacketFails(listener.i)
      BY <1>1, <1>3, <3>1, SendFailsFacts, FreeFacts DEF CandidatesKept, Types
    <3>2. QED
      BY <1>6, <3>1 DEF CandidatesKept
  <2>6. FirstStart'
    BY <1>1, <1>2, <1>3, <1>4, <1>7, <1>8, <1>9, <1>10, <1>11, <2>1, <2>2, <2>3, <2>4, <2>5
       DEF FirstStart
  <2>7. Fresh'
    BY <1>1, <1>2, <1>3, <1>4, <1>7, <1>8, <1>9, <1>10, <1>11, <2>1, <2>2, <2>3, <2>4, <2>5,
       FreshKept
  <2>8. Apart'
    <3>1. CASE listener'.at = "recv"
      BY <1>1, <1>2, <1>3, <1>4, <1>7, <1>8, <1>9, <1>10, <1>11, <2>1, <2>2, <2>3, <2>4, <2>5, <3>1,
         ApartKept
    <3>2. CASE listener'.at = "nominate"
      <4>1. nominated # 0 => nominated \in Slots
        BY <1>1 DEF Types, Slots
      <4>2. session.at \in {"add", "update"} => session.i \in Slots /\ listener.i # session.i
        BY <1>1, <2>1, <2>2 DEF Places, Apart
      <4>3. session.at \notin {"tls", "tlsDone"}
        BY <1>1, <2>2 DEF Places
      <4>4. QED
        BY <1>2, <1>3, <2>1, <2>2, <2>5, <3>2, <4>1, <4>2, <4>3 DEF Apart, CandidatesKept
    <3>3. QED
      BY <1>3, <3>1, <3>2
  <2>9. LossInv'
    <3>1. nominated # 0 => nominated \in Slots
      BY <1>1 DEF Types, Slots
    <3>2. sock \in [Slots -> Context]
      BY <1>1 DEF Types
    <3>3. nominated # 0 /\ sock[nominated].state # "NONE" /\ sock'[nominated].state = "NONE"
            => closeReq'
      BY <1>3, <2>4, <3>1, <3>2, FreeFacts
    <3>4. QED
      BY <1>1, <1>2, <2>1, <2>4, <2>5, <3>3, LossKept
  <2>10. Reserved'
    BY <1>1, <1>2, <1>3, <1>4, <1>7, <1>8, <1>9, <1>10, <1>11, <2>1, <2>2, <2>3, <2>4, <2>5,
       ReservedKept DEF SessionReserves
  <2>11. ReadyHasPair'
    BY <1>1, <1>2, <1>3, <1>4, <1>7, <1>8, <1>9, <1>10, <1>11, <2>1, <2>2, <2>3, <2>4, <2>5,
       PairKept
  <2>12. QED
    BY <2>6, <2>7, <2>8, <2>9, <2>10, <2>11 DEF LifeInv
<1>17. QED
  BY <1>11, <1>12, <1>13, <1>14, <1>15, <1>16 DEF IInv

\* Releasing the other contexts frees some that are open and not nominated.
LEMMA ReleaseFacts ==
    ASSUME Types, ReleaseOtherSockets
    PROVE  /\ sock' \in [Slots -> Context]
           /\ \A j \in Slots :
                \/ sock'[j] = sock[j]
                \/ /\ j # nominated /\ ~sock'[j].open /\ sock'[j].state = "NONE"
                   /\ sock'[j].cand = sock[j].cand /\ sock'[j].peer = sock[j].peer
                   /\ (~raced' => ~InSession(j))
           /\ cands' \in Seq(Candidate) /\ Len(cands') = Len(cands) /\ DOMAIN cands' = DOMAIN cands
           /\ raced' \in BOOLEAN /\ (~raced' => ~raced)
<1> DEFINE others == {i \in 1..count : i # nominated /\ sock[i].open}
           freed == {i \in others : Kind(i) # "relay"}
<1>1. /\ sock' = [i \in Slots |-> IF i \in freed THEN FreeSocketContext(sock, i)[i] ELSE sock[i]]
      /\ cands' = [c \in DOMAIN cands |->
            IF \E i \in others \ freed : sock[i].cand = c
            THEN [cands[c] EXCEPT !.closing = TRUE] ELSE cands[c]]
      /\ raced' = (raced \/ (session.at # "idle" /\ session.i \in freed))
  BY DEF ReleaseOtherSockets
<1>2. raced' \in BOOLEAN /\ (~raced' => ~raced /\ ~(session.at # "idle" /\ session.i \in freed))
  BY <1>1, Zenon DEF Types
<1>3. \A j \in freed : j # nominated /\ sock[j].open
  OBVIOUS
<1> HIDE DEF freed, others
<1>4. ASSUME NEW j \in Slots
      PROVE  /\ sock'[j] \in Context
             /\ \/ sock'[j] = sock[j]
                \/ /\ j # nominated /\ ~sock'[j].open /\ sock'[j].state = "NONE"
                   /\ sock'[j].cand = sock[j].cand /\ sock'[j].peer = sock[j].peer
                   /\ (~raced' => ~InSession(j))
  <2>1. CASE j \in freed
    <3>1. sock'[j] = FreeSocketContext(sock, j)[j]
      BY <1>1, <1>4, <2>1
    <3>2. sock \in [Slots -> Context]
      BY DEF Types
    <3>3. QED
      BY <1>2, <1>3, <1>4, <2>1, <3>1, <3>2, FreeFacts
  <2>2. CASE j \notin freed
    BY <1>1, <1>4, <2>2 DEF Types
  <2>3. QED
    BY <2>1, <2>2
<1>5. sock' \in [Slots -> Context]
  BY <1>1, <1>4
<1>6. \A c \in DOMAIN cands : cands[c] \in Candidate
  BY DEF Types
<1>7. \A c \in DOMAIN cands : [cands[c] EXCEPT !.closing = TRUE] \in Candidate
  BY <1>6, Zenon DEF Candidate
<1>8. DOMAIN cands = 1..Len(cands) /\ Len(cands) \in Nat
  BY DEF Types
<1>9. cands' \in [1..Len(cands) -> Candidate]
  BY <1>1, <1>6, <1>7, <1>8
<1>10. cands' \in Seq(Candidate) /\ Len(cands') = Len(cands) /\ DOMAIN cands' = DOMAIN cands
  BY <1>8, <1>9
<1>11. QED
  BY <1>2, <1>4, <1>5, <1>10

\* The other sockets are closed, the nominated one, which is in the listener's hand, is not.
LEMMA DeliverInv ==
    ASSUME IInv, Deliver
    PROVE  IInv' /\ (OneLife /\ LifeInv => LifeInv')
<1>1. Types /\ Places /\ OpenInv /\ ClosedInv /\ GhostInv
  BY DEF IInv
<1>2. UNCHANGED <<iceState, count, nominated, polling, addLocal, timer, request,
                      closeReq, remotes, pairs, lock, session, expired,
                      doubled, deaf, reopened, budget>>
  BY DEF Deliver, sockVars, iceVars, requestVars, envVars
<1>3. /\ listener.at = "deliver" /\ listener'.at = "recv" /\ listener'.i = listener.i
      /\ listener.i \in Slots
  BY <1>1 DEF Deliver, ListenerAt, Places
<1>4. listener' \in [at : ListenerSteps, i : 0..MaxContexts, peer : Remotes \cup {NoPeer},
                        ret : {"OK", "FOUND", "FAIL"}]
  BY <1>1 DEF Deliver, ListenerAt, Types
<1>5. \/ sock' = sock /\ cands' = cands /\ raced' = raced
      \/ ReleaseOtherSockets
  BY DEF Deliver
<1>6. raced' \in BOOLEAN /\ (~raced' => ~raced)
  BY <1>1, <1>5, Zenon DEF Types, ReleaseOtherSockets
<1>7. cands' \in Seq(Candidate) /\ Len(cands') = Len(cands) /\ DOMAIN cands' = DOMAIN cands
  <2>1. CASE ReleaseOtherSockets
    BY <1>1, <2>1, ReleaseFacts
  <2>2. QED
    BY <1>1, <1>5, <2>1 DEF Types
<1>8. /\ sock' \in [Slots -> Context]
      /\ \A j \in Slots :
           \/ sock'[j] = sock[j]
           \/ /\ j # nominated /\ ~sock'[j].open /\ sock'[j].state = "NONE"
              /\ sock'[j].cand = sock[j].cand /\ sock'[j].peer = sock[j].peer
              /\ (~raced' => ~InSession(j))
  <2>1. CASE ReleaseOtherSockets
    BY <1>1, <2>1, ReleaseFacts
  <2>2. QED
    BY <1>1, <1>5, <2>1 DEF Types
<1>9. Types'
  BY <1>1, <1>2, <1>3, <1>4, <1>6, <1>7, <1>8 DEF Types
<1>10. Places'
  BY <1>1, <1>2, <1>3, <1>4, <1>6, <1>7, <1>8, <1>9 DEF Places
<1>11. OpenInv'
  BY <1>1, <1>2, <1>3, <1>4, <1>6, <1>7, <1>8, <1>9 DEF OpenInv
<1>12. ClosedInv'
  BY <1>1, <1>2, <1>3, <1>4, <1>6, <1>7, <1>8, <1>9 DEF ClosedInv
<1>13. GhostInv'
  BY <1>1, <1>2, <1>3, <1>4, <1>6, <1>7, <1>8, <1>9, BoundsAssumption
     DEF Types, Slots, Places, GhostInv, SessionHand, ListenerHand
<1>14. ASSUME OneLife, LifeInv
      PROVE  LifeInv'
  <2>1. FirstStart /\ Fresh /\ Apart /\ LossInv /\ Reserved /\ ReadyHasPair
    BY <1>14 DEF LifeInv
  <2>2. CandidatesKept
    BY <1>8 DEF CandidatesKept
  <2>3. FirstStart'
    BY <1>1, <1>2, <1>3, <1>4, <1>6, <1>7, <1>8, <1>9, <2>1, <2>2 DEF FirstStart
  <2>4. Fresh'
    BY <1>1, <1>2, <1>3, <1>4, <1>6, <1>7, <1>8, <1>9, <2>1, <2>2, FreshKept
  <2>5. Apart'
    BY <1>1, <1>2, <1>3, <1>4, <1>6, <1>7, <1>8, <1>9, <2>1, <2>2 DEF Types, Slots, Places, Apart
  <2>6. LossInv'
    BY <1>1, <1>2, <1>3, <1>4, <1>6, <1>7, <1>8, <1>9, <2>1, <2>2
       DEF Types, Slots, LossInv, LossNoticed
  <2>7. Reserved'
    BY <1>1, <1>2, <1>3, <1>4, <1>6, <1>7, <1>8, <1>9, <2>1, <2>2, ReservedKept DEF SessionReserves
  <2>8. ReadyHasPair'
    BY <1>1, <1>2, <1>3, <1>4, <1>6, <1>7, <1>8, <1>9, <2>1, <2>2, PairKept
  <2>9. QED
    BY <2>3, <2>4, <2>5, <2>6, <2>7, <2>8 DEF LifeInv
<1>15. QED
  BY <1>9, <1>10, <1>11, <1>12, <1>13, <1>14 DEF IInv

\* A finished handshake makes and reserves a candidate, a failed one closes the context.
LEMMA TlsHandshakeDoneInv ==
    ASSUME IInv, TlsHandshakeDone
    PROVE  IInv' /\ (OneLife /\ LifeInv => LifeInv')
<1>1. Types /\ Places /\ OpenInv /\ ClosedInv /\ GhostInv
  BY DEF IInv
<1>2. UNCHANGED <<iceState, count, nominated, polling, addLocal, timer, request,
                      closeReq, remotes, lock, listener, expired, deaf,
                      reopened, budget>>
  BY DEF TlsHandshakeDone, sockVars, iceVars, requestVars, envVars
<1>3. /\ session.at = "tlsDone" /\ session.i \in 1..count /\ session.i \in Slots
      /\ session'.at = "local" /\ session'.i = session.i + 1
  <2>1. session.at = "tlsDone" /\ session' = [session EXCEPT !.at = "local", !.i = @ + 1]
    BY Zenon DEF TlsHandshakeDone
  <2>2. QED
    BY <1>1, <2>1, BoundsAssumption DEF Types, Places, Slots
<1>4. session' \in [at : SessionSteps, i : 0..(MaxContexts + 1), jobs : SUBSET Job,
                       kind : Kinds \cup {"none"}, tls : Results, late : BOOLEAN]
  <2>1. session.i + 1 \in 0..(MaxContexts + 1)
    BY <1>3, BoundsAssumption DEF Slots
  <2>2. session' = [session EXCEPT !.at = "local", !.i = @ + 1]
    BY Zenon DEF TlsHandshakeDone
  <2>3. QED
    BY <1>1, <2>1, <2>2 DEF Types
<1>5. \/ /\ Ice_AddCandidate("relay") /\ ~LibraryFull /\ raced' = raced
         /\ sock' = UpdateSocketContext(sock, session.i, "CREATE", Len(cands) + 1, NoPeer)
      \/ /\ cands' = cands /\ pairs' = pairs
         /\ \/ sock' = sock /\ raced' = raced
            \/ /\ sock' = FreeSocketContext(sock, session.i)
               /\ raced' = (raced \/ (InListener /\ listener.i = session.i))
  BY Zenon DEF TlsHandshakeDone
<1>6. raced' \in BOOLEAN /\ doubled' \in BOOLEAN /\ (~raced' => ~raced)
  BY <1>1, <1>5, Zenon DEF TlsHandshakeDone, Types
<1>7. \/ /\ Ice_AddCandidate("relay") /\ ~LibraryFull
         /\ sock' = UpdateSocketContext(sock, session.i, "CREATE", Len(cands) + 1, NoPeer)
      \/ /\ cands' = cands /\ pairs' = pairs
         /\ \/ sock' = sock
            \/ /\ sock' = FreeSocketContext(sock, session.i)
               /\ ~raced' => ~(InListener /\ listener.i = session.i)
  BY <1>1, <1>5, Zenon
<1>8. /\ cands' \in Seq(Candidate) /\ Len(cands') \in Nat /\ Len(cands') <= MaxContexts
      /\ pairs' \subseteq (DOMAIN cands') \X remotes
  <2>1. "relay" \in Kinds
    BY DEF Kinds
  <2>2. QED
    BY <1>1, <1>7, <2>1, AddFacts, BoundsAssumption DEF Types, LibraryFull
<1>9. /\ sock' \in [Slots -> Context]
      /\ \A j \in Slots :
           \/ sock'[j] = sock[j]
           \/ /\ j = session.i /\ (sock'[j].open <=> sock[j].open) /\ sock'[j].state = "CREATE"
           \/ /\ j = session.i /\ (~raced' => ~(InListener /\ listener.i = j))
              /\ ~sock'[j].open /\ sock'[j].state = "NONE"
  <2>1. sock \in [Slots -> Context] /\ "CREATE" \in SlotStates /\ NoPeer \in Remotes \cup {NoPeer}
    BY <1>1 DEF Types, SlotStates
  <2>2. CASE /\ ~LibraryFull
             /\ sock' = UpdateSocketContext(sock, session.i, "CREATE", Len(cands) + 1, NoPeer)
    <3>1. Len(cands) + 1 \in 0..MaxContexts
      BY <1>1, <2>2, BoundsAssumption DEF LibraryFull
    <3>2. QED
      BY <1>3, <2>1, <2>2, <3>1, UpdateFacts
  <2>3. CASE sock' = FreeSocketContext(sock, session.i)
        /\ (~raced' => ~(InListener /\ listener.i = session.i))
    BY <1>3, <2>1, <2>3, FreeFacts
  <2>4. QED
    BY <1>7, <2>1, <2>2, <2>3
<1>10. Types'
  BY <1>1, <1>2, <1>3, <1>4, <1>6, <1>8, <1>9 DEF Types
<1>11. Places'
  BY <1>1, <1>2, <1>3, <1>4, <1>6, <1>8, <1>9, <1>10 DEF Types, Places
<1>12. OpenInv'
  BY <1>1, <1>2, <1>3, <1>4, <1>6, <1>8, <1>9, <1>10 DEF OpenInv
<1>13. ClosedInv'
  BY <1>1, <1>2, <1>3, <1>4, <1>6, <1>8, <1>9, <1>10 DEF ClosedInv
<1>14. GhostInv'
  BY <1>1, <1>2, <1>3, <1>4, <1>6, <1>8, <1>9, <1>10
     DEF Slots, Places, GhostInv, SessionHand, ListenerHand
<1>15. ASSUME OneLife, LifeInv
      PROVE  LifeInv'
  <2>1. FirstStart /\ Fresh /\ Apart /\ LossInv /\ Reserved /\ ReadyHasPair
    BY <1>15 DEF LifeInv
  <2>2. nominated # session.i /\ (nominated # 0 => nominated \in Slots)
    BY <1>1, <1>3, <2>1 DEF Types, Apart, Slots
  <2>3. cands = <<>> <=> Len(cands) = 0
    BY <1>1 DEF Types
  <2>4. cands' = <<>> <=> Len(cands') = 0
    BY <1>8
  <2>5. Len(cands) \in Nat
    BY <1>1 DEF Types
  <2>6. \/ /\ Len(cands') = Len(cands) + 1 /\ pairs \subseteq pairs'
           /\ sock'[session.i].cand = Len(cands) + 1 /\ sock'[session.i].state = "CREATE"
           /\ \A j \in Slots : j # session.i => sock'[j] = sock[j]
           /\ (~doubled' => ~doubled /\ listener.at # "tlsUpdate")
        \/ /\ cands' = cands /\ pairs' = pairs /\ CandidatesKept
           /\ \A j \in Slots : j # session.i => sock'[j] = sock[j]
           /\ (~doubled' => ~doubled)
    <3>1. "relay" \in Kinds /\ "CREATE" \in SlotStates /\ NoPeer \in Remotes \cup {NoPeer}
          /\ sock \in [Slots -> Context]
      BY <1>1 DEF Kinds, SlotStates, Types
    <3>2. (~doubled' => ~doubled) /\ (~doubled' /\ ~UNCHANGED doubled => listener.at # "tlsUpdate")
      BY <1>1, Zenon DEF TlsHandshakeDone
    <3>3. CASE /\ Ice_AddCandidate("relay") /\ ~LibraryFull
               /\ sock' = UpdateSocketContext(sock, session.i, "CREATE", Len(cands) + 1, NoPeer)
      <4>1. Len(cands) < MaxContexts /\ Len(cands) + 1 \in 0..MaxContexts
        BY <1>1, <3>3, BoundsAssumption DEF LibraryFull
      <4>2. Len(cands') = Len(cands) + 1 /\ pairs \subseteq pairs'
        BY <1>1, <3>1, <3>3, <4>1, AddFacts DEF Types
      <4>3. /\ sock'[session.i].cand = Len(cands) + 1 /\ sock'[session.i].state = "CREATE"
            /\ \A j \in Slots : j # session.i => sock'[j] = sock[j]
        BY <1>3, <3>1, <3>3, <4>1, UpdateFacts
      <4>4. cands' # cands
        BY <4>1, <4>2
      <4>5. ~doubled' => listener.at # "tlsUpdate"
        BY <1>1, <4>4, Zenon DEF TlsHandshakeDone
      <4>6. QED
        BY <3>2, <4>2, <4>3, <4>5
    <3>4. CASE cands' = cands /\ pairs' = pairs
          /\ (sock' = sock \/ sock' = FreeSocketContext(sock, session.i))
      <4>1. CandidatesKept /\ \A j \in Slots : j # session.i => sock'[j] = sock[j]
        BY <1>3, <3>1, <3>4, FreeFacts DEF CandidatesKept
      <4>2. QED
        BY <3>2, <3>4, <4>1
    <3>5. QED
      BY <1>7, <3>3, <3>4
  <2>7. FirstStart'
    BY <1>1, <1>2, <1>3, <1>8, <1>10, <1>11, <2>1, <2>2, <2>3, <2>4, <2>5, <2>6 DEF FirstStart
  <2>8. Fresh'
    <3>1. Len(cands') >= Len(cands) /\ Len(cands') \in Nat
      BY <1>8, <2>5, <2>6
    <3>2. ASSUME NEW j \in Slots
          PROVE  /\ j > count => sock'[j].cand = 0 /\ sock'[j].state = "NONE"
                 /\ sock'[j].cand <= Len(cands')
                 /\ (sock'[j].state = "PROGRESS" => sock'[j].cand = 0)
      <4>1. sock[j].cand \in Nat
        BY <1>1, <3>2 DEF Types, Context
      <4>2. QED
        BY <1>1, <1>3, <2>1, <2>5, <2>6, <3>1, <3>2, <4>1, SMTT(30) DEF Fresh, CandidatesKept, Types
    <3>3. QED
      BY <1>2, <3>2 DEF Fresh
  <2>9. Apart'
    BY <1>1, <1>2, <1>3, <1>8, <1>10, <1>11, <2>1, <2>2, <2>3, <2>4, <2>5, <2>6
       DEF Places, Apart, CandidatesKept
  <2>10. LossInv'
    BY <1>1, <1>2, <1>3, <1>8, <1>10, <1>11, <2>1, <2>2, <2>3, <2>4, <2>5, <2>6
       DEF LossInv, LossNoticed
  <2>11. Reserved'
    <3>1. session'.at = "local" /\ ~SessionReserves'
      BY <1>3 DEF SessionReserves
    <3>2. CASE /\ Len(cands') = Len(cands) + 1
               /\ sock'[session.i].cand = Len(cands) + 1
               /\ \A j \in Slots : j # session.i => sock'[j] = sock[j]
               /\ (~doubled' => ~doubled /\ listener.at # "tlsUpdate")
      <4>1. \A j \in Slots : j # session.i => sock'[j].cand = sock[j].cand
            /\ sock'[j].cand # Len(cands) + 1
        BY <1>1, <2>1, <2>5, <3>2 DEF Fresh, Context
      <4>2. ~doubled' => \A i, j \in Slots : i # j /\ sock'[i].cand # 0
              => sock'[i].cand # sock'[j].cand
        BY <2>1, <3>2, <4>1 DEF Reserved
      <4>3. QED
        BY <1>2, <3>1, <3>2, <4>2 DEF Reserved
    <3>3. CASE cands' = cands /\ CandidatesKept /\ (~doubled' => ~doubled)
      BY <1>2, <2>1, <3>1, <3>3, ReservedKept
    <3>4. QED
      BY <2>6, <3>2, <3>3
  <2>12. ReadyHasPair'
    BY <1>1, <1>2, <1>3, <1>8, <1>10, <1>11, <2>1, <2>2, <2>3, <2>4, <2>5, <2>6 DEF ReadyHasPair
  <2>13. QED
    BY <2>7, <2>8, <2>9, <2>10, <2>11, <2>12 DEF LifeInv
<1>16. QED
  BY <1>10, <1>11, <1>12, <1>13, <1>14, <1>15 DEF IInv

\* The context is closed, or waits as a relay for its end; without a relay all before it are closed.
LEMMA DestroyContextInv ==
    ASSUME IInv, DestroyContext
    PROVE  IInv' /\ (OneLife /\ LifeInv => LifeInv')
<1>1. Types /\ Places /\ OpenInv /\ ClosedInv /\ GhostInv
  BY DEF IInv
<1>2. UNCHANGED <<iceState, count, nominated, polling, addLocal, timer, request,
                      closeReq, remotes, pairs, lock, listener, expired,
                      doubled, deaf, reopened, budget>>
  BY DEF DestroyContext, sockVars, iceVars, requestVars, envVars
<1>3. /\ session.at = "destroy" /\ session.i \in 1..count /\ session.i \in Slots
      /\ session'.at = "destroy" /\ session'.i = session.i + 1
      /\ session'.tls = session.tls \/ session'.tls = "IN_PROGRESS"
  <2>1. session.at = "destroy" /\ session.i <= count
        /\ (\/ session' = [session EXCEPT !.i = @ + 1, !.tls = "IN_PROGRESS"]
         \/ session' = [session EXCEPT !.i = @ + 1])
    BY Zenon DEF DestroyContext
  <2>2. session.i \in 1..count /\ session.i \in Slots
    BY <1>1, <2>1, BoundsAssumption DEF Types, Places, Slots
  <2>3. /\ session'.at = session.at /\ session'.i = session.i + 1
        /\ session'.tls = session.tls \/ session'.tls = "IN_PROGRESS"
    BY <1>1, <2>1 DEF Types
  <2>4. QED
    BY <2>1, <2>2, <2>3
<1>4. session' \in [at : SessionSteps, i : 0..(MaxContexts + 1), jobs : SUBSET Job,
                       kind : Kinds \cup {"none"}, tls : Results, late : BOOLEAN]
  <2>1. session.i + 1 \in 0..(MaxContexts + 1)
    BY <1>3, BoundsAssumption DEF Slots
  <2>2. (\/ session' = [session EXCEPT !.i = @ + 1, !.tls = "IN_PROGRESS"]
         \/ session' = [session EXCEPT !.i = @ + 1])
    BY Zenon DEF DestroyContext
  <2>3. QED
    BY <1>1, <2>1, <2>2, ZenonT(30) DEF Types
<1>5. cands' \in Seq(Candidate) /\ Len(cands') = Len(cands) /\ DOMAIN cands' = DOMAIN cands
  BY <1>1, CloseCandidateFacts DEF DestroyContext, Types
<1>6. raced' \in BOOLEAN /\ (~raced' => ~raced)
  BY <1>1, Zenon DEF DestroyContext, Types
<1>7. \/ sock' = sock /\ (sock[session.i].state = "NONE" \/ session'.tls = "IN_PROGRESS")
      \/ /\ sock' = FreeSocketContext(sock, session.i)
         /\ ~raced' => ~(InListener /\ listener.i = session.i)
  <2>1. CASE Live(session.i) /\ Kind(session.i) = "relay"
    BY <1>1, <2>1 DEF DestroyContext, Types
  <2>2. CASE ~Live(session.i)
    <3>1. sock' = sock
      BY <2>2, Zenon DEF DestroyContext
    <3>2. sock[session.i].state = "NONE"
      BY <1>1, <1>3, <2>2 DEF Live
    <3>3. QED
      BY <3>1, <3>2
  <2>3. CASE Live(session.i) /\ Kind(session.i) # "relay"
    BY <2>3, <1>1, Zenon DEF DestroyContext
  <2>4. QED
    BY <2>1, <2>2, <2>3
<1>8. /\ sock' \in [Slots -> Context]
      /\ \A j \in Slots :
           \/ sock'[j] = sock[j]
           \/ /\ j = session.i /\ (~raced' => ~(InListener /\ listener.i = j))
              /\ ~sock'[j].open /\ sock'[j].state = "NONE"
      /\ session'.tls = "IN_PROGRESS" \/ ~sock'[session.i].open
  BY <1>1, <1>3, <1>7, FreeFacts DEF Types, OpenInv
<1>9. Types'
  BY <1>1, <1>2, <1>3, <1>4, <1>5, <1>6, <1>8 DEF Types
<1>10. Places'
  BY <1>1, <1>2, <1>3, <1>4, <1>5, <1>6, <1>8, <1>9 DEF Types, Places
<1>11. OpenInv'
  BY <1>1, <1>2, <1>3, <1>4, <1>5, <1>6, <1>8, <1>9 DEF OpenInv
<1>12. ClosedInv'
  BY <1>1, <1>2, <1>3, <1>4, <1>5, <1>6, <1>8, <1>9 DEF Slots, ClosedInv
<1>13. GhostInv'
  BY <1>1, <1>2, <1>3, <1>4, <1>5, <1>6, <1>8, <1>9 DEF Places, GhostInv, SessionHand, ListenerHand
<1>14. ASSUME OneLife, LifeInv
      PROVE  LifeInv'
  <2>1. FirstStart /\ Fresh /\ Apart /\ LossInv /\ Reserved /\ ReadyHasPair
    BY <1>14 DEF LifeInv
  <2>2. CandidatesKept
    <3>1. sock \in [Slots -> Context]
      BY <1>1 DEF Types
    <3>2. QED
      BY <1>3, <1>7, <3>1, FreeFacts DEF CandidatesKept
  <2>3. FirstStart'
    BY <1>1, <1>2, <1>3, <1>4, <1>5, <1>6, <1>8, <1>9, <2>1, <2>2 DEF FirstStart
  <2>4. Fresh'
    BY <1>1, <1>2, <1>3, <1>4, <1>5, <1>6, <1>8, <1>9, <2>1, <2>2, FreshKept
  <2>5. Apart'
    BY <1>1, <1>2, <1>3, <1>4, <1>5, <1>6, <1>8, <1>9, <2>1, <2>2, ApartKept
  <2>6. LossInv'
    BY <1>1, <1>2, <1>3, <1>4, <1>5, <1>6, <1>8, <1>9, <2>1, <2>2 DEF LossInv, LossNoticed
  <2>7. Reserved'
    BY <1>1, <1>2, <1>3, <1>4, <1>5, <1>6, <1>8, <1>9, <2>1, <2>2, ReservedKept DEF SessionReserves
  <2>8. ReadyHasPair'
    BY <1>1, <1>2, <1>3, <1>4, <1>5, <1>6, <1>8, <1>9, <2>1, <2>2, PairKept
  <2>9. QED
    BY <2>3, <2>4, <2>5, <2>6, <2>7, <2>8 DEF LifeInv
<1>15. QED
  BY <1>9, <1>10, <1>11, <1>12, <1>13, <1>14 DEF IInv

\* A media packet that cannot be sent closes the nominated context and reports it.
LEMMA SendToRemotePeerInv ==
    ASSUME IInv, SendToRemotePeer
    PROVE  IInv' /\ (OneLife /\ LifeInv => LifeInv')
<1>1. Types /\ Places /\ OpenInv /\ ClosedInv /\ GhostInv
  BY DEF IInv
<1>2. UNCHANGED <<iceState, count, nominated, polling, addLocal, request, remotes,
                      lock, session, listener, expired, doubled, deaf,
                      reopened>>
  BY DEF SendToRemotePeer, sockVars, iceVars, requestVars, envVars
<1>3. nominated \in Slots
  BY <1>1, <1>2 DEF SendToRemotePeer, Types, Slots
<1>4. NothingSent \/ \E i \in Slots : SendPacketFails(i)
  BY <1>3 DEF SendToRemotePeer
<1>5. Types'
  BY <1>1, <1>2, <1>3, <1>4, SendingFacts DEF Types
<1>6. Places'
  BY <1>1, <1>2, <1>3, <1>4, <1>5, SendingFacts DEF Places
<1>7. OpenInv'
  BY <1>1, <1>2, <1>3, <1>4, <1>5, SendingFacts DEF OpenInv
<1>8. ClosedInv'
  BY <1>1, <1>2, <1>3, <1>4, <1>5, SendingFacts DEF ClosedInv
<1>9. GhostInv'
  <2> SUFFICES ASSUME ~raced'
               PROVE  GhostInv'
    BY DEF GhostInv
  <2>1. ~raced /\ SessionHand /\ ListenerHand /\ \A i \in Slots : sock[i].state # "NONE"
          => sock[i].open
    BY <1>4, SendingFacts, <1>1 DEF GhostInv
  <2>2. \A i \in Slots : sock'[i].state # "NONE" => sock'[i].open
    BY <1>1, <1>4, SendingFacts, <2>1
  <2>3. SessionHand'
    <3>1. lock = "free"
      BY DEF SendToRemotePeer
    <3>2. session.at \notin {"tls", "tlsDone"}
      BY <1>1, <3>1 DEF Places
    <3>3. session.at \in {"add", "update"} => session.i \in Slots
          /\ sock'[session.i] = sock[session.i]
      BY <1>1, <1>4, SendingFacts, <2>1 DEF SessionHand, Places
    <3>4. QED
      BY <1>2, <2>1, <3>2, <3>3 DEF SessionHand
  <2>4. ListenerHand'
    BY <1>1, <1>2, <1>4, SendingFacts, <2>1 DEF ListenerHand, Places
  <2>5. QED
    BY <2>2, <2>3, <2>4 DEF GhostInv
<1>10. ASSUME OneLife, LifeInv
      PROVE  LifeInv'
  <2>1. FirstStart /\ Fresh /\ Apart /\ LossInv /\ Reserved /\ ReadyHasPair
    BY <1>10 DEF LifeInv
  <2>2. CandidatesKept
    BY <1>1, <1>4, SendingFacts DEF CandidatesKept
  <2>3. FirstStart'
    BY <1>1, <1>2, <1>3, <1>4, <1>5, SendingFacts, <2>1, <2>2 DEF FirstStart
  <2>4. Fresh'
    BY <1>1, <1>2, <1>3, <1>4, <1>5, SendingFacts, <2>1, <2>2, FreshKept
  <2>5. Apart'
    BY <1>1, <1>2, <1>3, <1>4, <1>5, SendingFacts, <2>1, <2>2, ApartKept
  <2>6. LossInv'
    BY <1>1, <1>2, <1>3, <1>4, <1>5, SendingFacts, <2>1, <2>2 DEF LossInv, LossNoticed
  <2>7. Reserved'
    BY <1>1, <1>2, <1>3, <1>4, <1>5, SendingFacts, <2>1, <2>2, ReservedKept DEF SessionReserves
  <2>8. ReadyHasPair'
    BY <1>1, <1>2, <1>3, <1>4, <1>5, SendingFacts, <2>1, <2>2, PairKept
  <2>9. QED
    BY <2>3, <2>4, <2>5, <2>6, <2>7, <2>8 DEF LifeInv
<1>11. QED
  BY <1>5, <1>6, <1>7, <1>8, <1>9, <1>10 DEF IInv

\* Start closes what was left open and sets the rest to its beginning.
LEMMA StartInv ==
    ASSUME IInv, IceController_Start
    PROVE  IInv' /\ (OneLife /\ LifeInv => LifeInv')
<1>1. Types /\ Places /\ OpenInv /\ ClosedInv /\ GhostInv
  BY DEF IInv
<1>2. UNCHANGED <<timer, closeReq, lock, session, listener, deaf, reopened>>
  BY DEF IceController_Start, sockVars, iceVars, requestVars, envVars
<1>3. /\ session.at = "idle" /\ request' = "PROCESS" /\ ~closeReq /\ lock = "free"
      /\ iceState' = "PROCESS" /\ count' = 0 /\ nominated' = 0 /\ cands' = <<>> /\ remotes' = {}
      /\ pairs' = {}
  BY <1>1, <1>2 DEF IceController_Start
<1>4. polling' \in BOOLEAN /\ addLocal' \in BOOLEAN /\ expired' \in BOOLEAN /\ doubled' \in BOOLEAN
  BY <1>1, Zenon DEF IceController_Start
<1>5. raced' \in BOOLEAN /\ (~raced' => ~raced /\ ~InListener)
  BY <1>1, Zenon DEF IceController_Start
<1>6. cands' \in Seq(Candidate) /\ Len(cands') = 0 /\ 0 \in 0..MaxContexts
  BY <1>3, BoundsAssumption
<1>7. budget' \in [faults : Nat, starts : Nat]
  BY <1>1 DEF IceController_Start, Types
<1>8. /\ sock' \in [Slots -> Context]
      /\ \A j \in Slots : /\ ~sock'[j].open
                         /\ sock'[j].state = IF sock[j].open THEN "NONE" ELSE sock[j].state
  <2>1. sock' = [i \in Slots |-> FreeSocketContext(sock, i)[i]]
    BY DEF IceController_Start
  <2>2. sock \in [Slots -> Context]
    BY <1>1 DEF Types
  <2>3. \A j \in Slots : FreeSocketContext(sock, j)[j] \in Context
    BY <2>2, FreeFacts
  <2>4. QED
    BY <2>1, <2>2, <2>3, FreeFacts
<1>9. Types'
  BY <1>1, <1>2, <1>3, <1>4, <1>5, <1>6, <1>7, <1>8 DEF Types
<1>10. Places'
  BY <1>1, <1>2, <1>3, <1>4, <1>5, <1>6, <1>7, <1>8, <1>9 DEF Places
<1>11. OpenInv'
  BY <1>1, <1>2, <1>3, <1>4, <1>5, <1>6, <1>7, <1>8, <1>9 DEF OpenInv
<1>12. ClosedInv'
  BY <1>1, <1>2, <1>3, <1>4, <1>5, <1>6, <1>7, <1>8, <1>9 DEF ClosedInv
<1>13. GhostInv'
  BY <1>1, <1>2, <1>3, <1>4, <1>5, <1>6, <1>7, <1>8, <1>9 DEF GhostInv, SessionHand, ListenerHand
<1>14. ASSUME OneLife, LifeInv
      PROVE  LifeInv'
  <2>1. FirstStart /\ Fresh /\ Apart /\ LossInv /\ Reserved /\ ReadyHasPair
    BY <1>14 DEF LifeInv
  <2>2. budget'.starts = budget.starts - 1 /\ budget.starts > 0
    BY <1>1 DEF IceController_Start, Types
  <2>3. \A j \in Slots : sock'[j].cand = sock[j].cand
    <3>1. sock \in [Slots -> Context] /\ sock' = [i \in Slots |-> FreeSocketContext(sock, i)[i]]
      BY <1>1 DEF IceController_Start, Types
    <3>2. QED
      BY <3>1, FreeFacts
  <2>4. /\ iceState = "NEW" /\ budget.starts = 1 /\ count = 0 /\ nominated = 0 /\ cands = <<>>
        /\ session.at = "idle" /\ listener.at = "idle"
    BY <2>1, <2>2 DEF FirstStart
  <2>5. \A j \in Slots : sock'[j].cand = 0 /\ sock'[j].state = "NONE"
    BY <1>8, <2>1, <2>3, <2>4 DEF Fresh, Slots
  <2>6. FirstStart'
    BY <1>1, <1>2, <1>3, <1>4, <1>5, <1>6, <1>7, <1>8, <1>9, <2>1, <2>2, <2>3, <2>4, <2>5
       DEF FirstStart
  <2>7. Fresh'
    BY <1>1, <1>2, <1>3, <1>4, <1>5, <1>6, <1>7, <1>8, <1>9, <2>1, <2>2, <2>3, <2>4, <2>5 DEF Fresh
  <2>8. Apart'
    BY <1>1, <1>2, <1>3, <1>4, <1>5, <1>6, <1>7, <1>8, <1>9, <2>1, <2>2, <2>3, <2>4, <2>5 DEF Apart
  <2>9. LossInv'
    BY <1>1, <1>2, <1>3, <1>4, <1>5, <1>6, <1>7, <1>8, <1>9, <2>1, <2>2, <2>3, <2>4, <2>5
       DEF LossInv, LossNoticed
  <2>10. Reserved'
    BY <1>1, <1>2, <1>3, <1>4, <1>5, <1>6, <1>7, <1>8, <1>9, <2>1, <2>2, <2>3, <2>4, <2>5
       DEF Reserved, SessionReserves
  <2>11. ReadyHasPair'
    BY <1>1, <1>2, <1>3, <1>4, <1>5, <1>6, <1>7, <1>8, <1>9, <2>1, <2>2, <2>3, <2>4, <2>5
       DEF ReadyHasPair
  <2>12. QED
    BY <2>6, <2>7, <2>8, <2>9, <2>10, <2>11 DEF LifeInv
<1>15. QED
  BY <1>9, <1>10, <1>11, <1>12, <1>13, <1>14 DEF IInv

------------------------------------------------------------------------------
(* The theorems. *)

\* Initially the controller has nothing, and every step preserves the invariant.
LEMMA IInvInit == Init => IInv
<1> SUFFICES ASSUME Init
             PROVE  IInv
  OBVIOUS
<1>1. FreeSlot \in Context
  <2>1. "NONE" \in SlotStates /\ 0 \in 0..MaxContexts
    BY BoundsAssumption DEF SlotStates
  <2>2. QED
    BY <2>1, Zenon DEF FreeSlot, Context
<1>2. ~FreeSlot.open /\ FreeSlot.state = "NONE"
  BY Zenon DEF FreeSlot
<1>3. \A i \in Slots : ~sock[i].open /\ sock[i].state = "NONE"
  BY <1>2 DEF Init
<1>4. /\ polling \in BOOLEAN /\ addLocal \in BOOLEAN /\ timer \in BOOLEAN /\ closeReq \in BOOLEAN
      /\ expired \in BOOLEAN /\ raced \in BOOLEAN /\ doubled \in BOOLEAN
      /\ deaf \in BOOLEAN /\ reopened \in BOOLEAN /\ ~addLocal
  BY Zenon DEF Init
<1>5. session \in [at : SessionSteps, i : 0..(MaxContexts + 1), jobs : SUBSET Job,
                   kind : Kinds \cup {"none"}, tls : Results, late : BOOLEAN]
  <2>1. 0 \in 0..(MaxContexts + 1) /\ {} \in SUBSET Job
    BY BoundsAssumption
  <2>2. session = [at |-> "idle", i |-> 0, jobs |-> {}, kind |-> "none", tls |-> "none",
          late |-> FALSE]
    BY DEF Init
  <2>3. QED
    BY <2>1, <2>2, Zenon
<1>6. Types
  BY <1>1, <1>4, <1>5, BoundsAssumption DEF Init, Types
<1>7. Places /\ OpenInv /\ ClosedInv
  BY <1>3, <1>4 DEF Init, Places, OpenInv, ClosedInv
<1>8. GhostInv
  BY <1>3 DEF Init, GhostInv, SessionHand, ListenerHand
<1>9. QED
  BY <1>6, <1>7, <1>8 DEF IInv

\* Every step preserves the invariant of every life, and that of the first one.
LEMMA InvStep == IInv /\ [Next]_vars => IInv' /\ (OneLife /\ LifeInv => LifeInv')
<1> SUFFICES ASSUME IInv, [Next]_vars
             PROVE  IInv' /\ (OneLife /\ LifeInv => LifeInv')
  OBVIOUS
<1>1. CASE IceController_Start
  BY <1>1, StartInv
<1>2. CASE IceController_AddRemoteCandidate
  BY <1>2, AddRemoteCandidateInv
<1>3. CASE TimerExpires
  BY <1>3, TimerExpiresInv
<1>4. CASE DeadlinePasses
  BY <1>4, DeadlinePassesInv
<1>5. CASE SessionStep
  BY <1>5, ProcessIceCandidatesAndPairsInv, CreateSocketContextInv, GatherFailsInv,
     GatherNoSocketInv, AddCandidateInv, UpdateGatheredInv, CandidateNotSentInv,
     ProcessCandidatePairsInv, PeriodConnectionCheckInv, LocalCandidateInv, ExecuteTlsHandshakeInv, TlsHandshakeDoneInv,
     RequestsSentInv, DestroyInv, DestroyContextInv, DestroyedInv, AddressClosingInv
     DEF SessionStep
<1>6. CASE \E i \in Slots : Poll(i)
  BY <1>6, PollInv
<1>7. CASE ListenerStep
  BY <1>7, DispatchInv, ListenerHandshakeInv, ListenerAddCandidateInv, ListenerUpdateInv,
     RxNothingInv, RxErrorInv, RxAddressInv, RxReadyInv, RxRequestInv, NominateInv, RxDataInv,
     DeliverInv, RxTurnTerminatedInv, TurnSessionTerminatedInv
     DEF ListenerStep
<1>8. CASE SendToRemotePeer
  BY <1>8, SendToRemotePeerInv
<1>9. CASE UNCHANGED vars
  BY <1>9 DEF vars, sockVars, iceVars, requestVars, envVars, IInv, Types, Places, OpenInv,
              ClosedInv, GhostInv, SessionHand, ListenerHand, LifeInv, FirstStart, Fresh,
              Apart, LossInv, LossNoticed, Newest, SessionReserves, Reserved, ReadyHasPair
<1>10. QED
  BY <1>1, <1>2, <1>3, <1>4, <1>5, <1>6, <1>7, <1>8, <1>9 DEF Next

\* The invariant of every life holds whatever happens.
LEMMA IInvAlways == Spec => []IInv
  BY IInvInit, InvStep, PTL DEF Spec

\* Before the first life nothing has a candidate and nothing is nominated.
LEMMA LifeInit ==
    ASSUME OneLife, Init
    PROVE  LifeInv
<1>1. budget.starts = MaxStarts /\ MaxStarts \in Nat /\ iceState = "NEW"
  BY BoundsAssumption DEF Init
<1>2. /\ count = 0 /\ nominated = 0 /\ cands = <<>> /\ pairs = {} /\ session.at = "idle"
      /\ listener.at = "idle" /\ request = "none"
  BY DEF Init
<1>3. ~polling /\ ~timer /\ ~closeReq /\ ~addLocal
  BY Zenon DEF Init
<1>4. \A i \in Slots : sock[i].cand = 0 /\ sock[i].state = "NONE"
  BY DEF Init, FreeSlot
<1>5. FirstStart
  BY <1>1, <1>2, <1>3 DEF FirstStart, OneLife
<1>6. Fresh /\ Apart /\ LossInv /\ Reserved /\ ReadyHasPair
  BY <1>1, <1>2, <1>4
     DEF Fresh, Apart, LossInv, LossNoticed, Reserved, SessionReserves, ReadyHasPair
<1>7. QED
  BY <1>5, <1>6 DEF LifeInv

\* Both invariants hold throughout the first life.
LEMMA LifeAlways ==
    ASSUME OneLife
    PROVE  Spec => [](IInv /\ LifeInv)
<1>1. Init => IInv /\ LifeInv
  BY IInvInit, LifeInit
<1>2. IInv /\ LifeInv /\ [Next]_vars => IInv' /\ LifeInv'
  BY InvStep
<1>3. QED
  BY <1>1, <1>2, PTL DEF Spec

\* Every variable keeps its type: contexts, candidates and pairs stay within the limits
\* of the controller and the library, whatever fails and however often it is started.
THEOREM TypeCorrect == Spec => []TypeOK
<1>1. IInv => TypeOK
  BY DEF IInv, Types, TypeOK, Context, Candidate, Kinds
<1>2. QED
  BY <1>1, IInvAlways, PTL

\* A controller that is CLOSED holds no socket, and a context that looks alive without one
\* was closed by one task while the other was working on it (Destroy, AddressClosing,
\* IceControllerNet_FreeSocketContext, IceControllerNet_UpdateSocketContext).
THEOREM SocketsFollowStateAlways == Spec => []SocketsFollowState
<1>1. IInv => ClosedReleasesSockets
  BY DEF IInv, ClosedInv, ClosedReleasesSockets
<1>2. IInv => GhostsExplained
  BY BoundsAssumption DEF IInv, Types, Slots, GhostInv, GhostsExplained
<1>3. IInv => SocketsFollowState
  BY <1>1, <1>2 DEF SocketsFollowState
<1>4. QED
  BY <1>3, IInvAlways, PTL

\* In the first life two contexts in use have different candidates unless both tasks made
\* one at the same time, and a READY controller has a nominated context with a pair the
\* library knows ("nominated pair must be set before entering ready state",
\* IceController_PeriodConnectionCheck, IceControllerNet_AddLocalCandidates).
THEOREM PairsHaveContextsAlways ==
    ASSUME OneLife
    PROVE  Spec => []PairsHaveContexts
<1>1. IInv /\ LifeInv => OneOwner
  <2> SUFFICES ASSUME IInv, LifeInv, ~doubled, NEW i \in 1..count, NEW j \in 1..count,
                      i # j, sock[i].cand # 0
               PROVE  sock[i].cand # sock[j].cand
    BY DEF OneOwner
  <2>1. i \in Slots /\ j \in Slots
    BY BoundsAssumption DEF IInv, Types, Slots
  <2>2. QED
    BY <2>1 DEF LifeInv, Reserved
<1>2. IInv /\ LifeInv => PairsHaveContexts
  BY <1>1 DEF LifeInv, PairsHaveContexts
<1>3. QED
  BY <1>2, LifeAlways, PTL

\* In the first life the loss of the nominated context asks for a close, unless the
\* listener was the one that closed it (IceControllerNet_SendPacket).
THEOREM LossNoticedAlways ==
    ASSUME OneLife
    PROVE  Spec => []LossNoticed
<1>1. LifeInv => LossNoticed
  BY DEF LifeInv, LossInv
<1>2. QED
  BY <1>1, LifeAlways, PTL
==============================================================================
