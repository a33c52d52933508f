-------------------------- MODULE DataChannelsProofs --------------------------
(***************************************************************************)
(* Proofs about DataChannels for any sessions, sizes of the pool and of a  *)
(* session's share, streams and bounds.                                    *)
(*                                                                         *)
(* The list of a session is the least set of channels that has its head    *)
(* and is closed under pxNext (Reach).  The first part says what a write   *)
(* to one pointer does to such sets: nothing, if the channel is not in the *)
(* list; one channel more, if it is put behind the last; one less, if it   *)
(* is taken out.  No induction is needed: each lemma names a set that a    *)
(* walk cannot leave.                                                      *)
(*                                                                         *)
(* The invariant follows a channel from hand to hand.  It is lost, in the  *)
(* hands of the one listener that has taken it (Taken), or held by one     *)
(* session (Held): in its list or, while its closer goes along the list,   *)
(* among those the closer has still to give back (From).  That is true     *)
(* until two tasks race; that every walk ends (ListsEnd) needs only the    *)
(* types, so it is true even then.                                         *)
(***************************************************************************)
EXTENDS DataChannels, FiniteSetTheorems, WellFoundedInduction, TLAPS

------------------------------------------------------------------------------
(* Walks along pointers. *)

\* What pxNext of all channels may be.
Pointers == [Channels -> Channels \cup {NULL}]

\* The null pointer is no channel.
LEMMA ChannelsType == NULL \notin Channels /\ Channels \subseteq Nat
  BY DataChannelConstants DEF NULL, Channels

\* What Reach says of a set that a walk cannot leave.
LEMMA ReachWithin ==
    ASSUME NEW nx \in Pointers, NEW c \in Channels \cup {NULL}, NEW S \in SUBSET Channels,
           c \in S \cup {NULL}, \A e \in S : nx[e] \in S \cup {NULL}
    PROVE  Reach(nx, c) \subseteq S
  BY DEF Reach

\* A walk meets channels only.
LEMMA ReachType == ASSUME NEW nx, NEW c PROVE Reach(nx, c) \subseteq Channels
  BY DEF Reach

\* A walk that begins with the null pointer meets nothing.
LEMMA ReachNull == ASSUME NEW nx \in Pointers PROVE Reach(nx, NULL) = {}
<1>1. NULL \in {} \cup {NULL} /\ \A e \in {} : nx[e] \in {} \cup {NULL}
  OBVIOUS
<1>2. {} \in SUBSET Channels
  OBVIOUS
<1> QED
  BY <1>1, <1>2 DEF Reach

\* A walk meets the channel it begins with.
LEMMA ReachSelf == ASSUME NEW nx \in Pointers, NEW c \in Channels PROVE c \in Reach(nx, c)
  BY ChannelsType DEF Reach

\* A walk goes on from each channel it meets.
LEMMA ReachClosed ==
    ASSUME NEW nx \in Pointers, NEW c \in Channels \cup {NULL}, NEW d \in Reach(nx, c)
    PROVE  nx[d] \in Reach(nx, c) \cup {NULL}
<1> SUFFICES ASSUME nx[d] # NULL PROVE nx[d] \in Reach(nx, c)
  OBVIOUS
<1>1. d \in Channels /\ nx[d] \in Channels
  BY ReachType DEF Pointers
<1> SUFFICES ASSUME NEW S \in SUBSET Channels,
                    c \in S \cup {NULL}, \A e \in S : nx[e] \in S \cup {NULL}
             PROVE  nx[d] \in S
  BY <1>1 DEF Reach
<1>2. d \in S
  BY DEF Reach
<1> QED
  BY <1>2

\* What a walk meets later it meets from the beginning, too.
LEMMA ReachOnward ==
    ASSUME NEW nx \in Pointers, NEW c \in Channels \cup {NULL}, NEW d \in Reach(nx, c)
    PROVE  Reach(nx, d) \subseteq Reach(nx, c)
<1>1. Reach(nx, c) \in SUBSET Channels /\ d \in Channels
  BY ReachType
<1>2. \A e \in Reach(nx, c) : nx[e] \in Reach(nx, c) \cup {NULL}
  BY ReachClosed
<1> HIDE DEF Reach
<1> QED
  BY <1>1, <1>2, ReachWithin

\* The first step of a walk.
LEMMA ReachStep ==
    ASSUME NEW nx \in Pointers, NEW c \in Channels
    PROVE  Reach(nx, c) = {c} \cup Reach(nx, nx[c])
<1>1. nx[c] \in Channels \cup {NULL}
  BY DEF Pointers
<1>2. Reach(nx, c) \subseteq {c} \cup Reach(nx, nx[c])
  <2> DEFINE S == {c} \cup Reach(nx, nx[c])
  <2>1. S \in SUBSET Channels /\ c \in S
    BY ReachType
  <2>2. nx[c] \in S \cup {NULL}
    BY <1>1, ReachSelf
  <2>3. \A e \in S : nx[e] \in S \cup {NULL}
    BY <1>1, <2>2, ReachClosed
  <2> HIDE DEF S
  <2>4. c \in S
    BY DEF S
  <2>5. Reach(nx, c) \subseteq S
    BY <2>1, <2>3, <2>4, ReachWithin
  <2> QED
    BY <2>5 DEF S
<1>3. Reach(nx, nx[c]) \subseteq Reach(nx, c)
  <2>1. CASE nx[c] = NULL
    BY <2>1, ReachNull
  <2>2. CASE nx[c] # NULL
    BY <2>2, ReachSelf, ReachClosed, ReachOnward
  <2> QED
    BY <2>1, <2>2
<1> QED
  BY <1>2, <1>3, ReachSelf

\* A walk does not see a pointer that changes elsewhere.
LEMMA ReachFrame ==
    ASSUME NEW nx \in Pointers, NEW ny \in Pointers, NEW c \in Channels \cup {NULL},
           \A d \in Reach(nx, c) : ny[d] = nx[d]
    PROVE  Reach(ny, c) = Reach(nx, c)
<1>1. CASE c = NULL
  BY <1>1, ReachNull
<1>2. CASE c \in Channels
  <2>1. Reach(ny, c) \subseteq Reach(nx, c)
    <3> DEFINE S == Reach(nx, c)
    <3>1. S \in SUBSET Channels /\ c \in S /\ \A e \in S : ny[e] \in S \cup {NULL}
      BY <1>2, ReachType, ReachSelf, ReachClosed
    <3> HIDE DEF S
    <3>2. Reach(ny, c) \subseteq S
      BY <3>1, ReachWithin
    <3> QED
      BY <3>2 DEF S
  <2>2. Reach(nx, c) \subseteq Reach(ny, c)
    <3> DEFINE S == Reach(nx, c) \cap Reach(ny, c)
    <3>1. S \in SUBSET Channels /\ c \in S
      BY <1>2, ReachType, ReachSelf
    <3>2. \A e \in S : nx[e] \in S \cup {NULL}
      BY ReachClosed
    <3> HIDE DEF S
    <3>3. Reach(nx, c) \subseteq S
      BY <3>1, <3>2, ReachWithin
    <3> QED
      BY <3>3 DEF S
  <2> QED
    BY <2>1, <2>2
<1> QED
  BY <1>1, <1>2

------------------------------------------------------------------------------
(* Lists that end. *)

\* The walk from h ends.
Ends(nx, h) == h = NULL \/ \E t \in Reach(nx, h) : nx[t] = NULL

\* The end is behind every channel.
LEMMA TailBehind ==
    ASSUME NEW nx \in Pointers, NEW h \in Channels, NEW t \in Reach(nx, h), nx[t] = NULL
    PROVE  \A d \in Reach(nx, h) : t \in Reach(nx, d)
<1> DEFINE S == {d \in Channels : t \in Reach(nx, d)}
<1>1. t \in Channels /\ h \in S /\ S \in SUBSET Channels
  BY ReachType
<1>2. ASSUME NEW e \in S PROVE nx[e] \in S \cup {NULL}
  <2>1. nx[e] \in Channels \cup {NULL} /\ e \in Channels
    BY DEF Pointers
  <2>2. CASE e = t
    BY <2>2
  <2>3. CASE e # t
    <3>1. t \in Reach(nx, nx[e])
      BY <2>1, <2>3, ReachStep
    <3> QED
      BY <2>1, <3>1
  <2> QED
    BY <2>2, <2>3
<1> HIDE DEF S
<1>3. Reach(nx, h) \subseteq S
  BY <1>1, <1>2, ReachWithin
<1> QED
  BY <1>3 DEF S

\* A walk that ends never comes back.
LEMMA NoReturn ==
    ASSUME NEW nx \in Pointers, NEW d \in Channels, Ends(nx, d)
    PROVE  d \notin Reach(nx, nx[d])
<1> SUFFICES ASSUME d \in Reach(nx, nx[d]) PROVE FALSE
  OBVIOUS
<1>1. PICK t \in Reach(nx, d) : nx[t] = NULL
  BY ChannelsType DEF Ends
<1> DEFINE S == {e \in Channels : nx[e] # NULL /\ d \in Reach(nx, nx[e])}
<1>2. nx[d] # NULL
  BY ReachNull
<1>3. d \in S /\ S \in SUBSET Channels
  BY <1>2
<1>4. ASSUME NEW e \in S PROVE nx[e] \in S \cup {NULL}
  <2>1. nx[e] \in Channels /\ d \in Reach(nx, nx[e])
    BY DEF Pointers
  <2>2. CASE nx[e] = d
    BY <2>2, <1>3
  <2>3. CASE nx[e] # d
    <3>1. d \in Reach(nx, nx[nx[e]])
      BY <2>1, <2>3, ReachStep
    <3>2. nx[nx[e]] # NULL
      BY <3>1, ReachNull
    <3> QED
      BY <2>1, <3>1, <3>2
  <2> QED
    BY <2>2, <2>3
<1> HIDE DEF S
<1>5. Reach(nx, d) \subseteq S
  BY <1>3, <1>4, ReachWithin
<1> QED
  BY <1>1, <1>5 DEF S

\* Of two channels a walk meets, one is behind the other.
LEMMA InALine ==
    ASSUME NEW nx \in Pointers, NEW h \in Channels, NEW x \in Reach(nx, h), NEW y \in Reach(nx, h)
    PROVE  y \in Reach(nx, x) \/ x \in Reach(nx, y)
<1> DEFINE S == {z \in Channels : y \in Reach(nx, z) \/ z \in Reach(nx, y)}
<1>1. y \in Channels /\ h \in S /\ S \in SUBSET Channels
  BY ReachType
<1>2. ASSUME NEW e \in S PROVE nx[e] \in S \cup {NULL}
  <2>1. nx[e] \in Channels \cup {NULL} /\ e \in Channels
    BY DEF Pointers
  <2>2. CASE e \in Reach(nx, y)
    BY <1>1, <2>1, <2>2, ReachClosed
  <2>3. CASE e \notin Reach(nx, y)
    <3>1. y \in Reach(nx, e) /\ y # e
      BY <1>1, <2>3, ReachSelf
    <3>2. y \in Reach(nx, nx[e])
      BY <2>1, <3>1, ReachStep
    <3> QED
      BY <2>1, <3>2
  <2> QED
    BY <2>2, <2>3
<1> HIDE DEF S
<1>3. Reach(nx, h) \subseteq S
  BY <1>1, <1>2, ReachWithin
<1> QED
  BY <1>3 DEF S

\* A walk that ends also ends from any channel it meets.
LEMMA EndsBehind ==
    ASSUME NEW nx \in Pointers, NEW h \in Channels, Ends(nx, h), NEW d \in Reach(nx, h)
    PROVE  Ends(nx, d) /\ Ends(nx, nx[d]) /\ d \in Channels
<1>1. PICK t \in Reach(nx, h) : nx[t] = NULL
  BY ChannelsType DEF Ends
<1>2. t \in Reach(nx, d) /\ d \in Channels
  BY <1>1, TailBehind, ReachType
<1>3. Reach(nx, d) = {d} \cup Reach(nx, nx[d])
  BY <1>2, ReachStep
<1> QED
  BY <1>1, <1>2, <1>3 DEF Ends

\* Two channels of a list have different successors, and the first one is nobody's.
LEMMA OneBefore ==
    ASSUME NEW nx \in Pointers, NEW h \in Channels, Ends(nx, h),
           NEW x \in Reach(nx, h), nx[x] # NULL
    PROVE  /\ nx[x] # h
           /\ \A y \in Reach(nx, h) : nx[y] = nx[x] => y = x
<1>1. /\ x \in Channels /\ nx[x] \in Channels
      /\ x \notin Reach(nx, nx[x])
  BY EndsBehind, NoReturn DEF Pointers
<1>2. nx[x] # h
  BY <1>1
<1>3. ASSUME NEW y \in Reach(nx, h), nx[y] = nx[x], y # x PROVE FALSE
  <2>1. y \in Channels /\ y \notin Reach(nx, nx[y])
    BY EndsBehind, NoReturn
  <2>2. CASE y \in Reach(nx, x)
    <3>1. y \in Reach(nx, nx[x])
      BY <1>1, <1>3, <2>2, ReachStep
    <3> QED
      BY <1>3, <2>1, <3>1
  <2>3. CASE x \in Reach(nx, y)
    <3>1. x \in Reach(nx, nx[y])
      BY <1>3, <2>1, <2>3, ReachStep
    <3> QED
      BY <1>1, <1>3, <3>1
  <2> QED
    BY <2>2, <2>3, InALine
<1> QED
  BY <1>2, <1>3

\* There is one last channel.
LEMMA OneTail ==
    ASSUME NEW nx \in Pointers, NEW h \in Channels, NEW t \in Reach(nx, h), nx[t] = NULL
    PROVE  /\ t \in Channels
           /\ \A u \in Reach(nx, h) : nx[u] = NULL => u = t
           /\ (CHOOSE c \in Reach(nx, h) : nx[c] = NULL) = t
<1>1. t \in Channels
  BY ReachType
<1>2. ASSUME NEW u \in Reach(nx, h), nx[u] = NULL PROVE u = t
  <2>1. t \in Reach(nx, u) /\ u \in Channels
    BY TailBehind, ReachType
  <2>2. Reach(nx, u) = {u} \cup Reach(nx, nx[u]) /\ Reach(nx, nx[u]) = {}
    BY <1>2, <2>1, ReachStep, ReachNull
  <2> QED
    BY <2>1, <2>2
<1> QED
  BY <1>1, <1>2

\* A channel put behind the last one (LinkIn).
LEMMA LinkedAtTheEnd ==
    ASSUME NEW nx \in Pointers, NEW h \in Channels, NEW t \in Reach(nx, h), nx[t] = NULL,
           NEW c \in Channels, c \notin Reach(nx, h),
           NEW ny \in Pointers, ny[c] = NULL, ny[t] = c,
           \A d \in Channels \ {c, t} : ny[d] = nx[d]
    PROVE  Reach(ny, h) = Reach(nx, h) \cup {c}
<1>1. t \in Channels /\ t # c
  BY ReachType
<1>2. \A d \in Channels : d # c /\ d # t => ny[d] = nx[d]
  OBVIOUS
<1>3. Reach(ny, h) \subseteq Reach(nx, h) \cup {c}
  <2> DEFINE S == Reach(nx, h) \cup {c}
  <2>1. S \in SUBSET Channels /\ h \in S
    BY ReachType, ReachSelf
  <2>2. \A e \in S : ny[e] \in S \cup {NULL}
    BY <1>2, ReachType, ReachClosed
  <2> HIDE DEF S
  <2>3. Reach(ny, h) \subseteq S
    BY <1>2, <2>1, <2>2, ReachWithin
  <2> QED
    BY <2>3 DEF S
<1>4. Reach(nx, h) \subseteq Reach(ny, h)
  <2> DEFINE S == Reach(nx, h) \cap Reach(ny, h)
  <2>1. S \in SUBSET Channels /\ h \in S
    BY <1>2, ReachType, ReachSelf
  <2>2. ASSUME NEW e \in S PROVE nx[e] \in S \cup {NULL}
    <3>1. e = t \/ ny[e] = nx[e]
      BY <1>2, ReachType
    <3> QED
      BY <1>2, <3>1, ReachClosed
  <2> HIDE DEF S
  <2>3. Reach(nx, h) \subseteq S
    BY <2>1, <2>2, ReachWithin
  <2> QED
    BY <2>3 DEF S
<1>5. c \in Reach(ny, h)
  <2>1. t \in Reach(ny, h) /\ c # NULL
    BY <1>4, ChannelsType
  <2> QED
    BY <1>2, <2>1, ReachClosed
<1> QED
  BY <1>3, <1>4, <1>5

\* The first channel is taken out (LinkOut, CloseChannel).
LEMMA HeadTakenOut ==
    ASSUME NEW nx \in Pointers, NEW h \in Channels, Ends(nx, h)
    PROVE  Reach(nx, nx[h]) = Reach(nx, h) \ {h}
  BY ReachStep, NoReturn

\* A later channel has one before it.
LEMMA HasBefore ==
    ASSUME NEW nx \in Pointers, NEW h \in Channels, NEW c \in Reach(nx, h), c # h
    PROVE  \E d \in Reach(nx, h) : nx[d] = c
<1> SUFFICES ASSUME \A d \in Reach(nx, h) : nx[d] # c PROVE FALSE
  OBVIOUS
<1> DEFINE S == Reach(nx, h) \ {c}
<1>1. S \in SUBSET Channels /\ h \in S
  BY ReachType, ReachSelf
<1>2. \A e \in S : nx[e] \in S \cup {NULL}
  BY ReachClosed
<1> HIDE DEF S
<1>3. Reach(nx, h) \subseteq S
  BY <1>1, <1>2, ReachWithin
<1> QED
  BY <1>3 DEF S

\* A later channel is taken out (LinkOut).
LEMMA LaterTakenOut ==
    ASSUME NEW nx \in Pointers, NEW h \in Channels, Ends(nx, h),
           NEW c \in Reach(nx, h), c # h, NEW p \in Reach(nx, h), nx[p] = c,
           NEW ny \in Pointers, ny[p] = nx[c], \A d \in Channels \ {p} : ny[d] = nx[d]
    PROVE  Reach(ny, h) = Reach(nx, h) \ {c}
<1>1. c \in Channels /\ nx[c] \in Channels \cup {NULL}
  BY ReachType DEF Pointers
<1>2. p \in Channels /\ nx[c] # c /\ p # c /\ c # NULL
  <2>1. c \notin Reach(nx, nx[c])
    BY <1>1, EndsBehind, NoReturn
  <2>2. nx[c] # c
    BY <1>1, <2>1, ReachSelf
  <2> QED
    BY <1>1, <2>2, ReachType, ChannelsType
<1>3. \A d \in Reach(nx, h) : d # p => nx[d] # c
  BY <1>2, OneBefore
<1>4. Reach(ny, h) \subseteq Reach(nx, h) \ {c}
  <2> DEFINE S == Reach(nx, h) \ {c}
  <2>1. S \in SUBSET Channels /\ h \in S
    BY ReachType, ReachSelf
  <2>2. ASSUME NEW e \in S PROVE ny[e] \in S \cup {NULL}
    <3>1. CASE e = p
      BY <1>2, <3>1, ReachClosed
    <3>2. CASE e # p
      BY <1>3, <3>2, ReachClosed, ReachType
    <3> QED
      BY <3>1, <3>2
  <2> HIDE DEF S
  <2>3. Reach(ny, h) \subseteq S
    BY <2>1, <2>2, ReachWithin
  <2> QED
    BY <2>3 DEF S
<1>5. p \in Reach(ny, h)
  <2> SUFFICES ASSUME p \notin Reach(ny, h) PROVE FALSE
    OBVIOUS
  <2>1. \A d \in Reach(ny, h) : nx[d] = ny[d]
    BY ReachType
  <2>2. ny \in Pointers /\ h \in Channels \cup {NULL}
    OBVIOUS
  <2>3. Reach(nx, h) = Reach(ny, h)
    BY <2>1, <2>2, ReachFrame
  <2> QED
    BY <2>3
<1>6. Reach(nx, h) \subseteq Reach(ny, h) \cup {c}
  <2> DEFINE S == (Reach(nx, h) \cap Reach(ny, h)) \cup {c}
  <2>1. S \in SUBSET Channels /\ h \in S
    BY <1>1, ReachType, ReachSelf
  <2>2. ASSUME NEW e \in S PROVE nx[e] \in S \cup {NULL}
    <3>1. CASE e = p
      BY <3>1
    <3>2. CASE e = c
      <4>1. nx[c] \in Reach(nx, h) \cup {NULL} /\ ny[p] \in Reach(ny, h) \cup {NULL}
        BY <1>5, ReachClosed
      <4> QED
        BY <3>2, <4>1
    <3>3. CASE e # p /\ e # c
      <4>1. e \in Reach(nx, h) /\ e \in Reach(ny, h) /\ e \in Channels
        BY <3>3, ReachType
      <4>2. nx[e] = ny[e] /\ nx[e] \in Reach(nx, h) \cup {NULL} /\ ny[e] \in Reach(ny, h) \cup {NULL}
        BY <3>3, <4>1, ReachClosed
      <4> QED
        BY <4>2
    <3> QED
      BY <3>1, <3>2, <3>3
  <2> HIDE DEF S
  <2>3. Reach(nx, h) \subseteq S
    BY <2>1, <2>2, ReachWithin
  <2> QED
    BY <2>3 DEF S
<1> QED
  BY <1>2, <1>4, <1>6

------------------------------------------------------------------------------
(* The invariant. *)

\* The types of all variables, and what the records of the two tasks hold at each step.
Types ==
    /\ active \in [Channels -> BOOLEAN] /\ next \in Pointers
    /\ total \in Nat /\ stream \in [Channels -> Nat]
    /\ head \in [Sessions -> Channels \cup {NULL}] /\ count \in [Sessions -> Nat]
    /\ state \in [Sessions -> {"INITED", "READY", "CLOSING"}]
    /\ shutdown \in [Sessions -> {"initiated", "active", "completed"}]
    /\ socket \in [Sessions -> {"none", "open", "lost"}]
    /\ listener \in [Sessions -> [at : {"idle", "find", "take", "link", "ack"},
                                  stream : Nat, channel : Channels \cup {NULL}]]
    /\ closer \in [Sessions -> [at : {"idle", "reset", "close", "advance", "free", "wait"},
                                stream : {0}, channel : Channels \cup {NULL}]]
    /\ acked \in [Sessions -> SUBSET Nat] /\ refused \in [Sessions -> SUBSET Nat]
    /\ leaked \in SUBSET Channels /\ raced \in BOOLEAN

\* A task at rest has forgotten its channel, and one that holds a channel has one.
AtHand(s) ==
    /\ listener[s].at = "idle" => listener[s] = Idle
    /\ listener[s].at \in {"take", "link"} => listener[s].channel # NULL
    /\ closer[s].at = "idle" => closer[s] = Idle
    /\ closer[s].at = "advance" => closer[s].channel # NULL

Hands == \A s \in Sessions : AtHand(s)

\* The state of a session says who works on it, and a socket that is open belongs to an
\* association that is active.
Phase(s) ==
    /\ state[s] = "CLOSING" <=> closer[s] # Idle
    /\ state[s] = "INITED" => listener[s] = Idle /\ acked[s] = {} /\ socket[s] # "open"
    /\ socket[s] = "open" => shutdown[s] = "active"
    /\ closer[s].at = "wait" => socket[s] # "open"

PhaseInv == \A s \in Sessions : Phase(s)

\* The first of the channels that the session has, or that its closer has still to give
\* back; all of them; the one its listener has taken and not yet linked.
From(s) ==
    CASE closer[s].at = "close" -> closer[s].channel
      [] closer[s].at = "advance" -> next[closer[s].channel]
      [] OTHER -> head[s]
Held(s) == Reach(next, From(s))
Taken(s) == IF listener[s].at = "link" THEN {listener[s].channel} ELSE {}

InUse == {c \in Channels : active[c]}

\* Every channel in use belongs to one session, or was lost; one whose pxNext the closer
\* has still to read is in nobody's use.
PoolInv ==
    /\ \A c \in Channels :
        active[c] <=> c \in leaked \/ \E s \in Sessions : c \in Held(s) \cup Taken(s)
    /\ \A s \in Sessions :
        /\ leaked \cap (Held(s) \cup Taken(s)) = {}
        /\ Taken(s) \cap Held(s) = {}
        /\ closer[s].at = "advance" => ~active[closer[s].channel]
        /\ \A t \in Sessions \ {s} : (Held(s) \cup Taken(s)) \cap (Held(t) \cup Taken(t)) = {}

\* No message is handled while its session is closed.
QuietInv == \A s \in Sessions : state[s] = "CLOSING" => listener[s] = Idle

\* The counts are true, but for a session whose closer has begun.
CountInv ==
    /\ total = Cardinality(InUse)
    /\ \A s \in Sessions :
        /\ closer[s] = Idle => count[s] = Cardinality(Listed(s)) /\ count[s] <= PerPeer
        /\ closer[s].at \in {"close", "advance", "free", "wait"} => count[s] = 0
        /\ closer[s].at \in {"free", "wait"} => head[s] = NULL
        /\ listener[s].at \in {"take", "link"} => count[s] < PerPeer

\* A stream that is or will be acknowledged has its channel.
Acknowledged(s) ==
    /\ listener[s].at = "ack" =>
        listener[s].stream \in refused[s] \/ ChannelOf(s, listener[s].stream) # {}
    /\ state[s] = "READY" =>
        \A str \in acked[s] \ refused[s] : ChannelOf(s, str) # {}

AckInv == \A s \in Sessions : Acknowledged(s)

CalmInv == QuietInv /\ PoolInv /\ CountInv /\ AckInv

IInv == Types /\ Hands /\ PhaseInv /\ ListsEnd /\ (~raced => CalmInv)

------------------------------------------------------------------------------
(* What the steps have in common. *)

\* Every set of channels can be counted.
LEMMA ChannelsFinite ==
    \A S \in SUBSET Channels : IsFiniteSet(S) /\ Cardinality(S) \in Nat
<1>1. IsFiniteSet(Channels)
  BY DataChannelConstants, FS_Interval DEF Channels
<1> QED
  BY <1>1, FS_Subset, FS_CardinalityType

\* Where the walks begin.
LEMMA FromType ==
    ASSUME Types, Hands, NEW s \in Sessions
    PROVE  From(s) \in Channels \cup {NULL} /\ Held(s) \subseteq Channels
<1>1. Held(s) \subseteq Channels
  BY ReachType DEF Held
<1>2. closer[s].channel \in Channels \cup {NULL} /\ head[s] \in Channels \cup {NULL}
  BY DEF Types
<1>3. CASE closer[s].at = "advance"
  BY <1>1, <1>2, <1>3 DEF From, Types, Hands, AtHand, Pointers
<1>4. CASE closer[s].at # "advance"
  BY <1>1, <1>2, <1>4 DEF From
<1> QED
  BY <1>3, <1>4

\* A session that nobody closes holds its list.
LEMMA ListIsHeld ==
    ASSUME NEW s \in Sessions, closer[s].at \notin {"close", "advance"}
    PROVE  Held(s) = Listed(s)
  BY DEF Held, From, Listed

\* A step that changes neither the pool nor what a session holds.
LEMMA PoolKept ==
    ASSUME PoolInv, active' = active, leaked' = leaked,
           \A s \in Sessions :
               /\ Held(s)' = Held(s) /\ Taken(s)' = Taken(s)
               /\ closer'[s].at = "advance" => closer'[s] = closer[s]
    PROVE  PoolInv'
<1>1. \A c \in Channels :
        active'[c] <=> c \in leaked' \/ \E s \in Sessions : c \in Held(s)' \cup Taken(s)'
  BY DEF PoolInv
<1>2. ASSUME NEW s \in Sessions, closer'[s].at = "advance" PROVE ~active'[closer'[s].channel]
  BY <1>2 DEF PoolInv
<1>3. ASSUME NEW s \in Sessions
      PROVE  /\ leaked' \cap (Held(s)' \cup Taken(s)') = {}
             /\ Taken(s)' \cap Held(s)' = {}
             /\ \A t \in Sessions \ {s} :
                    (Held(s)' \cup Taken(s)') \cap (Held(t)' \cup Taken(t)') = {}
  BY DEF PoolInv
<1> QED
  BY <1>1, <1>2, <1>3 DEF PoolInv

\* A step that leaves a session its channels and their streams.
LEMMA AcknowledgedKept ==
    ASSUME NEW s \in Sessions, Acknowledged(s),
           listener'[s] = listener[s], acked'[s] = acked[s], refused'[s] = refused[s],
           state'[s] = "READY" => state[s] = "READY",
           state[s] = "READY" \/ listener[s].at = "ack" =>
               \A c \in Listed(s) : c \in Listed(s)' /\ stream'[c] = stream[c]
    PROVE  Acknowledged(s)'
  BY DEF Acknowledged, ChannelOf

\* A step that writes no pointer leaves the lists alone ...
LEMMA ReachPrimed ==
    ASSUME next' = next, NEW s \in Sessions, head'[s] = head[s]
    PROVE  Listed(s)' = Listed(s)
  BY DEF Listed

\* ... and the walks with them.
LEMMA ListsEndKept == ASSUME ListsEnd, next' = next PROVE ListsEnd'
  BY DEF ListsEnd

\* A list that ends.
LEMMA ListEnds ==
    ASSUME ListsEnd, NEW c \in Channels \cup {NULL}
    PROVE  Ends(next, c)
  BY DEF ListsEnd, Ends

\* The invariant holds at the start: no channel is in use and every list is empty.
LEMMA InitIInv == Init => IInv
<1> SUFFICES ASSUME Init PROVE IInv
  OBVIOUS
<1>1. Types /\ Hands /\ PhaseInv
  BY ChannelsType DEF Init, Types, Hands, AtHand, PhaseInv, Phase, Idle, Pointers
<1>2. ListsEnd
  BY <1>1, ReachSelf DEF Init, ListsEnd, Types
<1>3. \A s \in Sessions : Held(s) = {} /\ Taken(s) = {} /\ Listed(s) = {}
  BY <1>1, ReachNull DEF Init, Held, From, Taken, Listed, Types, Idle
<1>4. InUse = {}
  BY DEF Init, InUse
<1>5. QuietInv /\ PoolInv
  <2>1. \A s \in Sessions : closer[s].at # "advance" /\ state[s] # "CLOSING"
    BY DEF Init, Idle
  <2>2. leaked = {}
    BY DEF Init
  <2> QED
    BY <1>3, <2>1, <2>2 DEF Init, QuietInv, PoolInv
<1>6. CountInv
  <2>1. Cardinality({}) = 0
    BY FS_EmptySet
  <2>2. total = Cardinality(InUse)
    BY <1>4, <2>1 DEF Init
  <2>3. ASSUME NEW s \in Sessions
        PROVE  /\ count[s] = Cardinality(Listed(s)) /\ count[s] <= PerPeer
               /\ closer[s].at = "idle" /\ listener[s].at = "idle"
    <3>1. count[s] = 0 /\ closer[s].at = "idle" /\ listener[s].at = "idle"
      BY DEF Init, Idle
    <3>2. Cardinality(Listed(s)) = 0
      BY <1>3, <2>1
    <3>3. 0 <= PerPeer
      BY DataChannelConstants
    <3> QED
      BY <3>1, <3>2, <3>3
  <2> QED
    BY <2>2, <2>3 DEF CountInv
<1>7. AckInv
  BY DEF Init, AckInv, Acknowledged, Idle
<1> QED
  BY <1>1, <1>2, <1>5, <1>6, <1>7 DEF IInv, CalmInv

------------------------------------------------------------------------------
(* The steps that leave the pool and the lists as they are. *)

\* A step after which every session holds the same channels, with the same counts.
LEMMA CalmKept ==
    ASSUME IInv, ~raced, QuietInv',
           active' = active, total' = total, next' = next, leaked' = leaked,
           \A s \in Sessions :
               /\ Held(s)' = Held(s) /\ Taken(s)' = Taken(s)
               /\ closer'[s].at = "advance" => closer'[s] = closer[s]
               /\ closer'[s] = Idle =>
                    /\ head'[s] = head[s] /\ count'[s] = count[s]
                    /\ closer[s] = Idle \/ closer[s].at = "wait"
               /\ closer'[s].at \in {"close", "advance", "free", "wait"} => count'[s] = 0
               /\ closer'[s].at \in {"free", "wait"} => head'[s] = NULL
               /\ listener'[s].at \in {"take", "link"} => count'[s] < PerPeer,
           AckInv'
    PROVE  CalmInv'
<1>1. PoolInv'
  BY PoolKept DEF IInv, CalmInv
<1>2. total' = Cardinality(InUse)'
  BY DEF IInv, CalmInv, CountInv, InUse
<1>3. ASSUME NEW s \in Sessions, closer'[s] = Idle
      PROVE  count'[s] = Cardinality(Listed(s))' /\ count'[s] <= PerPeer
  <2>1. Listed(s)' = Listed(s)
    BY <1>3, ReachPrimed
  <2>2. CASE closer[s] = Idle
    BY <1>3, <2>1, <2>2 DEF IInv, CalmInv, CountInv
  <2>3. CASE closer[s].at = "wait"
    <3>1. count[s] = 0 /\ Listed(s) = {}
      BY <2>3, ReachNull DEF IInv, CalmInv, CountInv, Types, Listed
    <3>2. Cardinality({}) = 0 /\ 0 <= PerPeer
      BY FS_EmptySet, DataChannelConstants
    <3> QED
      BY <1>3, <2>1, <3>1, <3>2
  <2> QED
    BY <1>3, <2>2, <2>3
<1>4. CountInv'
  BY <1>2, <1>3 DEF CountInv
<1> QED
  BY <1>1, <1>4 DEF CalmInv

\* A session that streams, or whose listener handles a message, is not being closed.
LEMMA Streaming ==
    ASSUME IInv, ~raced, NEW s \in Sessions, state[s] = "READY" \/ listener[s].at # "idle"
    PROVE  state[s] = "READY" /\ closer[s] = Idle /\ Held(s) = Listed(s)
<1>1. state[s] = "READY" /\ closer[s] = Idle
  BY DEF IInv, CalmInv, QuietInv, PhaseInv, Phase, Types, Idle
<1> QED
  BY <1>1, ListIsHeld DEF Idle

\* Sessions have different channels.
LEMMA ListsApart ==
    ASSUME IInv, ~raced, NEW s \in Sessions, NEW t \in Sessions, s # t,
           closer[s] = Idle, closer[t] = Idle
    PROVE  Listed(s) \cap Listed(t) = {}
<1>1. Held(s) = Listed(s) /\ Held(t) = Listed(t)
  BY ListIsHeld DEF Idle
<1> QED
  BY <1>1 DEF IInv, CalmInv, PoolInv

\* The association is made: only the streams of the session's own channels change.
LEMMA SctpMadeStreams ==
    ASSUME IInv, NEW s \in Sessions, SctpMade(s)
    PROVE  /\ stream' \in [Channels -> Nat]
           /\ \A c \in Channels \ Listed(s) : stream'[c] = stream[c]
<1>1. \A c \in Channels : LocalStream(s, c) \in Nat
  <2> SUFFICES ASSUME NEW c \in Channels PROVE LocalStream(s, c) \in Nat
    OBVIOUS
  <2>1. Listed(s) \ Reach(next, c) \in SUBSET Channels
    BY ReachType DEF Listed
  <2>2. Cardinality(Listed(s) \ Reach(next, c)) \in Nat
    BY <2>1, ChannelsFinite
  <2> QED
    BY <2>2, DataChannelConstants DEF LocalStream
<1> QED
  BY <1>1 DEF SctpMade, IInv, Types

\* Only streams of the session's own channels are renumbered, and a session that is INITED
\* has acknowledged none.
LEMMA HandshakeCompleteStep ==
    ASSUME IInv, NEW s \in Sessions, HandshakeComplete(s)
    PROVE  IInv'
<1> USE DEF HandshakeComplete, poolVars, historyVars
<1>1. Types'
  <2>1. stream' \in [Channels -> Nat]
    BY SctpMadeStreams DEF IInv, Types
  <2> QED
    BY <2>1 DEF IInv, Types, SctpMade
<1>2. Hands' /\ PhaseInv'
  BY DEF IInv, Hands, AtHand, PhaseInv, Phase, Types, SctpMade
<1>3. ListsEnd'
  BY ListsEndKept DEF IInv
<1>4. ASSUME ~raced' PROVE CalmInv'
  <2>1. ~raced /\ CalmInv /\ QuietInv'
    BY <1>4 DEF IInv, CalmInv, QuietInv, PhaseInv, Phase, Types
  <2>2. \A t \in Sessions : Held(t)' = Held(t) /\ Taken(t)' = Taken(t)
    BY DEF Held, From, Taken
  <2>3. ASSUME NEW t \in Sessions PROVE Acknowledged(t)'
    <3>1. CASE t = s
      BY <3>1 DEF IInv, PhaseInv, Phase, Types, Acknowledged, Idle
    <3>2. CASE t # s
      <4>1. ASSUME state[t] = "READY" \/ listener[t].at = "ack", NEW c \in Listed(t)
            PROVE  stream'[c] = stream[c]
        <5>1. closer[s] = Idle /\ closer[t] = Idle
          BY <2>1, <4>1, Streaming DEF IInv, PhaseInv, Phase, Types
        <5>2. c \in Channels \ Listed(s)
          BY <2>1, <3>2, <4>1, <5>1, ListsApart, ReachType DEF Listed
        <5> QED
          BY <5>2, SctpMadeStreams
      <4>2. Listed(t)' = Listed(t)
        BY ReachPrimed
      <4> QED
        BY <2>1, <3>2, <4>1, <4>2, AcknowledgedKept DEF CalmInv, AckInv, IInv, Types
    <3> QED
      BY <3>1, <3>2
  <2> QED
    BY <2>1, <2>2, <2>3, CalmKept DEF CalmInv, CountInv, AckInv
<1> QED
  BY <1>1, <1>2, <1>3, <1>4 DEF IInv

\* What a task's move to its next step leaves of the other sessions.
LEMMA CloserMoves ==
    ASSUME Types, NEW s \in Sessions, NEW c \in Channels \cup {NULL},
           NEW step \in {"idle", "reset", "close", "advance", "free", "wait"},
           CloserDoes(s, step, c)
    PROVE  /\ closer' \in [Sessions -> [at : {"idle", "reset", "close", "advance", "free", "wait"},
                                        stream : {0}, channel : Channels \cup {NULL}]]
           /\ closer'[s].at = step /\ closer'[s].channel = c
           /\ \A t \in Sessions \ {s} : closer'[t] = closer[t]
  BY DEF Types, CloserDoes, Idle

\* ... and what a move of the listener leaves.
LEMMA ListenerMoves ==
    ASSUME Types, NEW s \in Sessions, NEW c \in Channels \cup {NULL}, NEW str \in Nat,
           NEW step \in {"idle", "find", "take", "link", "ack"}, ListenerDoes(s, step, str, c)
    PROVE  /\ listener' \in [Sessions -> [at : {"idle", "find", "take", "link", "ack"},
                                          stream : Nat, channel : Channels \cup {NULL}]]
           /\ listener'[s].at = step /\ listener'[s].stream = str /\ listener'[s].channel = c
           /\ \A t \in Sessions \ {s} : listener'[t] = listener[t]
  BY DEF Types, ListenerDoes

\* A closing session's listener is at rest.
LEMMA Closing ==
    ASSUME IInv, NEW s \in Sessions, closer[s].at # "idle"
    PROVE  state[s] = "CLOSING" /\ closer[s] # Idle
  BY DEF IInv, PhaseInv, Phase, Idle

\* The session keeps its list while its closer begins; the listener is idle or it is a race.
LEMMA CloseSessionStep ==
    ASSUME IInv, NEW s \in Sessions, CloseSession(s)
    PROVE  IInv'
<1> USE DEF CloseSession, poolVars, sessionVars, historyVars
<1>0. /\ closer' \in [Sessions -> [at : {"idle", "reset", "close", "advance", "free", "wait"},
                                   stream : {0}, channel : Channels \cup {NULL}]]
      /\ closer'[s].at = "reset" /\ closer'[s].channel = NULL
      /\ \A t \in Sessions \ {s} : closer'[t] = closer[t]
  BY CloserMoves DEF IInv, Types
<1>1. Types'
  BY <1>0 DEF IInv, Types
<1>2. Hands' /\ PhaseInv'
  <2> SUFFICES ASSUME NEW t \in Sessions PROVE AtHand(t)' /\ Phase(t)'
    BY DEF Hands, PhaseInv
  <2>1. AtHand(t) /\ Phase(t)
    BY DEF IInv, Hands, PhaseInv
  <2>2. CASE t = s
    BY <1>0, <2>1, <2>2 DEF IInv, AtHand, Phase, Types, Idle
  <2>3. CASE t # s
    BY <1>0, <2>1, <2>3 DEF IInv, AtHand, Phase, Types
  <2> QED
    BY <2>2, <2>3
<1>3. ListsEnd'
  BY ListsEndKept DEF IInv
<1>4. ASSUME ~raced' PROVE CalmInv'
  <2>1. ~raced /\ CalmInv /\ QuietInv'
    BY <1>0, <1>4 DEF IInv, CalmInv, QuietInv, PhaseInv, Phase, Types, Idle
  <2>2. ASSUME NEW t \in Sessions PROVE Held(t)' = Held(t) /\ Taken(t)' = Taken(t)
    <3>1. CASE t = s
      BY <1>0, <2>1, <3>1 DEF Held, From, Taken, IInv, Types, CalmInv, CountInv, PhaseInv, Phase, Idle
    <3>2. CASE t # s
      BY <1>0, <3>2 DEF Held, From, Taken, IInv, Types
    <3> QED
      BY <3>1, <3>2
  <2>3. ASSUME NEW t \in Sessions PROVE Acknowledged(t)'
    <3>1. Listed(t)' = Listed(t) \/ (state[t] # "READY" /\ listener[t].at = "idle")
      BY <1>0, <2>1, ReachPrimed, Closing DEF IInv, PhaseInv, Phase, CalmInv, QuietInv, Types, Idle
    <3>2. Acknowledged(t) /\ (state'[t] = "READY" => state[t] = "READY")
      BY <2>1 DEF CalmInv, AckInv, IInv, Types
    <3> QED
      BY <3>1, <3>2, AcknowledgedKept
  <2>4. ASSUME NEW t \in Sessions
        PROVE  /\ closer'[t].at = "advance" => closer'[t] = closer[t]
               /\ closer'[t] = Idle =>
                    /\ head'[t] = head[t] /\ count'[t] = count[t]
                    /\ closer[t] = Idle \/ closer[t].at = "wait"
               /\ closer'[t].at \in {"close", "advance", "free", "wait"} => count'[t] = 0
               /\ closer'[t].at \in {"free", "wait"} => head'[t] = NULL
               /\ listener'[t].at \in {"take", "link"} => count'[t] < PerPeer
    <3>1. CASE t = s
      BY <1>0, <2>1, <3>1 DEF IInv, Types, Hands, AtHand, PhaseInv, Phase, CalmInv, QuietInv, CountInv, Idle
    <3>2. CASE t # s
      BY <1>0, <2>1, <3>2 DEF IInv, Types, PhaseInv, Phase, CalmInv, CountInv
    <3> QED
      BY <3>1, <3>2
  <2> QED
    BY <2>1, <2>2, <2>3, <2>4, CalmKept DEF AckInv
<1> QED
  BY <1>1, <1>2, <1>3, <1>4 DEF IInv

\* The closer goes on with the whole list: what the session holds is the same.
LEMMA ResetCountStep ==
    ASSUME IInv, NEW s \in Sessions, ResetCount(s)
    PROVE  IInv'
<1> USE DEF ResetCount, poolVars, sessionVars, historyVars
<1>0. /\ closer' \in [Sessions -> [at : {"idle", "reset", "close", "advance", "free", "wait"},
                                   stream : {0}, channel : Channels \cup {NULL}]]
      /\ closer'[s].at = "close" /\ closer'[s].channel = head[s]
      /\ \A t \in Sessions \ {s} : closer'[t] = closer[t]
  BY CloserMoves DEF IInv, Types
<1>1. Types'
  BY <1>0 DEF IInv, Types
<1>2. Hands' /\ PhaseInv'
  <2> SUFFICES ASSUME NEW t \in Sessions PROVE AtHand(t)' /\ Phase(t)'
    BY DEF Hands, PhaseInv
  <2>1. AtHand(t) /\ Phase(t)
    BY DEF IInv, Hands, PhaseInv
  <2>2. CASE t = s
    BY <1>0, <2>1, <2>2, Closing DEF IInv, AtHand, Phase, Types, Idle
  <2>3. CASE t # s
    BY <1>0, <2>1, <2>3 DEF IInv, AtHand, Phase, Types
  <2> QED
    BY <2>2, <2>3
<1>3. ListsEnd'
  BY ListsEndKept DEF IInv
<1>4. ASSUME ~raced' PROVE CalmInv'
  <2>1. ~raced /\ CalmInv /\ QuietInv'
    BY <1>0, <1>4 DEF IInv, CalmInv, QuietInv, PhaseInv, Phase, Types, Idle
  <2>2. ASSUME NEW t \in Sessions PROVE Held(t)' = Held(t) /\ Taken(t)' = Taken(t)
    <3>1. CASE t = s
      BY <1>0, <2>1, <3>1 DEF Held, From, Taken, IInv, Types, CalmInv, CountInv
    <3>2. CASE t # s
      BY <1>0, <3>2 DEF Held, From, Taken, IInv, Types
    <3> QED
      BY <3>1, <3>2
  <2>3. ASSUME NEW t \in Sessions PROVE Acknowledged(t)'
    <3>1. Listed(t)' = Listed(t) \/ (state[t] # "READY" /\ listener[t].at = "idle")
      BY <1>0, <2>1, ReachPrimed, Closing DEF IInv, PhaseInv, Phase, CalmInv, QuietInv, Types, Idle
    <3>2. Acknowledged(t) /\ (state'[t] = "READY" => state[t] = "READY")
      BY <2>1 DEF CalmInv, AckInv, IInv, Types
    <3> QED
      BY <3>1, <3>2, AcknowledgedKept
  <2>4. ASSUME NEW t \in Sessions
        PROVE  /\ closer'[t].at = "advance" => closer'[t] = closer[t]
               /\ closer'[t] = Idle =>
                    /\ head'[t] = head[t] /\ count'[t] = count[t]
                    /\ closer[t] = Idle \/ closer[t].at = "wait"
               /\ closer'[t].at \in {"close", "advance", "free", "wait"} => count'[t] = 0
               /\ closer'[t].at \in {"free", "wait"} => head'[t] = NULL
               /\ listener'[t].at \in {"take", "link"} => count'[t] < PerPeer
    <3>1. CASE t = s
      BY <1>0, <2>1, <3>1 DEF IInv, Types, Hands, AtHand, PhaseInv, Phase, CalmInv, QuietInv, CountInv, Idle
    <3>2. CASE t # s
      BY <1>0, <2>1, <3>2 DEF IInv, Types, PhaseInv, Phase, CalmInv, CountInv
    <3> QED
      BY <3>1, <3>2
  <2> QED
    BY <2>1, <2>2, <2>3, <2>4, CalmKept DEF AckInv
<1> QED
  BY <1>1, <1>2, <1>3, <1>4 DEF IInv

\* The closer reads the pointer of a channel that nobody has taken yet.
LEMMA AdvanceStep ==
    ASSUME IInv, NEW s \in Sessions, Advance(s)
    PROVE  IInv'
<1> USE DEF Advance, poolVars, sessionVars, historyVars
<1>0. /\ closer' \in [Sessions -> [at : {"idle", "reset", "close", "advance", "free", "wait"},
                                   stream : {0}, channel : Channels \cup {NULL}]]
      /\ closer'[s].at = "close" /\ closer'[s].channel = next[closer[s].channel]
      /\ \A t \in Sessions \ {s} : closer'[t] = closer[t]
  BY CloserMoves DEF IInv, Types, Hands, AtHand, Pointers
<1>1. Types'
  BY <1>0 DEF IInv, Types
<1>2. Hands' /\ PhaseInv'
  <2> SUFFICES ASSUME NEW t \in Sessions PROVE AtHand(t)' /\ Phase(t)'
    BY DEF Hands, PhaseInv
  <2>1. AtHand(t) /\ Phase(t)
    BY DEF IInv, Hands, PhaseInv
  <2>2. CASE t = s
    BY <1>0, <2>1, <2>2, Closing DEF IInv, AtHand, Phase, Types, Idle
  <2>3. CASE t # s
    BY <1>0, <2>1, <2>3 DEF IInv, AtHand, Phase, Types
  <2> QED
    BY <2>2, <2>3
<1>3. ListsEnd'
  BY ListsEndKept DEF IInv
<1>4. ASSUME ~raced' PROVE CalmInv'
  <2>1. ~raced /\ CalmInv /\ QuietInv'
    BY <1>0, <1>4 DEF IInv, CalmInv, QuietInv, PhaseInv, Phase, Types, Idle
  <2>2. ASSUME NEW t \in Sessions PROVE Held(t)' = Held(t) /\ Taken(t)' = Taken(t)
    <3>1. CASE t = s
      BY <1>0, <2>1, <3>1 DEF Held, From, Taken, IInv, Types, CalmInv, CountInv
    <3>2. CASE t # s
      BY <1>0, <3>2 DEF Held, From, Taken, IInv, Types
    <3> QED
      BY <3>1, <3>2
  <2>3. ASSUME NEW t \in Sessions PROVE Acknowledged(t)'
    <3>1. Listed(t)' = Listed(t) \/ (state[t] # "READY" /\ listener[t].at = "idle")
      BY <1>0, <2>1, ReachPrimed, Closing DEF IInv, PhaseInv, Phase, CalmInv, QuietInv, Types, Idle
    <3>2. Acknowledged(t) /\ (state'[t] = "READY" => state[t] = "READY")
      BY <2>1 DEF CalmInv, AckInv, IInv, Types
    <3> QED
      BY <3>1, <3>2, AcknowledgedKept
  <2>4. ASSUME NEW t \in Sessions
        PROVE  /\ closer'[t].at = "advance" => closer'[t] = closer[t]
               /\ closer'[t] = Idle =>
                    /\ head'[t] = head[t] /\ count'[t] = count[t]
                    /\ closer[t] = Idle \/ closer[t].at = "wait"
               /\ closer'[t].at \in {"close", "advance", "free", "wait"} => count'[t] = 0
               /\ closer'[t].at \in {"free", "wait"} => head'[t] = NULL
               /\ listener'[t].at \in {"take", "link"} => count'[t] < PerPeer
    <3>1. CASE t = s
      BY <1>0, <2>1, <3>1 DEF IInv, Types, Hands, AtHand, PhaseInv, Phase, CalmInv, QuietInv, CountInv, Idle
    <3>2. CASE t # s
      BY <1>0, <2>1, <3>2 DEF IInv, Types, PhaseInv, Phase, CalmInv, CountInv
    <3> QED
      BY <3>1, <3>2
  <2> QED
    BY <2>1, <2>2, <2>3, <2>4, CalmKept DEF AckInv
<1> QED
  BY <1>1, <1>2, <1>3, <1>4 DEF IInv

\* At the end of the list nothing is held, so the list may be forgotten.
LEMMA ClearListStep ==
    ASSUME IInv, NEW s \in Sessions, ClearList(s)
    PROVE  IInv'
<1> USE DEF ClearList, poolVars, sessionVars, historyVars
<1>0. /\ closer' \in [Sessions -> [at : {"idle", "reset", "close", "advance", "free", "wait"},
                                   stream : {0}, channel : Channels \cup {NULL}]]
      /\ closer'[s].at = "free" /\ closer'[s].channel = NULL
      /\ \A t \in Sessions \ {s} : closer'[t] = closer[t]
  BY CloserMoves DEF IInv, Types
<1>1. Types'
  BY <1>0 DEF IInv, Types
<1>2. Hands' /\ PhaseInv'
  <2> SUFFICES ASSUME NEW t \in Sessions PROVE AtHand(t)' /\ Phase(t)'
    BY DEF Hands, PhaseInv
  <2>1. AtHand(t) /\ Phase(t)
    BY DEF IInv, Hands, PhaseInv
  <2>2. CASE t = s
    BY <1>0, <2>1, <2>2, Closing DEF IInv, AtHand, Phase, Types, Idle
  <2>3. CASE t # s
    BY <1>0, <2>1, <2>3 DEF IInv, AtHand, Phase, Types
  <2> QED
    BY <2>2, <2>3
<1>3. ListsEnd'
  BY ListsEndKept DEF IInv
<1>4. ASSUME ~raced' PROVE CalmInv'
  <2>1. ~raced /\ CalmInv /\ QuietInv'
    BY <1>0, <1>4 DEF IInv, CalmInv, QuietInv, PhaseInv, Phase, Types, Idle
  <2>2. ASSUME NEW t \in Sessions PROVE Held(t)' = Held(t) /\ Taken(t)' = Taken(t)
    <3>1. CASE t = s
      BY <1>0, <2>1, <3>1, ReachNull DEF Held, From, Taken, IInv, Types, CalmInv, CountInv
    <3>2. CASE t # s
      BY <1>0, <3>2 DEF Held, From, Taken, IInv, Types
    <3> QED
      BY <3>1, <3>2
  <2>3. ASSUME NEW t \in Sessions PROVE Acknowledged(t)'
    <3>1. Listed(t)' = Listed(t) \/ (state[t] # "READY" /\ listener[t].at = "idle")
      BY <1>0, <2>1, ReachPrimed, Closing DEF IInv, PhaseInv, Phase, CalmInv, QuietInv, Types, Idle
    <3>2. Acknowledged(t) /\ (state'[t] = "READY" => state[t] = "READY")
      BY <2>1 DEF CalmInv, AckInv, IInv, Types
    <3> QED
      BY <3>1, <3>2, AcknowledgedKept
  <2>4. ASSUME NEW t \in Sessions
        PROVE  /\ closer'[t].at = "advance" => closer'[t] = closer[t]
               /\ closer'[t] = Idle =>
                    /\ head'[t] = head[t] /\ count'[t] = count[t]
                    /\ closer[t] = Idle \/ closer[t].at = "wait"
               /\ closer'[t].at \in {"close", "advance", "free", "wait"} => count'[t] = 0
               /\ closer'[t].at \in {"free", "wait"} => head'[t] = NULL
               /\ listener'[t].at \in {"take", "link"} => count'[t] < PerPeer
    <3>1. CASE t = s
      BY <1>0, <2>1, <3>1 DEF IInv, Types, Hands, AtHand, PhaseInv, Phase, CalmInv, QuietInv, CountInv, Idle
    <3>2. CASE t # s
      BY <1>0, <2>1, <3>2 DEF IInv, Types, PhaseInv, Phase, CalmInv, CountInv
    <3> QED
      BY <3>1, <3>2
  <2> QED
    BY <2>1, <2>2, <2>3, <2>4, CalmKept DEF AckInv
<1> QED
  BY <1>1, <1>2, <1>3, <1>4 DEF IInv

\* Every association of a session that may be used again is closed.
LEMMA Sctp_FreeSessionStep ==
    ASSUME IInv, NEW s \in Sessions, Sctp_FreeSession(s)
    PROVE  IInv'
<1> USE DEF Sctp_FreeSession, poolVars, sessionVars, historyVars
<1>0. /\ closer' \in [Sessions -> [at : {"idle", "reset", "close", "advance", "free", "wait"},
                                   stream : {0}, channel : Channels \cup {NULL}]]
      /\ closer'[s].at = "wait" /\ closer'[s].channel = NULL
      /\ \A t \in Sessions \ {s} : closer'[t] = closer[t]
  BY CloserMoves DEF IInv, Types
<1>1. Types'
  BY <1>0 DEF IInv, Types
<1>2. Hands' /\ PhaseInv'
  <2> SUFFICES ASSUME NEW t \in Sessions PROVE AtHand(t)' /\ Phase(t)'
    BY DEF Hands, PhaseInv
  <2>1. AtHand(t) /\ Phase(t)
    BY DEF IInv, Hands, PhaseInv
  <2>2. CASE t = s
    BY <1>0, <2>1, <2>2, Closing DEF IInv, AtHand, Phase, Types, Idle
  <2>3. CASE t # s
    BY <1>0, <2>1, <2>3 DEF IInv, AtHand, Phase, Types
  <2> QED
    BY <2>2, <2>3
<1>3. ListsEnd'
  BY ListsEndKept DEF IInv
<1>4. ASSUME ~raced' PROVE CalmInv'
  <2>1. ~raced /\ CalmInv /\ QuietInv'
    BY <1>0, <1>4 DEF IInv, CalmInv, QuietInv, PhaseInv, Phase, Types, Idle
  <2>2. ASSUME NEW t \in Sessions PROVE Held(t)' = Held(t) /\ Taken(t)' = Taken(t)
    <3>1. CASE t = s
      BY <1>0, <2>1, <3>1 DEF Held, From, Taken, IInv, Types, CalmInv, CountInv
    <3>2. CASE t # s
      BY <1>0, <3>2 DEF Held, From, Taken, IInv, Types
    <3> QED
      BY <3>1, <3>2
  <2>3. ASSUME NEW t \in Sessions PROVE Acknowledged(t)'
    <3>1. Listed(t)' = Listed(t) \/ (state[t] # "READY" /\ listener[t].at = "idle")
      BY <1>0, <2>1, ReachPrimed, Closing DEF IInv, PhaseInv, Phase, CalmInv, QuietInv, Types, Idle
    <3>2. Acknowledged(t) /\ (state'[t] = "READY" => state[t] = "READY")
      BY <2>1 DEF CalmInv, AckInv, IInv, Types
    <3> QED
      BY <3>1, <3>2, AcknowledgedKept
  <2>4. ASSUME NEW t \in Sessions
        PROVE  /\ closer'[t].at = "advance" => closer'[t] = closer[t]
               /\ closer'[t] = Idle =>
                    /\ head'[t] = head[t] /\ count'[t] = count[t]
                    /\ closer[t] = Idle \/ closer[t].at = "wait"
               /\ closer'[t].at \in {"close", "advance", "free", "wait"} => count'[t] = 0
               /\ closer'[t].at \in {"free", "wait"} => head'[t] = NULL
               /\ listener'[t].at \in {"take", "link"} => count'[t] < PerPeer
    <3>1. CASE t = s
      BY <1>0, <2>1, <3>1 DEF IInv, Types, Hands, AtHand, PhaseInv, Phase, CalmInv, QuietInv, CountInv, Idle
    <3>2. CASE t # s
      BY <1>0, <2>1, <3>2 DEF IInv, Types, PhaseInv, Phase, CalmInv, CountInv
    <3> QED
      BY <3>1, <3>2
  <2> QED
    BY <2>1, <2>2, <2>3, <2>4, CalmKept DEF AckInv
<1> QED
  BY <1>1, <1>2, <1>3, <1>4 DEF IInv

\* A message is accepted for a session that streams only.
LEMMA ReceiveOpenStep ==
    ASSUME IInv, NEW s \in Sessions, NEW str \in RemoteStreams, ReceiveOpen(s, str)
    PROVE  IInv'
<1> USE DEF ReceiveOpen, poolVars, sessionVars, historyVars
<1>0. /\ listener' \in [Sessions -> [at : {"idle", "find", "take", "link", "ack"},
                                     stream : Nat, channel : Channels \cup {NULL}]]
      /\ listener'[s].at = "find" /\ listener'[s].stream = str /\ listener'[s].channel = NULL
      /\ \A t \in Sessions \ {s} : listener'[t] = listener[t]
  BY ListenerMoves, DataChannelConstants DEF IInv, Types
<1>1. Types'
  BY <1>0 DEF IInv, Types
<1>2. Hands' /\ PhaseInv'
  <2> SUFFICES ASSUME NEW t \in Sessions PROVE AtHand(t)' /\ Phase(t)'
    BY DEF Hands, PhaseInv
  <2>1. AtHand(t) /\ Phase(t)
    BY DEF IInv, Hands, PhaseInv
  <2>2. CASE t = s
    BY <1>0, <2>1, <2>2 DEF IInv, AtHand, Phase, Types, Idle
  <2>3. CASE t # s
    BY <1>0, <2>1, <2>3 DEF IInv, AtHand, Phase, Types
  <2> QED
    BY <2>2, <2>3
<1>3. ListsEnd'
  BY ListsEndKept DEF IInv
<1>4. ASSUME ~raced' PROVE CalmInv'
  <2>1. ~raced /\ CalmInv /\ QuietInv'
    <3>1. ~raced /\ CalmInv
      BY <1>4 DEF IInv
    <3>2. state[s] = "READY"
      BY <3>1, Streaming
    <3> QED
      BY <1>0, <3>1, <3>2 DEF CalmInv, QuietInv
  <2>2. ASSUME NEW t \in Sessions PROVE Held(t)' = Held(t) /\ Taken(t)' = Taken(t)
    <3>1. CASE t = s
      BY <1>0, <3>1 DEF Held, From, Taken, Idle
    <3>2. CASE t # s
      BY <1>0, <3>2 DEF Held, From, Taken, IInv, Types
    <3> QED
      BY <3>1, <3>2
  <2>3. ASSUME NEW t \in Sessions PROVE Acknowledged(t)'
    <3>1. CASE t = s
      BY <1>0, <2>1, <3>1, ReachPrimed DEF Acknowledged, ChannelOf, CalmInv, AckInv, IInv, Types
    <3>2. CASE t # s
      BY <1>0, <2>1, <3>2, ReachPrimed, AcknowledgedKept DEF CalmInv, AckInv, IInv, Types
    <3> QED
      BY <3>1, <3>2
  <2>4. ASSUME NEW t \in Sessions
        PROVE  /\ closer'[t].at = "advance" => closer'[t] = closer[t]
               /\ closer'[t] = Idle =>
                    /\ head'[t] = head[t] /\ count'[t] = count[t]
                    /\ closer[t] = Idle \/ closer[t].at = "wait"
               /\ closer'[t].at \in {"close", "advance", "free", "wait"} => count'[t] = 0
               /\ closer'[t].at \in {"free", "wait"} => head'[t] = NULL
               /\ listener'[t].at \in {"take", "link"} => count'[t] < PerPeer
    <3>1. CASE t = s
      BY <1>0, <2>1, <3>1 DEF IInv, Types, Hands, AtHand, PhaseInv, Phase, CalmInv, QuietInv, CountInv, Idle
    <3>2. CASE t # s
      BY <1>0, <2>1, <3>2 DEF IInv, Types, PhaseInv, Phase, CalmInv, CountInv
    <3> QED
      BY <3>1, <3>2
  <2> QED
    BY <2>1, <2>2, <2>3, <2>4, CalmKept DEF AckInv
<1> QED
  BY <1>1, <1>2, <1>3, <1>4 DEF IInv

\* A set of numbers has a least one.
LEMMA LeastOne ==
    ASSUME NEW V \in SUBSET Nat, V # {}
    PROVE  \E c \in V : \A d \in V : c <= d
<1> DEFINE R == OpToRel(<, Nat)
<1>1. PICK c \in V : \A d \in V : <<d, c>> \notin R
  <2>1. IsWellFoundedOn(R, Nat)
    BY NatLessThanWellFounded
  <2> HIDE DEF R
  <2> QED
    BY <2>1, WFMin
<1>2. ASSUME NEW d \in V PROVE c <= d
  <2>1. <<d, c>> \in R <=> d < c
    BY DEF OpToRel
  <2> HIDE DEF R
  <2> QED
    BY <1>1, <2>1
<1> QED
  BY <1>2

\* The object that will be taken is vacant.
LEMMA LowestVacant == ASSUME CanAllocate PROVE Lowest \in Channels /\ ~active[Lowest]
<1>1. Vacant \in SUBSET Nat /\ Vacant # {}
  BY ChannelsType DEF Vacant, CanAllocate
<1>2. \E c \in Vacant : \A d \in Vacant : c <= d
  BY <1>1, LeastOne
<1>3. Lowest \in Vacant
  BY <1>2 DEF Lowest
<1> QED
  BY <1>3 DEF Vacant

\* A channel that is chosen is within the share of the session; one that is refused is noted.
LEMMA FindChannelStep ==
    ASSUME IInv, NEW s \in Sessions, FindChannel(s)
    PROVE  IInv'
<1> USE DEF FindChannel, poolVars, sessionVars, historyVars
<1>0. /\ listener' \in [Sessions -> [at : {"idle", "find", "take", "link", "ack"},
                                     stream : Nat, channel : Channels \cup {NULL}]]
      /\ listener'[s].stream = listener[s].stream
      /\ \/ /\ listener'[s].at = "take" /\ listener'[s].channel = Lowest /\ Lowest # NULL
            /\ count[s] < PerPeer /\ refused' = refused
         \/ /\ listener'[s].at = "ack" /\ listener'[s].channel = NULL
            /\ refused' = [refused EXCEPT ![s] = @ \cup {listener[s].stream}]
      /\ \A t \in Sessions \ {s} : listener'[t] = listener[t]
  <2>1. CASE count[s] < PerPeer /\ CanAllocate
    <3>1. Lowest \in Channels /\ Lowest # NULL
      BY <2>1, LowestVacant, ChannelsType
    <3> QED
      BY <2>1, <3>1, ListenerMoves DEF IInv, Types
  <2>2. CASE ~(count[s] < PerPeer /\ CanAllocate)
    BY <2>2, ListenerMoves DEF IInv, Types
  <2> QED
    BY <2>1, <2>2
<1>1. Types'
  <2>1. refused' \in [Sessions -> SUBSET Nat]
    <3>1. listener[s].stream \in Nat /\ refused \in [Sessions -> SUBSET Nat]
      BY DEF IInv, Types
    <3>2. CASE refused' = refused
      BY <3>1, <3>2
    <3>3. CASE refused' = [refused EXCEPT ![s] = @ \cup {listener[s].stream}]
      BY <3>1, <3>3
    <3> QED
      BY <1>0, <3>2, <3>3
  <2> QED
    BY <1>0, <2>1 DEF IInv, Types
<1>2. Hands' /\ PhaseInv'
  <2> SUFFICES ASSUME NEW t \in Sessions PROVE AtHand(t)' /\ Phase(t)'
    BY DEF Hands, PhaseInv
  <2>1. AtHand(t) /\ Phase(t)
    BY DEF IInv, Hands, PhaseInv
  <2>2. CASE t = s
    BY <1>0, <2>1, <2>2 DEF IInv, AtHand, Phase, Types, Idle
  <2>3. CASE t # s
    BY <1>0, <2>1, <2>3 DEF IInv, AtHand, Phase, Types
  <2> QED
    BY <2>2, <2>3
<1>3. ListsEnd'
  BY ListsEndKept DEF IInv
<1>4. ASSUME ~raced' PROVE CalmInv'
  <2>1. ~raced /\ CalmInv /\ QuietInv'
    <3>1. ~raced /\ CalmInv
      BY <1>4 DEF IInv
    <3>2. state[s] = "READY"
      BY <3>1, Streaming
    <3> QED
      BY <1>0, <3>1, <3>2 DEF CalmInv, QuietInv
  <2>2. ASSUME NEW t \in Sessions PROVE Held(t)' = Held(t) /\ Taken(t)' = Taken(t)
    <3>1. CASE t = s
      BY <1>0, <3>1 DEF Held, From, Taken, Idle
    <3>2. CASE t # s
      BY <1>0, <3>2 DEF Held, From, Taken, IInv, Types
    <3> QED
      BY <3>1, <3>2
  <2>3. ASSUME NEW t \in Sessions PROVE Acknowledged(t)'
    <3>1. CASE t = s
      BY <1>0, <2>1, <3>1, ReachPrimed DEF Acknowledged, ChannelOf, CalmInv, AckInv, IInv, Types
    <3>2. CASE t # s
      BY <1>0, <2>1, <3>2, ReachPrimed, AcknowledgedKept DEF CalmInv, AckInv, IInv, Types
    <3> QED
      BY <3>1, <3>2
  <2>4. ASSUME NEW t \in Sessions
        PROVE  /\ closer'[t].at = "advance" => closer'[t] = closer[t]
               /\ closer'[t] = Idle =>
                    /\ head'[t] = head[t] /\ count'[t] = count[t]
                    /\ closer[t] = Idle \/ closer[t].at = "wait"
               /\ closer'[t].at \in {"close", "advance", "free", "wait"} => count'[t] = 0
               /\ closer'[t].at \in {"free", "wait"} => head'[t] = NULL
               /\ listener'[t].at \in {"take", "link"} => count'[t] < PerPeer
    <3>1. CASE t = s
      BY <1>0, <2>1, <3>1 DEF IInv, Types, Hands, AtHand, PhaseInv, Phase, CalmInv, QuietInv, CountInv, Idle
    <3>2. CASE t # s
      BY <1>0, <2>1, <3>2 DEF IInv, Types, PhaseInv, Phase, CalmInv, CountInv
    <3> QED
      BY <3>1, <3>2
  <2> QED
    BY <2>1, <2>2, <2>3, <2>4, CalmKept DEF AckInv
<1> QED
  BY <1>1, <1>2, <1>3, <1>4 DEF IInv

\* What is acknowledged has its channel or was refused.
LEMMA SendOpenDataChannelAckStep ==
    ASSUME IInv, NEW s \in Sessions, SendOpenDataChannelAck(s)
    PROVE  IInv'
<1> USE DEF SendOpenDataChannelAck, poolVars, sessionVars, historyVars
<1>0. /\ listener'[s] = Idle /\ DOMAIN listener' = Sessions
      /\ \A t \in Sessions \ {s} : listener'[t] = listener[t]
  BY DEF IInv, Types
<1>1. Types'
  <2>0. /\ listener[s].stream \in Nat /\ acked \in [Sessions -> SUBSET Nat]
        /\ acked' \in {acked, [acked EXCEPT ![s] = @ \cup {listener[s].stream}]}
    BY DEF IInv, Types
  <2>1. acked' \in [Sessions -> SUBSET Nat]
    BY <2>0
  <2>2. listener' \in [Sessions -> [at : {"idle", "find", "take", "link", "ack"},
                                   stream : Nat, channel : Channels \cup {NULL}]]
    BY DEF IInv, Types, Idle
  <2> QED
    BY <2>1, <2>2 DEF IInv, Types
<1>2. Hands' /\ PhaseInv'
  <2> SUFFICES ASSUME NEW t \in Sessions PROVE AtHand(t)' /\ Phase(t)'
    BY DEF Hands, PhaseInv
  <2>1. AtHand(t) /\ Phase(t)
    BY DEF IInv, Hands, PhaseInv
  <2>2. CASE t = s
    BY <1>0, <2>1, <2>2 DEF IInv, AtHand, Phase, Types, Idle
  <2>3. CASE t # s
    BY <1>0, <2>1, <2>3 DEF IInv, AtHand, Phase, Types
  <2> QED
    BY <2>2, <2>3
<1>3. ListsEnd'
  BY ListsEndKept DEF IInv
<1>4. ASSUME ~raced' PROVE CalmInv'
  <2>1. ~raced /\ CalmInv /\ QuietInv'
    BY <1>0, <1>4 DEF IInv, CalmInv, QuietInv, PhaseInv, Phase, Types, Idle
  <2>2. ASSUME NEW t \in Sessions PROVE Held(t)' = Held(t) /\ Taken(t)' = Taken(t)
    <3>1. CASE t = s
      BY <1>0, <3>1 DEF Held, From, Taken, Idle
    <3>2. CASE t # s
      BY <1>0, <3>2 DEF Held, From, Taken, IInv, Types
    <3> QED
      BY <3>1, <3>2
  <2>3. ASSUME NEW t \in Sessions PROVE Acknowledged(t)'
    <3>1. CASE t = s
      <4>1. Acknowledged(s) /\ Listed(s)' = Listed(s)
        BY <2>1, ReachPrimed DEF CalmInv, AckInv
      <4>2. \A str \in acked'[s] : str \in acked[s] \/ str = listener[s].stream
        BY DEF IInv, Types
      <4>3. listener'[s].at # "ack"
        BY <1>0 DEF Idle
      <4>4. state[s] = "READY"
        BY <2>1, Streaming
      <4> QED
        BY <3>1, <4>1, <4>2, <4>3, <4>4 DEF Acknowledged, ChannelOf
    <3>2. CASE t # s
      BY <1>0, <2>1, <3>2, ReachPrimed, AcknowledgedKept DEF CalmInv, AckInv, IInv, Types
    <3> QED
      BY <3>1, <3>2
  <2>4. ASSUME NEW t \in Sessions
        PROVE  /\ closer'[t].at = "advance" => closer'[t] = closer[t]
               /\ closer'[t] = Idle =>
                    /\ head'[t] = head[t] /\ count'[t] = count[t]
                    /\ closer[t] = Idle \/ closer[t].at = "wait"
               /\ closer'[t].at \in {"close", "advance", "free", "wait"} => count'[t] = 0
               /\ closer'[t].at \in {"free", "wait"} => head'[t] = NULL
               /\ listener'[t].at \in {"take", "link"} => count'[t] < PerPeer
    <3>1. CASE t = s
      BY <1>0, <2>1, <3>1 DEF IInv, Types, Hands, AtHand, PhaseInv, Phase, CalmInv, QuietInv, CountInv, Idle
    <3>2. CASE t # s
      BY <1>0, <2>1, <3>2 DEF IInv, Types, PhaseInv, Phase, CalmInv, CountInv
    <3> QED
      BY <3>1, <3>2
  <2> QED
    BY <2>1, <2>2, <2>3, <2>4, CalmKept DEF AckInv
<1> QED
  BY <1>1, <1>2, <1>3, <1>4 DEF IInv

\* The thread of usrsctp ends a wait and touches nothing else.
LEMMA OnSctpOutboundPacketStep ==
    ASSUME IInv, NEW s \in Sessions, OnSctpOutboundPacket(s)
    PROVE  IInv'
<1> USE DEF OnSctpOutboundPacket, poolVars, sessionVars, historyVars
<1>0. listener' = listener /\ closer' = closer
  OBVIOUS
<1>1. Types'
  BY <1>0 DEF IInv, Types
<1>2. Hands' /\ PhaseInv'
  <2> SUFFICES ASSUME NEW t \in Sessions PROVE AtHand(t)' /\ Phase(t)'
    BY DEF Hands, PhaseInv
  <2>1. AtHand(t) /\ Phase(t)
    BY DEF IInv, Hands, PhaseInv
  <2>2. CASE t = s
    BY <1>0, <2>1, <2>2 DEF IInv, AtHand, Phase, Types, Idle
  <2>3. CASE t # s
    BY <1>0, <2>1, <2>3 DEF IInv, AtHand, Phase, Types
  <2> QED
    BY <2>2, <2>3
<1>3. ListsEnd'
  BY ListsEndKept DEF IInv
<1>4. ASSUME ~raced' PROVE CalmInv'
  <2>1. ~raced /\ CalmInv /\ QuietInv'
    BY <1>0, <1>4 DEF IInv, CalmInv, QuietInv, PhaseInv, Phase, Types, Idle
  <2>2. ASSUME NEW t \in Sessions PROVE Held(t)' = Held(t) /\ Taken(t)' = Taken(t)
    <3>1. CASE t = s
      BY <1>0, <3>1 DEF Held, From, Taken, Idle
    <3>2. CASE t # s
      BY <1>0, <3>2 DEF Held, From, Taken, IInv, Types
    <3> QED
      BY <3>1, <3>2
  <2>3. ASSUME NEW t \in Sessions PROVE Acknowledged(t)'
    <3>1. CASE t = s
      BY <1>0, <2>1, <3>1, ReachPrimed DEF Acknowledged, ChannelOf, CalmInv, AckInv, IInv, Types
    <3>2. CASE t # s
      BY <1>0, <2>1, <3>2, ReachPrimed, AcknowledgedKept DEF CalmInv, AckInv, IInv, Types
    <3> QED
      BY <3>1, <3>2
  <2>4. ASSUME NEW t \in Sessions
        PROVE  /\ closer'[t].at = "advance" => closer'[t] = closer[t]
               /\ closer'[t] = Idle =>
                    /\ head'[t] = head[t] /\ count'[t] = count[t]
                    /\ closer[t] = Idle \/ closer[t].at = "wait"
               /\ closer'[t].at \in {"close", "advance", "free", "wait"} => count'[t] = 0
               /\ closer'[t].at \in {"free", "wait"} => head'[t] = NULL
               /\ listener'[t].at \in {"take", "link"} => count'[t] < PerPeer
    <3>1. CASE t = s
      BY <1>0, <2>1, <3>1 DEF IInv, Types, Hands, AtHand, PhaseInv, Phase, CalmInv, QuietInv, CountInv, Idle
    <3>2. CASE t # s
      BY <1>0, <2>1, <3>2 DEF IInv, Types, PhaseInv, Phase, CalmInv, CountInv
    <3> QED
      BY <3>1, <3>2
  <2> QED
    BY <2>1, <2>2, <2>3, <2>4, CalmKept DEF AckInv
<1> QED
  BY <1>1, <1>2, <1>3, <1>4 DEF IInv

\* A session whose closer is done holds nothing, so its counts and its list agree again.
LEMMA ClosedStep ==
    ASSUME IInv, NEW s \in Sessions, Closed(s)
    PROVE  IInv'
<1> USE DEF Closed, poolVars, sessionVars, historyVars
<1>0. /\ closer'[s] = Idle /\ DOMAIN closer' = Sessions
      /\ \A t \in Sessions \ {s} : closer'[t] = closer[t]
  BY DEF IInv, Types
<1>1. Types'
  <2>1. acked' \in [Sessions -> SUBSET Nat] /\ refused' \in [Sessions -> SUBSET Nat]
    BY DEF IInv, Types
  <2>2. closer' \in [Sessions -> [at : {"idle", "reset", "close", "advance", "free", "wait"},
                                 stream : {0}, channel : Channels \cup {NULL}]]
    BY DEF IInv, Types, Idle
  <2> QED
    BY <2>1, <2>2 DEF IInv, Types
<1>2. Hands' /\ PhaseInv'
  <2> SUFFICES ASSUME NEW t \in Sessions PROVE AtHand(t)' /\ Phase(t)'
    BY DEF Hands, PhaseInv
  <2>1. AtHand(t) /\ Phase(t)
    BY DEF IInv, Hands, PhaseInv
  <2>2. CASE t = s
    BY <1>0, <2>1, <2>2 DEF IInv, AtHand, Phase, Types, Idle
  <2>3. CASE t # s
    BY <1>0, <2>1, <2>3 DEF IInv, AtHand, Phase, Types
  <2> QED
    BY <2>2, <2>3
<1>3. ListsEnd'
  BY ListsEndKept DEF IInv
<1>4. ASSUME ~raced' PROVE CalmInv'
  <2>1. ~raced /\ CalmInv /\ QuietInv'
    BY <1>0, <1>4 DEF IInv, CalmInv, QuietInv, PhaseInv, Phase, Types, Idle
  <2>2. ASSUME NEW t \in Sessions PROVE Held(t)' = Held(t) /\ Taken(t)' = Taken(t)
    <3>1. CASE t = s
      BY <1>0, <3>1 DEF Held, From, Taken, Idle
    <3>2. CASE t # s
      BY <1>0, <3>2 DEF Held, From, Taken, IInv, Types
    <3> QED
      BY <3>1, <3>2
  <2>3. ASSUME NEW t \in Sessions PROVE Acknowledged(t)'
    <3>1. CASE t = s
      BY <3>1 DEF Acknowledged, IInv, Types, Idle
    <3>2. CASE t # s
      BY <1>0, <2>1, <3>2, ReachPrimed, AcknowledgedKept DEF CalmInv, AckInv, IInv, Types
    <3> QED
      BY <3>1, <3>2
  <2>4. ASSUME NEW t \in Sessions
        PROVE  /\ closer'[t].at = "advance" => closer'[t] = closer[t]
               /\ closer'[t] = Idle =>
                    /\ head'[t] = head[t] /\ count'[t] = count[t]
                    /\ closer[t] = Idle \/ closer[t].at = "wait"
               /\ closer'[t].at \in {"close", "advance", "free", "wait"} => count'[t] = 0
               /\ closer'[t].at \in {"free", "wait"} => head'[t] = NULL
               /\ listener'[t].at \in {"take", "link"} => count'[t] < PerPeer
    <3>1. CASE t = s
      BY <1>0, <2>1, <3>1 DEF IInv, Types, Hands, AtHand, PhaseInv, Phase, CalmInv, QuietInv, CountInv, Idle
    <3>2. CASE t # s
      BY <1>0, <2>1, <3>2 DEF IInv, Types, PhaseInv, Phase, CalmInv, CountInv
    <3> QED
      BY <3>1, <3>2
  <2> QED
    BY <2>1, <2>2, <2>3, <2>4, CalmKept DEF AckInv
<1> QED
  BY <1>1, <1>2, <1>3, <1>4 DEF IInv

\* The session is closed before anything was acknowledged.
LEMMA HandshakeFailsStep ==
    ASSUME IInv, NEW s \in Sessions, HandshakeFails(s)
    PROVE  IInv'
<1> USE DEF HandshakeFails, poolVars, historyVars
<1>0. /\ closer' \in [Sessions -> [at : {"idle", "reset", "close", "advance", "free", "wait"},
                                   stream : {0}, channel : Channels \cup {NULL}]]
      /\ closer'[s].at = "reset" /\ closer'[s].channel = NULL
      /\ \A t \in Sessions \ {s} : closer'[t] = closer[t]
  BY DEF IInv, Types, Idle
<1>1. Types'
  <2>1. stream' \in [Channels -> Nat]
    BY SctpMadeStreams DEF IInv, Types
  <2>2. socket' \in [Sessions -> {"none", "open", "lost"}]
        /\ shutdown' \in [Sessions -> {"initiated", "active", "completed"}]
    BY DEF IInv, Types, SctpMade
  <2> QED
    BY <1>0, <2>1, <2>2 DEF IInv, Types
<1>2. Hands' /\ PhaseInv'
  <2> SUFFICES ASSUME NEW t \in Sessions PROVE AtHand(t)' /\ Phase(t)'
    BY DEF Hands, PhaseInv
  <2>1. AtHand(t) /\ Phase(t)
    BY DEF IInv, Hands, PhaseInv
  <2>2. CASE t = s
    <3>1. socket'[s] = "open" => shutdown'[s] = "active"
      BY <2>1, <2>2 DEF SctpMade, IInv, Types, Phase
    <3> QED
      BY <1>0, <2>1, <2>2, <3>1 DEF IInv, AtHand, Phase, Types, Idle
  <2>3. CASE t # s
    BY <1>0, <2>1, <2>3 DEF SctpMade, IInv, AtHand, Phase, Types
  <2> QED
    BY <2>2, <2>3
<1>3. ListsEnd'
  BY ListsEndKept DEF IInv
<1>4. ASSUME ~raced' PROVE CalmInv'
  <2>1. ~raced /\ CalmInv /\ QuietInv' /\ closer[s] = Idle /\ listener[s] = Idle
    BY <1>4 DEF IInv, CalmInv, QuietInv, PhaseInv, Phase, Types
  <2>2. ASSUME NEW t \in Sessions PROVE Held(t)' = Held(t) /\ Taken(t)' = Taken(t)
    <3>1. CASE t = s
      BY <1>0, <2>1, <3>1 DEF Held, From, Taken, Idle
    <3>2. CASE t # s
      BY <1>0, <3>2 DEF Held, From, Taken
    <3> QED
      BY <3>1, <3>2
  <2>3. ASSUME NEW t \in Sessions PROVE Acknowledged(t)'
    <3>1. CASE t = s
      BY <2>1, <3>1 DEF IInv, Types, Acknowledged, Idle
    <3>2. CASE t # s
      <4>1. ASSUME state[t] = "READY" \/ listener[t].at = "ack", NEW c \in Listed(t)
            PROVE  stream'[c] = stream[c]
        <5>1. closer[t] = Idle
          BY <2>1, <4>1, Streaming
        <5>2. c \in Channels \ Listed(s)
          BY <2>1, <3>2, <4>1, <5>1, ListsApart, ReachType DEF Listed
        <5> QED
          BY <5>2, SctpMadeStreams
      <4>2. Listed(t)' = Listed(t)
        BY ReachPrimed
      <4> QED
        BY <2>1, <3>2, <4>1, <4>2, AcknowledgedKept DEF CalmInv, AckInv, IInv, Types
    <3> QED
      BY <3>1, <3>2
  <2>4. ASSUME NEW t \in Sessions
        PROVE  /\ closer'[t].at = "advance" => closer'[t] = closer[t]
               /\ closer'[t] = Idle =>
                    /\ head'[t] = head[t] /\ count'[t] = count[t]
                    /\ closer[t] = Idle \/ closer[t].at = "wait"
               /\ closer'[t].at \in {"close", "advance", "free", "wait"} => count'[t] = 0
               /\ closer'[t].at \in {"free", "wait"} => head'[t] = NULL
               /\ listener'[t].at \in {"take", "link"} => count'[t] < PerPeer
    <3>1. CASE t = s
      BY <1>0, <2>1, <3>1 DEF Idle
    <3>2. CASE t # s
      BY <1>0, <2>1, <3>2 DEF CalmInv, CountInv
    <3> QED
      BY <3>1, <3>2
  <2> QED
    BY <2>1, <2>2, <2>3, <2>4, CalmKept DEF AckInv
<1> QED
  BY <1>1, <1>2, <1>3, <1>4 DEF IInv

------------------------------------------------------------------------------
(* The steps that take a channel, link it, and give it back. *)

\* Nobody holds a channel that is vacant.
LEMMA NotHeld ==
    ASSUME PoolInv, NEW c \in Channels, ~active[c]
    PROVE  c \notin leaked /\ \A t \in Sessions : c \notin Held(t) /\ c \notin Taken(t)
  BY DEF PoolInv

\* A session holds the same list while nobody changes a pointer of it.
LEMMA HeldFrame ==
    ASSUME Types, Hands, NEW t \in Sessions, next' \in Pointers, From(t)' = From(t),
           \A d \in Held(t) : next'[d] = next[d]
    PROVE  Held(t)' = Held(t)
<1>1. From(t) \in Channels \cup {NULL} /\ next \in Pointers
  BY FromType DEF Types
<1>2. Reach(next', From(t)) = Reach(next, From(t))
  BY <1>1, ReachFrame DEF Held
<1> QED
  BY <1>2 DEF Held

\* Where all walks end they also end after a pointer was cleared.
LEMMA CutKeepsEnds ==
    ASSUME NEW nx \in Pointers, NEW ny \in Pointers, NEW c \in Channels,
           \A h \in Channels : \E d \in Reach(nx, h) : nx[d] = NULL,
           ny[c] = NULL, \A d \in Channels \ {c} : ny[d] = nx[d]
    PROVE  \A h \in Channels : \E d \in Reach(ny, h) : ny[d] = NULL
<1> SUFFICES ASSUME NEW h \in Channels PROVE \E d \in Reach(ny, h) : ny[d] = NULL
  OBVIOUS
<1>1. CASE c \in Reach(ny, h)
  BY <1>1
<1>2. CASE c \notin Reach(ny, h)
  <2>1. \A d \in Reach(ny, h) : nx[d] = ny[d]
    BY <1>2, ReachType
  <2>2. h \in Channels \cup {NULL}
    OBVIOUS
  <2>3. Reach(nx, h) = Reach(ny, h)
    BY <2>1, <2>2, ReachFrame
  <2> QED
    BY <2>1, <2>3
<1> QED
  BY <1>1, <1>2

\* ... after a channel was linked behind another one ...
LEMMA LinkKeepsEnds ==
    ASSUME NEW nx \in Pointers, NEW ny \in Pointers, NEW c \in Channels, NEW t \in Channels,
           \A h \in Channels : \E d \in Reach(nx, h) : nx[d] = NULL,
           ny[c] = NULL, ny[t] = c, \A d \in Channels \ {c, t} : ny[d] = nx[d]
    PROVE  \A h \in Channels : \E d \in Reach(ny, h) : ny[d] = NULL
<1> SUFFICES ASSUME NEW h \in Channels PROVE \E d \in Reach(ny, h) : ny[d] = NULL
  OBVIOUS
<1>1. CASE c \in Reach(ny, h)
  BY <1>1
<1>2. CASE c \notin Reach(ny, h)
  <2>0. h \in Channels \cup {NULL} /\ c # NULL
    BY ChannelsType
  <2>1. t \notin Reach(ny, h)
    BY <1>2, <2>0, ReachClosed
  <2>2. \A d \in Reach(ny, h) : nx[d] = ny[d]
    BY <1>2, <2>1, ReachType
  <2>3. Reach(nx, h) = Reach(ny, h)
    BY <2>0, <2>2, ReachFrame
  <2> QED
    BY <2>2, <2>3
<1> QED
  BY <1>1, <1>2

\* ... and after one was left out.
LEMMA SkipKeepsEnds ==
    ASSUME NEW nx \in Pointers, NEW ny \in Pointers, NEW c \in Channels, NEW p \in Channels,
           \A h \in Channels : \E d \in Reach(nx, h) : nx[d] = NULL,
           nx[p] = c, ny[p] = nx[c], \A d \in Channels \ {p} : ny[d] = nx[d]
    PROVE  \A h \in Channels : \E d \in Reach(ny, h) : ny[d] = NULL
<1> SUFFICES ASSUME NEW h \in Channels PROVE \E d \in Reach(ny, h) : ny[d] = NULL
  OBVIOUS
<1>0. h \in Channels \cup {NULL}
  OBVIOUS
<1>1. CASE p \notin Reach(ny, h)
  <2>1. \A d \in Reach(ny, h) : nx[d] = ny[d]
    BY <1>1, ReachType
  <2>2. Reach(nx, h) = Reach(ny, h)
    BY <1>0, <2>1, ReachFrame
  <2> QED
    BY <2>1, <2>2
<1>2. CASE p \in Reach(ny, h) /\ nx[c] = NULL
  BY <1>2
<1>3. CASE p \in Reach(ny, h) /\ nx[c] # NULL
  <2>1. nx[c] \in Channels
    BY <1>3 DEF Pointers
  <2>2. p \notin Reach(nx, nx[c])
    <3>1. p \notin Reach(nx, c)
      BY NoReturn DEF Ends
    <3> QED
      BY <3>1, ReachStep
  <2>3. \A d \in Reach(nx, nx[c]) : ny[d] = nx[d]
    BY <2>2, ReachType
  <2>4. Reach(ny, nx[c]) = Reach(nx, nx[c])
    BY <2>1, <2>3, ReachFrame
  <2>5. \E d \in Reach(ny, nx[c]) : ny[d] = NULL
    BY <2>1, <2>3, <2>4
  <2>6. nx[c] \in Reach(ny, h)
    BY <1>0, <1>3, ReachClosed
  <2> QED
    BY <1>0, <2>5, <2>6, ReachOnward
<1> QED
  BY <1>1, <1>2, <1>3

\* A walk of another session begins where it began.
LEMMA FromKept ==
    ASSUME NEW t \in Sessions, closer'[t] = closer[t], head'[t] = head[t],
           closer[t].at = "advance" => next'[closer[t].channel] = next[closer[t].channel]
    PROVE  From(t)' = From(t)
<1>1. CASE closer[t].at = "advance"
  BY <1>1 DEF From
<1>2. CASE closer[t].at # "advance"
  BY <1>2 DEF From
<1> QED
  BY <1>1, <1>2

\* The count of the pool follows a channel that is taken ...
LEMMA CountAfterTake ==
    ASSUME Types, total = Cardinality(InUse), NEW c \in Channels, ~active[c],
           active' = [active EXCEPT ![c] = TRUE], total' = total + 1
    PROVE  total' = Cardinality(InUse)'
<1>1. InUse' = InUse \cup {c} /\ c \notin InUse
  BY DEF Types, InUse
<1>2. IsFiniteSet(InUse)
  BY ChannelsFinite DEF InUse
<1>3. Cardinality(InUse \cup {c}) = Cardinality(InUse) + 1
  BY <1>1, <1>2, FS_AddElement
<1> QED
  BY <1>1, <1>3

\* ... or given back.
LEMMA CountAfterReturn ==
    ASSUME Types, total = Cardinality(InUse), NEW c \in Channels, active[c], Deallocate(c)
    PROVE  total' = Cardinality(InUse)'
<1>1. InUse' = InUse \ {c} /\ c \in InUse
  BY DEF Types, InUse, Deallocate
<1>2. IsFiniteSet(InUse) /\ Cardinality(InUse) \in Nat
  BY ChannelsFinite DEF InUse
<1>3. Cardinality(InUse \ {c}) = Cardinality(InUse) - 1
  BY <1>1, <1>2, FS_RemoveElement
<1>4. Cardinality(InUse) # 0
  BY <1>1, <1>2, FS_EmptySet
<1> QED
  BY <1>1, <1>2, <1>3, <1>4 DEF Deallocate

\* A vacant channel that no race is about, and so no walk.
LEMMA Uncontended ==
    ASSUME IInv, ~raced, NEW c \in Channels, ~Contended(c)
    PROVE  /\ ~active[c] /\ c \notin leaked
           /\ \A t \in Sessions :
                /\ c \notin Held(t) /\ c \notin Taken(t)
                /\ closer[t].at = "advance" => closer[t].channel # c
<1>1. ~active[c]
  BY DEF Contended
<1>2. ASSUME NEW t \in Sessions, closer[t].at = "advance" PROVE closer[t].channel # c
  BY <1>2 DEF Contended
<1>3. PoolInv
  BY DEF IInv, CalmInv
<1> QED
  BY <1>1, <1>2, <1>3, NotHeld

\* A vacant channel becomes the listener's: no walk meets it and no closer has still to read
\* its pointer, or it is a race.
LEMMA TakeChannelStep ==
    ASSUME IInv, NEW s \in Sessions, TakeChannel(s)
    PROVE  IInv'
<1> DEFINE c == listener[s].channel
<1> USE DEF TakeChannel, Take, sessionVars
<1>0. /\ c \in Channels
      /\ listener' \in [Sessions -> [at : {"idle", "find", "take", "link", "ack"},
                                     stream : Nat, channel : Channels \cup {NULL}]]
      /\ listener'[s].at = "link" /\ listener'[s].channel = c
      /\ \A t \in Sessions \ {s} : listener'[t] = listener[t]
  <2>1. c \in Channels
    BY DEF IInv, Types, Hands, AtHand
  <2> QED
    BY <2>1, ListenerMoves DEF IInv, Types
<1>1. Types'
  <2>1. /\ active' \in [Channels -> BOOLEAN] /\ next' \in Pointers
        /\ stream' \in [Channels -> Nat] /\ total' \in Nat
    BY <1>0 DEF IInv, Types, Pointers
  <2>2. raced' \in BOOLEAN
    BY DEF IInv, Types, Contended
  <2> QED
    BY <1>0, <2>1, <2>2 DEF IInv, Types
<1>2. Hands' /\ PhaseInv'
  <2> SUFFICES ASSUME NEW t \in Sessions PROVE AtHand(t)' /\ Phase(t)'
    BY DEF Hands, PhaseInv
  <2>1. AtHand(t) /\ Phase(t)
    BY DEF IInv, Hands, PhaseInv
  <2>2. CASE t = s
    BY <1>0, <2>1, <2>2, ChannelsType DEF IInv, AtHand, Phase, Types, Idle
  <2>3. CASE t # s
    BY <1>0, <2>1, <2>3 DEF IInv, AtHand, Phase, Types
  <2> QED
    BY <2>2, <2>3
<1>3. ListsEnd'
  <2>1. next \in Pointers /\ next' \in Pointers /\ next'[c] = NULL
        /\ \A d \in Channels \ {c} : next'[d] = next[d]
    BY <1>0, <1>1 DEF IInv, Types, Pointers
  <2>2. \A h \in Channels : \E d \in Reach(next, h) : next[d] = NULL
    BY DEF IInv, ListsEnd
  <2>3. \A h \in Channels : \E d \in Reach(next', h) : next'[d] = NULL
    BY <1>0, <2>1, <2>2, CutKeepsEnds
  <2> QED
    BY <2>3 DEF ListsEnd
<1>4. ASSUME ~raced' PROVE CalmInv'
  <2>1. ~raced /\ CalmInv /\ ~Contended(c)
    BY <1>4 DEF IInv
  <2>2. /\ ~active[c] /\ c \notin leaked
        /\ \A t \in Sessions :
             /\ c \notin Held(t) /\ c \notin Taken(t)
             /\ closer[t].at = "advance" => closer[t].channel # c
    BY <1>0, <2>1, Uncontended
  <2>3. \A d \in Channels \ {c} : next'[d] = next[d] /\ stream'[d] = stream[d]
    BY <1>0 DEF IInv, Types, Pointers
  <2>4. ASSUME NEW t \in Sessions PROVE Held(t)' = Held(t)
    <3>1. From(t)' = From(t)
      BY <2>2, <2>3, FromKept DEF IInv, Types, Hands, AtHand
    <3>2. \A d \in Held(t) : next'[d] = next[d]
      BY <2>2, <2>3, FromType DEF IInv
    <3> QED
      BY <1>1, <3>1, <3>2, HeldFrame DEF IInv, Types
  <2>5. Taken(s) = {} /\ Taken(s)' = {c} /\ \A t \in Sessions \ {s} : Taken(t)' = Taken(t)
    BY <1>0 DEF Taken
  <2>6. active'[c] /\ \A d \in Channels \ {c} : active'[d] = active[d]
    BY <1>0 DEF IInv, Types
  <2>7. state[s] = "READY" /\ closer[s] = Idle
    BY <2>1, Streaming
  <2>8. QuietInv'
    BY <1>0, <2>1, <2>7 DEF CalmInv, QuietInv
  <2>9. PoolInv'
    <3>1. PoolInv
      BY <2>1 DEF CalmInv
    <3>2. \A d \in Channels :
            active'[d] <=> d \in leaked' \/ \E t \in Sessions : d \in Held(t)' \cup Taken(t)'
      <4> SUFFICES ASSUME NEW d \in Channels
                   PROVE  active'[d] <=>
                              d \in leaked \/ \E t \in Sessions : d \in Held(t)' \cup Taken(t)'
        OBVIOUS
      <4>1. CASE d = c
        BY <2>5, <2>6, <4>1
      <4>2. CASE d # c
        BY <2>4, <2>5, <2>6, <3>1, <4>2 DEF PoolInv
      <4> QED
        BY <4>1, <4>2
    <3>3. ASSUME NEW t \in Sessions
          PROVE  /\ leaked' \cap (Held(t)' \cup Taken(t)') = {}
                 /\ Taken(t)' \cap Held(t)' = {}
      BY <2>2, <2>4, <2>5, <3>1 DEF PoolInv
    <3>4. ASSUME NEW t \in Sessions, closer'[t].at = "advance"
          PROVE  ~active'[closer'[t].channel]
      BY <2>2, <2>6, <3>1, <3>4 DEF PoolInv, IInv, Types, Hands, AtHand
    <3>5. ASSUME NEW t \in Sessions, NEW u \in Sessions \ {t}
          PROVE  (Held(t)' \cup Taken(t)') \cap (Held(u)' \cup Taken(u)') = {}
      BY <2>2, <2>4, <2>5, <3>1 DEF PoolInv
    <3> QED
      BY <3>2, <3>3, <3>4, <3>5 DEF PoolInv
  <2>10. ASSUME NEW t \in Sessions, closer[t] = Idle \/ state[t] = "READY"
         PROVE  Listed(t)' = Listed(t) /\ c \notin Listed(t)
    <3>1. closer[t] = Idle
      BY <2>1, <2>10, Streaming
    <3>2. Held(t) = Listed(t) /\ Held(t)' = Listed(t)'
      BY <3>1 DEF Held, Listed, From, Idle
    <3> QED
      BY <2>2, <2>4, <3>2
  <2>11. CountInv'
    <3>1. total' = Cardinality(InUse)'
      BY <1>0, <2>1, <2>2, CountAfterTake DEF IInv, CalmInv, CountInv
    <3> QED
      BY <1>0, <2>1, <2>10, <3>1 DEF CalmInv, CountInv
  <2>12. ASSUME NEW t \in Sessions PROVE Acknowledged(t)'
    <3>1. Acknowledged(t)
      BY <2>1 DEF CalmInv, AckInv
    <3>2. ASSUME state[t] = "READY" \/ listener[t].at = "ack", NEW d \in Listed(t)
          PROVE  d \in Listed(t)' /\ stream'[d] = stream[d]
      <4>1. state[t] = "READY"
        BY <2>1, <3>2, Streaming
      <4> QED
        BY <2>3, <2>10, <3>2, <4>1, ReachType DEF Listed
    <3>3. CASE t # s
      BY <1>0, <3>1, <3>2, <3>3, AcknowledgedKept
    <3>4. CASE t = s
      BY <1>0, <2>7, <3>1, <3>2, <3>4 DEF Acknowledged, ChannelOf
    <3> QED
      BY <3>3, <3>4
  <2> QED
    BY <2>8, <2>9, <2>11, <2>12 DEF CalmInv, AckInv
<1> QED
  BY <1>1, <1>2, <1>3, <1>4 DEF IInv

\* LinkIn puts a channel into one list and changes no other.
LEMMA LinkInLists ==
    ASSUME Types, ListsEnd, NEW s \in Sessions, NEW c \in Channels,
           NEW nx \in {next, [next EXCEPT ![c] = NULL]}, LinkIn(s, c, nx)
    PROVE  /\ next' \in Pointers /\ head' \in [Sessions -> Channels \cup {NULL}] /\ ListsEnd'
           /\ \A t \in Sessions \ {s} : head'[t] = head[t]
           /\ c \notin Listed(s) =>
                /\ Listed(s)' = Listed(s) \cup {c}
                /\ \A d \in Channels : d # c /\ d \notin Listed(s) => next'[d] = next[d]
<1>1. /\ next \in Pointers /\ head[s] \in Channels \cup {NULL}
      /\ \A h \in Channels : \E d \in Reach(next, h) : next[d] = NULL
  BY DEF Types, ListsEnd
<1>2. CASE head[s] = NULL
  <2>1. head' = [head EXCEPT ![s] = c] /\ next' = [next EXCEPT ![c] = NULL]
    BY <1>2 DEF LinkIn
  <2>2. /\ next' \in Pointers /\ head'[s] = c /\ next'[c] = NULL
        /\ \A d \in Channels \ {c} : next'[d] = next[d]
        /\ head' \in [Sessions -> Channels \cup {NULL}]
        /\ \A t \in Sessions \ {s} : head'[t] = head[t]
    BY <1>1, <2>1 DEF Types, Pointers
  <2>3. \A h \in Channels : \E d \in Reach(next', h) : next'[d] = NULL
    BY <1>1, <2>2, CutKeepsEnds
  <2>4. ListsEnd'
    BY <2>3 DEF ListsEnd
  <2>5. Listed(s)' = {c} /\ Listed(s) = {}
    <3>1. Reach(next', c) = {c} \cup Reach(next', NULL) /\ Reach(next', NULL) = {}
      BY <2>2, ReachStep, ReachNull
    <3>2. Reach(next, NULL) = {}
      BY <1>1, ReachNull
    <3> QED
      BY <1>2, <2>2, <3>1, <3>2 DEF Listed
  <2> QED
    BY <2>2, <2>4, <2>5
<1>3. CASE head[s] # NULL /\ c \in Listed(s)
  <2>1. next' = nx /\ head' = head
    BY <1>3 DEF LinkIn
  <2>2. CASE nx = next
    BY <1>1, <1>3, <2>1, <2>2, ListsEndKept DEF Types
  <2>3. CASE nx = [next EXCEPT ![c] = NULL]
    <3>1. /\ next' \in Pointers /\ next'[c] = NULL
          /\ \A d \in Channels \ {c} : next'[d] = next[d]
      BY <1>1, <2>1, <2>3 DEF Pointers
    <3>2. \A h \in Channels : \E d \in Reach(next', h) : next'[d] = NULL
      BY <1>1, <3>1, CutKeepsEnds
    <3>3. ListsEnd'
      BY <3>2 DEF ListsEnd
    <3> QED
      BY <1>3, <2>1, <3>1, <3>3 DEF Types
  <2> QED
    BY <2>2, <2>3
<1>4. CASE head[s] # NULL /\ c \notin Listed(s)
  <2> DEFINE t == Last(s)
  <2>1. next' = [next EXCEPT ![c] = NULL, ![t] = c] /\ head' = head
    BY <1>4 DEF LinkIn
  <2>2. t \in Reach(next, head[s]) /\ next[t] = NULL
    <3>1. \E d \in Listed(s) : next[d] = NULL
      BY <1>1, <1>4 DEF Listed
    <3> QED
      BY <3>1 DEF Last, Listed
  <2>3. t \in Channels /\ t # c
    BY <1>4, <2>2, ReachType DEF Listed
  <2> HIDE DEF t
  <2>4. /\ next' \in Pointers /\ next'[c] = NULL /\ next'[t] = c
        /\ \A d \in Channels \ {c, t} : next'[d] = next[d]
    BY <1>1, <2>1, <2>3 DEF Pointers
  <2>5. \A h \in Channels : \E d \in Reach(next', h) : next'[d] = NULL
    BY <1>1, <2>3, <2>4, LinkKeepsEnds
  <2>6. ListsEnd'
    BY <2>5 DEF ListsEnd
  <2>7. Reach(next', head[s]) = Reach(next, head[s]) \cup {c}
    BY <1>1, <1>4, <2>2, <2>4, LinkedAtTheEnd DEF Listed
  <2>8. Listed(s)' = Listed(s) \cup {c}
    BY <2>1, <2>7 DEF Listed
  <2> QED
    BY <2>1, <2>2, <2>4, <2>6, <2>8 DEF Types, Listed
<1> QED
  BY <1>1, <1>2, <1>3, <1>4

\* LinkOut takes a channel out of one list and changes no other.
LEMMA LinkOutLists ==
    ASSUME Types, ListsEnd, NEW s \in Sessions, NEW c \in Listed(s), LinkOut(s, c)
    PROVE  /\ next' \in Pointers /\ head' \in [Sessions -> Channels \cup {NULL}] /\ ListsEnd'
           /\ \A t \in Sessions \ {s} : head'[t] = head[t]
           /\ Listed(s)' = Listed(s) \ {c}
           /\ \A d \in Channels \ Listed(s) : next'[d] = next[d]
<1>1. /\ next \in Pointers /\ head[s] \in Channels
      /\ \A h \in Channels : \E d \in Reach(next, h) : next[d] = NULL
  <2>1. head[s] # NULL
    BY ReachNull DEF Types, Listed
  <2> QED
    BY <2>1 DEF Types, ListsEnd
<1>2. Ends(next, head[s]) /\ c \in Channels /\ next[c] \in Channels \cup {NULL}
  BY <1>1, ReachType DEF Ends, Listed, Pointers
<1>3. CASE head[s] = c
  <2>1. head' = [head EXCEPT ![s] = next[c]] /\ next' = next
    BY <1>3 DEF LinkOut
  <2>2. Listed(s)' = Listed(s) \ {c}
    <3>1. Reach(next, next[c]) = Reach(next, c) \ {c}
      BY <1>1, <1>2, <1>3, HeadTakenOut
    <3> QED
      BY <1>3, <2>1, <3>1 DEF Listed, Types
  <2> QED
    BY <1>1, <1>2, <2>1, <2>2, ListsEndKept DEF Types
<1>4. CASE head[s] # c
  <2> DEFINE p == Before(s, c)
  <2>1. next' = [next EXCEPT ![p] = next[c]] /\ head' = head
    BY <1>4 DEF LinkOut
  <2>2. c \in Reach(next, head[s])
    BY DEF Listed
  <2>3. p \in Reach(next, head[s]) /\ next[p] = c /\ p \in Channels
    <3>1. \E d \in Reach(next, head[s]) : next[d] = c
      BY <1>1, <1>4, <2>2, HasBefore
    <3> QED
      BY <3>1, ReachType DEF Before, Listed
  <2> HIDE DEF p
  <2>4. /\ next' \in Pointers /\ next'[p] = next[c]
        /\ \A d \in Channels \ {p} : next'[d] = next[d]
    BY <1>1, <1>2, <2>1, <2>3 DEF Pointers
  <2>5. Reach(next', head[s]) = Reach(next, head[s]) \ {c}
    BY <1>1, <1>2, <1>4, <2>2, <2>3, <2>4, LaterTakenOut
  <2>6. \A h \in Channels : \E d \in Reach(next', h) : next'[d] = NULL
    BY <1>1, <1>2, <2>3, <2>4, SkipKeepsEnds
  <2>7. ListsEnd'
    BY <2>6 DEF ListsEnd
  <2>8. Listed(s)' = Listed(s) \ {c}
    BY <2>1, <2>5 DEF Listed
  <2> QED
    BY <2>1, <2>3, <2>4, <2>7, <2>8 DEF Types, Listed
<1> QED
  BY <1>3, <1>4

\* The channel goes from the hands of the listener into the list of its session.
LEMMA LinkChannelStep ==
    ASSUME IInv, NEW s \in Sessions, LinkChannel(s)
    PROVE  IInv'
<1> DEFINE c == listener[s].channel
<1> USE DEF LinkChannel, historyVars
<1>0. /\ c \in Channels /\ LinkIn(s, c, next)
      /\ listener' \in [Sessions -> [at : {"idle", "find", "take", "link", "ack"},
                                     stream : Nat, channel : Channels \cup {NULL}]]
      /\ listener'[s].at = "ack" /\ listener'[s].stream = listener[s].stream
      /\ \A t \in Sessions \ {s} : listener'[t] = listener[t]
  <2>1. c \in Channels
    BY DEF IInv, Types, Hands, AtHand
  <2> QED
    BY <2>1, ListenerMoves DEF IInv, Types
<1> HIDE DEF c
<1>1. /\ next' \in Pointers /\ head' \in [Sessions -> Channels \cup {NULL}] /\ ListsEnd'
      /\ \A t \in Sessions \ {s} : head'[t] = head[t]
      /\ c \notin Listed(s) =>
           /\ Listed(s)' = Listed(s) \cup {c}
           /\ \A d \in Channels : d # c /\ d \notin Listed(s) => next'[d] = next[d]
  BY <1>0, LinkInLists DEF IInv
<1>2. Types'
  <2>1. listener[s].stream \in Nat /\ stream \in [Channels -> Nat] /\ count \in [Sessions -> Nat]
    BY DEF IInv, Types
  <2>2. /\ stream' = [stream EXCEPT ![listener[s].channel] = listener[s].stream]
        /\ count' = [count EXCEPT ![s] = @ + 1]
    OBVIOUS
  <2>3. stream' \in [Channels -> Nat]
    <3>1. ASSUME NEW d \in Channels PROVE stream'[d] \in Nat
      BY <2>1, <2>2
    <3> QED
      BY <2>1, <2>2, <3>1
  <2>4. count' \in [Sessions -> Nat]
    BY <2>1, <2>2
  <2> QED
    BY <1>0, <1>1, <2>3, <2>4 DEF IInv, Types
<1>3. Hands' /\ PhaseInv'
  <2> SUFFICES ASSUME NEW t \in Sessions PROVE AtHand(t)' /\ Phase(t)'
    BY DEF Hands, PhaseInv
  <2>1. AtHand(t) /\ Phase(t)
    BY DEF IInv, Hands, PhaseInv
  <2>2. CASE t = s
    BY <1>0, <2>1, <2>2 DEF IInv, AtHand, Phase, Types, Idle
  <2>3. CASE t # s
    BY <1>0, <2>1, <2>3 DEF IInv, AtHand, Phase, Types
  <2> QED
    BY <2>2, <2>3
<1>4. ASSUME ~raced' PROVE CalmInv'
  <2>1. ~raced /\ CalmInv /\ PoolInv
    BY <1>4 DEF IInv, CalmInv
  <2>2. state[s] = "READY" /\ closer[s] = Idle /\ Held(s) = Listed(s)
    BY <2>1, Streaming DEF LinkChannel
  <2>3. Taken(s) = {c} /\ Taken(s)' = {} /\ \A t \in Sessions \ {s} : Taken(t)' = Taken(t)
    BY <1>0 DEF Taken, c
  <2>4. /\ active[c] /\ c \notin leaked /\ c \notin Listed(s)
        /\ \A t \in Sessions \ {s} : Held(t) \cap Listed(s) = {} /\ c \notin Held(t) /\ c \notin Taken(t)
        /\ \A d \in Listed(s) : active[d]
    BY <1>0, <2>1, <2>2, <2>3, FromType DEF PoolInv, IInv
  <2>5. ASSUME NEW t \in Sessions \ {s} PROVE Held(t)' = Held(t)
    <3>0. ASSUME closer[t].at = "advance"
          PROVE  next'[closer[t].channel] = next[closer[t].channel]
      <4>1. closer[t].channel \in Channels
        BY <3>0 DEF IInv, Types, Hands, AtHand
      <4>2. ~active[closer[t].channel]
        BY <2>1, <3>0 DEF PoolInv
      <4> QED
        BY <1>1, <2>4, <4>1, <4>2
    <3>1. From(t)' = From(t)
      BY <1>1, <3>0, FromKept
    <3>2. \A d \in Held(t) : next'[d] = next[d]
      BY <1>1, <2>4, FromType DEF IInv
    <3> QED
      BY <1>1, <3>1, <3>2, HeldFrame DEF IInv
  <2>6. Held(s)' = Listed(s)' /\ Listed(s)' = Listed(s) \cup {c}
    BY <1>1, <2>2, <2>4 DEF Held, From, Listed, Idle
  <2>7. QuietInv'
    BY <1>0, <2>1, <2>2 DEF CalmInv, QuietInv
  <2>8. PoolInv'
    <3>1. \A t \in Sessions : Held(t)' \cup Taken(t)' = Held(t) \cup Taken(t)
      BY <2>2, <2>3, <2>5, <2>6
    <3>2. \A t \in Sessions : Held(t)' \cap Taken(t)' = {}
      BY <2>1, <2>3, <2>5 DEF PoolInv
    <3> QED
      BY <2>1, <3>1, <3>2 DEF PoolInv
  <2>9. ASSUME NEW t \in Sessions \ {s}, closer[t] = Idle PROVE Listed(t)' = Listed(t)
    <3>1. Held(t) = Listed(t) /\ Held(t)' = Listed(t)'
      BY <2>9 DEF Held, Listed, From, Idle
    <3> QED
      BY <2>5, <3>1
  <2>10. CountInv'
    <3>1. total' = Cardinality(InUse)'
      BY <2>1 DEF CalmInv, CountInv, InUse
    <3>2. count'[s] = count[s] + 1 /\ \A t \in Sessions \ {s} : count'[t] = count[t]
      BY DEF IInv, Types
    <3>3. Cardinality(Listed(s) \cup {c}) = Cardinality(Listed(s)) + 1
      <4>1. IsFiniteSet(Listed(s))
        BY ChannelsFinite, ReachType DEF Listed
      <4> QED
        BY <2>4, <4>1, FS_AddElement
    <3>4. count[s] = Cardinality(Listed(s)) /\ count[s] < PerPeer /\ count[s] \in Nat
      BY <2>1, <2>2 DEF CalmInv, CountInv, IInv, Types
    <3>5. ASSUME NEW t \in Sessions
          PROVE  /\ closer[t] = Idle =>
                        count'[t] = Cardinality(Listed(t)') /\ count'[t] <= PerPeer
                 /\ closer[t].at \in {"close", "advance", "free", "wait"} => count'[t] = 0
                 /\ closer[t].at \in {"free", "wait"} => head'[t] = NULL
                 /\ listener'[t].at \in {"take", "link"} => count'[t] < PerPeer
      <4>1. CASE t = s
        <5>1. count'[s] = Cardinality(Listed(s)') /\ count'[s] <= PerPeer
          BY <2>6, <3>2, <3>3, <3>4, DataChannelConstants
        <5> QED
          BY <1>0, <2>2, <4>1, <5>1 DEF Idle
      <4>2. CASE t # s
        BY <1>0, <1>1, <2>1, <2>9, <3>2, <4>2 DEF CalmInv, CountInv
      <4> QED
        BY <4>1, <4>2
    <3> QED
      BY <3>1, <3>5 DEF CountInv
  <2>11. ASSUME NEW t \in Sessions PROVE Acknowledged(t)'
    <3>1. Acknowledged(t)
      BY <2>1 DEF CalmInv, AckInv
    <3>2. ASSUME state[t] = "READY" \/ listener[t].at = "ack", NEW d \in Listed(t)
          PROVE  d \in Listed(t)' /\ stream'[d] = stream[d]
      <4>1. closer[t] = Idle /\ Held(t) = Listed(t)
        BY <2>1, <3>2, Streaming
      <4>2. d # c /\ d \in Channels
        BY <2>4, <3>2, <4>1, ReachType DEF Listed
      <4>3. stream'[d] = stream[d]
        BY <4>2 DEF IInv, Types, c
      <4> QED
        BY <2>6, <2>9, <3>2, <4>1, <4>3
    <3>3. CASE t # s
      BY <1>0, <3>1, <3>2, <3>3, AcknowledgedKept
    <3>4. CASE t = s
      <4>1. c \in Listed(s)' /\ stream'[c] = listener[s].stream
        BY <1>0, <2>6 DEF IInv, Types, c
      <4> QED
        BY <1>0, <2>2, <3>1, <3>2, <3>4, <4>1 DEF Acknowledged, ChannelOf
    <3> QED
      BY <3>3, <3>4
  <2> QED
    BY <2>7, <2>8, <2>10, <2>11 DEF CalmInv, AckInv
<1> QED
  BY <1>1, <1>2, <1>3, <1>4 DEF IInv

\* The closer gives the first of the channels back and is left with those behind it.
LEMMA CloseChannelStep ==
    ASSUME IInv, NEW s \in Sessions, CloseChannel(s)
    PROVE  IInv'
<1> DEFINE c == closer[s].channel
<1> USE DEF CloseChannel, sessionVars, historyVars
<1>0. /\ c \in Channels /\ Deallocate(c)
      /\ closer' \in [Sessions -> [at : {"idle", "reset", "close", "advance", "free", "wait"},
                                   stream : {0}, channel : Channels \cup {NULL}]]
      /\ closer'[s].at = "advance" /\ closer'[s].channel = c
      /\ \A t \in Sessions \ {s} : closer'[t] = closer[t]
  <2>1. c \in Channels
    BY DEF IInv, Types
  <2> QED
    BY <2>1, CloserMoves DEF IInv, Types
<1>1. closer[s].at = "close" /\ next' = next /\ head' = head
  OBVIOUS
<1>2. Types'
  <2>1. active' \in [Channels -> BOOLEAN] /\ total' \in Nat
    BY <1>0 DEF IInv, Types, Deallocate
  <2> QED
    BY <1>0, <2>1 DEF IInv, Types
<1>3. Hands' /\ PhaseInv'
  <2> SUFFICES ASSUME NEW t \in Sessions PROVE AtHand(t)' /\ Phase(t)'
    BY DEF Hands, PhaseInv
  <2>1. AtHand(t) /\ Phase(t)
    BY DEF IInv, Hands, PhaseInv
  <2>2. CASE t = s
    BY <1>0, <2>1, <2>2, Closing, ChannelsType DEF IInv, AtHand, Phase, Types, Idle
  <2>3. CASE t # s
    BY <1>0, <2>1, <2>3 DEF IInv, AtHand, Phase, Types
  <2> QED
    BY <2>2, <2>3
<1>4. ListsEnd'
  BY <1>1, ListsEndKept DEF IInv
<1>5. ASSUME ~raced' PROVE CalmInv'
  <2>1. ~raced /\ CalmInv /\ PoolInv
    BY <1>5 DEF IInv, CalmInv
  <2>2. c \in Held(s) /\ Held(s)' = Held(s) \ {c}
    <3>1. Reach(next, next[c]) = Reach(next, c) \ {c} /\ c \in Reach(next, c)
      BY <1>0, HeadTakenOut, ListEnds, ReachSelf DEF IInv, Types
    <3>2. From(s) = c /\ From(s)' = next[c]
      BY <1>0, <1>1 DEF From
    <3> QED
      BY <1>1, <3>1, <3>2 DEF Held
  <2>3. \A t \in Sessions \ {s} : Held(t)' = Held(t)
    BY <1>0, <1>1 DEF Held, From
  <2>4. \A t \in Sessions : Taken(t)' = Taken(t)
    BY DEF Taken
  <2>5. ~active'[c] /\ \A d \in Channels \ {c} : active'[d] = active[d]
    BY <1>0 DEF IInv, Types, Deallocate
  <2>6. /\ active[c] /\ c \notin leaked /\ c \notin Taken(s)
        /\ \A t \in Sessions \ {s} : c \notin Held(t) /\ c \notin Taken(t)
    BY <1>0, <2>1, <2>2 DEF PoolInv
  <2>7. PoolInv'
    <3>1. \A d \in Channels :
            active'[d] <=> d \in leaked' \/ \E t \in Sessions : d \in Held(t)' \cup Taken(t)'
      <4> SUFFICES ASSUME NEW d \in Channels
                   PROVE  active'[d] <=>
                              d \in leaked \/ \E t \in Sessions : d \in Held(t)' \cup Taken(t)'
        OBVIOUS
      <4>1. CASE d = c
        BY <2>2, <2>3, <2>4, <2>5, <2>6, <4>1
      <4>2. CASE d # c
        BY <2>1, <2>2, <2>3, <2>4, <2>5, <4>2 DEF PoolInv
      <4> QED
        BY <4>1, <4>2
    <3>2. ASSUME NEW t \in Sessions
          PROVE  /\ leaked' \cap (Held(t)' \cup Taken(t)') = {}
                 /\ Taken(t)' \cap Held(t)' = {}
      BY <2>1, <2>2, <2>3, <2>4 DEF PoolInv
    <3>3. ASSUME NEW t \in Sessions, closer'[t].at = "advance"
          PROVE  ~active'[closer'[t].channel]
      <4>1. CASE t = s
        BY <1>0, <2>5, <4>1
      <4>2. CASE t # s
        <5>1. closer'[t] = closer[t] /\ closer[t].channel \in Channels
          BY <1>0, <3>3, <4>2 DEF IInv, Types, Hands, AtHand
        <5>2. ~active[closer[t].channel]
          BY <2>1, <3>3, <5>1 DEF PoolInv
        <5> QED
          BY <2>5, <5>1, <5>2
      <4> QED
        BY <4>1, <4>2
    <3>4. ASSUME NEW t \in Sessions, NEW u \in Sessions \ {t}
          PROVE  (Held(t)' \cup Taken(t)') \cap (Held(u)' \cup Taken(u)') = {}
      BY <2>1, <2>2, <2>3, <2>4 DEF PoolInv
    <3> QED
      BY <3>1, <3>2, <3>3, <3>4 DEF PoolInv
  <2>8. CountInv'
    <3>1. total' = Cardinality(InUse)'
      BY <1>0, <2>1, <2>6, CountAfterReturn DEF IInv, CalmInv, CountInv
    <3>2. \A t \in Sessions : Listed(t)' = Listed(t)
      BY <1>1, ReachPrimed
    <3> QED
      BY <1>0, <1>1, <2>1, <3>1, <3>2 DEF CalmInv, CountInv, Idle
  <2>9. ASSUME NEW t \in Sessions PROVE Acknowledged(t)'
    BY <1>1, <2>1, AcknowledgedKept, ReachPrimed DEF CalmInv, AckInv
  <2> QED
    BY <2>1, <2>7, <2>8, <2>9 DEF CalmInv, QuietInv, AckInv
<1> QED
  BY <1>2, <1>3, <1>4, <1>5 DEF IInv

\* CreateDataChannel takes the lowest vacant channel and links it, or loses it.
LEMMA CreateLists ==
    ASSUME IInv, NEW s \in Sessions, CreateDataChannel(s)
    PROVE  /\ Lowest \in Channels /\ ~active[Lowest]
           /\ next' \in Pointers /\ head' \in [Sessions -> Channels \cup {NULL}] /\ ListsEnd'
           /\ \A t \in Sessions \ {s} : head'[t] = head[t]
           /\ Lowest \notin Listed(s) =>
                /\ Listed(s)' = IF count[s] < PerPeer THEN Listed(s) \cup {Lowest} ELSE Listed(s)
                /\ \A d \in Channels : d # Lowest /\ d \notin Listed(s) => next'[d] = next[d]
<1>1. Lowest \in Channels /\ ~active[Lowest]
  BY LowestVacant DEF CreateDataChannel
<1>2. Types /\ ListsEnd
  BY DEF IInv
<1>3. CASE count[s] < PerPeer
  <2>1. LinkIn(s, Lowest, [next EXCEPT ![Lowest] = NULL])
    BY <1>3 DEF CreateDataChannel
  <2> QED
    BY <1>1, <1>2, <1>3, <2>1, LinkInLists
<1>4. CASE ~(count[s] < PerPeer)
  <2>1. next' = [next EXCEPT ![Lowest] = NULL] /\ head' = head
    BY <1>4 DEF CreateDataChannel
  <2>2. /\ next \in Pointers /\ next' \in Pointers /\ next'[Lowest] = NULL
        /\ \A d \in Channels \ {Lowest} : next'[d] = next[d]
        /\ head \in [Sessions -> Channels \cup {NULL}]
    BY <1>1, <1>2, <2>1 DEF Types, Pointers
  <2>3. \A h \in Channels : \E d \in Reach(next, h) : next[d] = NULL
    BY <1>2 DEF ListsEnd
  <2>4. \A h \in Channels : \E d \in Reach(next', h) : next'[d] = NULL
    BY <1>1, <2>2, <2>3, CutKeepsEnds
  <2>5. ListsEnd'
    BY <2>4 DEF ListsEnd
  <2>6. ASSUME Lowest \notin Listed(s) PROVE Listed(s)' = Listed(s)
    <3>1. \A d \in Reach(next, head[s]) : next'[d] = next[d]
      BY <2>2, <2>6, ReachType DEF Listed
    <3>2. Reach(next', head[s]) = Reach(next, head[s])
      BY <2>2, <3>1, ReachFrame
    <3> QED
      BY <2>1, <3>2 DEF Listed
  <2> QED
    BY <1>1, <1>4, <2>1, <2>2, <2>5, <2>6
<1> QED
  BY <1>3, <1>4

\* The channel goes into the list, or to those that are lost.
LEMMA CreateDataChannelStep ==
    ASSUME IInv, NEW s \in Sessions, CreateDataChannel(s)
    PROVE  IInv'
<1> DEFINE c == Lowest
           Links == count[s] < PerPeer
<1>0. /\ c \in Channels /\ ~active[c]
      /\ next' \in Pointers /\ head' \in [Sessions -> Channels \cup {NULL}] /\ ListsEnd'
      /\ \A t \in Sessions \ {s} : head'[t] = head[t]
      /\ c \notin Listed(s) =>
           /\ Listed(s)' = IF Links THEN Listed(s) \cup {c} ELSE Listed(s)
           /\ \A d \in Channels : d # c /\ d \notin Listed(s) => next'[d] = next[d]
  BY CreateLists
<1>1. /\ active' = [active EXCEPT ![c] = TRUE] /\ total' = total + 1
      /\ stream' = [stream EXCEPT ![c] = 0]
      /\ raced' = (raced \/ Contended(c))
      /\ count' = IF Links THEN [count EXCEPT ![s] = @ + 1] ELSE count
      /\ leaked' = IF Links THEN leaked ELSE leaked \cup {c}
      /\ state[s] = "INITED"
      /\ UNCHANGED <<state, shutdown, socket, listener, closer, acked, refused>>
  BY DEF CreateDataChannel, Take
<1> HIDE DEF c, Links
<1>2. Types'
  <2>1. /\ active' \in [Channels -> BOOLEAN] /\ total' \in Nat
        /\ stream' \in [Channels -> Nat] /\ leaked' \in SUBSET Channels
    BY <1>0, <1>1 DEF IInv, Types
  <2>2. count' \in [Sessions -> Nat]
    BY <1>1 DEF IInv, Types
  <2>3. raced' \in BOOLEAN
    BY <1>1 DEF IInv, Types, Contended
  <2> QED
    BY <1>0, <1>1, <2>1, <2>2, <2>3 DEF IInv, Types
<1>3. Hands' /\ PhaseInv'
  <2> SUFFICES ASSUME NEW t \in Sessions PROVE AtHand(t)' /\ Phase(t)'
    BY DEF Hands, PhaseInv
  <2>1. AtHand(t) /\ Phase(t)
    BY DEF IInv, Hands, PhaseInv
  <2> QED
    BY <1>1, <2>1 DEF AtHand, Phase
<1>4. ASSUME ~raced' PROVE CalmInv'
  <2>1. ~raced /\ CalmInv /\ PoolInv /\ ~Contended(c)
    BY <1>1, <1>4 DEF IInv, CalmInv
  <2>2. /\ c \notin leaked
        /\ \A t \in Sessions :
             /\ c \notin Held(t) /\ c \notin Taken(t)
             /\ closer[t].at = "advance" => closer[t].channel # c
    BY <1>0, <2>1, Uncontended
  <2>3. closer[s] = Idle /\ listener[s] = Idle /\ Held(s) = Listed(s)
    <3>1. closer[s] = Idle /\ listener[s] = Idle
      BY <1>1 DEF IInv, PhaseInv, Phase
    <3> QED
      BY <3>1, ListIsHeld DEF Idle
  <2>4. /\ c \notin Listed(s)
        /\ Listed(s)' = IF Links THEN Listed(s) \cup {c} ELSE Listed(s)
        /\ \A d \in Channels : d # c /\ d \notin Listed(s) => next'[d] = next[d]
    BY <1>0, <2>2, <2>3
  <2>5. \A d \in Listed(s) : active[d] /\ d \notin leaked
    BY <2>1, <2>3, FromType DEF PoolInv, IInv
  <2>6. ASSUME NEW t \in Sessions \ {s} PROVE Held(t)' = Held(t)
    <3>1. ASSUME closer[t].at = "advance"
          PROVE  next'[closer[t].channel] = next[closer[t].channel]
      <4>1. closer[t].channel \in Channels /\ closer[t].channel # c
        BY <2>2, <3>1 DEF IInv, Types, Hands, AtHand
      <4>2. ~active[closer[t].channel]
        BY <2>1, <3>1 DEF PoolInv
      <4> QED
        BY <2>4, <2>5, <4>1, <4>2
    <3>2. From(t)' = From(t)
      BY <1>0, <1>1, <3>1, FromKept
    <3>3. \A d \in Held(t) : d \in Channels /\ d # c /\ d \notin Listed(s)
      BY <2>1, <2>2, <2>3, FromType DEF PoolInv, IInv
    <3> QED
      BY <1>0, <2>4, <3>2, <3>3, HeldFrame DEF IInv
  <2>7. Held(s)' = Listed(s)'
    BY <1>1, <2>3 DEF Held, From, Listed, Idle
  <2>8. \A t \in Sessions : Taken(t)' = Taken(t)
    BY <1>1 DEF Taken
  <2>9. active'[c] /\ \A d \in Channels \ {c} : active'[d] = active[d]
    BY <1>0, <1>1 DEF IInv, Types
  <2>10. PoolInv'
    <3>1. \A d \in Channels :
            active'[d] <=> d \in leaked' \/ \E t \in Sessions : d \in Held(t)' \cup Taken(t)'
      <4> SUFFICES ASSUME NEW d \in Channels
                   PROVE  active'[d] <=>
                              d \in leaked' \/ \E t \in Sessions : d \in Held(t)' \cup Taken(t)'
        OBVIOUS
      <4>1. CASE d = c
        BY <1>1, <2>4, <2>7, <2>9, <4>1
      <4>2. CASE d # c
        <5>1. \A t \in Sessions : d \in Held(t)' \cup Taken(t)' <=> d \in Held(t) \cup Taken(t)
          BY <2>3, <2>4, <2>6, <2>7, <2>8, <4>2
        <5>2. d \in leaked' <=> d \in leaked
          BY <1>1, <4>2
        <5> QED
          BY <2>1, <2>9, <4>2, <5>1, <5>2 DEF PoolInv
      <4> QED
        BY <4>1, <4>2
    <3>2. ASSUME NEW t \in Sessions
          PROVE  /\ leaked' \cap (Held(t)' \cup Taken(t)') = {}
                 /\ Taken(t)' \cap Held(t)' = {}
      <4>1. CASE t = s
        BY <1>1, <2>1, <2>2, <2>3, <2>4, <2>7, <2>8, <4>1 DEF PoolInv
      <4>2. CASE t # s
        BY <1>1, <2>1, <2>2, <2>6, <2>8, <4>2 DEF PoolInv
      <4> QED
        BY <4>1, <4>2
    <3>3. ASSUME NEW t \in Sessions, closer'[t].at = "advance"
          PROVE  ~active'[closer'[t].channel]
      <4>1. closer[t].channel \in Channels /\ closer[t].channel # c /\ closer'[t] = closer[t]
        BY <1>1, <2>2, <3>3 DEF IInv, Types, Hands, AtHand
      <4>2. ~active[closer[t].channel]
        BY <2>1, <3>3, <4>1 DEF PoolInv
      <4> QED
        BY <2>9, <4>1, <4>2
    <3>4. ASSUME NEW t \in Sessions, NEW u \in Sessions \ {t}
          PROVE  (Held(t)' \cup Taken(t)') \cap (Held(u)' \cup Taken(u)') = {}
      <4>1. (Held(t) \cup Taken(t)) \cap (Held(u) \cup Taken(u)) = {}
        BY <2>1 DEF PoolInv
      <4>2. CASE t = s
        BY <2>2, <2>3, <2>4, <2>6, <2>7, <2>8, <4>1, <4>2
      <4>3. CASE u = s
        BY <2>2, <2>3, <2>4, <2>6, <2>7, <2>8, <4>1, <4>3
      <4>4. CASE t # s /\ u # s
        BY <2>6, <2>8, <4>1, <4>4
      <4> QED
        BY <4>2, <4>3, <4>4
    <3> QED
      BY <3>1, <3>2, <3>3, <3>4 DEF PoolInv
  <2>11. ASSUME NEW t \in Sessions \ {s}, closer[t] = Idle
         PROVE  Listed(t)' = Listed(t) /\ c \notin Listed(t)
    <3>1. Held(t) = Listed(t) /\ Held(t)' = Listed(t)'
      BY <1>1, <2>11 DEF Held, Listed, From, Idle
    <3> QED
      BY <2>2, <2>6, <3>1
  <2>12. CountInv'
    <3>1. total' = Cardinality(InUse)'
      BY <1>0, <1>1, <2>1, CountAfterTake DEF IInv, CalmInv, CountInv
    <3>2. count'[s] = Cardinality(Listed(s)') /\ count'[s] <= PerPeer
      <4>1. Cardinality(Listed(s) \cup {c}) = Cardinality(Listed(s)) + 1
        <5>1. IsFiniteSet(Listed(s))
          BY ChannelsFinite, ReachType DEF Listed
        <5> QED
          BY <2>4, <5>1, FS_AddElement
      <4>2. count[s] = Cardinality(Listed(s)) /\ count[s] <= PerPeer /\ count[s] \in Nat
        BY <2>1, <2>3 DEF CalmInv, CountInv, IInv, Types
      <4>3. CASE Links
        <5>1. count'[s] = count[s] + 1 /\ count[s] < PerPeer
          BY <1>1, <4>3 DEF IInv, Types, Links
        <5> QED
          BY <2>4, <4>1, <4>2, <4>3, <5>1, DataChannelConstants
      <4>4. CASE ~Links
        BY <1>1, <2>4, <4>2, <4>4
      <4> QED
        BY <4>3, <4>4
    <3>3. \A t \in Sessions \ {s} : count'[t] = count[t]
      BY <1>1 DEF IInv, Types
    <3>4. ASSUME NEW t \in Sessions
          PROVE  /\ closer[t] = Idle =>
                        count'[t] = Cardinality(Listed(t)') /\ count'[t] <= PerPeer
                 /\ closer[t].at \in {"close", "advance", "free", "wait"} => count'[t] = 0
                 /\ closer[t].at \in {"free", "wait"} => head'[t] = NULL
                 /\ listener[t].at \in {"take", "link"} => count'[t] < PerPeer
      <4>1. CASE t = s
        BY <2>3, <3>2, <4>1 DEF Idle
      <4>2. CASE t # s
        BY <1>0, <2>1, <2>11, <3>3, <4>2 DEF CalmInv, CountInv
      <4> QED
        BY <4>1, <4>2
    <3> QED
      BY <1>1, <3>1, <3>4 DEF CountInv
  <2>13. ASSUME NEW t \in Sessions PROVE Acknowledged(t)'
    <3>1. Acknowledged(t)
      BY <2>1 DEF CalmInv, AckInv
    <3>2. CASE t = s
      BY <1>1, <2>3, <3>2 DEF Acknowledged, Idle
    <3>3. CASE t # s
      <4>1. ASSUME state[t] = "READY" \/ listener[t].at = "ack", NEW d \in Listed(t)
            PROVE  d \in Listed(t)' /\ stream'[d] = stream[d]
        <5>1. closer[t] = Idle
          BY <2>1, <4>1, Streaming
        <5>2. d \in Channels /\ d # c /\ Listed(t)' = Listed(t)
          BY <2>11, <3>3, <4>1, <5>1, ReachType DEF Listed
        <5> QED
          BY <1>1, <4>1, <5>2 DEF IInv, Types
      <4> QED
        BY <1>1, <3>1, <3>3, <4>1, AcknowledgedKept
    <3> QED
      BY <3>2, <3>3
  <2>14. QuietInv'
    BY <1>1, <2>1 DEF CalmInv, QuietInv
  <2> QED
    BY <2>10, <2>12, <2>13, <2>14 DEF CalmInv, AckInv
<1> QED
  BY <1>0, <1>2, <1>3, <1>4 DEF IInv

\* The channel leaves the list, and its stream what is acknowledged.
LEMMA CloseDataChannelStep ==
    ASSUME IInv, NEW s \in Sessions, CloseDataChannel(s)
    PROVE  IInv'
<1>0. PICK c \in Listed(s) :
        /\ LinkOut(s, c) /\ Deallocate(c)
        /\ count' = [count EXCEPT ![s] = IF @ > 0 THEN @ - 1 ELSE 0]
        /\ acked' = [acked EXCEPT ![s] = @ \ {stream[c]}]
  BY DEF CloseDataChannel
<1>1. /\ state[s] = "READY" /\ listener[s] = Idle /\ closer[s] = Idle
      /\ UNCHANGED <<stream, state, shutdown, socket, listener, closer, refused, leaked, raced>>
  BY DEF CloseDataChannel
<1>2. /\ next' \in Pointers /\ head' \in [Sessions -> Channels \cup {NULL}] /\ ListsEnd'
      /\ \A t \in Sessions \ {s} : head'[t] = head[t]
      /\ Listed(s)' = Listed(s) \ {c}
      /\ \A d \in Channels \ Listed(s) : next'[d] = next[d]
      /\ c \in Channels
  BY <1>0, LinkOutLists, ReachType DEF IInv, Listed
<1>3. Types'
  <2>1. active' \in [Channels -> BOOLEAN] /\ total' \in Nat
    BY <1>0, <1>2 DEF IInv, Types, Deallocate
  <2>2. count' \in [Sessions -> Nat]
    BY <1>0 DEF IInv, Types
  <2>3. acked' \in [Sessions -> SUBSET Nat]
    BY <1>0 DEF IInv, Types
  <2> QED
    BY <1>1, <1>2, <2>1, <2>2, <2>3 DEF IInv, Types
<1>4. Hands' /\ PhaseInv'
  <2> SUFFICES ASSUME NEW t \in Sessions PROVE AtHand(t)' /\ Phase(t)'
    BY DEF Hands, PhaseInv
  <2>1. AtHand(t) /\ Phase(t)
    BY DEF IInv, Hands, PhaseInv
  <2>2. CASE t = s
    BY <1>1, <2>1, <2>2 DEF AtHand, Phase
  <2>3. CASE t # s
    BY <1>0, <1>1, <2>1, <2>3 DEF AtHand, Phase, IInv, Types
  <2> QED
    BY <2>2, <2>3
<1>5. ASSUME ~raced' PROVE CalmInv'
  <2>1. ~raced /\ CalmInv /\ PoolInv
    BY <1>1, <1>5 DEF IInv, CalmInv
  <2>2. Held(s) = Listed(s) /\ Held(s)' = Listed(s)'
    BY <1>1 DEF Held, From, Listed, Idle
  <2>3. /\ c \notin leaked /\ c \notin Taken(s) /\ \A d \in Listed(s) : active[d]
        /\ \A t \in Sessions \ {s} : c \notin Held(t) /\ c \notin Taken(t)
    BY <1>2, <2>1, <2>2, FromType DEF PoolInv, IInv
  <2>4. ASSUME NEW t \in Sessions \ {s} PROVE Held(t)' = Held(t)
    <3>1. ASSUME closer[t].at = "advance"
          PROVE  next'[closer[t].channel] = next[closer[t].channel]
      <4>1. closer[t].channel \in Channels
        BY <3>1 DEF IInv, Types, Hands, AtHand
      <4>2. ~active[closer[t].channel]
        BY <2>1, <3>1 DEF PoolInv
      <4> QED
        BY <1>2, <2>3, <4>1, <4>2
    <3>2. From(t)' = From(t)
      BY <1>1, <1>2, <3>1, FromKept
    <3>3. \A d \in Held(t) : d \in Channels /\ d \notin Listed(s)
      BY <2>1, <2>2, FromType DEF PoolInv, IInv
    <3> QED
      BY <1>2, <3>2, <3>3, HeldFrame DEF IInv
  <2>5. \A t \in Sessions : Taken(t)' = Taken(t)
    BY <1>1 DEF Taken
  <2>6. ~active'[c] /\ \A d \in Channels \ {c} : active'[d] = active[d]
    BY <1>0, <1>2 DEF IInv, Types, Deallocate
  <2>7. PoolInv'
    <3>1. \A d \in Channels :
            active'[d] <=> d \in leaked' \/ \E t \in Sessions : d \in Held(t)' \cup Taken(t)'
      <4> SUFFICES ASSUME NEW d \in Channels
                   PROVE  active'[d] <=>
                              d \in leaked \/ \E t \in Sessions : d \in Held(t)' \cup Taken(t)'
        BY <1>1
      <4>1. CASE d = c
        BY <1>2, <2>2, <2>3, <2>4, <2>5, <2>6, <4>1
      <4>2. CASE d # c
        <5>1. \A t \in Sessions : d \in Held(t)' \cup Taken(t)' <=> d \in Held(t) \cup Taken(t)
          BY <1>2, <2>2, <2>4, <2>5, <4>2
        <5> QED
          BY <2>1, <2>6, <4>2, <5>1 DEF PoolInv
      <4> QED
        BY <4>1, <4>2
    <3>0. \A t \in Sessions : Held(t)' \subseteq Held(t)
      BY <1>2, <2>2, <2>4
    <3>2. ASSUME NEW t \in Sessions
          PROVE  /\ leaked' \cap (Held(t)' \cup Taken(t)') = {}
                 /\ Taken(t)' \cap Held(t)' = {}
      BY <1>1, <2>1, <2>5, <3>0 DEF PoolInv
    <3>3. ASSUME NEW t \in Sessions, closer'[t].at = "advance"
          PROVE  ~active'[closer'[t].channel]
      <4>1. closer[t].channel \in Channels /\ closer'[t] = closer[t]
        BY <1>1, <3>3 DEF IInv, Types, Hands, AtHand
      <4>2. ~active[closer[t].channel]
        BY <2>1, <3>3, <4>1 DEF PoolInv
      <4> QED
        BY <2>6, <4>1, <4>2
    <3>4. ASSUME NEW t \in Sessions, NEW u \in Sessions \ {t}
          PROVE  (Held(t)' \cup Taken(t)') \cap (Held(u)' \cup Taken(u)') = {}
      <4>1. (Held(t) \cup Taken(t)) \cap (Held(u) \cup Taken(u)) = {}
        BY <2>1 DEF PoolInv
      <4> QED
        BY <2>5, <3>0, <4>1
    <3> QED
      BY <3>1, <3>2, <3>3, <3>4 DEF PoolInv
  <2>8. ASSUME NEW t \in Sessions \ {s}, closer[t] = Idle PROVE Listed(t)' = Listed(t)
    <3>1. Held(t) = Listed(t) /\ Held(t)' = Listed(t)'
      BY <1>1, <2>8 DEF Held, Listed, From, Idle
    <3> QED
      BY <2>4, <3>1
  <2>9. CountInv'
    <3>1. total' = Cardinality(InUse)'
      BY <1>0, <1>2, <2>1, <2>3, CountAfterReturn DEF IInv, CalmInv, CountInv
    <3>2. count'[s] = Cardinality(Listed(s)') /\ count'[s] <= PerPeer
      <4>1. IsFiniteSet(Listed(s))
        BY ChannelsFinite, ReachType DEF Listed
      <4>2. /\ Cardinality(Listed(s) \ {c}) = Cardinality(Listed(s)) - 1
            /\ Cardinality(Listed(s)) # 0
        BY <4>1, FS_RemoveElement, FS_EmptySet
      <4>3. count[s] = Cardinality(Listed(s)) /\ count[s] <= PerPeer /\ count[s] \in Nat
        BY <1>1, <2>1 DEF CalmInv, CountInv, IInv, Types
      <4>4. count'[s] = IF count[s] > 0 THEN count[s] - 1 ELSE 0
        BY <1>0 DEF IInv, Types
      <4> QED
        BY <1>2, <4>2, <4>3, <4>4, DataChannelConstants
    <3>3. \A t \in Sessions \ {s} : count'[t] = count[t]
      BY <1>0 DEF IInv, Types
    <3>4. ASSUME NEW t \in Sessions
          PROVE  /\ closer[t] = Idle =>
                        count'[t] = Cardinality(Listed(t)') /\ count'[t] <= PerPeer
                 /\ closer[t].at \in {"close", "advance", "free", "wait"} => count'[t] = 0
                 /\ closer[t].at \in {"free", "wait"} => head'[t] = NULL
                 /\ listener[t].at \in {"take", "link"} => count'[t] < PerPeer
      <4>1. CASE t = s
        BY <1>1, <3>2, <4>1 DEF Idle
      <4>2. CASE t # s
        BY <1>2, <2>1, <2>8, <3>3, <4>2 DEF CalmInv, CountInv
      <4> QED
        BY <4>1, <4>2
    <3> QED
      BY <1>1, <3>1, <3>4 DEF CountInv
  <2>10. ASSUME NEW t \in Sessions PROVE Acknowledged(t)'
    <3>1. Acknowledged(t)
      BY <2>1 DEF CalmInv, AckInv
    <3>2. CASE t = s
      <4>1. acked'[s] = acked[s] \ {stream[c]}
        BY <1>0 DEF IInv, Types
      <4>2. ASSUME NEW str \in acked'[s] \ refused[s] PROVE ChannelOf(s, str)' # {}
        <5>1. PICK d \in Listed(s) : stream[d] = str
          BY <1>1, <3>1, <3>2, <4>1, <4>2 DEF Acknowledged, ChannelOf
        <5>2. d # c
          BY <4>1, <4>2, <5>1
        <5> QED
          BY <1>1, <1>2, <5>1, <5>2 DEF ChannelOf
      <4> QED
        BY <1>1, <3>2, <4>2 DEF Acknowledged, Idle
    <3>3. CASE t # s
      <4>1. ASSUME state[t] = "READY" \/ listener[t].at = "ack", NEW d \in Listed(t)
            PROVE  d \in Listed(t)' /\ stream'[d] = stream[d]
        <5>1. closer[t] = Idle
          BY <2>1, <4>1, Streaming
        <5> QED
          BY <1>1, <2>8, <3>3, <4>1, <5>1
      <4>2. acked'[t] = acked[t]
        BY <1>0, <3>3 DEF IInv, Types
      <4> QED
        BY <1>1, <3>1, <3>3, <4>1, <4>2, AcknowledgedKept
    <3> QED
      BY <3>2, <3>3
  <2>11. QuietInv'
    BY <1>1, <2>1 DEF CalmInv, QuietInv
  <2> QED
    BY <2>7, <2>9, <2>10, <2>11 DEF CalmInv, AckInv
<1> QED
  BY <1>2, <1>3, <1>4, <1>5 DEF IInv

------------------------------------------------------------------------------
(* The theorems. *)

\* Every step keeps the invariant.
LEMMA IInvStep == IInv /\ [Next]_vars => IInv'
<1> SUFFICES ASSUME IInv, [Next]_vars PROVE IInv'
  OBVIOUS
<1>1. CASE UNCHANGED vars
  <2>1. Types' /\ Hands' /\ PhaseInv' /\ ListsEnd' /\ raced' = raced
    BY <1>1 DEF vars, poolVars, sessionVars, historyVars, IInv, Types, Hands, AtHand,
                PhaseInv, Phase, ListsEnd
  <2>2. ASSUME CalmInv PROVE CalmInv'
    <3>1. PoolInv'
      BY <1>1, <2>2 DEF vars, poolVars, sessionVars, historyVars, CalmInv, PoolInv, Held,
                        Taken, From
    <3>2. CountInv' /\ QuietInv'
      BY <1>1, <2>2 DEF vars, poolVars, sessionVars, historyVars, CalmInv, CountInv, QuietInv,
                        InUse, Listed
    <3>3. AckInv'
      BY <1>1, <2>2 DEF vars, poolVars, sessionVars, historyVars, CalmInv, AckInv,
                        Acknowledged, ChannelOf, Listed
    <3> QED
      BY <3>1, <3>2, <3>3 DEF CalmInv
  <2> QED
    BY <2>1, <2>2 DEF IInv
<1>2. CASE Next
  <2>1. PICK s \in Sessions :
          \/ CreateDataChannel(s) \/ HandshakeComplete(s) \/ HandshakeFails(s)
          \/ CloseDataChannel(s) \/ Listener(s) \/ Closer(s) \/ OnSctpOutboundPacket(s)
    BY <1>2 DEF Next
  <2>2. CASE CreateDataChannel(s)
    BY <2>2, CreateDataChannelStep
  <2>3. CASE HandshakeComplete(s)
    BY <2>3, HandshakeCompleteStep
  <2>4. CASE HandshakeFails(s)
    BY <2>4, HandshakeFailsStep
  <2>5. CASE CloseDataChannel(s)
    BY <2>5, CloseDataChannelStep
  <2>6. CASE Listener(s)
    <3>1. ASSUME NEW str \in RemoteStreams, ReceiveOpen(s, str) PROVE IInv'
      BY <3>1, ReceiveOpenStep
    <3>2. CASE FindChannel(s)
      BY <3>2, FindChannelStep
    <3>3. CASE TakeChannel(s)
      BY <3>3, TakeChannelStep
    <3>4. CASE LinkChannel(s)
      BY <3>4, LinkChannelStep
    <3>5. CASE SendOpenDataChannelAck(s)
      BY <3>5, SendOpenDataChannelAckStep
    <3> QED
      BY <2>6, <3>1, <3>2, <3>3, <3>4, <3>5 DEF Listener
  <2>7. CASE Closer(s)
    <3>1. CASE CloseSession(s)
      BY <3>1, CloseSessionStep
    <3>2. CASE ResetCount(s)
      BY <3>2, ResetCountStep
    <3>3. CASE CloseChannel(s)
      BY <3>3, CloseChannelStep
    <3>4. CASE Advance(s)
      BY <3>4, AdvanceStep
    <3>5. CASE ClearList(s)
      BY <3>5, ClearListStep
    <3>6. CASE Sctp_FreeSession(s)
      BY <3>6, Sctp_FreeSessionStep
    <3>7. CASE Closed(s)
      BY <3>7, ClosedStep
    <3> QED
      BY <2>7, <3>1, <3>2, <3>3, <3>4, <3>5, <3>6, <3>7 DEF Closer
  <2>8. CASE OnSctpOutboundPacket(s)
    BY <2>8, OnSctpOutboundPacketStep
  <2> QED
    BY <2>1, <2>2, <2>3, <2>4, <2>5, <2>6, <2>7, <2>8
<1> QED
  BY <1>1, <1>2

\* The invariant holds of every behaviour, with any sessions, channels and streams: no
\* channel object belongs to two sessions and no walk along pxNext goes in a circle.
THEOREM InvariantHolds == Spec => []IInv
<1>1. Init => IInv
  BY InitIInv
<1>2. IInv /\ [Next]_vars => IInv'
  BY IInvStep
<1> QED
  BY <1>1, <1>2, PTL DEF Spec

\* Every variable keeps its type, and a session that is not being closed has no more
\* channels than PEER_CONNECTION_MAX_SCTP_DATA_CHANNELS_PER_PEER, however many sessions
\* and channels there are, as long as no race has happened.
THEOREM TypeCorrect == Spec => []TypeOK
<1>1. IInv => TypeOK
  <2> SUFFICES ASSUME IInv PROVE TypeOK
    OBVIOUS
  <2>1. ASSUME ~raced, NEW s \in Sessions, closer[s] = Idle
        PROVE  Cardinality(Listed(s)) <= PerPeer
    BY <2>1 DEF IInv, CalmInv, CountInv
  <2> QED
    BY <2>1 DEF IInv, Types, TypeOK, Pointers
<1> QED
  BY <1>1, InvariantHolds, PTL

\* The loops over the list of a session end (pxGetDataChannelWithID, the loops of
\* PeerConnectionSCTP_AllocateSCTP and of PeerConnectionSCTP_DeallocateSCTP): no channel
\* leads back to itself, not even after the races the model names.
THEOREM ListsAlwaysEnd == Spec => []ListsEnd
<1>1. IInv => ListsEnd
  BY DEF IInv
<1> QED
  BY <1>1, InvariantHolds, PTL

\* The pool is accounted for whenever the tasks are at rest and have not met: what is in
\* use is what the lists hold and what CreateDataChannel lost, and the counts agree.
THEOREM ChannelsAccountedAlways == Spec => []ChannelsAccounted
<1>1. IInv => ChannelsAccounted
  <2> SUFFICES ASSUME IInv, ~raced, \A s \in Sessions : AtRest(s)
               PROVE  /\ InUse = leaked \cup UNION {Listed(s) : s \in Sessions}
                      /\ total = Cardinality(InUse)
                      /\ \A s \in Sessions :
                          /\ count[s] = Cardinality(Listed(s))
                          /\ \A t \in Sessions \ {s} : Listed(s) \cap Listed(t) = {}
    BY DEF ChannelsAccounted, InUse
  <2>1. PoolInv /\ CountInv
    BY DEF IInv, CalmInv
  <2>2. \A s \in Sessions : Held(s) = Listed(s) /\ Taken(s) = {} /\ Listed(s) \subseteq Channels
    BY ListIsHeld, ReachType DEF AtRest, Idle, Taken, Listed
  <2>3. \A c \in Channels : active[c] <=> c \in leaked \/ \E s \in Sessions : c \in Listed(s)
    BY <2>1, <2>2 DEF PoolInv
  <2>4. InUse = leaked \cup UNION {Listed(s) : s \in Sessions}
    BY <2>2, <2>3 DEF InUse, IInv, Types
  <2>5. ASSUME NEW s \in Sessions, NEW t \in Sessions \ {s}
        PROVE  Listed(s) \cap Listed(t) = {}
    BY ListsApart DEF AtRest
  <2> QED
    BY <2>1, <2>4, <2>5 DEF CountInv, AtRest
<1> QED
  BY <1>1, InvariantHolds, PTL

\* A stream the session has acknowledged finds its channel while the session streams
\* (pxGetDataChannelWithID on a message), and a session that can be used again has
\* closed its socket, as long as no race has happened.
THEOREM AckedIsHeldAlways == Spec => []AckedIsHeld
<1>1. IInv => AckedIsHeld
  BY DEF IInv, CalmInv, AckInv, Acknowledged, PhaseInv, Phase, AckedIsHeld
<1> QED
  BY <1>1, InvariantHolds, PTL
=============================================================================
