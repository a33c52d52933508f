----------------------------- MODULE SessionLife -----------------------------
(***************************************************************************)
(* What a peer connection session promises the rest of the application     *)
(* (the media source, which counts its viewers, the media tasks, which     *)
(* send through its SRTP sessions, and the timer task, which sends its     *)
(* reports): it goes from viewer to viewer through the same phases, is     *)
(* counted exactly while it streams, and streams only with the keys and    *)
(* the report timers of this connection, which are taken from it only when *)
(* it has stopped.  The promise hides ICE, DTLS, the sockets, the request  *)
(* queue and that four tasks do the work.  PeerConnectionSession is shown  *)
(* to implement it.                                                        *)
(***************************************************************************)
EXTENDS Naturals

VARIABLES
    phase,   \* of the connection
    held,    \* what media and reports need
    viewers  \* what the media source counts for this session

vars == <<phase, held, viewers>>

Phases == {"idle", "starting", "connecting", "securing", "streaming", "closing"}
Needs == {"keys", "reports"}

Init == phase = "idle" /\ held = {} /\ viewers = 0

\* A viewer sends its first message; nothing is left of the viewer before.
Start == phase = "idle" /\ held = {} /\ phase' = "starting" /\ UNCHANGED <<held, viewers>>

\* Its offer is accepted, then a path is found.
Describe == phase = "starting" /\ phase' = "connecting" /\ UNCHANGED <<held, viewers>>
PathFound == phase = "connecting" /\ phase' = "securing" /\ UNCHANGED <<held, viewers>>

Acquire(r) ==
    /\ phase = "securing"
    /\ held' = held \cup {r}
    /\ UNCHANGED <<phase, viewers>>

Stream ==
    /\ phase = "securing" /\ held = Needs
    /\ phase' = "streaming" /\ viewers' = viewers + 1
    /\ UNCHANGED held

\* A failure, a deadline or the viewer ends the connection in any phase.
Close ==
    /\ phase \notin {"idle", "closing"}
    /\ phase' = "closing"
    /\ viewers' = IF phase = "streaming" THEN viewers - 1 ELSE viewers
    /\ UNCHANGED held

\* A request left over from the connection may close a session that is idle already.
CloseAgain == phase = "idle" /\ phase' = "closing" /\ UNCHANGED <<held, viewers>>

\* The last of it may be given back when the session can already be used again.
GiveBack(r) ==
    /\ phase \in {"closing", "idle"}
    /\ held' = held \ {r}
    /\ UNCHANGED <<phase, viewers>>

Release == phase = "closing" /\ phase' = "idle" /\ UNCHANGED <<held, viewers>>

Next ==
    \/ Start \/ Describe \/ PathFound \/ Stream \/ Close \/ CloseAgain
    \/ Release
    \/ \E r \in Needs : Acquire(r) \/ GiveBack(r)

Spec == Init /\ [][Next]_vars
==============================================================================
