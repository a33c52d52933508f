--------------------------- MODULE MessageService ---------------------------
(***************************************************************************)
(* What SignalingController_SendMessage promises its callers (the peer     *)
(* connection tasks and the signaling callbacks): a message that was       *)
(* accepted is completed exactly once, with a status, in the order of the  *)
(* calls, and unless the device halts it is eventually completed.  The     *)
(* promise hides the WebSocket, its reconnections, the refreshes of        *)
(* credentials and ICE servers and the control events that share the       *)
(* queue.  SignalingController is shown to implement it.                   *)
(***************************************************************************)
EXTENDS Naturals, Sequences, FiniteSets

CONSTANTS Messages,   \* the numbers of the calls of SignalingController_SendMessage
          Capacity    \* SIGNALING_CONTROLLER_MESSAGE_QUEUE_MAX_MSG_NUM

VARIABLES pending,    \* accepted and not completed
          done,       \* completed messages with their status, in order
          halted      \* the device has stopped

vars == <<pending, done, halted>>

Status == {"SENT_DONE", "SENT_FAIL"}

Known == pending \cup {done[i].msg : i \in DOMAIN done}

Init == pending = {} /\ done = <<>> /\ halted = FALSE

(* A new message is accepted while there is room. *)
Accept(m) ==
  /\ \A n \in Known : n < m
  /\ Cardinality(pending) < Capacity
  /\ pending' = pending \cup {m}
  /\ UNCHANGED <<done, halted>>

(* The oldest message completes. *)
Complete(m, status) ==
  /\ ~halted
  /\ m \in pending /\ \A n \in pending : m <= n
  /\ done' = Append(done, [msg |-> m, status |-> status])
  /\ pending' = pending \ {m}
  /\ UNCHANGED halted

CompleteOldest == \E m \in Messages, status \in Status : Complete(m, status)

Halt == halted' = TRUE /\ UNCHANGED <<pending, done>>

Next ==
  \/ \E m \in Messages : Accept(m)
  \/ CompleteOldest
  \/ Halt

(* What may happen, and with fairness what must.                           *)
Safety == Init /\ [][Next]_vars
Spec == Safety /\ WF_vars(CompleteOldest)
=============================================================================
