----------------------------- MODULE CaptureTap -----------------------------
(***************************************************************************)
(* What the live monitor promises its operator (spec sections 4.4 to 4.6), *)
(* with processes, pipes and signals abstracted away: packets are         *)
(* captured one after the other, and the display shows the captured       *)
(* packets in capture order, each once, numbered 1, 2, 3, ...  The display *)
(* may lag the capture, never overtake it.                                 *)
(***************************************************************************)
LOCAL INSTANCE Naturals
LOCAL INSTANCE Sequences

CONSTANT Items          \* what one packet line shows of a packet

VARIABLES
    captured,           \* the packets captured so far, in capture order
    shown               \* the numbered lines on the display, in order

vars == <<captured, shown>>

Init == captured = <<>> /\ shown = <<>>

\* A packet of the target passes the capture.
Capture == /\ captured' \in {Append(captured, t) : t \in Items}
           /\ UNCHANGED shown

\* The oldest captured packet not yet on the display is shown, numbered.
Show == /\ Len(shown) < Len(captured)
        /\ shown' = Append(shown, [n |-> Len(shown) + 1,
                                   t |-> captured[Len(shown) + 1]])
        /\ UNCHANGED captured

Next == Capture \/ Show

Spec == Init /\ [][Next]_vars
=============================================================================
