----------------------------- MODULE DisplayFrames -----------------------------
(***************************************************************************)
(* What the display promises with an overlay that may fail, without        *)
(* layers, composition types or client targets: every frame is whole, each *)
(* layer in it once, but for a frame in which the overlay fails.  After    *)
(* that the overlay is not trusted, and so cannot fail, until it has been  *)
(* seen switched off.                                                      *)
(***************************************************************************)
VARIABLES frame,      \* the last frame that was presented
          switch,     \* the overlay was switched on when last looked at
          trusted     \* it has not failed since it was last seen off

vars == <<frame, switch, trusted>>

Whole == [complete |-> TRUE, failed |-> FALSE]

Init == frame = Whole /\ switch = FALSE /\ trusted = TRUE

Look ==
    \E on \in BOOLEAN :
        /\ switch' = on
        /\ trusted' = (trusted \/ ~on)
        /\ UNCHANGED frame

\* With the overlay or without.
Present ==
    /\ frame' = Whole
    /\ UNCHANGED <<switch, trusted>>

\* Whether the frame lacks a layer is left open.
Fail ==
    /\ switch /\ trusted
    /\ trusted' = FALSE
    /\ \E c \in BOOLEAN : frame' = [complete |-> c, failed |-> TRUE]
    /\ UNCHANGED switch

Next == Look \/ Present \/ Fail

Spec == Init /\ [][Next]_vars
===============================================================================
