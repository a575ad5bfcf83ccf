--------------------------- MODULE MCMultiHalControl ---------------------------
(***************************************************************************)
(* Three sensors: one of a sub-HAL at API 1.0, one of a sub-HAL at 1.4,    *)
(* and one whose sub-HAL has no device.  One period fits an `int', the     *)
(* other does not.                                                         *)
(***************************************************************************)
EXTENDS MultiHalControl

ThreeSensors ==
    << [moduleIndex |-> 0, localHandle |-> 5],
       [moduleIndex |-> 1, localHandle |-> 5],
       [moduleIndex |-> 2, localHandle |-> 6] >>

OldAndNew == <<10, 14>>

ShortAndLong == {1, 9}
===============================================================================
