---------------------------- MODULE MCMultiHalPoll ----------------------------
(***************************************************************************)
(* Small instances of MultiHalPoll.  Every sub-HAL uses the same local     *)
(* handles: 7 is registered, with a different global handle for each       *)
(* device; 9 is not in the handle maps.                                    *)
(***************************************************************************)
EXTENDS MultiHalPoll

Data(h) == [type |-> "NORMAL", sensor |-> h, meta |-> 0]
FlushDone(h) == [type |-> "META_DATA", sensor |-> 0, meta |-> h]

\* Two events that are delivered and one that is dropped.
MixedEvents == {Data(7), FlushDone(7), Data(9)}

\* One that is delivered and one that is dropped.
GoodAndBad == {Data(7), Data(9)}

\* A flush-complete event for a handle nobody registered.
StrayFlush == {Data(7), FlushDone(9)}

OneToOne == [p \in Devices \X {7} |-> p[1] + 1]
===============================================================================
