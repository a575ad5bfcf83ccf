-------------------------- MODULE SensorEventStream --------------------------
(***************************************************************************)
(* What the event path of the multi-HAL promises, without ring buffers,    *)
(* threads, locks or condition variables: every sub-HAL has a bounded      *)
(* first-in first-out stream.  Events become visible in the order in which *)
(* the sub-HAL produced them, a poll() result is filled with the oldest    *)
(* visible events, an event whose handle is unknown is dropped, and        *)
(* nothing is lost, duplicated, reordered or altered on the way.           *)
(***************************************************************************)
EXTENDS Integers, Sequences

CONSTANTS Devices,          \* indexes of the sub-HAL devices
          Event,            \* the events a sub-HAL can produce
          Capacity,         \* how many events a stream may hold
          Remap(_, _),      \* the event as the caller of poll() sees it
          Deliverable(_)    \* whether a remapped event may be handed out

VARIABLES inflight,   \* produced by a poll() of the sub-HAL that has not returned
          pending,    \* visible to the reader, oldest first
          batch       \* the result the current poll() of the multi-HAL builds

vars == <<inflight, pending, batch>>

Init ==
    /\ inflight = [d \in Devices |-> <<>>]
    /\ pending = [d \in Devices |-> <<>>]
    /\ batch = <<>>

Produce(d, e) ==
    /\ Len(pending[d]) + Len(inflight[d]) < Capacity
    /\ inflight' = [inflight EXCEPT ![d] = Append(@, e)]
    /\ UNCHANGED <<pending, batch>>

\* The sub-HAL's poll() reported an error: what it produced is void.
Discard(d) ==
    /\ inflight' = [inflight EXCEPT ![d] = <<>>]
    /\ UNCHANGED <<pending, batch>>

Publish(d) ==
    /\ pending' = [pending EXCEPT ![d] = @ \o inflight[d]]
    /\ inflight' = [inflight EXCEPT ![d] = <<>>]
    /\ UNCHANGED batch

Take(d) ==
    /\ pending[d] # <<>>
    /\ pending' = [pending EXCEPT ![d] = Tail(@)]
    /\ LET e == Remap(d, Head(pending[d]))
       IN  batch' = IF Deliverable(e) THEN Append(batch, e) ELSE batch
    /\ UNCHANGED inflight

NewBatch ==
    /\ batch' = <<>>
    /\ UNCHANGED <<inflight, pending>>

Next ==
    \/ \E d \in Devices : \/ \E e \in Event : Produce(d, e)
                          \/ Discard(d)
                          \/ Publish(d)
                          \/ Take(d)
    \/ NewBatch

Spec == Init /\ [][Next]_vars
===============================================================================
