--------------------------- MODULE SensorEventQueue ---------------------------
(***************************************************************************)
(* The fixed-size circular queue of device/huawei/mozart/sensors: the      *)
(* fields of the class as a record, each method as an operator on it.      *)
(* The condition variable of the class (waitForSpace, the broadcast in     *)
(* dequeue) is a matter of threads and is modelled in MultiHalPoll.        *)
(***************************************************************************)
EXTENDS Integers

CONSTANTS Capacity,   \* SENSOR_EVENT_QUEUE_CAPACITY, the same for every queue
          Event,      \* the events a sub-HAL can write
          NoEvent     \* the content of a slot nobody has written yet

ASSUME CapacityAssumption == Capacity \in Nat \ {0}
ASSUME NoEventAssumption == NoEvent \notin Event

Slots == 0 .. Capacity - 1

SensorEventQueues ==
    [mStart : Slots, mSize : 0 .. Capacity, mData : [Slots -> Event \cup {NoEvent}]]

EmptyQueue ==
    [mStart |-> 0, mSize |-> 0, mData |-> [s \in Slots |-> NoEvent]]

\* The slot of the i-th readable record, counted from 0.
Slot(q, i) == (q.mStart + i) % Capacity

\* The slots that hold readable records.
Readable(q) == {Slot(q, i) : i \in 0 .. q.mSize - 1}

Full(q) == q.mSize = Capacity

\* Mutant: the second clamp, "Don't go into the readable region", is missing.
getWritableRegion_NoReadableClamp(q, requestedLength) ==
    LET firstWritable == Slot(q, q.mSize)
        requestedLast == firstWritable + requestedLength - 1
        lastWritable == IF requestedLast > Capacity - 1 THEN Capacity - 1 ELSE requestedLast
    IN  IF Full(q) \/ requestedLength <= 0
        THEN [first |-> 0, len |-> 0]
        ELSE [first |-> firstWritable, len |-> lastWritable - firstWritable + 1]

(***************************************************************************)
(* The region is described by its first slot and its length; a length of 0 *)
(* stands for the NULL pointer.                                            *)
(***************************************************************************)
getWritableRegion(q, requestedLength) ==
    LET firstWritable == Slot(q, q.mSize)
        requestedLast == firstWritable + requestedLength - 1
        inArray == IF requestedLast > Capacity - 1 THEN Capacity - 1 ELSE requestedLast
        lastWritable == IF firstWritable < q.mStart /\ inArray >= q.mStart
                        THEN q.mStart - 1
                        ELSE inArray
    IN  IF Full(q) \/ requestedLength <= 0
        THEN [first |-> 0, len |-> 0]
        ELSE [first |-> firstWritable, len |-> lastWritable - firstWritable + 1]

RegionSlots(r) == r.first .. r.first + r.len - 1

markAsWritten(q, count) == [q EXCEPT !.mSize = @ + count]

\* Meaningful only when getSize() is not zero; the code returns NULL otherwise.
peek(q) == q.mData[q.mStart]

\* Mutant: mStart does not wrap around.
dequeue_NoWrap(q) ==
    IF q.mSize = 0 THEN q ELSE [q EXCEPT !.mSize = @ - 1, !.mStart = @ + 1]

dequeue(q) ==
    IF q.mSize = 0
    THEN q
    ELSE [q EXCEPT !.mSize = @ - 1, !.mStart = (@ + 1) % Capacity]

\* A sub-HAL's poll() writes straight into a slot of the region it was given.
WriteSlot(q, s, e) == [q EXCEPT !.mData[s] = e]

\* The readable records, oldest first.
Contents(q) == [i \in 1 .. q.mSize |-> q.mData[Slot(q, i - 1)]]
===============================================================================
