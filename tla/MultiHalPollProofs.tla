-------------------------- MODULE MultiHalPollProofs --------------------------
(***************************************************************************)
(* Proofs about MultiHalPoll for every number of sub-HALs, every capacity, *)
(* every set of events and every handle map.                               *)
(***************************************************************************)
EXTENDS MultiHalPoll, SequenceTheorems, TLAPS

-----------------------------------------------------------------------------
\* The ring arithmetic

\* One wrap-around at most: what `%' yields for an index and an offset.
LEMMA ModAdd ==
    ASSUME NEW C \in Nat \ {0}, NEW a \in 0 .. C - 1, NEW b \in 0 .. C
    PROVE  /\ (a + b) % C = IF a + b < C THEN a + b ELSE a + b - C
           /\ (a + b) % C \in 0 .. C - 1
  OBVIOUS

\* Where the i-th record of a queue lies.
LEMMA SlotValue ==
    ASSUME NEW q \in SensorEventQueues, NEW i \in 0 .. Capacity
    PROVE  /\ Slot(q, i) = IF q.mStart + i < Capacity
                           THEN q.mStart + i ELSE q.mStart + i - Capacity
           /\ Slot(q, i) \in Slots
  BY CapacityAssumption, ModAdd DEF Slot, SensorEventQueues, Slots

\* getWritableRegion of a queue with space: non-empty, contiguous, inside mData,
\* and short enough to leave every readable record alone.
LEMMA RegionLemma ==
    ASSUME NEW q \in SensorEventQueues, ~Full(q)
    PROVE  LET r == getWritableRegion(q, Capacity)
           IN  /\ r \in Regions
               /\ r.first = Slot(q, q.mSize)
               /\ r.len > 0
               /\ q.mSize + r.len <= Capacity
               /\ r.first + r.len <= Capacity
<1>1. q.mSize \in 0 .. Capacity /\ q.mStart \in Slots
  BY DEF SensorEventQueues
<1>2. /\ Slot(q, q.mSize) = IF q.mStart + q.mSize < Capacity
                            THEN q.mStart + q.mSize ELSE q.mStart + q.mSize - Capacity
      /\ Slot(q, q.mSize) \in Slots
  BY <1>1, SlotValue
<1> QED BY <1>1, <1>2, CapacityAssumption DEF getWritableRegion, Full, Slots, Regions

\* dequeue moves the start by one slot and leaves the data alone; the first
\* writable slot does not move.
LEMMA DequeueLemma ==
    ASSUME NEW q \in SensorEventQueues, q.mSize # 0
    PROVE  LET p == dequeue(q)
           IN  /\ p \in SensorEventQueues
               /\ p.mSize = q.mSize - 1
               /\ p.mData = q.mData
               /\ \A i \in 0 .. Capacity - 1 : Slot(p, i) = Slot(q, i + 1)
               /\ Slot(p, p.mSize) = Slot(q, q.mSize)
               /\ Readable(p) \subseteq Readable(q)
<1> DEFINE p == dequeue(q)
<1>1. q.mSize \in 1 .. Capacity /\ q.mStart \in Slots
  BY CapacityAssumption DEF SensorEventQueues
<1>2. p.mStart = Slot(q, 1) /\ Slot(q, 1) \in Slots
  BY <1>1, SlotValue, CapacityAssumption DEF dequeue, Slot, SensorEventQueues
<1>3. p \in SensorEventQueues /\ p.mSize = q.mSize - 1 /\ p.mData = q.mData
  <2>1. p = [mStart |-> Slot(q, 1), mSize |-> q.mSize - 1, mData |-> q.mData]
    BY <1>1 DEF dequeue, SensorEventQueues, Slot
  <2>2. q.mSize - 1 \in 0 .. Capacity /\ q.mData \in [Slots -> Event \cup {NoEvent}]
    BY <1>1, CapacityAssumption DEF SensorEventQueues
  <2> QED BY <1>2, <2>1, <2>2 DEF SensorEventQueues
<1>4. ASSUME NEW i \in 0 .. Capacity - 1
      PROVE  Slot(p, i) = Slot(q, i + 1)
  <2>1. Slot(q, 1) = IF q.mStart + 1 < Capacity THEN q.mStart + 1 ELSE q.mStart + 1 - Capacity
    BY SlotValue, CapacityAssumption
  <2>2. i \in 0 .. Capacity /\ i + 1 \in 0 .. Capacity
    BY CapacityAssumption
  <2>3. Slot(p, i) = IF p.mStart + i < Capacity THEN p.mStart + i ELSE p.mStart + i - Capacity
    BY <1>3, <2>2, SlotValue
  <2>4. Slot(q, i + 1) = IF q.mStart + (i + 1) < Capacity
                         THEN q.mStart + (i + 1) ELSE q.mStart + (i + 1) - Capacity
    BY <2>2, SlotValue
  <2> QED BY <1>1, <1>2, <2>1, <2>2, <2>3, <2>4, CapacityAssumption DEF Slots
<1>5. Slot(p, p.mSize) = Slot(q, q.mSize)
  BY <1>1, <1>3, <1>4, CapacityAssumption
<1>6. Readable(p) \subseteq Readable(q)
  <2> SUFFICES ASSUME NEW i \in 0 .. p.mSize - 1
               PROVE  Slot(p, i) \in Readable(q)
    BY DEF Readable
  <2>1. i \in 0 .. Capacity - 1 /\ i + 1 \in 0 .. q.mSize - 1
    BY <1>1, <1>3, CapacityAssumption
  <2> QED BY <1>4, <2>1 DEF Readable
<1> QED BY <1>3, <1>4, <1>5, <1>6

\* The slots of a claimed region are the slots the next records will have.
LEMMA RegionSlotLemma ==
    ASSUME NEW q \in SensorEventQueues, NEW r \in Regions,
           r.first = Slot(q, q.mSize), q.mSize + r.len <= Capacity,
           r.first + r.len <= Capacity,
           NEW j \in 0 .. r.len - 1
    PROVE  /\ Slot(q, q.mSize + j) = r.first + j
           /\ r.first + j \in Slots
           /\ r.first + j \notin Readable(q)
<1>1. /\ q.mSize \in 0 .. Capacity /\ q.mStart \in Slots
      /\ r.first \in Slots /\ r.len \in 0 .. Capacity
  BY DEF SensorEventQueues, Regions
<1>2. q.mSize + j \in 0 .. Capacity
  BY <1>1, CapacityAssumption
<1>3. r.first = IF q.mStart + q.mSize < Capacity
                THEN q.mStart + q.mSize ELSE q.mStart + q.mSize - Capacity
  BY <1>1, SlotValue
<1>4. Slot(q, q.mSize + j) = IF q.mStart + (q.mSize + j) < Capacity
                THEN q.mStart + (q.mSize + j) ELSE q.mStart + (q.mSize + j) - Capacity
  BY <1>2, SlotValue
<1>5. r.first + j \in Slots
  BY <1>1, CapacityAssumption DEF Slots
<1>6. Slot(q, q.mSize + j) = r.first + j
  BY <1>1, <1>3, <1>4, CapacityAssumption DEF Slots
<1>7. ASSUME NEW i \in 0 .. q.mSize - 1
      PROVE  Slot(q, i) # r.first + j
  <2>1. i \in 0 .. Capacity
    BY <1>1, CapacityAssumption
  <2>2. Slot(q, i) = IF q.mStart + i < Capacity
                     THEN q.mStart + i ELSE q.mStart + i - Capacity
    BY <2>1, SlotValue
  <2> QED BY <1>1, <1>4, <1>6, <2>1, <2>2, CapacityAssumption DEF Slots
<1> QED BY <1>5, <1>6, <1>7 DEF Readable

\* markAsWritten adds to the readable records exactly the slots that hold what
\* the sub-HAL wrote.
LEMMA MarkLemma ==
    ASSUME NEW q \in SensorEventQueues, NEW r \in Regions, NEW b \in Seq(Event),
           RegionHeld(q, r, b),
           \A s \in Readable(q) : q.mData[s] \in Event
    PROVE  LET p == markAsWritten(q, Len(b))
           IN  /\ p \in SensorEventQueues
               /\ p.mStart = q.mStart /\ p.mSize = q.mSize + Len(b) /\ p.mData = q.mData
               /\ \A s \in Readable(p) : p.mData[s] \in Event
<1> DEFINE p == markAsWritten(q, Len(b))
<1>1. /\ r.first = Slot(q, q.mSize) /\ Len(b) <= r.len /\ Len(b) \in Nat
      /\ q.mSize + r.len <= Capacity /\ r.first + r.len <= Capacity
      /\ r.first \in Nat /\ r.len \in Nat /\ q.mSize \in 0 .. Capacity
  BY CapacityAssumption DEF RegionHeld, Regions, Slots, SensorEventQueues
<1>2. /\ p.mStart = q.mStart /\ p.mSize = q.mSize + Len(b) /\ p.mData = q.mData
      /\ p \in SensorEventQueues
  <2>1. p = [mStart |-> q.mStart, mSize |-> q.mSize + Len(b), mData |-> q.mData]
    BY DEF markAsWritten, SensorEventQueues
  <2>2. q.mSize + Len(b) \in 0 .. Capacity
    BY <1>1, CapacityAssumption
  <2> QED BY <2>1, <2>2 DEF SensorEventQueues
<1> HIDE DEF p
<1>3. ASSUME NEW s \in Readable(p)
      PROVE  q.mData[s] \in Event
  <2>1. PICK i \in 0 .. q.mSize + Len(b) - 1 : s = Slot(q, i)
    <3>1. PICK i \in 0 .. p.mSize - 1 : s = Slot(p, i)
      BY DEF Readable
    <3>2. Slot(p, i) = Slot(q, i)
      BY <1>2 DEF Slot
    <3>3. i \in 0 .. q.mSize + Len(b) - 1
      BY <1>1, <1>2, <3>1
    <3> QED BY <3>1, <3>2, <3>3
  <2>2. CASE i < q.mSize
    <3>1. i \in 0 .. q.mSize - 1
      BY <1>1, <2>1, <2>2
    <3> QED BY <2>1, <3>1 DEF Readable
  <2>3. CASE i >= q.mSize
    <3>1. PICK j \in 0 .. Len(b) - 1 : i = q.mSize + j
      <4>1. i - q.mSize \in 0 .. Len(b) - 1 /\ i = q.mSize + (i - q.mSize)
        BY <1>1, <2>1, <2>3
      <4> QED BY <4>1
    <3>2. j \in 0 .. r.len - 1 /\ j + 1 \in 1 .. Len(b) /\ r.first + (j + 1) - 1 = r.first + j
      BY <1>1, <3>1
    <3>3. s = r.first + j
      BY <1>1, <2>1, <3>1, <3>2, RegionSlotLemma
    <3>4. q.mData[r.first + (j + 1) - 1] = b[j + 1] /\ b[j + 1] \in Event
      BY <3>2 DEF RegionHeld
    <3> QED BY <3>2, <3>3, <3>4
  <2> QED BY <1>1, <2>1, <2>2, <2>3
<1> QED BY <1>2, <1>3 DEF p

\* The claim on a region implies what RegionSafe says of it.
LEMMA ClaimImpliesSafe == TypeOK /\ ClaimInv => RegionSafe
<1> SUFFICES ASSUME TypeOK, ClaimInv, NEW d \in Devices, Claimed(d)
             PROVE  /\ RegionSlots(region[d]) # {}
                    /\ RegionSlots(region[d]) \subseteq Slots
                    /\ RegionSlots(region[d]) \cap Readable(queues[d]) = {}
  BY DEF RegionSafe
<1> DEFINE q == queues[d]
           r == region[d]
<1>1. q \in SensorEventQueues /\ r \in Regions
  BY DEF TypeOK
<1>2. /\ r.first = Slot(q, q.mSize) /\ r.len > 0
      /\ q.mSize + r.len <= Capacity /\ r.first + r.len <= Capacity
  BY DEF ClaimInv, RegionHeld
<1>3. r.first \in Nat /\ r.len \in Nat
  BY <1>1, CapacityAssumption DEF Regions, Slots
<1>4. r.first \in RegionSlots(r)
  BY <1>2, <1>3 DEF RegionSlots
<1>5. ASSUME NEW s \in RegionSlots(r)
      PROVE  s \in Slots /\ s \notin Readable(q)
  <2>1. s - r.first \in 0 .. r.len - 1 /\ r.first + (s - r.first) = s
    BY <1>3 DEF RegionSlots
  <2> QED BY <1>1, <1>2, <2>1, RegionSlotLemma
<1> QED BY <1>4, <1>5

-----------------------------------------------------------------------------
\* The inductive invariant

IInv ==
    /\ TypeOK
    /\ ClaimInv
    /\ ReadableWritten
    /\ ReaderInv
    /\ EmptiesInv
    /\ NoLostDataWakeup
    /\ NoLostSpaceWakeup

LEMMA EmptyQueueType ==
    /\ EmptyQueue \in SensorEventQueues
    /\ EmptyQueue.mSize = 0
    /\ Readable(EmptyQueue) = {}
  BY CapacityAssumption DEF EmptyQueue, SensorEventQueues, Slots, Readable

LEMMA InitIInv == Init => IInv
<1> SUFFICES ASSUME Init PROVE IInv
  OBVIOUS
<1>1. TypeOK
  BY EmptyQueueType, CapacityAssumption, NAssumption, MaxReadsAssumption
     DEF Init, TypeOK, Regions, NoRegion, Slots, Devices
<1>2. ClaimInv
  BY DEF Init, ClaimInv, Claimed
<1>3. ReadableWritten
  BY EmptyQueueType DEF Init, ReadableWritten
<1>4. ReaderInv /\ EmptiesInv /\ NoLostDataWakeup
  BY DEF Init, ReaderInv, EmptiesInv, NoLostDataWakeup
<1>5. NoLostSpaceWakeup
  BY DEF Init, NoLostSpaceWakeup
<1> QED BY <1>1, <1>2, <1>3, <1>4, <1>5 DEF IInv

-----------------------------------------------------------------------------
\* Steps of the writers

\* A writer fetches a region, or goes to sleep on a full queue.
LEMMA WriterTopIInv ==
    ASSUME IInv, NEW d \in Devices, WriterTop(d)
    PROVE  IInv'
<1> USE DEF IInv
<1> DEFINE q == queues[d]
           r == getWritableRegion(q, Capacity)
<1>1. q \in SensorEventQueues
  BY DEF TypeOK
<1>2. CASE Full(q)
  <2>1. TypeOK'
    BY <1>2 DEF TypeOK, WriterTop, readerVars
  <2>2. ClaimInv'
    BY <1>2 DEF TypeOK, ClaimInv, Claimed, WriterTop, readerVars
  <2>3. ReadableWritten' /\ ReaderInv' /\ EmptiesInv' /\ NoLostDataWakeup'
    BY DEF ReadableWritten, ReaderInv, EmptiesInv, NoLostDataWakeup, WriterTop, readerVars
  <2>4. NoLostSpaceWakeup'
    BY <1>2 DEF TypeOK, NoLostSpaceWakeup, WriterTop, readerVars
  <2> QED BY <2>1, <2>2, <2>3, <2>4
<1>3. CASE ~Full(q)
  <2>1. /\ r \in Regions
        /\ r.first = Slot(q, q.mSize)
        /\ r.len > 0
        /\ q.mSize + r.len <= Capacity
        /\ r.first + r.len <= Capacity
    BY <1>1, <1>3, RegionLemma
  <2>2. /\ wpc' = [wpc EXCEPT ![d] = "poll"]
        /\ region' = [region EXCEPT ![d] = r]
        /\ UNCHANGED <<queues, polled, readerVars, mutex>>
    BY <1>3 DEF WriterTop
  <2> HIDE DEF r
  <2>3. TypeOK'
    BY <2>1, <2>2 DEF TypeOK, readerVars
  <2>4. ClaimInv'
    <3> SUFFICES ASSUME NEW c \in Devices
                 PROVE  (IF Claimed(c) THEN RegionHeld(queues[c], region[c], polled[c])
                                       ELSE polled[c] = <<>>)'
      BY DEF ClaimInv
    <3>1. CASE c = d
      <4>1. polled[d] = <<>>
        BY DEF ClaimInv, Claimed, WriterTop
      <4>2. r.len \in Nat
        BY <2>1, CapacityAssumption DEF Regions
      <4> QED BY <3>1, <4>1, <4>2, <2>1, <2>2 DEF TypeOK, Claimed, RegionHeld
    <3>2. CASE c # d
      BY <3>2, <2>2 DEF TypeOK, ClaimInv, Claimed
    <3> QED BY <3>1, <3>2
  <2>5. ReadableWritten' /\ ReaderInv' /\ EmptiesInv' /\ NoLostDataWakeup'
    BY <2>2 DEF ReadableWritten, ReaderInv, EmptiesInv, NoLostDataWakeup, readerVars
  <2>6. NoLostSpaceWakeup'
    BY <2>2 DEF TypeOK, NoLostSpaceWakeup
  <2> QED BY <2>3, <2>4, <2>5, <2>6
<1> QED BY <1>2, <1>3

\* The sub-HAL stores an event: only the claimed, unreadable region changes.
LEMMA DevicePutIInv ==
    ASSUME IInv, NEW d \in Devices, NEW e \in Event, DevicePut(d, e)
    PROVE  IInv'
<1> USE DEF IInv
<1> DEFINE q == queues[d]
           r == region[d]
           n == Len(polled[d])
           p == WriteSlot(q, r.first + n, e)
<1>1. /\ q \in SensorEventQueues /\ r \in Regions /\ polled[d] \in Seq(Event)
      /\ RegionHeld(q, r, polled[d]) /\ n \in 0 .. r.len - 1
  BY DEF TypeOK, ClaimInv, Claimed, DevicePut, Regions
<1>2. r.first + n \in Slots /\ r.first + n \notin Readable(q)
  BY <1>1, RegionSlotLemma DEF RegionHeld
<1>3. /\ p \in SensorEventQueues /\ p.mStart = q.mStart /\ p.mSize = q.mSize
      /\ p.mData = [q.mData EXCEPT ![r.first + n] = e]
  BY <1>1, <1>2 DEF WriteSlot, SensorEventQueues
<1>4. Readable(p) = Readable(q) /\ Slot(p, p.mSize) = Slot(q, q.mSize)
  BY <1>3 DEF Readable, Slot
<1>5. /\ queues' = [queues EXCEPT ![d] = p]
      /\ polled' = [polled EXCEPT ![d] = Append(@, e)]
      /\ UNCHANGED <<wpc, region, readerVars, mutex>>
  BY DEF DevicePut
<1> HIDE DEF p
<1>6. TypeOK'
  BY <1>1, <1>3, <1>5 DEF TypeOK, readerVars
<1>7. ClaimInv'
  <2> SUFFICES ASSUME NEW c \in Devices
               PROVE  (IF Claimed(c) THEN RegionHeld(queues[c], region[c], polled[c])
                                     ELSE polled[c] = <<>>)'
    BY DEF ClaimInv
  <2>1. CASE c = d
    <3>1. RegionHeld(p, r, Append(polled[d], e))
      <4>1. /\ Len(Append(polled[d], e)) = n + 1
            /\ \A i \in 1 .. n : Append(polled[d], e)[i] = polled[d][i]
            /\ Append(polled[d], e)[n + 1] = e
        BY <1>1
      <4>2. /\ r.first \in Nat /\ r.len \in Nat /\ n \in Nat
            /\ q.mData \in [Slots -> Event \cup {NoEvent}]
        BY <1>1, CapacityAssumption DEF Regions, Slots, SensorEventQueues
      <4>3. /\ r.first = Slot(q, q.mSize) /\ r.len > 0 /\ n < r.len
            /\ q.mSize + r.len <= Capacity /\ r.first + r.len <= Capacity
        BY <1>1, <4>2 DEF RegionHeld
      <4>4. ASSUME NEW i \in 1 .. n + 1
            PROVE  p.mData[r.first + i - 1] = Append(polled[d], e)[i]
        <5> DEFINE s == r.first + i - 1
        <5>1. s \in Slots
          BY <4>2, <4>3, CapacityAssumption DEF Slots
        <5>2. CASE i = n + 1
          BY <1>2, <1>3, <4>1, <4>2, <5>2
        <5>3. CASE i # n + 1
          <6>1. i \in 1 .. n /\ s # r.first + n
            BY <4>2, <5>3
          <6>2. q.mData[s] = polled[d][i]
            BY <1>1, <6>1 DEF RegionHeld
          <6> QED BY <1>3, <4>1, <4>2, <5>1, <6>1, <6>2
        <5> QED BY <5>2, <5>3
      <4>5. n + 1 <= r.len /\ p.mSize + r.len <= Capacity /\ r.first = Slot(p, p.mSize)
        BY <1>3, <1>4, <4>2, <4>3
      <4> HIDE DEF n, r, q
      <4> QED BY <4>1, <4>3, <4>4, <4>5 DEF RegionHeld
    <3>2. Claimed(d)' /\ queues'[d] = p /\ region'[d] = r /\ polled'[d] = Append(polled[d], e)
      BY <1>5 DEF TypeOK, Claimed, DevicePut
    <3> QED BY <2>1, <3>1, <3>2
  <2>2. CASE c # d
    BY <2>2, <1>5 DEF TypeOK, ClaimInv, Claimed
  <2> QED BY <2>1, <2>2
<1>8. ReadableWritten'
  <2> SUFFICES ASSUME NEW c \in Devices, NEW s \in Readable(queues'[c])
               PROVE  queues'[c].mData[s] \in Event
    BY DEF ReadableWritten
  <2>1. CASE c = d
    <3>1. queues'[c] = p /\ s \in Readable(q)
      BY <1>4, <1>5, <2>1 DEF TypeOK
    <3>2. s # r.first + n /\ q.mData[s] \in Event
      BY <1>2, <3>1 DEF ReadableWritten
    <3>3. s \in Slots
      <4>1. PICK i \in 0 .. q.mSize - 1 : s = Slot(q, i)
        BY <3>1 DEF Readable
      <4>2. i \in 0 .. Capacity
        BY <1>1, CapacityAssumption DEF SensorEventQueues
      <4> QED BY <1>1, <4>1, <4>2, SlotValue
    <3> QED BY <1>1, <1>3, <3>1, <3>2, <3>3 DEF SensorEventQueues
  <2>2. CASE c # d
    BY <2>2, <1>5 DEF TypeOK, ReadableWritten
  <2> QED BY <2>1, <2>2
<1>9. \A c \in Devices : queues'[c].mSize = queues[c].mSize
  BY <1>3, <1>5 DEF TypeOK
<1>10. ReaderInv' /\ EmptiesInv'
  <2>1. ReaderInv'
    BY <1>5 DEF ReaderInv, readerVars
  <2>2. EmptiesInv'
    <3> SUFFICES ASSUME ppc = "scan", NEW k \in 1 .. empties
                 PROVE  queues'[(nextReadIndex + N - k) % N].mSize = 0
      BY <1>5 DEF EmptiesInv, readerVars
    <3>1. (nextReadIndex + N - k) % N \in Devices
      BY NAssumption DEF TypeOK, Devices
    <3> QED BY <1>9, <3>1 DEF EmptiesInv
  <2> QED BY <2>1, <2>2
<1>11. NoLostDataWakeup' /\ NoLostSpaceWakeup'
  BY <1>5, <1>9 DEF NoLostDataWakeup, NoLostSpaceWakeup, Full, readerVars
<1> QED BY <1>6, <1>7, <1>8, <1>10, <1>11

\* The sub-HAL's poll() returns: no shared state changes.
LEMMA DeviceReturnIInv ==
    ASSUME IInv, NEW d \in Devices,
           DeviceReturn(d) \/ DeviceReturnNone(d) \/ SpuriousSpaceWake(d)
    PROVE  IInv'
<1> USE DEF IInv
<1> USE DEF DeviceReturn, DeviceReturnNone, SpuriousSpaceWake
<1>1. TypeOK'
  <2>1. /\ wpc' \in [Devices -> {"start", "spaceWait", "spaceWoken", "poll", "mark"}]
        /\ UNCHANGED <<queues, region, readerVars, mutex>>
    BY DEF TypeOK
  <2>2. polled' \in [Devices -> Seq(Event)]
    <3>1. <<>> \in Seq(Event)
      OBVIOUS
    <3> QED BY <3>1 DEF TypeOK
  <2> QED BY <2>1, <2>2 DEF TypeOK, readerVars
<1>2. ClaimInv'
  BY DEF TypeOK, ClaimInv, Claimed
<1>3. ReadableWritten' /\ ReaderInv' /\ EmptiesInv' /\ NoLostDataWakeup'
  BY DEF ReadableWritten, ReaderInv, EmptiesInv, NoLostDataWakeup, readerVars
<1>4. NoLostSpaceWakeup'
  BY DEF TypeOK, NoLostSpaceWakeup
<1> QED BY <1>1, <1>2, <1>3, <1>4

\* Publishing: the new records are exactly the slots the sub-HAL wrote, and a
\* sleeping reader is woken.
LEMMA WriterMarkIInv ==
    ASSUME IInv, NEW d \in Devices, WriterMark(d)
    PROVE  IInv'
<1> USE DEF IInv
<1> DEFINE q == queues[d]
           r == region[d]
           n == Len(polled[d])
           p == markAsWritten(q, n)
<1>1. /\ q \in SensorEventQueues /\ r \in Regions /\ polled[d] \in Seq(Event)
      /\ RegionHeld(q, r, polled[d])
      /\ \A s \in Readable(q) : q.mData[s] \in Event
  BY DEF TypeOK, ClaimInv, Claimed, WriterMark, ReadableWritten
<1>2. /\ p \in SensorEventQueues
      /\ \A s \in Readable(p) : p.mData[s] \in Event
  <2> HIDE DEF q, r
  <2> QED BY <1>1, MarkLemma
<1>3. /\ queues' = [queues EXCEPT ![d] = p]
      /\ ppc' = IF waiting_for_data /\ ppc = "wait" THEN "woken" ELSE ppc
      /\ polled' = [polled EXCEPT ![d] = <<>>]
      /\ wpc' = [wpc EXCEPT ![d] = "start"]
      /\ UNCHANGED <<region, waiting_for_data, nextReadIndex, empties, maxReads, batch, mutex>>
      /\ mutex = "free" /\ wpc[d] = "mark"
  BY DEF WriterMark
<1> HIDE DEF p
<1>4. ppc # "scan" /\ (ppc' = "wait" <=> FALSE) /\ ppc' # "scan"
  BY <1>3 DEF ReaderInv, TypeOK
<1>5. TypeOK'
  <2>1. <<>> \in Seq(Event)
    OBVIOUS
  <2>2. queues' \in [Devices -> SensorEventQueues] /\ polled' \in [Devices -> Seq(Event)]
    BY <1>2, <1>3, <2>1 DEF TypeOK
  <2>3. ppc' \in {"out", "lock", "scan", "wait", "woken"}
    BY <1>3 DEF TypeOK
  <2> QED BY <1>3, <2>2, <2>3 DEF TypeOK
<1>6. ClaimInv'
  BY <1>3 DEF TypeOK, ClaimInv, Claimed
<1>7. ReadableWritten'
  <2> SUFFICES ASSUME NEW c \in Devices, NEW s \in Readable(queues'[c])
               PROVE  queues'[c].mData[s] \in Event
    BY DEF ReadableWritten
  <2>1. CASE c = d
    BY <1>2, <1>3, <2>1 DEF TypeOK
  <2>2. CASE c # d
    BY <2>2, <1>3 DEF TypeOK, ReadableWritten
  <2> QED BY <2>1, <2>2
<1>8. ReaderInv'
  BY <1>3, <1>4 DEF ReaderInv, TypeOK
<1>9. EmptiesInv' /\ NoLostDataWakeup'
  BY <1>4 DEF EmptiesInv, NoLostDataWakeup
<1>10. NoLostSpaceWakeup'
  <2> SUFFICES ASSUME NEW c \in Devices, wpc'[c] = "spaceWait" PROVE Full(queues'[c])
    BY DEF NoLostSpaceWakeup, Full
  <2>1. c # d
    BY <1>3 DEF TypeOK
  <2> QED BY <1>3, <2>1 DEF TypeOK, NoLostSpaceWakeup
<1> QED BY <1>5, <1>6, <1>7, <1>8, <1>9, <1>10

-----------------------------------------------------------------------------
\* Steps of the reader

\* Going once round the ring of queues: the queue k places behind the next
\* position is the one k - 1 places behind the current one.
LEMMA BehindStep ==
    ASSUME NEW i \in Devices, NEW k \in 1 .. N
    PROVE  /\ (i + 1) % N \in Devices
           /\ (i + N - k) % N \in Devices
           /\ k = 1 => (((i + 1) % N) + N - k) % N = i
           /\ k > 1 => (((i + 1) % N) + N - k) % N = (i + N - (k - 1)) % N
<1>1. i + N - k = i + (N - k) /\ N - k \in 0 .. N /\ 1 \in 0 .. N
  BY NAssumption DEF Devices
<1>2. /\ (i + 1) % N = IF i + 1 < N THEN i + 1 ELSE i + 1 - N
      /\ (i + 1) % N \in 0 .. N - 1
  BY <1>1, ModAdd, NAssumption DEF Devices
<1>3. (i + (N - k)) % N \in 0 .. N - 1
  BY <1>1, ModAdd, NAssumption DEF Devices
<1> DEFINE m == (i + 1) % N
<1>4. /\ (m + (N - k)) % N = IF m + (N - k) < N THEN m + (N - k) ELSE m + (N - k) - N
      /\ m + N - k = m + (N - k)
  <2> HIDE DEF m
  <2>1. m \in 0 .. N - 1
    BY <1>2 DEF m
  <2> QED BY <1>1, <2>1, ModAdd, NAssumption
<1>5. k > 1 => /\ (i + (N - (k - 1))) % N = IF i + (N - (k - 1)) < N
                             THEN i + (N - (k - 1)) ELSE i + (N - (k - 1)) - N
               /\ i + N - (k - 1) = i + (N - (k - 1))
  <2> SUFFICES ASSUME k > 1
               PROVE  /\ (i + (N - (k - 1))) % N = IF i + (N - (k - 1)) < N
                             THEN i + (N - (k - 1)) ELSE i + (N - (k - 1)) - N
                      /\ i + N - (k - 1) = i + (N - (k - 1))
    OBVIOUS
  <2>1. N - (k - 1) \in 0 .. N /\ i \in 0 .. N - 1 /\ i + N - (k - 1) = i + (N - (k - 1))
    BY NAssumption DEF Devices
  <2> QED BY <2>1, ModAdd, NAssumption
<1> QED BY <1>1, <1>2, <1>3, <1>4, <1>5, NAssumption DEF Devices

\* A full round of empty queues is every queue.
LEMMA AllBehind ==
    ASSUME NEW i \in Devices, NEW d \in Devices
    PROVE  \E k \in 1 .. N : (i + N - k) % N = d
<1> DEFINE k == IF d < i THEN i - d ELSE i - d + N
<1>1. k \in 1 .. N /\ N - k \in 0 .. N /\ i + N - k = i + (N - k)
  BY NAssumption DEF Devices
<1>2. (i + (N - k)) % N = IF i + (N - k) < N THEN i + (N - k) ELSE i + (N - k) - N
  <2> HIDE DEF k
  <2> QED BY <1>1, ModAdd, NAssumption DEF Devices
<1>3. (i + N - k) % N = d
  BY <1>1, <1>2, NAssumption DEF Devices
<1> QED BY <1>1, <1>3

\* The reader moves past an empty queue.
LEMMA ScanEmptyIInv ==
    ASSUME IInv, ScanEmpty
    PROVE  IInv'
<1> USE DEF IInv
<1>1. /\ nextReadIndex \in Devices /\ empties \in 0 .. N - 1
      /\ ppc = "scan" /\ ppc' = ppc
      /\ queues[nextReadIndex].mSize = 0
      /\ empties' = empties + 1
      /\ nextReadIndex' = (nextReadIndex + 1) % N
      /\ UNCHANGED <<queues, wpc, region, polled, waiting_for_data, maxReads, batch, mutex>>
  BY NAssumption DEF ScanEmpty, Scanning, TypeOK, writerVars
<1>2. nextReadIndex' \in Devices /\ empties' \in 0 .. N
  <2>1. 1 \in 1 .. N
    BY NAssumption
  <2> QED BY <1>1, <2>1, BehindStep, NAssumption
<1>3. TypeOK'
  BY <1>1, <1>2 DEF TypeOK
<1>4. ClaimInv' /\ ReadableWritten' /\ NoLostSpaceWakeup'
  BY <1>1 DEF ClaimInv, Claimed, ReadableWritten, NoLostSpaceWakeup
<1>5. ReaderInv' /\ NoLostDataWakeup'
  BY <1>1 DEF ReaderInv, NoLostDataWakeup
<1>6. EmptiesInv'
  <2> SUFFICES ASSUME NEW k \in 1 .. empties + 1
               PROVE  queues[(((nextReadIndex + 1) % N) + N - k) % N].mSize = 0
    BY <1>1 DEF EmptiesInv
  <2>1. k \in 1 .. N
    BY <1>1, NAssumption
  <2>2. CASE k = 1
    BY <1>1, <2>1, <2>2, BehindStep
  <2>3. CASE k > 1
    <3>1. k - 1 \in 1 .. empties
      BY <1>1, <2>3
    <3>2. (((nextReadIndex + 1) % N) + N - k) % N = (nextReadIndex + N - (k - 1)) % N
      BY <1>1, <2>1, <2>3, BehindStep
    <3> QED BY <1>1, <3>1, <3>2 DEF EmptiesInv
  <2> QED BY <2>1, <2>2, <2>3
<1> QED BY <1>3, <1>4, <1>5, <1>6

\* The reader takes a record: the queue's region claim survives, and a writer
\* asleep on the full queue is woken in the step that makes space.
LEMMA ScanTakeIInv ==
    ASSUME IInv, ScanTake
    PROVE  IInv'
<1> USE DEF IInv
<1> DEFINE d == nextReadIndex
           q == queues[d]
           p == dequeue(q)
           e == copy_event_remap_handle(peek(q), d)
<1>1. /\ d \in Devices /\ q \in SensorEventQueues /\ q.mSize # 0 /\ ppc = "scan"
      /\ batch' = IF Passed(e) THEN Append(batch, e) ELSE batch
      /\ wpc' = IF Full(q) /\ wpc[d] = "spaceWait"
                THEN [wpc EXCEPT ![d] = "spaceWoken"] ELSE wpc
      /\ queues' = [queues EXCEPT ![d] = p]
      /\ empties' = 0
      /\ nextReadIndex' = (nextReadIndex + 1) % N
      /\ UNCHANGED <<region, polled, ppc, waiting_for_data, maxReads, mutex>>
  BY DEF ScanTake, Scanning, TypeOK
<1>2. /\ p \in SensorEventQueues /\ p.mSize = q.mSize - 1 /\ p.mData = q.mData
      /\ Slot(p, p.mSize) = Slot(q, q.mSize)
      /\ Readable(p) \subseteq Readable(q)
  <2> HIDE DEF q
  <2> QED BY <1>1, DequeueLemma
<1>3. e \in GlobalEvent
  <2>1. q.mSize \in 1 .. Capacity /\ q.mStart \in Slots
    BY <1>1, CapacityAssumption DEF SensorEventQueues
  <2>2. 0 \in 0 .. q.mSize - 1 /\ 0 \in 0 .. Capacity
    BY <2>1, CapacityAssumption
  <2>3. Slot(q, 0) = q.mStart
    <3>1. /\ Slot(q, 0) = IF q.mStart + 0 < Capacity
                          THEN q.mStart + 0 ELSE q.mStart + 0 - Capacity
      <4> HIDE DEF q
      <4> QED BY <1>1, <2>2, SlotValue
    <3>2. q.mStart + 0 = q.mStart /\ q.mStart < Capacity
      BY <2>1, CapacityAssumption DEF Slots
    <3> QED BY <3>1, <3>2
  <2>4. q.mStart \in Readable(q)
    BY <2>2, <2>3 DEF Readable
  <2>5. peek(q) \in Event
    BY <1>1, <2>4 DEF ReadableWritten, peek
  <2> QED BY <1>1, <2>5 DEF GlobalEvent
<1>4. nextReadIndex' \in Devices
  <2>1. 1 \in 1 .. N
    BY NAssumption
  <2> QED BY <1>1, <2>1, BehindStep
<1> HIDE DEF p, e
<1>5. TypeOK'
  <2>1. queues' \in [Devices -> SensorEventQueues]
    BY <1>1, <1>2 DEF TypeOK
  <2>2. wpc' \in [Devices -> {"start", "spaceWait", "spaceWoken", "poll", "mark"}]
    BY <1>1 DEF TypeOK
  <2>3. batch' \in Seq(GlobalEvent)
    BY <1>1, <1>3 DEF TypeOK
  <2>4. empties' \in 0 .. N
    BY <1>1, NAssumption
  <2> QED BY <1>1, <1>4, <2>1, <2>2, <2>3, <2>4 DEF TypeOK
<1>6. \A c \in Devices : Claimed(c)' <=> Claimed(c)
  BY <1>1 DEF TypeOK, Claimed
<1>7. ClaimInv'
  <2> SUFFICES ASSUME NEW c \in Devices
               PROVE  IF Claimed(c)' THEN RegionHeld(queues'[c], region[c], polled[c])
                                     ELSE polled[c] = <<>>
    BY <1>1 DEF ClaimInv
  <2>1. IF Claimed(c) THEN RegionHeld(queues[c], region[c], polled[c])
                      ELSE polled[c] = <<>>
    BY DEF ClaimInv
  <2>2. CASE c = d
    <3>1. queues'[c] = p
      BY <1>1, <2>2 DEF TypeOK
    <3>2. ASSUME RegionHeld(q, region[d], polled[d])
          PROVE  RegionHeld(p, region[d], polled[d])
      <4>1. q.mSize \in Nat /\ region[d].len \in Nat
        BY <1>1, CapacityAssumption DEF SensorEventQueues, TypeOK, Regions
      <4>2. q.mSize + region[d].len <= Capacity => p.mSize + region[d].len <= Capacity
        BY <1>2, <4>1, CapacityAssumption
      <4> QED BY <1>2, <3>2, <4>2 DEF RegionHeld
    <3> QED BY <1>6, <2>1, <2>2, <3>1, <3>2
  <2>3. CASE c # d
    BY <1>1, <1>6, <2>1, <2>3 DEF TypeOK
  <2> QED BY <2>2, <2>3
<1>8. ReadableWritten'
  <2> SUFFICES ASSUME NEW c \in Devices, NEW s \in Readable(queues'[c])
               PROVE  queues'[c].mData[s] \in Event
    BY DEF ReadableWritten
  <2>1. CASE c = d
    BY <1>1, <1>2, <2>1 DEF TypeOK, ReadableWritten
  <2>2. CASE c # d
    BY <1>1, <2>2 DEF TypeOK, ReadableWritten
  <2> QED BY <2>1, <2>2
<1>9. ReaderInv' /\ EmptiesInv' /\ NoLostDataWakeup'
  BY <1>1 DEF ReaderInv, EmptiesInv, NoLostDataWakeup
<1>10. NoLostSpaceWakeup'
  <2> SUFFICES ASSUME NEW c \in Devices, wpc'[c] = "spaceWait"
               PROVE  Full(queues'[c])
    BY DEF NoLostSpaceWakeup, Full
  <2>1. wpc[c] = "spaceWait" /\ Full(queues[c])
    BY <1>1 DEF TypeOK, NoLostSpaceWakeup
  <2>2. c # d
    BY <1>1, <2>1 DEF TypeOK
  <2> QED BY <1>1, <2>1, <2>2 DEF TypeOK
<1> QED BY <1>5, <1>7, <1>8, <1>9, <1>10

\* The steps that move the reader between calling, scanning, sleeping and
\* returning touch no queue; it goes to sleep only after a full round.
LEMMA ReaderControlIInv ==
    ASSUME IInv,
           \/ LazyInitDone \/ \E m \in 1 .. MaxReads : PollCall(m)
           \/ PollLock \/ PollWait \/ SpuriousDataWake \/ PollWake \/ PollReturn
    PROVE  IInv'
<1> USE DEF IInv
<1>1. UNCHANGED <<queues, writerVars, nextReadIndex>>
  BY DEF LazyInitDone, PollCall, PollLock, PollWait, SpuriousDataWake, PollWake, PollReturn,
         readerVars
<1>2. ClaimInv' /\ ReadableWritten' /\ NoLostSpaceWakeup'
  BY <1>1 DEF ClaimInv, Claimed, ReadableWritten, NoLostSpaceWakeup, writerVars
<1>3. TypeOK' /\ ReaderInv' /\ EmptiesInv' /\ NoLostDataWakeup'
  <2>1. CASE LazyInitDone
    BY <2>1 DEF LazyInitDone, TypeOK, ReaderInv, EmptiesInv, NoLostDataWakeup, readerVars, writerVars
  <2>2. ASSUME NEW m \in 1 .. MaxReads, PollCall(m)
        PROVE  TypeOK' /\ ReaderInv' /\ EmptiesInv' /\ NoLostDataWakeup'
    <3>1. /\ m \in 0 .. MaxReads /\ m > 0 /\ 0 \in 0 .. N
          /\ <<>> \in Seq(GlobalEvent)
      BY NAssumption, MaxReadsAssumption
    <3> QED BY <2>2, <3>1 DEF PollCall, TypeOK, ReaderInv, EmptiesInv, NoLostDataWakeup, writerVars
  <2>3. CASE PollLock
    BY <2>3, NAssumption DEF PollLock, TypeOK, ReaderInv, EmptiesInv, NoLostDataWakeup, writerVars
  <2>4. CASE PollWait
    <3>1. empties = N
      BY <2>4, NAssumption DEF PollWait, Scanning, ReaderInv, TypeOK
    <3>2. ASSUME NEW d \in Devices PROVE queues[d].mSize = 0
      <4>1. nextReadIndex \in Devices
        BY DEF TypeOK
      <4>2. PICK k \in 1 .. N : (nextReadIndex + N - k) % N = d
        BY <4>1, AllBehind
      <4> QED BY <2>4, <3>1, <4>2 DEF EmptiesInv, PollWait
    <3> QED BY <2>4, <3>2 DEF PollWait, TypeOK, ReaderInv, EmptiesInv, NoLostDataWakeup, writerVars
  <2>5. CASE SpuriousDataWake
    BY <2>5 DEF SpuriousDataWake, TypeOK, ReaderInv, EmptiesInv, NoLostDataWakeup, writerVars
  <2>6. CASE PollWake
    <3>1. TypeOK'
      <4>1. waiting_for_data' \in BOOLEAN /\ mutex' \in {"open", "free", "poll"}
        BY <2>6 DEF PollWake
      <4>2. empties' \in 0 .. N
        BY <2>6, NAssumption DEF PollWake
      <4> QED BY <2>6, <4>1, <4>2 DEF PollWake, TypeOK, writerVars
    <3>2. ReaderInv' /\ NoLostDataWakeup'
      BY <2>6 DEF PollWake, ReaderInv, NoLostDataWakeup
    <3>3. EmptiesInv'
      BY <2>6 DEF PollWake, EmptiesInv
    <3> QED BY <3>1, <3>2, <3>3
  <2>7. CASE PollReturn
    BY <2>7 DEF PollReturn, TypeOK, ReaderInv, EmptiesInv, NoLostDataWakeup, writerVars
  <2> QED BY <2>1, <2>2, <2>3, <2>4, <2>5, <2>6, <2>7
<1> QED BY <1>2, <1>3

-----------------------------------------------------------------------------
LEMMA NextIInv == IInv /\ [Next]_vars => IInv'
<1> SUFFICES ASSUME IInv, [Next]_vars PROVE IInv'
  OBVIOUS
<1>1. CASE LazyInitDone
  BY <1>1, ReaderControlIInv
<1>2. CASE ReaderStep
  BY <1>2, ReaderControlIInv, ScanEmptyIInv, ScanTakeIInv DEF ReaderStep
<1>3. ASSUME NEW d \in Devices, WriterStep(d) PROVE IInv'
  BY <1>3, WriterTopIInv, DevicePutIInv, DeviceReturnIInv, WriterMarkIInv DEF WriterStep
<1>4. CASE UNCHANGED vars
  BY <1>4 DEF vars, writerVars, readerVars, IInv, TypeOK, ClaimInv, Claimed, ReadableWritten,
      ReaderInv, EmptiesInv, NoLostDataWakeup, NoLostSpaceWakeup
<1> QED BY <1>1, <1>2, <1>3, <1>4 DEF Next

\* The invariant that carries every other result.
THEOREM Invariance == Spec => []IInv
  BY InitIInv, NextIInv, PTL DEF Spec

\* Every variable of the event path keeps its type: indexes stay in their
\* arrays and counts within their capacities.
THEOREM TypeCorrect == Spec => []TypeOK
<1>1. IInv => TypeOK
  BY DEF IInv
<1> QED BY <1>1, Invariance, PTL

\* A sub-HAL that writes without the mutex never touches a record that poll()
\* may be reading, and never leaves the array.
THEOREM WritesAreSafe == Spec => []RegionSafe
<1>1. IInv => RegionSafe
  BY ClaimImpliesSafe DEF IInv
<1> QED BY <1>1, Invariance, PTL

\* poll() hands out only slots a sub-HAL has written.
THEOREM ReadsAreWritten == Spec => []ReadableWritten
<1>1. IInv => ReadableWritten
  BY DEF IInv
<1> QED BY <1>1, Invariance, PTL

\* The reader never sleeps while a queue holds data.
THEOREM DataWakeup == Spec => []NoLostDataWakeup
<1>1. IInv => NoLostDataWakeup
  BY DEF IInv
<1> QED BY <1>1, Invariance, PTL

\* A writer never sleeps while its queue has space.
THEOREM SpaceWakeup == Spec => []NoLostSpaceWakeup
<1>1. IInv => NoLostSpaceWakeup
  BY DEF IInv
<1> QED BY <1>1, Invariance, PTL

\* While poll() scans, the queues it has counted as empty are empty.
THEOREM EmptiesRight == Spec => []EmptiesInv
<1>1. IInv => EmptiesInv
  BY DEF IInv
<1> QED BY <1>1, Invariance, PTL

-----------------------------------------------------------------------------
\* The refinement: what the readable slots of a ring hold, as a sequence

LEMMA ContentsType ==
    ASSUME NEW q \in SensorEventQueues
    PROVE  /\ Contents(q) \in Seq(Event \cup {NoEvent})
           /\ Len(Contents(q)) = q.mSize
           /\ \A i \in 1 .. q.mSize : Contents(q)[i] = q.mData[Slot(q, i - 1)]
<1>1. q.mSize \in 0 .. Capacity /\ q.mData \in [Slots -> Event \cup {NoEvent}]
  BY DEF SensorEventQueues
<1>2. q.mSize \in Nat
  BY <1>1, CapacityAssumption
<1>3. ASSUME NEW i \in 1 .. q.mSize PROVE q.mData[Slot(q, i - 1)] \in Event \cup {NoEvent}
  <2>1. i - 1 \in 0 .. Capacity
    BY <1>1, CapacityAssumption
  <2> QED BY <1>1, <2>1, SlotValue
<1> QED BY <1>2, <1>3 DEF Contents

\* A record is readable at the position its slot has.
LEMMA ReadableSlot ==
    ASSUME NEW q \in SensorEventQueues, NEW i \in 1 .. q.mSize
    PROVE  Slot(q, i - 1) \in Readable(q)
<1>1. i - 1 \in 0 .. q.mSize - 1
  BY CapacityAssumption DEF SensorEventQueues
<1> QED BY <1>1 DEF Readable

\* Writing outside the readable slots changes nothing a reader can see.
LEMMA PutContents ==
    ASSUME NEW q \in SensorEventQueues, NEW s \in Slots, s \notin Readable(q), NEW e \in Event
    PROVE  Contents(WriteSlot(q, s, e)) = Contents(q)
<1> DEFINE p == WriteSlot(q, s, e)
<1>1. p.mSize = q.mSize /\ p.mStart = q.mStart /\ p.mData = [q.mData EXCEPT ![s] = e]
  BY DEF WriteSlot, SensorEventQueues
<1>2. ASSUME NEW i \in 1 .. q.mSize PROVE p.mData[Slot(p, i - 1)] = q.mData[Slot(q, i - 1)]
  <2>1. Slot(p, i - 1) = Slot(q, i - 1)
    BY <1>1 DEF Slot
  <2>2. Slot(q, i - 1) \in Readable(q)
    BY ReadableSlot
  <2>3. i - 1 \in 0 .. Capacity
    BY CapacityAssumption DEF SensorEventQueues
  <2>4. Slot(q, i - 1) \in Slots
    BY <2>3, SlotValue
  <2> QED BY <1>1, <2>1, <2>2, <2>4 DEF SensorEventQueues
<1> HIDE DEF p
<1>3. Contents(p) = Contents(q)
  BY <1>1, <1>2 DEF Contents
<1> QED BY <1>3 DEF p

\* markAsWritten makes the sub-HAL's events readable, after the older ones.
LEMMA MarkContents ==
    ASSUME NEW q \in SensorEventQueues, NEW r \in Regions, NEW b \in Seq(Event),
           RegionHeld(q, r, b)
    PROVE  Contents(markAsWritten(q, Len(b))) = Contents(q) \o b
<1> DEFINE p == markAsWritten(q, Len(b))
<1>1. /\ r.first = Slot(q, q.mSize) /\ Len(b) <= r.len /\ Len(b) \in Nat
      /\ q.mSize + r.len <= Capacity /\ r.first + r.len <= Capacity
      /\ r.first \in Nat /\ r.len \in Nat /\ q.mSize \in 0 .. Capacity
  BY CapacityAssumption DEF RegionHeld, Regions, Slots, SensorEventQueues
<1>2. p.mStart = q.mStart /\ p.mSize = q.mSize + Len(b) /\ p.mData = q.mData
  BY DEF markAsWritten, SensorEventQueues
<1> HIDE DEF p
<1>3. /\ Contents(q) \in Seq(Event \cup {NoEvent}) /\ Len(Contents(q)) = q.mSize
      /\ \A i \in 1 .. q.mSize : Contents(q)[i] = q.mData[Slot(q, i - 1)]
  BY ContentsType
<1>4. ASSUME NEW i \in 1 .. q.mSize + Len(b)
      PROVE  p.mData[Slot(p, i - 1)] = IF i <= q.mSize THEN Contents(q)[i] ELSE b[i - q.mSize]
  <2>1. Slot(p, i - 1) = Slot(q, i - 1)
    BY <1>2 DEF Slot
  <2>2. CASE i <= q.mSize
    <3>1. i \in 1 .. q.mSize
      BY <1>1, <2>2
    <3> QED BY <1>2, <1>3, <2>1, <2>2, <3>1
  <2>3. CASE ~(i <= q.mSize)
    <3>1. PICK j \in 0 .. Len(b) - 1 : i - 1 = q.mSize + j
      <4>1. i - 1 - q.mSize \in 0 .. Len(b) - 1 /\ i - 1 = q.mSize + (i - 1 - q.mSize)
        BY <1>1, <2>3
      <4> QED BY <4>1
    <3>2. j \in 0 .. r.len - 1 /\ j + 1 \in 1 .. Len(b) /\ j + 1 = i - q.mSize
      BY <1>1, <3>1
    <3>3. Slot(q, i - 1) = r.first + j
      BY <1>1, <3>1, <3>2, RegionSlotLemma
    <3>4. q.mData[r.first + (j + 1) - 1] = b[j + 1] /\ r.first + (j + 1) - 1 = r.first + j
      BY <1>1, <3>1, <3>2 DEF RegionHeld
    <3> QED BY <1>2, <2>1, <2>3, <3>2, <3>3, <3>4
  <2> QED BY <2>2, <2>3
<1> DEFINE E == Event \cup {NoEvent}
<1>5. b \in Seq(E) /\ Contents(q) \in Seq(E)
  BY <1>3
<1> HIDE DEF E
<1>6. /\ Contents(q) \o b \in Seq(E)
      /\ Len(Contents(q) \o b) = q.mSize + Len(b)
      /\ \A i \in 1 .. q.mSize + Len(b) :
            (Contents(q) \o b)[i] = IF i <= q.mSize THEN Contents(q)[i] ELSE b[i - q.mSize]
  <2>1. /\ Contents(q) \o b \in Seq(E)
        /\ Len(Contents(q) \o b) = Len(Contents(q)) + Len(b)
        /\ \A i \in 1 .. Len(Contents(q)) + Len(b) : (Contents(q) \o b)[i] =
             IF i <= Len(Contents(q)) THEN Contents(q)[i] ELSE b[i - Len(Contents(q))]
    BY <1>5, ConcatProperties, Zenon
  <2>2. Len(Contents(q)) = q.mSize
    BY <1>3
  <2> QED BY <2>1, <2>2
<1>7. p \in SensorEventQueues
  <2>1. p = [mStart |-> q.mStart, mSize |-> q.mSize + Len(b), mData |-> q.mData]
    BY DEF markAsWritten, SensorEventQueues, p
  <2>2. q.mSize + Len(b) \in 0 .. Capacity
    BY <1>1, CapacityAssumption
  <2> QED BY <2>1, <2>2 DEF SensorEventQueues
<1>8. /\ Contents(p) \in Seq(E) /\ Len(Contents(p)) = q.mSize + Len(b)
      /\ \A i \in 1 .. q.mSize + Len(b) : Contents(p)[i] = p.mData[Slot(p, i - 1)]
  BY <1>2, <1>7, ContentsType DEF E
<1>9. \A i \in 1 .. Len(Contents(p)) : Contents(p)[i] = (Contents(q) \o b)[i]
  BY <1>4, <1>6, <1>8
<1>10. Contents(p) = Contents(q) \o b
  BY <1>6, <1>8, <1>9, SeqEqual
<1> QED BY <1>10 DEF p

\* dequeue takes away the oldest record, the one that peek returns.
LEMMA DequeueContents ==
    ASSUME NEW q \in SensorEventQueues, q.mSize # 0
    PROVE  /\ Contents(q) # <<>>
           /\ Head(Contents(q)) = peek(q)
           /\ Contents(dequeue(q)) = Tail(Contents(q))
<1> DEFINE p == dequeue(q)
<1>1. q.mSize \in 1 .. Capacity /\ q.mStart \in Slots
  BY CapacityAssumption DEF SensorEventQueues
<1>2. /\ p \in SensorEventQueues /\ p.mSize = q.mSize - 1 /\ p.mData = q.mData
      /\ \A i \in 0 .. Capacity - 1 : Slot(p, i) = Slot(q, i + 1)
  BY DequeueLemma
<1> HIDE DEF p
<1>3. /\ Contents(q) \in Seq(Event \cup {NoEvent}) /\ Len(Contents(q)) = q.mSize
      /\ \A i \in 1 .. q.mSize : Contents(q)[i] = q.mData[Slot(q, i - 1)]
  BY ContentsType
<1>4. Contents(q) # <<>> /\ Head(Contents(q)) = Contents(q)[1]
  BY <1>1, <1>3
<1>5. Contents(q)[1] = q.mData[Slot(q, 0)]
  BY <1>1, <1>3
<1>6. Slot(q, 0) = q.mStart
  BY <1>1, SlotValue, CapacityAssumption DEF Slots
<1> DEFINE E == Event \cup {NoEvent}
<1>7. /\ Tail(Contents(q)) \in Seq(E) /\ Len(Tail(Contents(q))) = q.mSize - 1
      /\ \A i \in 1 .. q.mSize - 1 : Tail(Contents(q))[i] = Contents(q)[i + 1]
  BY <1>3, <1>4, HeadTailProperties
<1>8. /\ Contents(p) \in Seq(E) /\ Len(Contents(p)) = q.mSize - 1
      /\ \A i \in 1 .. q.mSize - 1 : Contents(p)[i] = p.mData[Slot(p, i - 1)]
  BY <1>2, ContentsType
<1>9. ASSUME NEW i \in 1 .. q.mSize - 1
      PROVE  Contents(p)[i] = Tail(Contents(q))[i]
  <2>1. i - 1 \in 0 .. Capacity - 1 /\ i + 1 \in 1 .. q.mSize /\ (i - 1) + 1 = i /\ (i + 1) - 1 = i
    BY <1>1, CapacityAssumption
  <2>2. Contents(p)[i] = p.mData[Slot(p, i - 1)] /\ Slot(p, i - 1) = Slot(q, i)
    BY <1>2, <1>8, <2>1
  <2>3. Tail(Contents(q))[i] = q.mData[Slot(q, i)]
    BY <1>3, <1>7, <2>1
  <2> QED BY <1>2, <2>2, <2>3
<1>10. Contents(p) = Tail(Contents(q))
  BY <1>7, <1>8, <1>9, SeqEqual
<1> QED BY <1>4, <1>5, <1>6, <1>10 DEF peek, p

-----------------------------------------------------------------------------
\* The refinement: every step is a step of the streams, or leaves them alone

StreamVars == <<polled, [d \in Devices |-> Contents(queues[d])], batch>>

\* A step of one device's queue, seen from the streams.
LEMMA PendingOf ==
    ASSUME TypeOK, NEW d \in Devices, NEW q, queues' = [queues EXCEPT ![d] = q]
    PROVE  [c \in Devices |-> Contents(queues[c])]'
             = [[c \in Devices |-> Contents(queues[c])] EXCEPT ![d] = Contents(q)]
<1>1. [c \in Devices |-> Contents(queues[c])]' = [c \in Devices |-> Contents(queues'[c])]
  BY DEF Contents, Slot
<1>2. \A c \in Devices : queues'[c] = IF c = d THEN q ELSE queues[c]
  BY DEF TypeOK
<1>3. \A c \in Devices : Contents(queues'[c]) = IF c = d THEN Contents(q) ELSE Contents(queues[c])
  BY <1>2
<1>4. [c \in Devices |-> Contents(queues'[c])]
        = [[c \in Devices |-> Contents(queues[c])] EXCEPT ![d] = Contents(q)]
  BY <1>3
<1> QED BY <1>1, <1>4

LEMMA PutProduces ==
    ASSUME IInv, NEW d \in Devices, NEW e \in Event, DevicePut(d, e)
    PROVE  Stream!Produce(d, e)
<1> DEFINE s == region[d].first + Len(polled[d])
<1>1. /\ queues[d] \in SensorEventQueues /\ region[d] \in Regions /\ polled[d] \in Seq(Event)
      /\ RegionHeld(queues[d], region[d], polled[d])
      /\ Len(polled[d]) < region[d].len
  BY DEF IInv, TypeOK, ClaimInv, Claimed, DevicePut
<1>2. Len(polled[d]) \in 0 .. region[d].len - 1
  BY <1>1, CapacityAssumption DEF Regions
<1>3. s \in Slots /\ s \notin Readable(queues[d])
  BY <1>1, <1>2, RegionSlotLemma DEF RegionHeld
<1>4. Contents(WriteSlot(queues[d], s, e)) = Contents(queues[d])
  BY <1>1, <1>3, PutContents
<1>5. queues' = [queues EXCEPT ![d] = WriteSlot(queues[d], s, e)]
  BY DEF DevicePut
<1>6. [c \in Devices |-> Contents(queues[c])]' = [c \in Devices |-> Contents(queues[c])]
  BY <1>4, <1>5, PendingOf DEF IInv
<1>7. Len(Contents(queues[d])) + Len(polled[d]) < Capacity
  <2>1. Len(Contents(queues[d])) = queues[d].mSize
    BY <1>1, ContentsType
  <2>2. queues[d].mSize \in Nat /\ region[d].len \in Nat
    BY <1>1, CapacityAssumption DEF SensorEventQueues, Regions
  <2> QED BY <1>1, <1>2, <2>1, <2>2, CapacityAssumption DEF RegionHeld
<1> QED BY <1>6, <1>7 DEF Stream!Produce, DevicePut, readerVars

LEMMA MarkPublishes ==
    ASSUME IInv, NEW d \in Devices, WriterMark(d)
    PROVE  Stream!Publish(d)
<1>1. /\ queues[d] \in SensorEventQueues /\ region[d] \in Regions /\ polled[d] \in Seq(Event)
      /\ RegionHeld(queues[d], region[d], polled[d])
  BY DEF IInv, TypeOK, ClaimInv, Claimed, WriterMark
<1>2. Contents(markAsWritten(queues[d], Len(polled[d]))) = Contents(queues[d]) \o polled[d]
  BY <1>1, MarkContents
<1>3. queues' = [queues EXCEPT ![d] = markAsWritten(queues[d], Len(polled[d]))]
  BY DEF WriterMark
<1>4. [c \in Devices |-> Contents(queues[c])]'
        = [[c \in Devices |-> Contents(queues[c])] EXCEPT ![d] = Contents(queues[d]) \o polled[d]]
  BY <1>2, <1>3, PendingOf DEF IInv
<1> QED BY <1>4 DEF Stream!Publish, WriterMark

LEMMA ScanTakes ==
    ASSUME IInv, ScanTake
    PROVE  nextReadIndex \in Devices /\ Stream!Take(nextReadIndex)
<1> DEFINE d == nextReadIndex
<1>1. d \in Devices /\ queues[d] \in SensorEventQueues /\ queues[d].mSize # 0
  BY DEF IInv, TypeOK, ScanTake
<1>2. /\ Contents(queues[d]) # <<>>
      /\ Head(Contents(queues[d])) = peek(queues[d])
      /\ Contents(dequeue(queues[d])) = Tail(Contents(queues[d]))
  BY <1>1, DequeueContents
<1>3. queues' = [queues EXCEPT ![d] = dequeue(queues[d])]
  BY DEF ScanTake
<1>4. [c \in Devices |-> Contents(queues[c])]'
        = [[c \in Devices |-> Contents(queues[c])] EXCEPT ![d] = Tail(Contents(queues[d]))]
  BY <1>1, <1>2, <1>3, PendingOf DEF IInv
<1>5. batch' = IF Passed(Remap(d, Head(Contents(queues[d]))))
               THEN Append(batch, Remap(d, Head(Contents(queues[d])))) ELSE batch
  BY <1>2 DEF ScanTake, Remap
<1>6. polled' = polled
  BY DEF ScanTake
<1> QED BY <1>1, <1>2, <1>4, <1>5, <1>6 DEF Stream!Take

LEMMA StreamInit == Init => Stream!Init
<1> SUFFICES ASSUME Init PROVE Stream!Init
  OBVIOUS
<1>1. \A d \in Devices : Contents(queues[d]) = <<>>
  <2>1. Contents(EmptyQueue) = <<>>
    BY EmptyQueueType, ContentsType
  <2> QED BY <2>1 DEF Init
<1> QED BY <1>1 DEF Init, Stream!Init

LEMMA StreamNext == IInv /\ [Next]_vars => [Stream!Next]_StreamVars
<1> SUFFICES ASSUME IInv, [Next]_vars PROVE Stream!Next \/ UNCHANGED StreamVars
  OBVIOUS
<1>1. ASSUME UNCHANGED <<queues, polled, batch>> PROVE UNCHANGED StreamVars
  BY <1>1 DEF StreamVars, Contents, Slot
<1>2. ASSUME NEW d \in Devices, WriterStep(d) PROVE Stream!Next \/ UNCHANGED StreamVars
  <2>1. CASE WriterTop(d) \/ SpuriousSpaceWake(d) \/ DeviceReturn(d)
    BY <1>1, <2>1 DEF WriterTop, SpuriousSpaceWake, DeviceReturn, readerVars
  <2>2. ASSUME NEW e \in Event, DevicePut(d, e) PROVE Stream!Next
    BY <2>2, PutProduces DEF Stream!Next
  <2>3. CASE DeviceReturnNone(d)
    <3>1. polled' = [polled EXCEPT ![d] = <<>>] /\ queues' = queues /\ batch' = batch
      BY <2>3 DEF DeviceReturnNone, readerVars
    <3>2. [c \in Devices |-> Contents(queues[c])]' = [c \in Devices |-> Contents(queues[c])]
      BY <3>1 DEF Contents, Slot
    <3> QED BY <3>1, <3>2 DEF Stream!Next, Stream!Discard
  <2>4. CASE WriterMark(d)
    BY <2>4, MarkPublishes DEF Stream!Next
  <2> QED BY <1>2, <2>1, <2>2, <2>3, <2>4 DEF WriterStep
<1>3. ASSUME ReaderStep PROVE Stream!Next \/ UNCHANGED StreamVars
  <2>1. ASSUME NEW m \in 1 .. MaxReads, PollCall(m) PROVE Stream!Next
    <3>1. batch' = <<>> /\ polled' = polled /\ queues' = queues
      BY <2>1 DEF PollCall, writerVars
    <3>2. [c \in Devices |-> Contents(queues[c])]' = [c \in Devices |-> Contents(queues[c])]
      BY <3>1 DEF Contents, Slot
    <3> QED BY <3>1, <3>2 DEF Stream!Next, Stream!NewBatch
  <2>2. CASE ScanTake
    BY <2>2, ScanTakes DEF Stream!Next
  <2>3. CASE PollLock \/ ScanEmpty \/ PollWait \/ SpuriousDataWake \/ PollWake \/ PollReturn
    BY <1>1, <2>3 DEF PollLock, ScanEmpty, PollWait, SpuriousDataWake, PollWake, PollReturn, writerVars
  <2> QED BY <1>3, <2>1, <2>2, <2>3 DEF ReaderStep
<1>4. CASE LazyInitDone
  BY <1>1, <1>4 DEF LazyInitDone, writerVars, readerVars
<1>5. CASE UNCHANGED vars
  BY <1>1, <1>5 DEF vars, writerVars, readerVars
<1> QED BY <1>2, <1>3, <1>4, <1>5 DEF Next

\* The writer threads, the ring buffers, the mutex and the condition variables
\* implement a bounded first-in first-out stream for each sub-HAL.
THEOREM ImplementsStreams == Spec => StreamSpec
<1>1. Init => Stream!Init
  BY StreamInit
<1>2. IInv /\ [Next]_vars => [Stream!Next]_StreamVars
  BY StreamNext
<1> QED BY <1>1, <1>2, Invariance, PTL DEF Spec, StreamSpec, Stream!Spec, Stream!vars, StreamVars
===============================================================================
