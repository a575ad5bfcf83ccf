----------------------------- MODULE MultiHalPoll -----------------------------
(***************************************************************************)
(* The event path of device/huawei/mozart/sensors/multihal.cpp: one        *)
(* writerTask thread for each opened sub-HAL fills that sub-HAL's          *)
(* SensorEventQueue, and the thread that calls poll() drains all queues in *)
(* turn.  One mutex, queue_mutex, protects the queues; one condition       *)
(* variable (data_available_cond) wakes the reader and one in each queue   *)
(* (mSpaceAvailableCondition) wakes its writer.                            *)
(*                                                                         *)
(* A sub-HAL writes into the slots of its region without the mutex, so     *)
(* those writes are steps of their own.  The writer's two critical         *)
(* sections touch nothing outside the mutex and are one step each; the     *)
(* scan of poll() holds the mutex across several steps.                    *)
(***************************************************************************)
EXTENDS SensorEventQueue, Sequences

CONSTANTS N,               \* number of opened sub-HAL devices
          full_to_global,  \* from <<sub_index, local handle>> to global handle
          MaxReads         \* the largest event count a caller passes to poll()

ASSUME NAssumption == N \in Nat \ {0}
ASSUME MaxReadsAssumption == MaxReads \in Nat \ {0}

Devices == 0 .. N - 1

VARIABLES
    queues,            \* one SensorEventQueue for each device
    wpc,               \* where each writerTask is
    region,            \* the slots writerTask's buffer points at
    polled,            \* what the current poll() of the sub-HAL has written
    ppc,               \* where the thread calling poll() is
    mutex,             \* who holds queue_mutex
    waiting_for_data,
    nextReadIndex,
    empties,           \* locals of poll()
    maxReads,
    batch              \* data[0 .. eventsRead - 1] of the latest poll()

writerVars == <<wpc, region, polled>>
readerVars == <<ppc, waiting_for_data, nextReadIndex, empties, maxReads, batch>>
vars == <<queues, writerVars, readerVars, mutex>>

NoRegion == [first |-> 0, len |-> 0]

get_global_handle(d, h) ==
    IF <<d, h>> \in DOMAIN full_to_global THEN full_to_global[<<d, h>>] ELSE -1

\* A meta-data event carries its handle in the payload and 0 in `sensor'.
copy_event_remap_handle(e, d) ==
    IF e.type = "META_DATA"
    THEN [e EXCEPT !.meta = get_global_handle(d, e.meta)]
    ELSE [e EXCEPT !.sensor = get_global_handle(d, e.sensor)]

Passed(e) == e.sensor # -1

(***************************************************************************)
(* open_sensors has started the writers and left queue_mutex locked; the   *)
(* first get_sensors_list of the framework unlocks it.                     *)
(***************************************************************************)
Init ==
    /\ queues = [d \in Devices |-> EmptyQueue]
    /\ wpc = [d \in Devices |-> "start"]
    /\ region = [d \in Devices |-> NoRegion]
    /\ polled = [d \in Devices |-> <<>>]
    /\ ppc = "out"
    /\ mutex = "open"
    /\ waiting_for_data = FALSE
    /\ nextReadIndex = 0
    /\ empties = 0
    /\ maxReads = 0
    /\ batch = <<>>

LazyInitDone ==
    /\ mutex = "open"
    /\ mutex' = "free"
    /\ UNCHANGED <<queues, writerVars, readerVars>>

-----------------------------------------------------------------------------
\* writerTask

\* Lock, waitForSpace, getWritableRegion, unlock.
WriterTop(d) ==
    /\ wpc[d] \in {"start", "spaceWoken"}
    /\ mutex = "free"
    /\ \/ /\ Full(queues[d])
          /\ wpc' = [wpc EXCEPT ![d] = "spaceWait"]
          /\ UNCHANGED region
       \/ /\ ~Full(queues[d])
          /\ wpc' = [wpc EXCEPT ![d] = "poll"]
          /\ region' = [region EXCEPT ![d] = getWritableRegion(queues[d], Capacity)]
    /\ UNCHANGED <<queues, polled, readerVars, mutex>>

SpuriousSpaceWake(d) ==
    /\ wpc[d] = "spaceWait"
    /\ wpc' = [wpc EXCEPT ![d] = "spaceWoken"]
    /\ UNCHANGED <<queues, region, polled, readerVars, mutex>>

\* The sub-HAL's poll() stores its next event in the buffer, without the mutex.
DevicePut(d, e) ==
    /\ wpc[d] = "poll"
    /\ Len(polled[d]) < region[d].len
    /\ queues' = [queues EXCEPT ![d] =
                    WriteSlot(@, region[d].first + Len(polled[d]), e)]
    /\ polled' = [polled EXCEPT ![d] = Append(@, e)]
    /\ UNCHANGED <<wpc, region, readerVars, mutex>>

DeviceReturn(d) ==
    /\ wpc[d] = "poll"
    /\ polled[d] # <<>>
    /\ wpc' = [wpc EXCEPT ![d] = "mark"]
    /\ UNCHANGED <<queues, region, polled, readerVars, mutex>>

\* eventsPolled <= 0: nothing is marked as written, and the loop starts over.
DeviceReturnNone(d) ==
    /\ wpc[d] = "poll"
    /\ wpc' = [wpc EXCEPT ![d] = "start"]
    /\ polled' = [polled EXCEPT ![d] = <<>>]
    /\ UNCHANGED <<queues, region, readerVars, mutex>>

\* Mutant: the length of the buffer is marked, not the number of events polled.
WriterMark_WholeBuffer(d) ==
    /\ wpc[d] = "mark"
    /\ mutex = "free"
    /\ queues' = [queues EXCEPT ![d] = markAsWritten(@, region[d].len)]
    /\ ppc' = IF waiting_for_data /\ ppc = "wait" THEN "woken" ELSE ppc
    /\ polled' = [polled EXCEPT ![d] = <<>>]
    /\ wpc' = [wpc EXCEPT ![d] = "start"]
    /\ UNCHANGED <<region, waiting_for_data, nextReadIndex, empties, maxReads, batch, mutex>>

WriterMark(d) ==
    /\ wpc[d] = "mark"
    /\ mutex = "free"
    /\ queues' = [queues EXCEPT ![d] = markAsWritten(@, Len(polled[d]))]
    /\ ppc' = IF waiting_for_data /\ ppc = "wait" THEN "woken" ELSE ppc
    /\ polled' = [polled EXCEPT ![d] = <<>>]
    /\ wpc' = [wpc EXCEPT ![d] = "start"]
    /\ UNCHANGED <<region, waiting_for_data, nextReadIndex, empties, maxReads, batch, mutex>>

-----------------------------------------------------------------------------
\* sensors_poll_context_t::poll

PollCall(m) ==
    /\ ppc = "out"
    /\ ppc' = "lock"
    /\ maxReads' = m
    /\ empties' = 0
    /\ batch' = <<>>
    /\ UNCHANGED <<queues, writerVars, waiting_for_data, nextReadIndex, mutex>>

PollLock ==
    /\ ppc = "lock"
    /\ mutex = "free"
    /\ mutex' = "poll"
    /\ ppc' = "scan"
    /\ UNCHANGED <<queues, writerVars, waiting_for_data, nextReadIndex, empties, maxReads, batch>>

Scanning == ppc = "scan" /\ empties < N /\ Len(batch) < maxReads

ScanEmpty ==
    /\ Scanning
    /\ queues[nextReadIndex].mSize = 0
    /\ empties' = empties + 1
    /\ nextReadIndex' = (nextReadIndex + 1) % N
    /\ UNCHANGED <<queues, writerVars, ppc, waiting_for_data, maxReads, batch, mutex>>

\* Mutant: `empties' is not reset when a queue has data.
ScanTake_KeepEmpties ==
    /\ Scanning
    /\ queues[nextReadIndex].mSize # 0
    /\ LET d == nextReadIndex
           e == copy_event_remap_handle(peek(queues[d]), d)
       IN  /\ batch' = IF Passed(e) THEN Append(batch, e) ELSE batch
           /\ wpc' = IF Full(queues[d]) /\ wpc[d] = "spaceWait"
                     THEN [wpc EXCEPT ![d] = "spaceWoken"] ELSE wpc
           /\ queues' = [queues EXCEPT ![d] = dequeue(@)]
    /\ empties' = empties
    /\ nextReadIndex' = (nextReadIndex + 1) % N
    /\ UNCHANGED <<region, polled, ppc, waiting_for_data, maxReads, mutex>>

\* Mutant: dequeue does not broadcast mSpaceAvailableCondition.
ScanTake_NoBroadcast ==
    /\ Scanning
    /\ queues[nextReadIndex].mSize # 0
    /\ LET d == nextReadIndex
           e == copy_event_remap_handle(peek(queues[d]), d)
       IN  /\ batch' = IF Passed(e) THEN Append(batch, e) ELSE batch
           /\ wpc' = wpc
           /\ queues' = [queues EXCEPT ![d] = dequeue(@)]
    /\ empties' = 0
    /\ nextReadIndex' = (nextReadIndex + 1) % N
    /\ UNCHANGED <<region, polled, ppc, waiting_for_data, maxReads, mutex>>

\* Mutant: the reader stays with a queue as long as it has data.
ScanTake_Sticky ==
    /\ Scanning
    /\ queues[nextReadIndex].mSize # 0
    /\ LET d == nextReadIndex
           e == copy_event_remap_handle(peek(queues[d]), d)
       IN  /\ batch' = IF Passed(e) THEN Append(batch, e) ELSE batch
           /\ wpc' = IF Full(queues[d]) /\ wpc[d] = "spaceWait"
                     THEN [wpc EXCEPT ![d] = "spaceWoken"] ELSE wpc
           /\ queues' = [queues EXCEPT ![d] = dequeue(@)]
    /\ empties' = 0
    /\ nextReadIndex' = nextReadIndex
    /\ UNCHANGED <<region, polled, ppc, waiting_for_data, maxReads, mutex>>

\* dequeue's broadcast reaches the writer of that queue only.
ScanTake ==
    /\ Scanning
    /\ queues[nextReadIndex].mSize # 0
    /\ LET d == nextReadIndex
           e == copy_event_remap_handle(peek(queues[d]), d)
       IN  /\ batch' = IF Passed(e) THEN Append(batch, e) ELSE batch
           /\ wpc' = IF Full(queues[d]) /\ wpc[d] = "spaceWait"
                     THEN [wpc EXCEPT ![d] = "spaceWoken"] ELSE wpc
           /\ queues' = [queues EXCEPT ![d] = dequeue(@)]
    /\ empties' = 0
    /\ nextReadIndex' = (nextReadIndex + 1) % N
    /\ UNCHANGED <<region, polled, ppc, waiting_for_data, maxReads, mutex>>

\* Mutant: the reader sleeps without telling the writers.
PollWait_NoFlag ==
    /\ ppc = "scan" /\ ~Scanning
    /\ batch = <<>>
    /\ ppc' = "wait"
    /\ mutex' = "free"
    /\ UNCHANGED <<queues, writerVars, waiting_for_data, nextReadIndex, empties, maxReads, batch>>

PollWait ==
    /\ ppc = "scan" /\ ~Scanning
    /\ batch = <<>>
    /\ waiting_for_data' = TRUE
    /\ ppc' = "wait"
    /\ mutex' = "free"
    /\ UNCHANGED <<queues, writerVars, nextReadIndex, empties, maxReads, batch>>

SpuriousDataWake ==
    /\ ppc = "wait"
    /\ ppc' = "woken"
    /\ UNCHANGED <<queues, writerVars, waiting_for_data, nextReadIndex, empties, maxReads, batch, mutex>>

PollWake ==
    /\ ppc = "woken"
    /\ mutex = "free"
    /\ mutex' = "poll"
    /\ waiting_for_data' = FALSE
    /\ empties' = 0
    /\ ppc' = "scan"
    /\ UNCHANGED <<queues, writerVars, nextReadIndex, maxReads, batch>>

PollReturn ==
    /\ ppc = "scan" /\ ~Scanning
    /\ batch # <<>>
    /\ mutex' = "free"
    /\ ppc' = "out"
    /\ UNCHANGED <<queues, writerVars, waiting_for_data, nextReadIndex, empties, maxReads, batch>>

-----------------------------------------------------------------------------
WriterStep(d) ==
    \/ WriterTop(d)
    \/ SpuriousSpaceWake(d)
    \/ \E e \in Event : DevicePut(d, e)
    \/ DeviceReturn(d)
    \/ DeviceReturnNone(d)
    \/ WriterMark(d)

ReaderStep ==
    \/ \E m \in 1 .. MaxReads : PollCall(m)
    \/ PollLock
    \/ ScanEmpty
    \/ ScanTake
    \/ PollWait
    \/ SpuriousDataWake
    \/ PollWake
    \/ PollReturn

Next == LazyInitDone \/ ReaderStep \/ \E d \in Devices : WriterStep(d)

Spec == Init /\ [][Next]_vars

(***************************************************************************)
(* The framework asks for the sensor list and keeps calling poll(); a      *)
(* thread that can run runs; a writer that keeps asking for queue_mutex    *)
(* gets it in the end.  Nothing is assumed of the sub-HALs: their poll()   *)
(* may block for ever, and no thread is assumed to wake spuriously.        *)
(***************************************************************************)
Fairness ==
    /\ WF_vars(LazyInitDone)
    /\ WF_vars(\E m \in 1 .. MaxReads : PollCall(m))
    /\ WF_vars(PollLock \/ ScanEmpty \/ ScanTake \/ PollWait \/ PollWake \/ PollReturn)
    /\ \A d \in Devices : SF_vars(WriterTop(d)) /\ SF_vars(WriterMark(d))

FairSpec == Spec /\ Fairness

-----------------------------------------------------------------------------
\* Properties

GlobalEvent == {copy_event_remap_handle(e, d) : e \in Event, d \in Devices}

Regions == [first : Slots, len : 0 .. Capacity]

TypeOK ==
    /\ queues \in [Devices -> SensorEventQueues]
    /\ wpc \in [Devices -> {"start", "spaceWait", "spaceWoken", "poll", "mark"}]
    /\ region \in [Devices -> Regions]
    /\ polled \in [Devices -> Seq(Event)]
    /\ ppc \in {"out", "lock", "scan", "wait", "woken"}
    /\ mutex \in {"open", "free", "poll"}
    /\ waiting_for_data \in BOOLEAN
    /\ nextReadIndex \in Devices
    /\ empties \in 0 .. N
    /\ maxReads \in 0 .. MaxReads
    /\ batch \in Seq(GlobalEvent)

\* The writer's buffer pointer is in use: the sub-HAL may write through it, or
\* writerTask has still to account for what was written.
Claimed(d) == wpc[d] \in {"poll", "mark"}

\* A region r of queue q is free, next in line, and starts with the events p.
RegionHeld(q, r, p) ==
    /\ r.first = Slot(q, q.mSize)
    /\ r.len > 0
    /\ q.mSize + r.len <= Capacity
    /\ r.first + r.len <= Capacity
    /\ Len(p) <= r.len
    /\ \A i \in 1 .. Len(p) : q.mData[r.first + i - 1] = p[i]

(***************************************************************************)
(* While a sub-HAL owns a region it fetched under the mutex, the region    *)
(* stays where the next record belongs and stays free, whatever poll()     *)
(* dequeues in the meantime; and it holds exactly what the sub-HAL wrote.  *)
(***************************************************************************)
ClaimInv ==
    \A d \in Devices : IF Claimed(d) THEN RegionHeld(queues[d], region[d], polled[d])
                                      ELSE polled[d] = <<>>

(***************************************************************************)
(* The buffer handed to a sub-HAL outside the lock lies inside mData and   *)
(* never contains a record that poll() may still read ("Don't go past the  *)
(* end of the data array", "Don't go into the readable region").           *)
(***************************************************************************)
RegionSafe ==
    \A d \in Devices :
        Claimed(d) => /\ RegionSlots(region[d]) # {}
                      /\ RegionSlots(region[d]) \subseteq Slots
                      /\ RegionSlots(region[d]) \cap Readable(queues[d]) = {}

(***************************************************************************)
(* poll() never reads a slot of the freshly allocated, uninitialised mData *)
(* that no sub-HAL has written.                                            *)
(***************************************************************************)
ReadableWritten ==
    \A d \in Devices : \A s \in Readable(queues[d]) : queues[d].mData[s] \in Event

(***************************************************************************)
(* The reader holds the mutex exactly while it scans, waiting_for_data is  *)
(* set exactly while it is inside pthread_cond_wait, and its locals are    *)
(* those of a call in progress.                                            *)
(***************************************************************************)
ReaderInv ==
    /\ (mutex = "poll") <=> (ppc = "scan")
    /\ waiting_for_data <=> (ppc \in {"wait", "woken"})
    /\ ppc = "lock" => empties = 0
    /\ ppc # "out" => maxReads > 0

(***************************************************************************)
(* `empties' counts queues known to be empty: the ones that end just       *)
(* before nextReadIndex.  The mutex keeps them empty until the scan ends.  *)
(***************************************************************************)
EmptiesInv ==
    ppc = "scan" =>
        \A k \in 1 .. empties : queues[(nextReadIndex + N - k) % N].mSize = 0

(***************************************************************************)
(* No lost wake-up of poll(): the reader sleeps on data_available_cond     *)
(* only while every queue is empty ("The queues have been scanned and none *)
(* contain data, so wait"); the flag waiting_for_data never suppresses a   *)
(* broadcast that is needed.                                               *)
(***************************************************************************)
NoLostDataWakeup ==
    ppc = "wait" => \A d \in Devices : queues[d].mSize = 0

(***************************************************************************)
(* No lost wake-up of a writer: dequeue broadcasts only when the queue was *)
(* full, and that is enough, since a writer sleeps only on a full queue.   *)
(***************************************************************************)
NoLostSpaceWakeup ==
    \A d \in Devices : wpc[d] = "spaceWait" => Full(queues[d])

\* The refinement mapping: a stream holds what its queue's readable slots hold.
Remap(d, e) == copy_event_remap_handle(e, d)

Stream == INSTANCE SensorEventStream
            WITH inflight <- polled,
                 pending <- [d \in Devices |-> Contents(queues[d])],
                 batch <- batch,
                 Deliverable <- Passed

(***************************************************************************)
(* The threads, the ring buffers and the condition variables together      *)
(* implement bounded first-in first-out streams.                           *)
(***************************************************************************)
StreamSpec == Stream!Spec

(***************************************************************************)
(* Round robin starves nobody: a queue that stays non-empty is read again  *)
(* and again, however busy the other sub-HALs are.                         *)
(***************************************************************************)
EveryQueueServed ==
    \A d \in Devices :
        []<>(queues[d].mSize = 0) \/ []<><<ScanTake /\ nextReadIndex = d>>_vars

(***************************************************************************)
(* A writer that sleeps in waitForSpace gets a region to poll into.        *)
(***************************************************************************)
BlockedWriterResumes ==
    \A d \in Devices : wpc[d] = "spaceWait" ~> wpc[d] = "poll"

\* Some readable event has a handle the caller knows.
DeliverableWaiting ==
    \E d \in Devices : \E s \in Readable(queues[d]) :
        Passed(copy_event_remap_handle(queues[d].mData[s], d))

(***************************************************************************)
(* A published event with a registered handle makes a poll() of the        *)
(* framework return with events: dropped events and empty queues never     *)
(* keep the caller asleep.                                                 *)
(***************************************************************************)
EventsReachCaller == DeliverableWaiting ~> (ppc = "out" /\ batch # <<>>)

(***************************************************************************)
(* What the comment in poll() says of bad handles, "do not pass corrupted  *)
(* event upstream": no event handed to the framework carries handle -1,    *)
(* neither in its sensor field nor in the payload of a meta-data event.    *)
(***************************************************************************)
NoCorruptEventUpstream ==
    \A i \in 1 .. Len(batch) :
        /\ batch[i].sensor # -1
        /\ batch[i].type = "META_DATA" => batch[i].meta # -1
===============================================================================
