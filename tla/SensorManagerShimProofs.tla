------------------------ MODULE SensorManagerShimProofs ------------------------
(***************************************************************************)
(* Proofs about SensorManagerShim for any number of threads, of starts of  *)
(* the service and of attempts to reach it.                                *)
(***************************************************************************)
EXTENDS SensorManagerShim, TLAPS

\* TypeOK, in two parts: who is inside assertStateLocked, and the data.
Inside ==
    /\ mLock \in Callers \cup {NULL} /\ constructor \in Callers \cup {NULL}
    /\ pc \in [Callers -> {"outside", "idle"} \cup Asserting]
    /\ \A c \in Callers : pc[c] \in Asserting <=> c \in {mLock, constructor}
    /\ mLock = NULL \/ constructor = NULL

Data ==
    /\ alive \in 0 .. born /\ born \in 1 .. Incarnations /\ registered \in 0 .. born
    /\ obitsSent \subseteq 1 .. born /\ dying \subseteq obitsSent
    /\ mSensorServer \in (1 .. born) \cup {NULL}
    /\ mSensors \in Lists /\ mSensorList \in Lists \cup {NULL}
    /\ mDeathObserver \in 0 .. born
    /\ constructed \in BOOLEAN
    /\ tries \in 0 .. Tries /\ count \in Lists
    /\ ended \in {"no", "crashed", "aborted"}
    /\ deadBefore \in 0 .. born
    /\ raced \in BOOLEAN

\* Nobody takes the lock before the constructor is through.
ConstructedFirst ==
    /\ constructor # NULL => ~constructed
    /\ mLock # NULL => constructed
    /\ \A c \in Callers : pc[c] = "idle" => constructed

\* The running service is younger than any that was dead when the call began.
AliveIsLatest == alive # 0 => alive = born /\ deadBefore < alive

\* Server, list and array belong together.
Piece ==
    IF mSensorServer = NULL
    THEN mSensorList = NULL /\ mSensors = 0
    ELSE mSensorList = mSensors /\ mSensors \in {0, mSensorServer}

\* What has been put together again at each step of assertStateLocked.
Stage(c) ==
    /\ pc[c] = "ping" => Piece
    /\ pc[c] \in {"link", "fetch", "alloc", "fill", "done"} => mSensorServer # NULL
    /\ pc[c] \in {"alloc", "fill", "done"} =>
         mSensors \in {0, mSensorServer} /\ (mSensors = 0 \/ deadBefore < mSensors)
    /\ pc[c] \in {"alloc", "fill"} => count = mSensors
    /\ pc[c] \in {"fill", "done"} => mSensorList = mSensors

Stages ==
    ~raced => /\ \A c \in Callers : Stage(c)
              /\ mLock = NULL /\ constructor = NULL => Piece
              /\ ended # "crashed"

IInv == Inside /\ Data /\ ConstructedFirst /\ AliveIsLatest /\ Stages

LEMMA TypeParts == TypeOK <=> Inside /\ Data
  BY DEF TypeOK, Inside, Data

LEMMA InitIInv == Init => IInv
<1> SUFFICES ASSUME Init PROVE IInv
  OBVIOUS
<1>1. Inside
  BY NULLAssumption DEF Init, Inside, Asserting
<1>2. 0 \in Lists /\ 0 \in 0 .. Tries /\ 1 \in 1 .. Incarnations
  BY IncarnationsAssumption, TriesAssumption DEF Lists
<1>3. Data
  <2>1. alive \in 0 .. born /\ born \in 1 .. Incarnations /\ registered \in 0 .. born
    BY <1>2 DEF Init
  <2>2. obitsSent \subseteq 1 .. born /\ dying \subseteq obitsSent
    BY DEF Init
  <2>3. /\ mSensorServer \in (1 .. born) \cup {NULL}
        /\ mSensors \in Lists /\ mSensorList \in Lists \cup {NULL}
        /\ mDeathObserver \in 0 .. born
    BY <1>2 DEF Init
  <2>4. tries \in 0 .. Tries /\ count \in Lists /\ deadBefore \in 0 .. born
    BY <1>2 DEF Init
  <2>5. constructed \in BOOLEAN /\ raced \in BOOLEAN /\ ended \in {"no", "crashed", "aborted"}
    BY Zenon DEF Init
  <2> QED BY <2>1, <2>2, <2>3, <2>4, <2>5 DEF Data
<1>4. ConstructedFirst /\ AliveIsLatest /\ Stages
  BY DEF Init, ConstructedFirst, AliveIsLatest, Stages, Stage, Piece
<1> QED BY <1>1, <1>3, <1>4 DEF IInv

\* No two threads are inside assertStateLocked.
LEMMA OneInside ==
    ASSUME Inside, NEW c \in Callers, NEW d \in Callers,
           pc[c] \in Asserting, pc[d] \in Asserting
    PROVE  c = d
  BY NULLAssumption DEF Inside

-----------------------------------------------------------------------------
\* The service

\* The service's life does not touch the process.
LEMMA ServiceInv == IInv /\ Service => IInv'
<1> SUFFICES ASSUME IInv, Service PROVE IInv'
  OBVIOUS
<1> USE DEF IInv
<1>1. UNCHANGED <<deathVars, mLock, stateVars, mDeathObserver, pc,
                  constructor, constructed, localVars, ended, deadBefore, raced>>
  BY DEF Service, Die, Unregister, Start
<1>2. /\ born' \in born .. Incarnations /\ born' \in Nat
      /\ alive' \in 0 .. born' /\ registered' \in 0 .. born'
      /\ alive' # 0 => alive' = born' /\ deadBefore < alive'
  BY IncarnationsAssumption DEF Service, Die, Unregister, Start, Data, AliveIsLatest
<1>3. Data'
  BY <1>1, <1>2 DEF Data, deathVars, stateVars, localVars, Lists
<1>4. Inside' /\ ConstructedFirst' /\ Stages'
  BY <1>1 DEF Inside, ConstructedFirst, Stages, Stage, Piece, stateVars, localVars
<1>5. AliveIsLatest'
  BY <1>1, <1>2 DEF AliveIsLatest
<1> QED BY <1>3, <1>4, <1>5

LEMMA SendObituaryInv == IInv /\ SendObituary => IInv'
<1> SUFFICES ASSUME IInv, SendObituary PROVE IInv'
  OBVIOUS
<1> USE DEF IInv, SendObituary, serviceVars, stateVars, localVars
<1>1. mDeathObserver \in 1 .. born
  BY DEF Data
<1>2. Data'
  BY <1>1 DEF Data
<1> QED BY <1>2 DEF Inside, ConstructedFirst, AliveIsLatest, Stages, Stage, Piece

\* The observer clears everything, and only while nobody is inside, or it races.
LEMMA SensorManagerDiedInv ==
    ASSUME IInv, NEW n \in 1 .. Incarnations, sensorManagerDied(n) PROVE IInv'
<1> USE DEF IInv, sensorManagerDied, serviceVars, localVars
<1>1. Data'
  BY IncarnationsAssumption DEF Data, Lists
<1>2. Inside' /\ ConstructedFirst' /\ AliveIsLatest'
  BY DEF Inside, ConstructedFirst, AliveIsLatest
<1>3. Stages'
  <2> SUFFICES ASSUME ~raced' PROVE Stages'
    BY DEF Stages
  <2>1. mLock = NULL /\ constructor = NULL /\ ~raced
    OBVIOUS
  <2>2. \A c \in Callers : pc'[c] \notin Asserting
    BY <2>1, NULLAssumption DEF Inside
  <2>3. Piece' /\ ended' # "crashed"
    BY <2>1 DEF Piece, Stages
  <2> QED BY <2>2, <2>3 DEF Stages, Stage, Asserting
<1> QED BY <1>1, <1>2, <1>3

-----------------------------------------------------------------------------
\* Threads

\* A call finds everything in one piece and nobody inside.
LEMMA BeginInv ==
    ASSUME IInv, NEW c \in Callers, Begin(c), mLock = NULL, constructor = NULL,
           \/ mLock' = c /\ constructor' = NULL /\ constructed
           \/ mLock' = NULL /\ constructor' = c /\ ~constructed
    PROVE  IInv'
<1> USE DEF IInv, Begin, serviceVars, deathVars, stateVars, localVars
<1>1. \A d \in Callers : pc[d] \notin Asserting
  BY NULLAssumption DEF Inside
<1>2. pc' = [pc EXCEPT ![c] = "ping"] /\ "ping" \in Asserting
  BY DEF Asserting
<1>3. Inside'
  BY <1>1, <1>2, NULLAssumption DEF Inside
<1>4. Data'
  BY DEF Data
<1>5. ConstructedFirst'
  BY <1>2 DEF Inside, ConstructedFirst
<1>6. AliveIsLatest'
  BY DEF AliveIsLatest, Data
<1>7. Stages'
  <2> SUFFICES ASSUME ~raced' PROVE Stages'
    BY DEF Stages
  <2>1. Piece' /\ ended' # "crashed"
    BY DEF Stages, Piece
  <2>2. \A d \in Callers : d # c => pc'[d] \notin Asserting
    BY <1>1, <1>2 DEF Inside
  <2>3. pc'[c] = "ping"
    BY <1>2 DEF Inside
  <2>4. ASSUME NEW d \in Callers PROVE Stage(d)'
    BY <2>1, <2>2, <2>3 DEF Stage, Asserting
  <2>5. ~(mLock' = NULL /\ constructor' = NULL)
    BY NULLAssumption
  <2> QED BY <2>1, <2>4, <2>5 DEF Stages
<1> QED BY <1>3, <1>4, <1>5, <1>6, <1>7

LEMMA ConstructInv == ASSUME IInv, NEW c \in Callers, Construct(c) PROVE IInv'
<1>1. mLock = NULL /\ mLock' = NULL /\ constructor = NULL /\ constructor' = c /\ ~constructed
  BY DEF IInv, ConstructedFirst, Construct
<1> QED BY <1>1, BeginInv DEF Construct

LEMMA CallInv == ASSUME IInv, NEW c \in Callers, Call(c) PROVE IInv'
<1>1. mLock = NULL /\ mLock' = c /\ constructor = NULL /\ constructor' = NULL /\ constructed
  BY DEF IInv, ConstructedFirst, Call
<1> QED BY <1>1, BeginInv DEF Call

LEMMA GetInstanceInv == ASSUME IInv, NEW c \in Callers, GetInstance(c) PROVE IInv'
<1> USE DEF IInv, GetInstance, serviceVars, deathVars, stateVars, localVars
<1>1. pc' = [pc EXCEPT ![c] = "idle"] /\ pc[c] = "outside" /\ constructed
  OBVIOUS
<1>2. \A d \in Callers : pc'[d] # pc[d] => pc'[d] = "idle" /\ pc[d] = "outside"
  BY <1>1 DEF Inside
<1>3. Inside'
  BY <1>1, <1>2 DEF Inside, Asserting
<1>4. Data' /\ AliveIsLatest'
  BY DEF Data, AliveIsLatest
<1>5. ConstructedFirst'
  BY <1>1 DEF ConstructedFirst
<1>6. Stages'
  BY <1>2 DEF Stages, Stage, Piece
<1> QED BY <1>3, <1>4, <1>5, <1>6

\* A method that is through leaves everything in one piece.
LEMMA ReturnInv == ASSUME IInv, NEW c \in Callers, Return(c) PROVE IInv'
<1> USE DEF IInv, Return, Step, serviceVars, deathVars, stateVars, localVars
<1>1. pc' = [pc EXCEPT ![c] = "idle"] /\ pc[c] = "done" /\ "done" \in Asserting /\ "idle" \notin Asserting
  BY DEF Asserting
<1>2. mLock' = NULL /\ constructor' = NULL /\ constructed'
  BY <1>1, NULLAssumption DEF Inside
<1>3. \A d \in Callers : d # c => pc[d] \notin Asserting /\ pc'[d] = pc[d]
  BY <1>1, OneInside DEF Inside
<1>4. pc'[c] = "idle"
  BY <1>1 DEF Inside
<1>5. Inside'
  BY <1>1, <1>2, <1>3, <1>4, NULLAssumption DEF Inside
<1>6. Data'
  BY <1>2 DEF Data
<1>7. ConstructedFirst' /\ AliveIsLatest'
  BY <1>2 DEF ConstructedFirst, AliveIsLatest
<1>8. Stages'
  <2> SUFFICES ASSUME ~raced' PROVE Stages'
    BY DEF Stages
  <2>1. Stage(c) /\ ended' # "crashed"
    BY DEF Stages
  <2>2. Piece'
    BY <2>1, <1>1 DEF Stage, Piece
  <2>3. \A d \in Callers : pc'[d] \notin Asserting
    BY <1>1, <1>3, <1>4
  <2> QED BY <2>1, <2>2, <2>3 DEF Stages, Stage, Asserting
<1> QED BY <1>5, <1>6, <1>7, <1>8

\* A step of assertStateLocked: only the thread that takes it is inside, so
\* what it is about to find is all there is to show.
LEMMA AssertInv ==
    ASSUME IInv, NEW c \in Callers, Elsewhere, pc[c] \in Asserting, Data',
           NEW to \in Asserting, pc' = [pc EXCEPT ![c] = to],
           ~raced => Stage(c)' /\ ended' # "crashed"
    PROVE  IInv'
<1> USE DEF IInv, Elsewhere, serviceVars, deathVars
<1>1. pc'[c] = to /\ \A d \in Callers : d # c => pc'[d] = pc[d]
  BY DEF Inside
<1>2. "idle" \notin Asserting
  BY DEF Asserting
<1>3. Inside'
  BY <1>1 DEF Inside
<1>4. ConstructedFirst' /\ AliveIsLatest'
  BY <1>1, <1>2 DEF ConstructedFirst, AliveIsLatest
<1>5. Stages'
  <2>1. \A d \in Callers : d # c => pc'[d] \notin Asserting
    BY <1>1, OneInside
  <2>2. ~(mLock' = NULL /\ constructor' = NULL)
    BY NULLAssumption DEF Inside
  <2>3. ASSUME ~raced', NEW d \in Callers PROVE Stage(d)'
    BY <2>1, <2>3 DEF Stage, Asserting
  <2> QED BY <2>2, <2>3 DEF Stages
<1> QED BY <1>3, <1>4, <1>5
-----------------------------------------------------------------------------
\* The steps

\* Where a step leads.
LEMMA StepPc ==
    ASSUME IInv, NEW c \in Callers, NEW from \in Asserting, NEW to \in Asserting, Step(c, from, to)
    PROVE  pc[c] = from /\ pc'[c] = to /\ pc' = [pc EXCEPT ![c] = to] /\ ended = "no"
  BY DEF IInv, Inside, Step, Running

LEMMA StayPc ==
    ASSUME IInv, NEW c \in Callers, UNCHANGED pc
    PROVE  pc' = [pc EXCEPT ![c] = pc[c]] /\ pc'[c] = pc[c]
  BY DEF IInv, Inside

\* A server that answers is the latest, so its list is fresh.
LEMMA PingAliveInv == ASSUME IInv, NEW c \in Callers, PingAlive(c) PROVE IInv'
<1>1. {"ping", "done"} \subseteq Asserting
  BY DEF Asserting
<1>2. pc[c] = "ping" /\ pc'[c] = "done" /\ pc' = [pc EXCEPT ![c] = "done"] /\ ended = "no"
  BY <1>1, StepPc DEF PingAlive
<1>3. Data'
  BY DEF IInv, Data, PingAlive, Elsewhere, serviceVars, deathVars, stateVars, localVars
<1>4. ASSUME ~raced PROVE Stage(c)' /\ ended' # "crashed"
  <2>1. Piece /\ mSensorServer # NULL /\ mSensorServer = alive
    BY <1>2, <1>4 DEF IInv, Stages, Stage, PingAlive
  <2>2. alive # 0 /\ deadBefore < alive
    BY <2>1 DEF IInv, Data, AliveIsLatest
  <2> QED BY <1>2, <2>1, <2>2 DEF PingAlive, Elsewhere, Piece, Stage, stateVars
<1> QED BY <1>1, <1>2, <1>3, <1>4, AssertInv DEF PingAlive

LEMMA PingDeadInv == ASSUME IInv, NEW c \in Callers, PingDead(c) PROVE IInv'
<1>1. {"ping", "get"} \subseteq Asserting
  BY DEF Asserting
<1>2. pc[c] = "ping" /\ pc'[c] = "get" /\ pc' = [pc EXCEPT ![c] = "get"] /\ ended = "no"
  BY <1>1, StepPc DEF PingDead
<1>3. Data'
  BY TriesAssumption DEF IInv, Data, PingDead, Elsewhere, serviceVars, deathVars, stateVars
<1>4. Stage(c)' /\ ended' # "crashed"
  BY <1>2 DEF PingDead, Stage
<1> QED BY <1>1, <1>2, <1>3, <1>4, AssertInv DEF PingDead

LEMMA GetServiceInv == ASSUME IInv, NEW c \in Callers, GetService(c) PROVE IInv'
<1>1. {"get", "link"} \subseteq Asserting
  BY DEF Asserting
<1>2. pc[c] = "get" /\ pc'[c] = "link" /\ pc' = [pc EXCEPT ![c] = "link"] /\ ended = "no"
  BY <1>1, StepPc DEF GetService
<1>3. mSensorServer' = registered /\ registered \in 1 .. born
  BY DEF IInv, Data, GetService
<1>4. Data'
  BY <1>3 DEF IInv, Data, GetService, Elsewhere, serviceVars, deathVars, localVars
<1>5. mSensorServer' # NULL
  BY <1>3, NULLAssumption
<1>6. Stage(c)' /\ ended' # "crashed"
  BY <1>2, <1>5 DEF GetService, Stage
<1> QED BY <1>1, <1>2, <1>4, <1>6, AssertInv DEF GetService

\* No service: the attempt is counted, the last one ends the process.
LEMMA NoServiceInv ==
    ASSUME IInv, NEW c \in Callers, GetServiceFails(c) \/ GiveUp(c) PROVE IInv'
<1> USE DEF GetServiceFails, GiveUp
<1>1. pc[c] = "get" /\ "get" \in Asserting /\ UNCHANGED pc
  BY DEF Asserting
<1>2. pc' = [pc EXCEPT ![c] = pc[c]] /\ pc'[c] = "get"
  BY <1>1, StayPc
<1>3. tries' \in 0 .. Tries
  BY TriesAssumption DEF IInv, Data, localVars
<1>4. ended' \in {"no", "aborted"}
  BY DEF Running
<1>5. Data'
  BY <1>3, <1>4 DEF IInv, Data, Elsewhere, serviceVars, deathVars, stateVars, localVars
<1>6. Stage(c)' /\ ended' # "crashed"
  BY <1>2, <1>4 DEF Stage
<1> QED BY <1>1, <1>2, <1>5, <1>6, AssertInv

LEMMA LinkToDeathInv == ASSUME IInv, NEW c \in Callers, LinkToDeath(c) PROVE IInv'
<1>1. {"link", "fetch"} \subseteq Asserting
  BY DEF Asserting
<1>2. pc[c] = "link" /\ pc'[c] = "fetch" /\ pc' = [pc EXCEPT ![c] = "fetch"] /\ ended = "no"
  BY <1>1, StepPc DEF LinkToDeath
<1>3. mDeathObserver' \in 0 .. born
  BY DEF IInv, Data, LinkToDeath
<1>4. Data'
  BY <1>3 DEF IInv, Data, LinkToDeath, Elsewhere, serviceVars, deathVars, stateVars, localVars
<1>5. Stage(c)' /\ ended' # "crashed"
  BY <1>2 DEF LinkToDeath, Stage, stateVars
<1> QED BY <1>1, <1>2, <1>4, <1>5, AssertInv DEF LinkToDeath

\* Only a service that is alive sends a list.
LEMMA FetchListInv == ASSUME IInv, NEW c \in Callers, FetchList(c) PROVE IInv'
<1>1. {"fetch", "alloc"} \subseteq Asserting
  BY DEF Asserting
<1>2. pc[c] = "fetch" /\ pc'[c] = "alloc" /\ pc' = [pc EXCEPT ![c] = "alloc"] /\ ended = "no"
  BY <1>1, StepPc DEF FetchList
<1>3. /\ mSensorServer \in 1 .. born /\ mSensorServer' = mSensorServer
      /\ mSensors' \in {mSensorServer, 0} /\ (mSensors' # 0 => mSensorServer = alive)
      /\ count' = mSensors'
  BY DEF IInv, Data, FetchList
<1>4. mSensors' \in Lists
  BY <1>3, IncarnationsAssumption DEF IInv, Data, Lists
<1>5. Data'
  BY <1>3, <1>4 DEF IInv, Data, FetchList, Elsewhere, serviceVars, deathVars
<1>6. mSensorServer = alive => deadBefore < mSensorServer
  BY <1>3 DEF IInv, Data, AliveIsLatest
<1>7. mSensorServer' # NULL
  BY <1>3, NULLAssumption
<1>8. Stage(c)' /\ ended' # "crashed"
  BY <1>2, <1>3, <1>6, <1>7 DEF FetchList, Elsewhere, Stage
<1> QED BY <1>1, <1>2, <1>5, <1>8, AssertInv DEF FetchList

LEMMA AllocListInv == ASSUME IInv, NEW c \in Callers, AllocList(c) PROVE IInv'
<1>1. {"alloc", "fill"} \subseteq Asserting
  BY DEF Asserting
<1>2. pc[c] = "alloc" /\ pc'[c] = "fill" /\ pc' = [pc EXCEPT ![c] = "fill"] /\ ended = "no"
  BY <1>1, StepPc DEF AllocList
<1>3. Data'
  BY DEF IInv, Data, AllocList, Elsewhere, serviceVars, deathVars, localVars
<1>4. ASSUME ~raced PROVE Stage(c)' /\ ended' # "crashed"
  BY <1>2, <1>4 DEF IInv, Stages, Stage, AllocList, Elsewhere, localVars
<1> QED BY <1>1, <1>2, <1>3, <1>4, AssertInv DEF AllocList

LEMMA FillListInv == ASSUME IInv, NEW c \in Callers, FillList(c) PROVE IInv'
<1>1. {"fill", "done"} \subseteq Asserting
  BY DEF Asserting
<1>2. pc[c] = "fill" /\ pc'[c] = "done" /\ pc' = [pc EXCEPT ![c] = "done"] /\ ended = "no"
  BY <1>1, StepPc DEF FillList
<1>3. Data'
  BY DEF IInv, Data, FillList, Elsewhere, serviceVars, deathVars, stateVars, localVars
<1>4. ASSUME ~raced PROVE Stage(c)' /\ ended' # "crashed"
  BY <1>2, <1>4 DEF IInv, Stages, Stage, FillList, Elsewhere, stateVars
<1> QED BY <1>1, <1>2, <1>3, <1>4, AssertInv DEF FillList

\* What was put together is there when it is used, unless the observer raced.
LEMMA CrashInv == ASSUME IInv, NEW c \in Callers, Crash(c) PROVE IInv'
<1>1. pc[c] \in {"link", "fetch", "fill"} /\ pc[c] \in Asserting /\ UNCHANGED pc
  BY DEF Crash, Asserting
<1>2. pc' = [pc EXCEPT ![c] = pc[c]] /\ pc'[c] = pc[c]
  BY <1>1, StayPc
<1>3. Data'
  BY DEF IInv, Data, Crash, Elsewhere, serviceVars, deathVars, stateVars, localVars
<1>4. ASSUME ~raced PROVE FALSE
  <2>1. Stage(c)
    BY <1>4 DEF IInv, Stages
  <2>2. mSensors # NULL
    BY NULLAssumption, IncarnationsAssumption DEF IInv, Data, Lists
  <2> QED BY <2>1, <2>2 DEF Crash, Stage
<1> QED BY <1>1, <1>2, <1>3, <1>4, AssertInv DEF Crash

-----------------------------------------------------------------------------
\* The theorems

LEMMA NextIInv == IInv /\ [Next]_vars => IInv'
<1> SUFFICES ASSUME IInv, [Next]_vars PROVE IInv'
  OBVIOUS
<1>1. CASE Service
  BY <1>1, ServiceInv
<1>2. CASE Observer
  BY <1>2, SendObituaryInv, SensorManagerDiedInv DEF Observer
<1>3. ASSUME NEW c \in Callers, Caller(c) PROVE IInv'
  <2>1. CASE Construct(c) \/ GetInstance(c) \/ Call(c) \/ Return(c)
    BY <2>1, ConstructInv, GetInstanceInv, CallInv, ReturnInv
  <2>2. CASE Assert(c)
    BY <2>2, PingAliveInv, PingDeadInv, GetServiceInv, NoServiceInv, LinkToDeathInv, FetchListInv,
       AllocListInv, FillListInv, CrashInv DEF Assert
  <2> QED BY <1>3, <2>1, <2>2 DEF Caller
<1>4. CASE UNCHANGED vars
  BY <1>4 DEF IInv, Inside, Data, ConstructedFirst, AliveIsLatest, Stages, Stage, Piece, vars,
     serviceVars, deathVars, stateVars, localVars
<1> QED BY <1>1, <1>2, <1>3, <1>4 DEF Next

LEMMA Invariance == Spec => []IInv
  BY InitIInv, NextIInv, PTL DEF Spec

(***************************************************************************)
(* mLock and sLock keep all threads but one out of assertStateLocked, and  *)
(* the state stays in its types.                                           *)
(***************************************************************************)
THEOREM TypeCorrect == Spec => []TypeOK
<1>1. IInv => TypeOK
  BY TypeParts DEF IInv
<1> QED BY <1>1, Invariance, PTL

(***************************************************************************)
(* Server, list and array change together (assertStateLocked,              *)
(* sensorManagerDied), if no death is observed during construction.        *)
(***************************************************************************)
THEOREM StateInOnePiece == Spec => []OnePiece
<1>1. IInv => OnePiece
  BY DEF IInv, ConstructedFirst, Stages, Piece, OnePiece
<1> QED BY <1>1, Invariance, PTL

(***************************************************************************)
(* assertStateLocked dereferences a null pointer only if the observer ran  *)
(* beside the constructor.                                                 *)
(***************************************************************************)
THEOREM NoCrashWithoutRace == Spec => []CrashNeedsRace
<1>1. IInv => CrashNeedsRace
  BY DEF IInv, Stages, CrashNeedsRace
<1> QED BY <1>1, Invariance, PTL

(***************************************************************************)
(* A method never works on the list of a service that died before the call *)
(* (assertStateLocked's ping).                                             *)
(***************************************************************************)
THEOREM ListIsFresh == Spec => []FreshList
<1>1. IInv => FreshList
  BY DEF IInv, Data, Lists, Stages, Stage, FreshList
<1> QED BY <1>1, Invariance, PTL
===============================================================================
