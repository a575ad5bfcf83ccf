-------------------------- MODULE SensorManagerShim --------------------------
(***************************************************************************)
(* device/huawei/mozart/libshims/gui/SensorManager.cpp: a client-side      *)
(* cache of the sensor service's list, one for each package, that          *)
(* reconnects when the service has died.                                   *)
(*                                                                         *)
(* Every public method takes mLock and runs assertStateLocked, which pings *)
(* the service, and fetches everything anew if that fails.  A death        *)
(* observer calls sensorManagerDied from a binder thread.  The constructor *)
(* runs assertStateLocked without the lock.                                *)
(*                                                                         *)
(* The service's incarnations are numbered.  A list is known by the        *)
(* incarnation it came from, 0 being the list of no sensors that a dead    *)
(* service yields.                                                         *)
(***************************************************************************)
EXTENDS Naturals

CONSTANTS
    Callers,
    Incarnations,   \* bound on the service's starts
    Tries,          \* 60 attempts of getService
    NULL

ASSUME IncarnationsAssumption == Incarnations \in Nat \ {0}
ASSUME TriesAssumption == Tries \in Nat \ {0}
ASSUME NULLAssumption == NULL \notin Nat /\ NULL \notin Callers

VARIABLES
    \* the service and the binder driver
    alive,           \* the running incarnation, or 0
    born,            \* the latest incarnation
    registered,      \* what the service manager answers; late to notice a death
    obitsSent,       \* incarnations whose death was reported to this process
    dying,           \* observers whose binderDied is being called
    \* the SensorManager
    mLock,           \* who holds it, or NULL
    mSensorServer,   \* an incarnation, or NULL
    mSensors,        \* a list
    mSensorList,     \* the array of pointers into mSensors, or NULL
    mDeathObserver,  \* the incarnation the present observer is linked to, or 0
    \* the threads
    pc,
    constructor,     \* who runs the constructor, holding sLock, or NULL
    constructed,     \* the instance is in sPackageInstances
    tries, count,    \* locals of assertStateLocked
    ended,           \* the process has crashed or aborted
    deadBefore,      \* history: incarnations dead when the present call began
    raced            \* history: sensorManagerDied ran beside the constructor

serviceVars == <<alive, born, registered>>
deathVars == <<obitsSent, dying>>
stateVars == <<mSensorServer, mSensors, mSensorList>>
localVars == <<tries, count>>
vars == <<serviceVars, deathVars, mLock, stateVars, mDeathObserver, pc, constructor,
          constructed, localVars, ended, deadBefore, raced>>

Init ==
    /\ alive = 1 /\ born = 1 /\ registered = 1
    /\ obitsSent = {} /\ dying = {}
    /\ mLock = NULL
    /\ mSensorServer = NULL /\ mSensors = 0 /\ mSensorList = NULL
    /\ mDeathObserver = 0
    /\ pc = [c \in Callers |-> "outside"]
    /\ constructor = NULL /\ constructed = FALSE
    /\ tries = 0 /\ count = 0
    /\ ended = "no" /\ deadBefore = 0 /\ raced = FALSE

Running == ended = "no"

-----------------------------------------------------------------------------
\* The service and its observers

Die ==
    /\ alive # 0
    /\ alive' = 0
    /\ UNCHANGED <<born, registered, deathVars, mLock, stateVars, mDeathObserver, pc,
                   constructor, constructed, localVars, ended, deadBefore, raced>>

Unregister ==
    /\ registered # 0 /\ registered # alive
    /\ registered' = 0
    /\ UNCHANGED <<alive, born, deathVars, mLock, stateVars, mDeathObserver, pc,
                   constructor, constructed, localVars, ended, deadBefore, raced>>

Start ==
    /\ alive = 0 /\ born < Incarnations
    /\ born' = born + 1 /\ alive' = born + 1 /\ registered' = born + 1
    /\ UNCHANGED <<deathVars, mLock, stateVars, mDeathObserver, pc,
                   constructor, constructed, localVars, ended, deadBefore, raced>>

\* A death is reported once, to the observer that is linked then; binder holds
\* on to an observer only while it calls it.
SendObituary ==
    /\ Running
    /\ mDeathObserver \notin obitsSent \cup {0, alive}
    /\ obitsSent' = obitsSent \cup {mDeathObserver}
    /\ dying' = dying \cup {mDeathObserver}
    /\ UNCHANGED <<serviceVars, mLock, stateVars, mDeathObserver, pc,
                   constructor, constructed, localVars, ended, deadBefore, raced>>

\* Mutant: no lock.
sensorManagerDied_NoLock(n) ==
    /\ Running /\ n \in dying
    /\ dying' = dying \ {n}
    /\ mSensorServer' = NULL /\ mSensors' = 0 /\ mSensorList' = NULL
    /\ raced' = (raced \/ constructor # NULL)
    /\ UNCHANGED <<serviceVars, obitsSent, mLock, mDeathObserver, pc,
                   constructor, constructed, localVars, ended, deadBefore>>

\* Mutant: the pointer to the freed array is kept.
sensorManagerDied_KeepList(n) ==
    /\ Running /\ n \in dying
    /\ mLock = NULL
    /\ dying' = dying \ {n}
    /\ mSensorServer' = NULL /\ mSensors' = 0
    /\ raced' = (raced \/ constructor # NULL)
    /\ UNCHANGED <<serviceVars, obitsSent, mLock, mSensorList, mDeathObserver, pc,
                   constructor, constructed, localVars, ended, deadBefore>>

sensorManagerDied(n) ==
    /\ Running /\ n \in dying
    /\ mLock = NULL
    /\ dying' = dying \ {n}
    /\ mSensorServer' = NULL /\ mSensors' = 0 /\ mSensorList' = NULL
    /\ raced' = (raced \/ constructor # NULL)
    /\ UNCHANGED <<serviceVars, obitsSent, mLock, mDeathObserver, pc,
                   constructor, constructed, localVars, ended, deadBefore>>

-----------------------------------------------------------------------------
\* Calls

\* A call begins: every incarnation but the running one is dead.
Begin(c) ==
    /\ pc' = [pc EXCEPT ![c] = "ping"]
    /\ deadBefore' = IF alive = 0 THEN born ELSE born - 1
    /\ UNCHANGED <<serviceVars, deathVars, stateVars, mDeathObserver, constructed, localVars, ended, raced>>

\* getInstanceForPackage of a package without an instance.
Construct(c) ==
    /\ Running /\ pc[c] = "outside" /\ ~constructed /\ constructor = NULL
    /\ constructor' = c
    /\ Begin(c)
    /\ UNCHANGED mLock

GetInstance(c) ==
    /\ Running /\ pc[c] = "outside" /\ constructed
    /\ pc' = [pc EXCEPT ![c] = "idle"]
    /\ UNCHANGED <<serviceVars, deathVars, mLock, stateVars, mDeathObserver,
                   constructor, constructed, localVars, ended, deadBefore, raced>>

\* A public method.
Call(c) ==
    /\ Running /\ pc[c] = "idle" /\ mLock = NULL
    /\ mLock' = c
    /\ Begin(c)
    /\ UNCHANGED constructor

\* Steps of assertStateLocked.
Step(c, from, to) == Running /\ pc[c] = from /\ pc' = [pc EXCEPT ![c] = to]
Elsewhere == UNCHANGED <<serviceVars, deathVars, mLock, constructor, constructed, deadBefore, raced>>

\* Mutant: a server that was found once is taken to be alive.
PingAlive_Always(c) ==
    /\ Step(c, "ping", "done")
    /\ mSensorServer # NULL
    /\ Elsewhere /\ UNCHANGED <<stateVars, mDeathObserver, localVars, ended>>

PingAlive(c) ==
    /\ Step(c, "ping", "done")
    /\ mSensorServer # NULL /\ mSensorServer = alive
    /\ Elsewhere /\ UNCHANGED <<stateVars, mDeathObserver, localVars, ended>>

PingDead(c) ==
    /\ Step(c, "ping", "get")
    /\ mSensorServer = NULL \/ mSensorServer # alive
    /\ tries' = 0
    /\ Elsewhere /\ UNCHANGED <<stateVars, mDeathObserver, count, ended>>

GetService(c) ==
    /\ Step(c, "get", "link")
    /\ tries < Tries /\ registered # 0
    /\ mSensorServer' = registered
    /\ Elsewhere /\ UNCHANGED <<mSensors, mSensorList, mDeathObserver, localVars, ended>>

\* Mutant: the attempts are not counted.
GetServiceFails_NoLimit(c) ==
    /\ Running /\ pc[c] = "get" /\ tries < Tries /\ registered = 0
    /\ mSensorServer' = NULL
    /\ Elsewhere /\ UNCHANGED <<mSensors, mSensorList, mDeathObserver, pc, tries, count, ended>>

\* NAME_NOT_FOUND after five seconds; another second's sleep, and again.  getService
\* returns no other error.
GetServiceFails(c) ==
    /\ Running /\ pc[c] = "get" /\ tries < Tries /\ registered = 0
    /\ mSensorServer' = NULL
    /\ tries' = tries + 1
    /\ Elsewhere /\ UNCHANGED <<mSensors, mSensorList, mDeathObserver, pc, count, ended>>

\* LOG_ALWAYS_FATAL after the last attempt.
GiveUp(c) ==
    /\ Running /\ pc[c] = "get" /\ tries = Tries
    /\ ended' = "aborted"
    /\ Elsewhere /\ UNCHANGED <<stateVars, mDeathObserver, pc, localVars>>

\* A new observer replaces the old one; linkToDeath fails, unnoticed, if the
\* death was already reported.
LinkToDeath(c) ==
    /\ Step(c, "link", "fetch")
    /\ mSensorServer # NULL
    /\ mDeathObserver' = IF mSensorServer \in obitsSent THEN 0 ELSE mSensorServer
    /\ Elsewhere /\ UNCHANGED <<stateVars, localVars, ended>>

\* A dead service's reply is empty, and so is that of a transaction that fails
\* (SensorServiceCalls): the proxy does not tell them from an empty list.
FetchList(c) ==
    /\ Step(c, "fetch", "alloc")
    /\ mSensorServer # NULL
    /\ mSensors' \in IF mSensorServer = alive THEN {mSensorServer, 0} ELSE {0}
    /\ count' = mSensors'
    /\ Elsewhere /\ UNCHANGED <<mSensorServer, mSensorList, mDeathObserver, tries, ended>>

\* malloc for `count' pointers; the array that was there is not freed.
AllocList(c) ==
    /\ Step(c, "alloc", "fill")
    /\ mSensorList' = count
    /\ Elsewhere /\ UNCHANGED <<mSensorServer, mSensors, mDeathObserver, localVars, ended>>

FillList(c) ==
    /\ Step(c, "fill", "done")
    /\ count = 0 \/ mSensorList # NULL
    /\ Elsewhere /\ UNCHANGED <<stateVars, mDeathObserver, localVars, ended>>

\* A null pointer is dereferenced, or a check for one aborts.
Crash(c) ==
    /\ Running
    /\ \/ pc[c] \in {"link", "fetch"} /\ mSensorServer = NULL
       \/ pc[c] = "fill" /\ mSensorList = NULL
    /\ ended' = "crashed"
    /\ Elsewhere /\ UNCHANGED <<stateVars, mDeathObserver, pc, localVars>>

\* Mutant: the lock is kept.
Return_KeepLock(c) ==
    /\ Step(c, "done", "idle")
    /\ UNCHANGED mLock
    /\ constructor' = IF constructor = c THEN NULL ELSE constructor
    /\ constructed' = TRUE
    /\ UNCHANGED <<serviceVars, deathVars, stateVars, mDeathObserver, localVars, ended, deadBefore, raced>>

\* The method uses the list or the server and releases mLock, or the constructor
\* returns and the instance is known.
Return(c) ==
    /\ Step(c, "done", "idle")
    /\ mLock' = IF mLock = c THEN NULL ELSE mLock
    /\ constructor' = IF constructor = c THEN NULL ELSE constructor
    /\ constructed' = TRUE
    /\ UNCHANGED <<serviceVars, deathVars, stateVars, mDeathObserver, localVars, ended, deadBefore, raced>>

Assert(c) ==
    \/ PingAlive(c) \/ PingDead(c)
    \/ GetService(c) \/ GetServiceFails(c) \/ GiveUp(c)
    \/ LinkToDeath(c) \/ FetchList(c) \/ AllocList(c) \/ FillList(c) \/ Crash(c)

Caller(c) == Construct(c) \/ GetInstance(c) \/ Call(c) \/ Assert(c) \/ Return(c)

Service == Die \/ Unregister \/ Start
Observer == SendObituary \/ \E n \in 1 .. Incarnations : sensorManagerDied(n)

Next == Service \/ Observer \/ \E c \in Callers : Caller(c)

Spec == Init /\ [][Next]_vars

\* A thread inside a method runs on; the service may stay away for ever.
FairSpec ==
    Spec /\ \A c \in Callers : WF_vars(Assert(c) \/ Return(c))

-----------------------------------------------------------------------------
\* Properties

Lists == 0 .. Incarnations
Asserting == {"ping", "get", "link", "fetch", "alloc", "fill", "done"}

\* One thread at most is inside assertStateLocked.
TypeOK ==
    /\ alive \in 0 .. born /\ born \in 1 .. Incarnations /\ registered \in 0 .. born
    /\ obitsSent \subseteq 1 .. born /\ dying \subseteq obitsSent
    /\ mLock \in Callers \cup {NULL} /\ constructor \in Callers \cup {NULL}
    /\ mSensorServer \in (1 .. born) \cup {NULL}
    /\ mSensors \in Lists /\ mSensorList \in Lists \cup {NULL}
    /\ mDeathObserver \in 0 .. born
    /\ pc \in [Callers -> {"outside", "idle"} \cup Asserting]
    /\ \A c \in Callers : pc[c] \in Asserting <=> c \in {mLock, constructor}
    /\ mLock = NULL \/ constructor = NULL
    /\ constructed \in BOOLEAN
    /\ tries \in 0 .. Tries /\ count \in Lists
    /\ ended \in {"no", "crashed", "aborted"}
    /\ deadBefore \in 0 .. born
    /\ raced \in BOOLEAN

(***************************************************************************)
(* Whenever a method may take the lock, server, list and array are of one  *)
(* piece: all there, from the same incarnation or empty, or all cleared.   *)
(* The one exception is a death that was observed during construction.     *)
(***************************************************************************)
OnePiece ==
    constructed /\ mLock = NULL /\ ~raced =>
        IF mSensorServer = NULL
        THEN mSensorList = NULL /\ mSensors = 0
        ELSE mSensorList = mSensors /\ mSensors \in {0, mSensorServer}

(***************************************************************************)
(* Nothing is dereferenced while the observer clears it, but for a death   *)
(* that is observed during construction.                                   *)
(***************************************************************************)
CrashNeedsRace == ended = "crashed" => raced

(***************************************************************************)
(* A method never works on the sensors of a service that was dead before   *)
(* it was called: ping and getService see to that, even if no observer     *)
(* was told and the service manager still answers with the dead service.   *)
(***************************************************************************)
FreshList ==
    \A c \in Callers :
        pc[c] = "done" /\ ~raced => mSensors = 0 \/ mSensors > deadBefore

(***************************************************************************)
(* A method comes back, or the process gives up on the service: "try for   *)
(* 300 seconds ... before giving up".                                      *)
(***************************************************************************)
CallsReturn == \A c \in Callers : pc[c] \in Asserting ~> (pc[c] = "idle" \/ ended # "no")

(***************************************************************************)
(* What the comment in the constructor says: "okay we're not locked here,  *)
(* but it's not needed during construction".                               *)
(***************************************************************************)
LockNotNeeded == ended # "crashed"
===============================================================================
