------------------------------ MODULE MultiHalInit ------------------------------
(***************************************************************************)
(* How device/huawei/mozart/sensors/multihal.cpp comes to life: the lazy   *)
(* loading of the sub-HAL libraries, open_sensors, the lazy construction   *)
(* of the sensor list and of the two handle maps, and the hand-over of     *)
(* queue_mutex, which open_sensors locks and lazy_init_sensors_list        *)
(* unlocks.                                                                *)
(*                                                                         *)
(* Three kinds of threads: the one that opens and closes the HAL, the one  *)
(* that asks for the sensor list (any number of times), and one writerTask *)
(* for each opened sub-HAL, of which only the use of the mutex and of the  *)
(* device matters here (MultiHalPoll models the rest).  Nothing stops a    *)
(* writer when its context is closed.                                      *)
(***************************************************************************)
EXTENDS Integers, Sequences, Functions

CONSTANTS
    Paths,       \* the number of lines of the configuration file
    Sensors,     \* for each line, the local handles its get_sensors_list returns
    MayFail,     \* the lines whose open() may fail
    Opens        \* bound on the calls of open_sensors

ASSUME PathsAssumption == Paths \in Nat
ASSUME SensorsAssumption ==
    /\ DOMAIN Sensors = 1 .. Paths
    /\ \A m \in 1 .. Paths :   \* a sub-HAL's local handles are distinct
         /\ Sensors[m] \in Seq(Int)
         /\ \A i, j \in DOMAIN Sensors[m] : Sensors[m][i] = Sensors[m][j] => i = j
ASSUME OpenAssumption == MayFail \subseteq 1 .. Paths /\ Opens \in Nat \ {0}

Modules == 1 .. Paths
Contexts == 1 .. Opens

VARIABLES
    made,                 \* which of sub_hw_modules, sub_hw_versions and
                          \* global_sensors_list are not NULL
    sub_hw_modules,       \* the modules loaded, in the order of the file
    sub_hw_versions,      \* the modules whose version is known
    sub_hw_devices,       \* of each context, the modules it opened, in order
    global_sensors_list,  \* one record for each sensor
    full_to_global,       \* the two handle maps
    global_to_full,
    queue_mutex,          \* "free", "open" or "writer"
    writer,               \* of each context, the writerTask of each module
    opens, closed,        \* the number of contexts made, and those that were closed
    opc, oidx,            \* the opening thread, and the module it opens next
    lpc, lidx, building,  \* the listing thread, the module it reads next, its local list
    failed,               \* history: of each context, the modules whose open() failed
    early,                \* history: the list was asked for before open() returned
    crashed               \* a null dereference, an uncaught std::out_of_range, or
                          \* a call of a device that was closed

moduleVars == <<made, sub_hw_modules, sub_hw_versions>>
mapVars == <<global_sensors_list, full_to_global, global_to_full>>
openVars == <<sub_hw_devices, opens, closed, opc, oidx, failed>>
listVars == <<mapVars, lpc, lidx, building, early>>
vars == <<moduleVars, queue_mutex, writer, openVars, listVars, crashed>>

Made(pointer) == pointer \in made

Init ==
    /\ made = {}
    /\ sub_hw_modules = <<>>
    /\ sub_hw_versions = {}
    /\ sub_hw_devices = [k \in Contexts |-> <<>>]
    /\ global_sensors_list = <<>>
    /\ full_to_global = <<>>
    /\ global_to_full = <<>>
    /\ queue_mutex = "free"
    /\ writer = [k \in Contexts |-> [m \in Modules |-> "none"]]
    /\ opens = 0 /\ closed = {}
    /\ opc = "idle" /\ oidx = 1
    /\ lpc = "idle" /\ lidx = 1 /\ building = <<>>
    /\ failed = [k \in Contexts |-> {}] /\ early = FALSE
    /\ crashed = FALSE

\* The libraries that may load: some of the file's, in its order.
Loaded ==
    {s \in UNION {[1 .. n -> Modules] : n \in 0 .. Paths} :
        \A i, j \in DOMAIN s : i < j => s[i] < s[j]}

\* lazy_init_modules, under init_modules_mutex: any library may fail to load.
lazy_init_modules ==
    IF ~Made("modules")
    THEN /\ made' = made \cup {"modules"}
         /\ sub_hw_modules' \in Loaded
    ELSE UNCHANGED <<made, sub_hw_modules>>

Crash == crashed' = TRUE

-----------------------------------------------------------------------------
\* open_sensors

OpenStart ==
    /\ opc = "idle" /\ opens < Opens
    /\ lazy_init_modules
    /\ opens' = opens + 1
    /\ opc' = "locking" /\ oidx' = 1
    /\ UNCHANGED <<sub_hw_versions, sub_hw_devices, closed, failed, queue_mutex, writer, listVars, crashed>>

OpenLock ==
    /\ opc = "locking"
    /\ queue_mutex = "free"
    /\ queue_mutex' = "open"
    /\ made' = made \cup {"versions"} /\ sub_hw_versions' = {}
    /\ opc' = "opening"
    /\ UNCHANGED <<sub_hw_modules, sub_hw_devices, opens, closed, oidx, failed, writer, listVars, crashed>>

\* The thread opens the next module.
Opening == opc = "opening" /\ oidx <= Len(sub_hw_modules)
NextModule == oidx' = oidx + 1 /\ UNCHANGED <<made, sub_hw_modules, opens, closed, opc, queue_mutex, listVars, crashed>>

\* The new writer first waits for queue_mutex.
addSubHwDevice(m) ==
    /\ sub_hw_devices' = [sub_hw_devices EXCEPT ![opens] = Append(@, m)]
    /\ writer' = [writer EXCEPT ![opens][m] = "start"]

\* Mutant: the version is not remembered.
OpenModule_NoVersion ==
    /\ Opening /\ Made("versions")
    /\ addSubHwDevice(sub_hw_modules[oidx])
    /\ NextModule /\ UNCHANGED <<sub_hw_versions, failed>>

OpenModule ==
    /\ Opening /\ Made("versions")
    /\ addSubHwDevice(sub_hw_modules[oidx])
    /\ sub_hw_versions' = sub_hw_versions \cup {sub_hw_modules[oidx]}
    /\ NextModule /\ UNCHANGED failed

\* Mutant: the version is remembered although the device was not opened.
OpenModuleFails_Remember ==
    /\ Opening /\ sub_hw_modules[oidx] \in MayFail
    /\ failed' = [failed EXCEPT ![opens] = @ \cup {sub_hw_modules[oidx]}]
    /\ sub_hw_versions' = sub_hw_versions \cup {sub_hw_modules[oidx]}
    /\ NextModule /\ UNCHANGED <<sub_hw_devices, writer>>

OpenModuleFails ==
    /\ Opening /\ sub_hw_modules[oidx] \in MayFail
    /\ failed' = [failed EXCEPT ![opens] = @ \cup {sub_hw_modules[oidx]}]
    /\ NextModule /\ UNCHANGED <<sub_hw_versions, sub_hw_devices, writer>>

\* The listing thread has deleted the map this thread fills.
OpenModuleCrashes ==
    /\ Opening /\ ~Made("versions")
    /\ Crash
    /\ UNCHANGED <<moduleVars, queue_mutex, writer, openVars, listVars>>

OpenReturn ==
    /\ opc = "opening" /\ oidx > Len(sub_hw_modules)
    /\ opc' = "idle"
    /\ UNCHANGED <<moduleVars, sub_hw_devices, opens, closed, oidx, failed,
                   queue_mutex, writer, listVars, crashed>>

\* device__close: the devices are closed and the context is deleted; maps, list,
\* mutex and writers stay as they are.
device__close(k) ==
    /\ opc = "idle" /\ k \in 1 .. opens \ closed
    /\ closed' = closed \cup {k}
    /\ UNCHANGED <<moduleVars, sub_hw_devices, opens, opc, oidx, failed,
                   queue_mutex, writer, listVars, crashed>>

-----------------------------------------------------------------------------
\* module__get_sensors_list; a call that finds the list already made changes nothing.

ListStart ==
    /\ lpc = "idle"
    /\ ~Made("list")
    /\ lazy_init_modules
    /\ lpc' = "build" /\ lidx' = 1 /\ building' = <<>>
    /\ early' = (opens = 0 \/ opc # "idle")
    /\ UNCHANGED <<sub_hw_versions, openVars, mapVars, queue_mutex, writer, crashed>>

\* Mutant: the early return releases queue_mutex like the last line does.
ListAgain_Unlocks ==
    /\ lpc = "idle"
    /\ Made("list")
    /\ queue_mutex' = "free"
    /\ UNCHANGED <<moduleVars, writer, openVars, listVars, crashed>>

ListAgain ==
    /\ lpc = "idle"
    /\ Made("list")
    /\ UNCHANGED vars

\* Mutant: a module without a version is listed all the same.
VersionKnown_Any(m) == TRUE

\* sub_hw_versions->at(module), evaluated for every sensor of the module.
VersionKnown(m) == Made("versions") /\ m \in sub_hw_versions

\* Mutant: the handles start at 0.
next_global_handle_FromZero == Len(global_to_full)

next_global_handle == Len(global_to_full) + 1

\* assign_global_handle for each sensor of a module.
ListModule ==
    /\ lpc = "build" /\ lidx <= Len(sub_hw_modules)
    /\ LET m == sub_hw_modules[lidx]
           new == [i \in DOMAIN Sensors[m] |->
                     [moduleIndex |-> lidx - 1, localHandle |-> Sensors[m][i]]]
       IN  /\ new # <<>> => VersionKnown(m)
           /\ building' = building \o
                [i \in DOMAIN new |-> [full |-> new[i], handle |-> next_global_handle + i - 1]]
           /\ global_to_full' = global_to_full \o new
           /\ full_to_global' = [f \in DOMAIN full_to_global \cup {new[i] : i \in DOMAIN new} |->
                IF f \in DOMAIN full_to_global THEN full_to_global[f]
                ELSE next_global_handle - 1 + CHOOSE i \in DOMAIN new : new[i] = f]
    /\ lidx' = lidx + 1
    /\ UNCHANGED <<moduleVars, openVars, global_sensors_list, lpc, early, queue_mutex, writer, crashed>>

ListModuleCrashes ==
    /\ lpc = "build" /\ lidx <= Len(sub_hw_modules)
    /\ Sensors[sub_hw_modules[lidx]] # <<>>
    /\ ~VersionKnown(sub_hw_modules[lidx])
    /\ Crash
    /\ UNCHANGED <<moduleVars, queue_mutex, writer, openVars, listVars>>

\* Mutant: queue_mutex is not handed over.
ListReturn_KeepMutex ==
    /\ lpc = "build" /\ lidx > Len(sub_hw_modules)
    /\ global_sensors_list' = building
    /\ made' = (made \cup {"list"}) \ {"versions"} /\ sub_hw_versions' = {}
    /\ lpc' = "idle"
    /\ UNCHANGED <<sub_hw_modules, openVars, full_to_global, global_to_full, lidx, building, early, queue_mutex, writer, crashed>>

ListReturn ==
    /\ lpc = "build" /\ lidx > Len(sub_hw_modules)
    /\ global_sensors_list' = building
    /\ made' = (made \cup {"list"}) \ {"versions"} /\ sub_hw_versions' = {}
    /\ queue_mutex' = "free"
    /\ lpc' = "idle"
    /\ UNCHANGED <<sub_hw_modules, openVars, full_to_global, global_to_full, lidx, building, early, writer, crashed>>

-----------------------------------------------------------------------------
\* A writerTask's use of queue_mutex, and of its device between unlock and lock.

WriterLock(k, m) ==
    /\ writer[k][m] \in {"start", "unlocked"}
    /\ queue_mutex = "free"
    /\ queue_mutex' = "writer"
    /\ writer' = [writer EXCEPT ![k][m] = "locked"]
    /\ UNCHANGED <<moduleVars, openVars, listVars, crashed>>

WriterUnlock(k, m) ==
    /\ writer[k][m] = "locked"
    /\ queue_mutex' = "free"
    /\ writer' = [writer EXCEPT ![k][m] = "unlocked"]
    /\ UNCHANGED <<moduleVars, openVars, listVars, crashed>>

\* device->poll() of a device that was closed, which the sub-HAL may survive.
PollClosed(k, m) ==
    /\ writer[k][m] = "unlocked" /\ k \in closed
    /\ Crash
    /\ UNCHANGED <<moduleVars, queue_mutex, writer, openVars, listVars>>

OpenStep ==
    ~crashed /\ \/ OpenLock
                \/ OpenModule
                \/ OpenModuleFails
                \/ OpenModuleCrashes
                \/ OpenReturn

Framework == ~crashed /\ (OpenStart \/ \E k \in Contexts : device__close(k))

Lister ==
    ~crashed /\ \/ ListStart
                \/ ListAgain
                \/ ListModule
                \/ ListModuleCrashes
                \/ ListReturn

Writer(k, m) == ~crashed /\ (WriterLock(k, m) \/ WriterUnlock(k, m))
Stray(k, m) == ~crashed /\ PollClosed(k, m)

Next == Framework \/ OpenStep \/ Lister \/ \E k \in Contexts, m \in Modules : Writer(k, m) \/ Stray(k, m)

Spec == Init /\ [][Next]_vars

\* The framework does ask for the list, and a call of open_sensors runs on; a
\* writer that keeps asking for the mutex gets it.  Nobody needs to open a second
\* time, or to close.
FairSpec ==
    /\ Spec
    /\ WF_vars(OpenStep)
    /\ WF_vars(Lister)
    /\ \A k \in Contexts, m \in Modules : SF_vars(Writer(k, m))

-----------------------------------------------------------------------------
\* Properties

\* The latest context that has locked queue_mutex.
Latest == IF opc = "locking" THEN opens - 1 ELSE opens

TypeOK ==
    /\ made \subseteq {"modules", "versions", "list"}
    /\ sub_hw_modules \in Seq(Modules)
    /\ sub_hw_devices \in [Contexts -> Seq(Modules)]
    /\ sub_hw_versions = IF Made("versions") THEN Range(sub_hw_devices[Latest]) ELSE {}
    /\ Made("versions") => Latest \in Contexts
    /\ queue_mutex \in {"free", "open", "writer"}
    /\ writer \in [Contexts -> [Modules -> {"none", "start", "locked", "unlocked"}]]
    /\ opens \in 0 .. Opens /\ closed \subseteq 1 .. opens
    /\ opc \in {"idle", "locking", "opening"}
    /\ lpc \in {"idle", "build"}
    /\ failed \in [Contexts -> SUBSET MayFail]

(***************************************************************************)
(* The arithmetic every control call relies on: the sensor at position i   *)
(* of the list has global handle i (1-based), so `handle - 1' indexes the  *)
(* per-sensor arrays without leaving them, and the two maps are inverses,  *)
(* so an event comes back to the sensor its sub-HAL meant.                 *)
(***************************************************************************)
HandlesConsistent ==
    /\ \A i \in DOMAIN building :
         building[i].handle = i /\ global_to_full[i] = building[i].full
    /\ DOMAIN full_to_global = {global_to_full[g] : g \in DOMAIN global_to_full}
    /\ \A g \in DOMAIN global_to_full : full_to_global[global_to_full[g]] = g
    /\ Made("list") => Len(global_sensors_list) = Len(global_to_full)

\* The module whose device a context finds through a handle.
OwnerOfDevice(k, g) == sub_hw_devices[k][global_to_full[g].moduleIndex + 1]

(***************************************************************************)
(* A control call never reaches the device of another sub-HAL than the     *)
(* sensor's ("a vector parallel to sub_hw_modules").  The list is made     *)
(* once, and only that run of lazy_init_sensors_list looks for a version   *)
(* of every sub-HAL: it protects the first context, and a later one only   *)
(* if each of its sub-HALs opens.                                          *)
(***************************************************************************)
RoutedToOwner ==
    Made("list") =>
        \A k \in 1 .. opens \ closed : \A g \in DOMAIN global_to_full :
            (k = 1 \/ failed[k] = {})
            /\ global_to_full[g].moduleIndex < Len(sub_hw_devices[k]) =>
                OwnerOfDevice(k, g) = sub_hw_modules[global_to_full[g].moduleIndex + 1]

(***************************************************************************)
(* With the list asked for after open(), and every sub-HAL with sensors    *)
(* open in the first context, the version of every module is there when it *)
(* is looked up, also if the HAL is closed or opened again.  What may end  *)
(* the process then is only a writer in the poll() of a closed device.     *)
(***************************************************************************)
CrashNeedsFailedOpen ==
    crashed => \/ early
               \/ \E m \in failed[1] : Sensors[m] # <<>>
               \/ \E k \in closed, m \in Modules : writer[k][m] = "unlocked"

(***************************************************************************)
(* queue_mutex is released only by its owner of the moment: the unlock in  *)
(* lazy_init_sensors_list ends the lock of open_sensors and never a        *)
(* critical section of a writer.                                           *)
(***************************************************************************)
UnlockedByOwner ==
    [][queue_mutex = "writer" /\ queue_mutex' = "free" =>
         \E k \in Contexts, m \in Modules :
            writer[k][m] = "locked" /\ writer'[k][m] = "unlocked"]_vars

(***************************************************************************)
(* While open_sensors has queue_mutex locked for somebody else to unlock,  *)
(* the list that will do so is still to come, unless it came too early or  *)
(* the lock is that of a second open: then the early return leaves the     *)
(* mutex locked for ever, and every writer and poll() with it.  A second   *)
(* open that still waits for the lock takes nothing from the hand-over.    *)
(***************************************************************************)
UnlockIsOwed ==
    queue_mutex = "open" => ~Made("list") \/ early \/ Latest > 1

(***************************************************************************)
(* The hand-over happens: unless the list was asked for too early or the   *)
(* HAL is opened again, every writer that was started gets queue_mutex in  *)
(* the end.                                                                *)
(***************************************************************************)
WritersGetGoing ==
    \A k \in Contexts, m \in Modules :
        writer[k][m] = "start" ~> (crashed \/ early \/ opens > 1 \/ writer[k][m] = "locked")
===============================================================================
