--------------------------- MODULE MultiHalInitProofs ---------------------------
(***************************************************************************)
(* Proofs about MultiHalInit for every configuration file and any number   *)
(* of contexts: the two handle maps, the hand-over of queue_mutex and what *)
(* must have happened before the process can crash.                        *)
(*                                                                         *)
(* The inductive invariant IInv follows the story of the first open and    *)
(* the only run of lazy_init_sensors_list: until the list is made, the     *)
(* lock that the first open_sensors takes keeps every writer and every     *)
(* later open_sensors waiting, so the versions in place are those of the   *)
(* first context.                                                          *)
(***************************************************************************)
EXTENDS MultiHalInit, SequenceTheorems, TLAPS

FullHandle == [moduleIndex : Nat, localHandle : Int]

\* Types that TypeOK leaves out, and what there is before its time.
Types ==
    /\ oidx \in Nat \ {0}
    /\ lidx \in Nat \ {0}
    /\ early \in BOOLEAN
    /\ opc # "idle" => opens \in Contexts
    /\ opens # 0 \/ lpc = "build" => Made("modules")
    /\ \A k \in Contexts : k > Latest => sub_hw_devices[k] = <<>>

\* The map t takes each element of s to its position.
InverseOf(t, s) ==
    /\ DOMAIN t = {s[g] : g \in DOMAIN s}
    /\ \A g \in DOMAIN s : t[s[g]] = g

\* What ListModule makes of the map t of s when it appends n.
Grown(t, s, n) ==
    [f \in DOMAIN t \cup {n[i] : i \in DOMAIN n} |->
        IF f \in DOMAIN t THEN t[f] ELSE Len(s) + CHOOSE i \in DOMAIN n : n[i] = f]

\* The handle maps while they grow, and the list that is made of them.
Handles ==
    /\ global_to_full \in Seq(FullHandle)
    /\ building \in Seq([full : FullHandle, handle : Nat])
    /\ Len(building) = Len(global_to_full)
    /\ \A i \in DOMAIN building :
         building[i].handle = i /\ building[i].full = global_to_full[i]
    /\ InverseOf(full_to_global, global_to_full)
    /\ lpc = "build" =>
         /\ ~Made("list")
         /\ \A g \in DOMAIN global_to_full : global_to_full[g].moduleIndex < lidx - 1
    /\ lpc = "idle" /\ ~Made("list") => global_to_full = <<>>
    /\ Made("list") => global_sensors_list = building

\* The first open_sensors has queue_mutex once it has passed the lock.
FirstLocked == opens > 1 \/ (opens = 1 /\ opc # "locking")

\* Who waits for whom until the list is made.
BeforeList ==
    ~Made("list") =>
        /\ queue_mutex = (IF FirstLocked THEN "open" ELSE "free")
        /\ FirstLocked <=> Made("versions")
        /\ opens > 1 => opens = 2 /\ opc = "locking"
        /\ \A k \in Contexts, m \in Modules :
             writer[k][m] \in (IF FirstLocked THEN {"none", "start"} ELSE {"none"})

\* A list that is not asked for too early finds the first context opened.
InTime ==
    /\ (lpc = "build" \/ Made("list")) /\ ~early =>
         opens # 0 /\ (opens = 1 => opc = "idle")
    /\ opc = "opening" /\ ~Made("versions") => early

\* The first call of open_sensors has dealt with the module at position j.
Handled(j) ==
    \/ sub_hw_modules[j] \in Range(sub_hw_devices[1])
    \/ sub_hw_modules[j] \in failed[1]

FirstContext ==
    /\ opens = 1 /\ opc = "opening" =>
         \A j \in DOMAIN sub_hw_modules : j < oidx => Handled(j)
    /\ opens = 1 /\ opc = "locking" => oidx = 1
    /\ opens > 1 \/ (opens = 1 /\ opc = "idle") =>
         \A j \in DOMAIN sub_hw_modules : Handled(j)

IInv ==
    /\ TypeOK
    /\ Types
    /\ Handles
    /\ BeforeList
    /\ InTime
    /\ FirstContext
    /\ UnlockIsOwed
    /\ CrashNeedsFailedOpen

-----------------------------------------------------------------------------
\* What the operators do

LEMMA RangeAppend ==
    ASSUME NEW S, NEW s \in Seq(S), NEW e \in S
    PROVE  /\ Range(Append(s, e)) = Range(s) \cup {e}
           /\ Append(s, e) \in Seq(S)
<1>1. /\ Append(s, e) \in Seq(S)
      /\ Len(s) \in Nat /\ DOMAIN s = 1 .. Len(s)
      /\ DOMAIN Append(s, e) = 1 .. Len(s) + 1
      /\ \A i \in 1 .. Len(s) : Append(s, e)[i] = s[i]
      /\ Append(s, e)[Len(s) + 1] = e
  OBVIOUS
<1>2. \A x \in Range(s) : x \in Range(Append(s, e))
  <2> TAKE x \in Range(s)
  <2>1. PICK i \in 1 .. Len(s) : x = s[i]
    BY <1>1 DEF Range
  <2> QED
    BY <1>1, <2>1 DEF Range
<1>3. e \in Range(Append(s, e))
  BY <1>1 DEF Range
<1>4. \A x \in Range(Append(s, e)) : x \in Range(s) \/ x = e
  <2> TAKE x \in Range(Append(s, e))
  <2>1. PICK i \in 1 .. Len(s) + 1 : x = Append(s, e)[i]
    BY <1>1 DEF Range
  <2> QED
    BY <1>1, <2>1 DEF Range
<1> QED
  BY <1>1, <1>2, <1>3, <1>4

LEMMA RangeEmpty == Range(<<>>) = {}
  BY DEF Range

\* Loading the libraries makes the list of modules, once, and nothing else.
LEMMA Loading ==
    ASSUME TypeOK, lazy_init_modules
    PROVE  /\ made' = made \cup {"modules"}
           /\ sub_hw_modules' \in Seq(Modules)
           /\ Made("modules") => sub_hw_modules' = sub_hw_modules
<1>1. CASE Made("modules")
  BY <1>1 DEF lazy_init_modules, Made, TypeOK
<1>2. CASE ~Made("modules")
  <2>1. Loaded \subseteq Seq(Modules)
    BY PathsAssumption DEF Loaded
  <2> QED
    BY <1>2, <2>1 DEF lazy_init_modules
<1> QED
  BY <1>1, <1>2

\* A step by name.
LEMMA Step ==
    ASSUME [Next]_vars
    PROVE  \/ OpenStart \/ OpenLock \/ OpenModule \/ OpenModuleFails \/ OpenModuleCrashes
           \/ OpenReturn \/ (\E k \in Contexts : device__close(k))
           \/ ListStart \/ ListModule \/ ListModuleCrashes \/ ListReturn
           \/ (\E k \in Contexts, m \in Modules : WriterLock(k, m))
           \/ (\E k \in Contexts, m \in Modules : WriterUnlock(k, m))
           \/ (\E k \in Contexts, m \in Modules : PollClosed(k, m))
           \/ UNCHANGED vars
  BY Zenon DEF Next, Framework, OpenStep, Lister, Writer, Stray, ListAgain

\* The initial state.
LEMMA InitInv == Init => IInv
<1> SUFFICES ASSUME Init PROVE IInv
  OBVIOUS
<1>1. TypeOK
  <2>1. /\ sub_hw_modules \in Seq(Modules)
        /\ sub_hw_devices \in [Contexts -> Seq(Modules)]
        /\ writer \in [Contexts -> [Modules -> {"none", "start", "locked", "unlocked"}]]
        /\ failed \in [Contexts -> SUBSET MayFail]
    BY DEF Init
  <2>2. opens \in 0 .. Opens /\ closed \subseteq 1 .. opens
    BY OpenAssumption DEF Init
  <2> QED
    BY <2>1, <2>2 DEF Init, TypeOK, Made
<1>0. Types
  <2>1. \A k \in Contexts : sub_hw_devices[k] = <<>>
    BY DEF Init
  <2>2. early \in BOOLEAN
    BY Zenon DEF Init
  <2>3. oidx \in Nat \ {0} /\ lidx \in Nat \ {0}
    BY DEF Init
  <2>4. opc = "idle" /\ opens = 0 /\ lpc = "idle"
    BY DEF Init
  <2> QED
    BY <2>1, <2>2, <2>3, <2>4 DEF Types
<1>2. Handles
  BY DEF Init, Handles, InverseOf, Made
<1>3. BeforeList
  BY DEF Init, BeforeList, FirstLocked, Made
<1>4. InTime /\ FirstContext /\ UnlockIsOwed /\ CrashNeedsFailedOpen
  BY DEF Init, InTime, FirstContext, UnlockIsOwed, CrashNeedsFailedOpen, Made
<1> QED
  BY <1>0, <1>1, <1>2, <1>3, <1>4 DEF IInv

-----------------------------------------------------------------------------
\* Types

LEMMA TypesStep ==
    ASSUME IInv, [Next]_vars
    PROVE  Types'
<1>0. lazy_init_modules =>
        /\ made' = made \cup {"modules"}
        /\ sub_hw_modules' \in Seq(Modules)
  BY Loading DEF IInv
<1> USE OpenAssumption
<1> USE DEF IInv, TypeOK, Types, Made, Latest, Contexts
<1>1. CASE OpenStart
  <2>1. /\ made' = made \cup {"modules"}
        /\ opens' = opens + 1 /\ opens' \in Contexts
        /\ opc = "idle" /\ opc' = "locking" /\ oidx' = 1
    BY <1>0, <1>1 DEF OpenStart
  <2> QED
    BY <1>1, <2>1 DEF OpenStart, listVars
<1>2. CASE OpenLock
  BY <1>2 DEF OpenLock, listVars
<1>3. CASE OpenModule
  <2>1. /\ opens \in Contexts /\ opens' = opens /\ opc' = opc
        /\ sub_hw_devices' = [sub_hw_devices EXCEPT ![opens] = Append(@, sub_hw_modules[oidx])]
    BY <1>3 DEF OpenModule, Opening, NextModule, addSubHwDevice
  <2>2. \A k \in Contexts : k > opens => sub_hw_devices'[k] = sub_hw_devices[k]
    BY <2>1
  <2> QED
    BY <1>3, <2>1, <2>2 DEF OpenModule, Opening, NextModule, listVars
<1>4. CASE OpenModuleFails
  BY <1>4 DEF OpenModuleFails, Opening, NextModule, listVars
<1>5. CASE OpenModuleCrashes
  BY <1>5 DEF OpenModuleCrashes, openVars, listVars, moduleVars
<1>6. CASE OpenReturn
  BY <1>6 DEF OpenReturn, listVars, moduleVars
<1>7. CASE \E k \in Contexts : device__close(k)
  BY <1>7 DEF device__close, listVars, moduleVars
<1>8. CASE ListStart
  <2>1. early' \in BOOLEAN
    BY <1>8, Zenon DEF ListStart
  <2>2. UNCHANGED <<opc, oidx, opens, sub_hw_devices>> /\ lidx' = 1 /\ lpc' = "build"
    BY <1>8 DEF ListStart, openVars
  <2>3. made' = made \cup {"modules"}
    BY <1>0, <1>8 DEF ListStart
  <2> QED
    BY <2>1, <2>2, <2>3
<1>9. CASE ListModule
  <2>1. /\ lidx' = lidx + 1 /\ lpc' = lpc
        /\ UNCHANGED <<moduleVars, openVars, early>>
    BY <1>9 DEF ListModule
  <2> QED
    BY <2>1 DEF openVars, moduleVars
<1>10. CASE ListModuleCrashes
  BY <1>10 DEF ListModuleCrashes, openVars, listVars, moduleVars
<1>11. CASE ListReturn
  BY <1>11 DEF ListReturn, openVars
<1>12. CASE \E k \in Contexts, m \in Modules : WriterLock(k, m)
  BY <1>12 DEF WriterLock, openVars, listVars, moduleVars
<1>13. CASE \E k \in Contexts, m \in Modules : WriterUnlock(k, m)
  BY <1>13 DEF WriterUnlock, openVars, listVars, moduleVars
<1>14. CASE \E k \in Contexts, m \in Modules : PollClosed(k, m)
  BY <1>14 DEF PollClosed, openVars, listVars, moduleVars
<1>15. CASE UNCHANGED vars
  BY <1>15 DEF vars, openVars, listVars, moduleVars
<1> QED
  BY <1>1, <1>2, <1>3, <1>4, <1>5, <1>6, <1>7, <1>8, <1>9, <1>10, <1>11, <1>12, <1>13,
     <1>14, <1>15, Step

LEMMA TypeStep ==
    ASSUME IInv, [Next]_vars
    PROVE  TypeOK'
<1>0. lazy_init_modules =>
        /\ made' = made \cup {"modules"}
        /\ sub_hw_modules' \in Seq(Modules)
  BY Loading DEF IInv
<1> USE OpenAssumption
<1> USE DEF IInv, TypeOK, Types, Made, Latest, Contexts
<1>1. CASE OpenStart
  <2>1. /\ made' = made \cup {"modules"}
        /\ sub_hw_modules' \in Seq(Modules)
        /\ opens' = opens + 1 /\ opens' \in Contexts
        /\ opc = "idle" /\ opc' = "locking"
    BY <1>0, <1>1 DEF OpenStart
  <2>2. UNCHANGED <<sub_hw_versions, sub_hw_devices, closed, failed, queue_mutex, writer, lpc>>
    BY <1>1 DEF OpenStart, listVars
  <2>3. opens' \in 0 .. Opens /\ closed \subseteq 1 .. opens'
    BY <2>1
  <2>4. Latest' = Latest /\ (Made("versions")' <=> Made("versions"))
    BY <2>1
  <2>5. sub_hw_versions' = IF Made("versions")' THEN Range(sub_hw_devices'[Latest']) ELSE {}
    BY <2>2, <2>4
  <2> QED
    BY <2>1, <2>2, <2>3, <2>4, <2>5
<1>2. CASE OpenLock
  <2>1. opens \in Contexts /\ sub_hw_devices[opens] = <<>> /\ Latest' = opens
    BY <1>2 DEF OpenLock
  <2> QED
    BY <1>2, <2>1, RangeEmpty DEF OpenLock, listVars
<1>3. CASE OpenModule
  <2> DEFINE m == sub_hw_modules[oidx]
  <2>1. /\ opens \in Contexts /\ m \in Modules /\ Made("versions")
        /\ sub_hw_devices[opens] \in Seq(Modules)
        /\ Latest = opens /\ Latest' = opens
    BY <1>3 DEF OpenModule, Opening, NextModule
  <2>2. /\ sub_hw_devices' = [sub_hw_devices EXCEPT ![opens] = Append(sub_hw_devices[opens], m)]
        /\ writer' = [writer EXCEPT ![opens] = [writer[opens] EXCEPT ![m] = "start"]]
        /\ sub_hw_versions' = sub_hw_versions \cup {m}
    BY <1>3, <2>1 DEF OpenModule, addSubHwDevice
  <2>3. Append(sub_hw_devices[opens], m) \in Seq(Modules)
    BY <2>1, RangeAppend
  <2>4. sub_hw_devices' \in [Contexts -> Seq(Modules)]
    BY <2>1, <2>2, <2>3
  <2>5. sub_hw_versions' = Range(sub_hw_devices'[opens])
    BY <2>1, <2>2, RangeAppend
  <2>6. writer' \in [Contexts -> [Modules -> {"none", "start", "locked", "unlocked"}]]
    BY <2>1, <2>2
  <2>7. /\ UNCHANGED <<made, sub_hw_modules, opens, closed, opc, queue_mutex, lpc, failed>>
    BY <1>3 DEF OpenModule, NextModule, listVars
  <2> QED
    BY <2>1, <2>4, <2>5, <2>6, <2>7
<1>4. CASE OpenModuleFails
  <2>1. /\ opens \in Contexts /\ sub_hw_modules[oidx] \in MayFail
        /\ failed' = [failed EXCEPT ![opens] = failed[opens] \cup {sub_hw_modules[oidx]}]
    BY <1>4 DEF OpenModuleFails, Opening
  <2>2. failed' \in [Contexts -> SUBSET MayFail]
    BY <2>1
  <2> QED
    BY <1>4, <2>2 DEF OpenModuleFails, NextModule, listVars
<1>5. CASE OpenModuleCrashes
  BY <1>5 DEF OpenModuleCrashes, openVars, listVars, moduleVars
<1>6. CASE OpenReturn
  BY <1>6 DEF OpenReturn, listVars, moduleVars
<1>7. CASE \E k \in Contexts : device__close(k)
  BY <1>7 DEF device__close, listVars, moduleVars
<1>8. CASE ListStart
  BY <1>0, <1>8 DEF ListStart, openVars
<1>9. CASE ListModule
  BY <1>9 DEF ListModule, openVars, moduleVars
<1>10. CASE ListModuleCrashes
  BY <1>10 DEF ListModuleCrashes, openVars, listVars, moduleVars
<1>11. CASE ListReturn
  BY <1>11 DEF ListReturn, openVars
<1>12. CASE \E k \in Contexts, m \in Modules : WriterLock(k, m)
  <2>1. PICK k \in Contexts, m \in Modules : WriterLock(k, m)
    BY <1>12
  <2>2. writer' = [writer EXCEPT ![k] = [writer[k] EXCEPT ![m] = "locked"]]
    BY <2>1 DEF WriterLock
  <2>3. writer' \in [Contexts -> [Modules -> {"none", "start", "locked", "unlocked"}]]
    BY <2>2
  <2> QED
    BY <2>1, <2>3 DEF WriterLock, openVars, listVars, moduleVars
<1>13. CASE \E k \in Contexts, m \in Modules : WriterUnlock(k, m)
  <2>1. PICK k \in Contexts, m \in Modules : WriterUnlock(k, m)
    BY <1>13
  <2>2. writer' = [writer EXCEPT ![k] = [writer[k] EXCEPT ![m] = "unlocked"]]
    BY <2>1 DEF WriterUnlock
  <2>3. writer' \in [Contexts -> [Modules -> {"none", "start", "locked", "unlocked"}]]
    BY <2>2
  <2> QED
    BY <2>1, <2>3 DEF WriterUnlock, openVars, listVars, moduleVars
<1>14. CASE \E k \in Contexts, m \in Modules : PollClosed(k, m)
  BY <1>14 DEF PollClosed, openVars, listVars, moduleVars
<1>15. CASE UNCHANGED vars
  BY <1>15 DEF vars, openVars, listVars, moduleVars
<1> QED
  BY <1>1, <1>2, <1>3, <1>4, <1>5, <1>6, <1>7, <1>8, <1>9, <1>10, <1>11, <1>12, <1>13,
     <1>14, <1>15, Step

-----------------------------------------------------------------------------
\* The handle maps

\* The arithmetic of ListModule: new full handles, none of them known, are
\* appended, and the map the other way gets their positions.
LEMMA Grow ==
    ASSUME NEW S, NEW s \in Seq(S), NEW n \in Seq(S), NEW t,
           InverseOf(t, s),
           \A i \in DOMAIN n : n[i] \notin DOMAIN t,
           \A i, j \in DOMAIN n : n[i] = n[j] => i = j
    PROVE  InverseOf(Grown(t, s, n), s \o n)
<1> USE DEF InverseOf
<1> DEFINE c == s \o n
           t2 == [f \in DOMAIN t \cup {n[i] : i \in DOMAIN n} |->
                    IF f \in DOMAIN t THEN t[f]
                    ELSE Len(s) + CHOOSE i \in DOMAIN n : n[i] = f]
<1>0. /\ t2 = Grown(t, s, n)
      /\ DOMAIN t2 = DOMAIN t \cup {n[i] : i \in DOMAIN n}
      /\ \A f \in DOMAIN t2 :
           t2[f] = IF f \in DOMAIN t THEN t[f]
                   ELSE Len(s) + CHOOSE i \in DOMAIN n : n[i] = f
  BY DEF Grown
<1>1. /\ c \in Seq(S) /\ Len(s) \in Nat /\ Len(n) \in Nat
      /\ DOMAIN c = 1 .. Len(s) + Len(n)
      /\ DOMAIN s = 1 .. Len(s) /\ DOMAIN n = 1 .. Len(n)
      /\ \A g \in 1 .. Len(s) : c[g] = s[g]
      /\ \A i \in 1 .. Len(n) : c[Len(s) + i] = n[i]
  OBVIOUS
<1>2. \A g \in DOMAIN c : g \in DOMAIN s \/ \E i \in DOMAIN n : g = Len(s) + i
  <2> TAKE g \in DOMAIN c
  <2>1. CASE g <= Len(s)
    BY <1>1, <2>1
  <2>2. CASE g > Len(s)
    <3>1. g - Len(s) \in DOMAIN n /\ g = Len(s) + (g - Len(s))
      BY <1>1, <2>2
    <3> QED
      BY <3>1
  <2> QED
    BY <1>1, <2>1, <2>2
<1> HIDE DEF c, t2
<1>3. \A g \in DOMAIN s : g \in DOMAIN c /\ c[g] \in DOMAIN t2 /\ t2[c[g]] = g
  <2> TAKE g \in DOMAIN s
  <2>1. g \in DOMAIN c /\ c[g] = s[g] /\ s[g] \in DOMAIN t
    BY <1>1
  <2> QED
    BY <1>0, <2>1
<1>4. \A i \in DOMAIN n :
        /\ Len(s) + i \in DOMAIN c
        /\ c[Len(s) + i] \in DOMAIN t2
        /\ t2[c[Len(s) + i]] = Len(s) + i
  <2> TAKE i \in DOMAIN n
  <2>1. Len(s) + i \in DOMAIN c /\ c[Len(s) + i] = n[i]
    BY <1>1
  <2>2. (CHOOSE j \in DOMAIN n : n[j] = n[i]) = i
    <3>1. \A j \in DOMAIN n : n[j] = n[i] <=> j = i
      OBVIOUS
    <3> QED
      BY <3>1
  <2>3. n[i] \in DOMAIN t2 /\ t2[n[i]] = Len(s) + CHOOSE j \in DOMAIN n : n[j] = n[i]
    BY <1>0
  <2> QED
    BY <2>1, <2>2, <2>3
<1>5. \A g \in DOMAIN c : c[g] \in DOMAIN t2 /\ t2[c[g]] = g
  <2> TAKE g \in DOMAIN c
  <2>1. CASE g \in DOMAIN s
    BY <1>3, <2>1
  <2>2. CASE g \notin DOMAIN s
    <3>1. PICK i \in DOMAIN n : g = Len(s) + i
      BY <1>2, <2>2, Zenon
    <3> QED
      BY <1>4, <3>1
  <2> QED
    BY <2>1, <2>2
<1>6. \A f \in DOMAIN t2 : \E g \in DOMAIN c : f = c[g]
  <2> TAKE f \in DOMAIN t2
  <2>1. CASE f \in DOMAIN t
    <3>1. PICK g \in DOMAIN s : f = s[g]
      BY <2>1
    <3> QED
      BY <1>1, <1>3, <3>1
  <2>2. CASE f \notin DOMAIN t
    <3>1. PICK i \in DOMAIN n : f = n[i]
      BY <1>0, <2>2
    <3> QED
      BY <1>1, <1>4, <3>1
  <2> QED
    BY <2>1, <2>2
<1>7. DOMAIN t2 = {c[g] : g \in DOMAIN c}
  <2>1. \A f : f \in DOMAIN t2 => f \in {c[g] : g \in DOMAIN c}
    BY <1>6, Zenon
  <2>2. \A f : f \in {c[g] : g \in DOMAIN c} => f \in DOMAIN t2
    <3> TAKE f
    <3> HAVE f \in {c[g] : g \in DOMAIN c}
    <3>1. PICK g \in DOMAIN c : f = c[g]
      OBVIOUS
    <3> QED
      BY <1>5, <3>1
  <2> QED
    BY <2>1, <2>2, Zenon
<1> QED
  BY <1>0, <1>5, <1>7 DEF c

LEMMA ListModuleHandles ==
    ASSUME IInv, ListModule
    PROVE  Handles'
<1> DEFINE m == sub_hw_modules[lidx]
           new == [i \in DOMAIN Sensors[m] |->
                     [moduleIndex |-> lidx - 1, localHandle |-> Sensors[m][i]]]
           added == [i \in DOMAIN new |->
                       [full |-> new[i], handle |-> next_global_handle + i - 1]]
<1>1. /\ lidx \in Nat \ {0} /\ m \in 1 .. Paths
      /\ Sensors[m] \in Seq(Int)
      /\ \A i, j \in DOMAIN Sensors[m] : Sensors[m][i] = Sensors[m][j] => i = j
  <2>1. lidx \in Nat \ {0} /\ sub_hw_modules \in Seq(1 .. Paths) /\ lidx <= Len(sub_hw_modules)
    BY DEF IInv, TypeOK, Types, ListModule, Modules
  <2>2. m \in 1 .. Paths
    <3>1. lidx \in 1 .. Len(sub_hw_modules)
      BY <2>1
    <3>2. \A T, s, i : s \in Seq(T) /\ i \in 1 .. Len(s) => s[i] \in T
      OBVIOUS
    <3> QED
      BY <2>1, <3>1, <3>2
  <2> HIDE DEF m
  <2> QED
    BY <2>1, <2>2, SensorsAssumption
<1> HIDE DEF m
<1>2. /\ new \in Seq(FullHandle)
      /\ DOMAIN new = 1 .. Len(new) /\ Len(new) \in Nat
      /\ \A i \in DOMAIN new : new[i].moduleIndex = lidx - 1
      /\ \A i, j \in DOMAIN new : new[i] = new[j] => i = j
  <2>1. /\ DOMAIN new = 1 .. Len(Sensors[m]) /\ Len(Sensors[m]) \in Nat
        /\ DOMAIN Sensors[m] = 1 .. Len(Sensors[m])
    BY <1>1
  <2>2. \A i \in DOMAIN new : new[i] = [moduleIndex |-> lidx - 1, localHandle |-> Sensors[m][i]]
    OBVIOUS
  <2>3. \A i \in DOMAIN new : Sensors[m][i] \in Int /\ lidx - 1 \in Nat
    BY <1>1, <2>1
  <2>4. new = [i \in 1 .. Len(Sensors[m]) |-> new[i]]
    BY <2>1
  <2> HIDE DEF new
  <2>5. \A i \in DOMAIN new : new[i] \in FullHandle
    BY <2>2, <2>3 DEF FullHandle
  <2>6. new \in Seq(FullHandle) /\ Len(new) = Len(Sensors[m])
    <3>1. new \in [1 .. Len(Sensors[m]) -> FullHandle]
      BY <2>1, <2>4, <2>5, Zenon
    <3>2. new \in Seq(FullHandle)
      BY <2>1, <3>1
    <3> QED
      BY <2>1, <3>2
  <2>7. \A i, j \in DOMAIN new : new[i] = new[j] => Sensors[m][i] = Sensors[m][j]
    <3> TAKE i, j \in DOMAIN new
    <3>1. new[i].localHandle = Sensors[m][i] /\ new[j].localHandle = Sensors[m][j]
      BY <2>2
    <3> QED
      BY <3>1
  <2>8. \A i \in DOMAIN new : new[i].moduleIndex = lidx - 1
    BY <2>2
  <2>9. \A i, j \in DOMAIN new : new[i] = new[j] => i = j
    BY <1>1, <2>1, <2>7
  <2> QED
    BY <2>1, <2>6, <2>8, <2>9, Zenon
<1>3. /\ global_to_full \in Seq(FullHandle)
      /\ building \in Seq([full : FullHandle, handle : Nat])
      /\ Len(building) = Len(global_to_full)
      /\ \A i \in DOMAIN building :
           building[i].handle = i /\ building[i].full = global_to_full[i]
      /\ InverseOf(full_to_global, global_to_full)
      /\ lpc = "build" /\ ~Made("list")
      /\ \A g \in DOMAIN global_to_full : global_to_full[g].moduleIndex < lidx - 1
  BY DEF IInv, Handles, ListModule
<1>4. /\ building' = building \o added
      /\ global_to_full' = global_to_full \o new
      /\ full_to_global' = [f \in DOMAIN full_to_global \cup {new[i] : i \in DOMAIN new} |->
           IF f \in DOMAIN full_to_global THEN full_to_global[f]
           ELSE next_global_handle - 1 + CHOOSE i \in DOMAIN new : new[i] = f]
      /\ lidx' = lidx + 1 /\ lpc' = lpc /\ made' = made
  BY DEF ListModule, moduleVars, m
<1>5. \A i \in DOMAIN new : new[i] \notin DOMAIN full_to_global
  BY <1>1, <1>2, <1>3 DEF InverseOf
<1>6. next_global_handle = Len(global_to_full) + 1 /\ Len(global_to_full) \in Nat
  BY <1>3 DEF next_global_handle
<1>7. /\ added \in Seq([full : FullHandle, handle : Nat])
      /\ Len(added) = Len(new)
      /\ \A i \in 1 .. Len(new) : added[i].handle = Len(building) + i /\ added[i].full = new[i]
  <2> HIDE DEF new
  <2>2. \A i \in 1 .. Len(new) :
          /\ next_global_handle + i - 1 = Len(building) + i
          /\ Len(building) + i \in Nat
    BY <1>2, <1>3, <1>6
  <2>3. \A i \in 1 .. Len(new) : new[i] \in FullHandle
    BY <1>2
  <2>4. DOMAIN added = 1 .. Len(new)
        /\ \A i \in 1 .. Len(new) : added[i] = [full |-> new[i], handle |-> Len(building) + i]
    BY <1>2, <2>2
  <2>5. added = [i \in 1 .. Len(new) |-> added[i]]
    BY <2>4
  <2> HIDE DEF added
  <2>6. \A i \in 1 .. Len(new) : added[i] \in [full : FullHandle, handle : Nat]
    BY <2>2, <2>3, <2>4
  <2> QED
    BY <1>2, <2>4, <2>5, <2>6
<1> HIDE DEF new, added
<1>13. global_to_full \in Seq(FullHandle) /\ new \in Seq(FullHandle)
  BY <1>2, <1>3
<1>8. /\ global_to_full' \in Seq(FullHandle)
      /\ building' \in Seq([full : FullHandle, handle : Nat])
      /\ Len(building') = Len(global_to_full')
  <2>1. /\ global_to_full \o new \in Seq(FullHandle)
        /\ Len(global_to_full \o new) = Len(global_to_full) + Len(new)
    BY <1>13, ConcatProperties, Zenon
  <2>2. /\ building \o added \in Seq([full : FullHandle, handle : Nat])
        /\ Len(building \o added) = Len(building) + Len(added)
    <3> DEFINE R == [full : FullHandle, handle : Nat]
    <3>1. building \in Seq(R) /\ added \in Seq(R)
      BY <1>3, <1>7
    <3> HIDE DEF R
    <3>2. building \o added \in Seq(R) /\ Len(building \o added) = Len(building) + Len(added)
      BY <3>1, ConcatProperties, Zenon
    <3> QED
      BY <3>2 DEF R
  <2> QED
    BY <1>3, <1>4, <1>7, <2>1, <2>2
<1>9. \A i \in DOMAIN building' :
        building'[i].handle = i /\ building'[i].full = global_to_full'[i]
  <2> TAKE i \in DOMAIN building'
  <2>0. i \in 1 .. Len(building) + Len(new) /\ Len(building) \in Nat /\ Len(new) \in Nat
    BY <1>2, <1>3, <1>4, <1>7
  <2>1. CASE i <= Len(building)
    <3>1. i \in DOMAIN building /\ building'[i] = building[i] /\ global_to_full'[i] = global_to_full[i]
      BY <1>2, <1>3, <1>4, <1>7, <2>0, <2>1
    <3> QED
      BY <1>3, <3>1
  <2>2. CASE i > Len(building)
    <3> DEFINE d == i - Len(building)
    <3>1. d \in 1 .. Len(new) /\ i = Len(building) + d
      BY <2>0, <2>2
    <3>2. building'[i] = added[d] /\ global_to_full'[i] = new[d]
      BY <1>2, <1>3, <1>4, <1>7, <2>0, <3>1
    <3> QED
      BY <1>7, <3>1, <3>2
  <2> QED
    BY <2>0, <2>1, <2>2
<1>10. InverseOf(full_to_global', global_to_full')
  <2>1. full_to_global' = Grown(full_to_global, global_to_full, new)
    <3>1. next_global_handle - 1 = Len(global_to_full)
      BY <1>6
    <3> QED
      BY <1>4, <3>1 DEF Grown
  <2>2. \A i, j \in DOMAIN new : new[i] = new[j] => i = j
    BY <1>2, Zenon
  <2>3. InverseOf(Grown(full_to_global, global_to_full, new), global_to_full \o new)
    BY <1>3, <1>5, <1>13, <2>2, Grow, Zenon
  <2> QED
    BY <1>4, <2>1, <2>3
<1>11. \A g \in DOMAIN global_to_full' : global_to_full'[g].moduleIndex < lidx' - 1
  <2> TAKE g \in DOMAIN global_to_full'
  <2>0. g \in 1 .. Len(global_to_full) + Len(new) /\ Len(new) \in Nat
    BY <1>2, <1>3, <1>4
  <2>1. CASE g <= Len(global_to_full)
    <3>1. g \in DOMAIN global_to_full /\ global_to_full'[g] = global_to_full[g]
      BY <1>2, <1>3, <1>4, <1>6, <2>0, <2>1
    <3>2. global_to_full[g].moduleIndex \in Nat
      <4>1. global_to_full[g] \in FullHandle
        BY <1>3, <3>1
      <4> QED
        BY <4>1 DEF FullHandle
    <3> QED
      BY <1>1, <1>3, <1>4, <3>1, <3>2
  <2>2. CASE g > Len(global_to_full)
    <3> DEFINE d == g - Len(global_to_full)
    <3>1. d \in DOMAIN new /\ global_to_full'[g] = new[d]
      BY <1>2, <1>3, <1>4, <1>6, <2>0, <2>2
    <3> QED
      BY <1>1, <1>2, <1>4, <3>1
  <2> QED
    BY <1>6, <2>0, <2>1, <2>2
<1> QED
  <2>1. (InverseOf(full_to_global, global_to_full))'
    BY <1>10 DEF InverseOf
  <2> QED
    BY <1>3, <1>4, <1>8, <1>9, <1>11, <2>1 DEF Handles, Made

LEMMA HandlesStep ==
    ASSUME IInv, [Next]_vars
    PROVE  Handles'
<1>0. Handles
  BY DEF IInv
<1>1. CASE ListModule
  BY <1>1, ListModuleHandles
<1>2. CASE ListStart
  <2>1. UNCHANGED <<global_to_full, full_to_global, global_sensors_list>>
    BY <1>2 DEF ListStart, mapVars
  <2>2. /\ global_to_full = <<>> /\ building' = <<>> /\ lpc' = "build" /\ lidx' = 1
        /\ ~Made("list")
    BY <1>0, <1>2 DEF ListStart, Handles
  <2>3. ~Made("list")'
    BY <1>2, <2>2, Loading DEF ListStart, Made, IInv
  <2> QED
    BY <1>0, <2>1, <2>2, <2>3 DEF Handles, InverseOf
<1>3. CASE ListReturn
  <2>1. UNCHANGED <<global_to_full, full_to_global, building>>
    BY <1>3 DEF ListReturn
  <2>2. global_sensors_list' = building /\ lpc' = "idle" /\ Made("list")'
    BY <1>3 DEF ListReturn, Made
  <2> QED
    BY <1>0, <2>1, <2>2 DEF Handles, InverseOf
<1>4. CASE UNCHANGED listVars /\ (Made("list")' <=> Made("list"))
  BY <1>0, <1>4 DEF Handles, InverseOf, listVars, mapVars
<1>5. CASE OpenStart
  BY <1>4, <1>5, Loading DEF OpenStart, Made, IInv
<1>6. OpenLock \/ OpenModule \/ OpenModuleFails \/ OpenModuleCrashes \/ OpenReturn
        => UNCHANGED listVars /\ (Made("list")' <=> Made("list"))
  BY DEF OpenLock, OpenModule, OpenModuleFails, OpenModuleCrashes, OpenReturn, NextModule,
         moduleVars, Made
<1>7. (\E k \in Contexts : device__close(k)) \/ ListModuleCrashes
        => UNCHANGED listVars /\ (Made("list")' <=> Made("list"))
  BY DEF device__close, ListModuleCrashes, moduleVars, Made
<1>8. (\E k \in Contexts, m \in Modules : WriterLock(k, m) \/ WriterUnlock(k, m) \/ PollClosed(k, m))
      \/ UNCHANGED vars
        => UNCHANGED listVars /\ (Made("list")' <=> Made("list"))
  BY DEF WriterLock, WriterUnlock, PollClosed, vars, moduleVars, Made
<1> QED
  BY <1>1, <1>2, <1>3, <1>4, <1>5, <1>6, <1>7, <1>8, Step

-----------------------------------------------------------------------------
\* The hand-over of queue_mutex

LEMMA BeforeListStep ==
    ASSUME IInv, [Next]_vars
    PROVE  BeforeList'
<1>0. SUFFICES ASSUME ~Made("list")' PROVE BeforeList'
  BY DEF BeforeList
<1>1. /\ TypeOK /\ Types
      /\ ~Made("list") =>
           /\ queue_mutex = (IF FirstLocked THEN "open" ELSE "free")
           /\ FirstLocked <=> Made("versions")
           /\ opens > 1 => opens = 2 /\ opc = "locking"
           /\ \A k \in Contexts, m \in Modules :
                writer[k][m] \in (IF FirstLocked THEN {"none", "start"} ELSE {"none"})
  BY DEF IInv, BeforeList
<1>2. opens \in Nat /\ opc \in {"idle", "locking", "opening"} /\ (opc # "idle" => opens # 0)
  BY <1>1, OpenAssumption DEF TypeOK, Types, Contexts
<1> USE DEF FirstLocked, Made
<1>3. CASE OpenStart
  <2>1. made' = made \cup {"modules"} /\ opens' = opens + 1 /\ opc = "idle" /\ opc' = "locking"
        /\ UNCHANGED <<queue_mutex, writer>>
    BY <1>1, <1>3, Loading DEF OpenStart
  <2> QED
    BY <1>0, <1>1, <1>2, <2>1 DEF BeforeList
<1>4. CASE OpenLock
  <2>1. /\ opc = "locking" /\ opc' = "opening" /\ queue_mutex = "free" /\ queue_mutex' = "open"
        /\ UNCHANGED <<opens, writer>> /\ made' = made \cup {"versions"}
    BY <1>4 DEF OpenLock
  <2>2. opens = 1 /\ \A k \in Contexts, m \in Modules : writer[k][m] = "none"
    BY <1>0, <1>1, <1>2, <2>1
  <2> QED
    BY <2>1, <2>2 DEF BeforeList
<1>5. CASE OpenModule
  <2>1. /\ opc = "opening" /\ Made("versions")
        /\ UNCHANGED <<made, opens, opc, queue_mutex>>
        /\ sub_hw_modules[oidx] \in Modules /\ opens \in Contexts
        /\ writer' = [writer EXCEPT ![opens] = [writer[opens] EXCEPT ![sub_hw_modules[oidx]] = "start"]]
    BY <1>1, <1>5 DEF OpenModule, Opening, NextModule, addSubHwDevice, TypeOK, Types
  <2>2. \A k \in Contexts, m \in Modules : writer'[k][m] \in {"start", writer[k][m]}
    BY <1>1, <2>1 DEF TypeOK
  <2> QED
    BY <1>0, <1>1, <2>1, <2>2 DEF BeforeList
<1>6. CASE ListStart
  <2>1. made' = made \cup {"modules"} /\ UNCHANGED <<opens, opc, queue_mutex, writer>>
    BY <1>1, <1>6, Loading DEF ListStart, openVars
  <2> QED
    BY <1>0, <1>1, <2>1 DEF BeforeList
<1>7. CASE ListReturn
  BY <1>0, <1>7 DEF ListReturn
<1>8. CASE UNCHANGED <<made, opens, opc, queue_mutex, writer>>
  BY <1>0, <1>1, <1>8 DEF BeforeList
<1>9. OpenModuleFails \/ OpenModuleCrashes => UNCHANGED <<made, opens, opc, queue_mutex, writer>>
  BY DEF OpenModuleFails, OpenModuleCrashes, NextModule, moduleVars, openVars
<1>10. CASE OpenReturn
  <2>1. opc = "opening" /\ opc' = "idle" /\ UNCHANGED <<made, opens, queue_mutex, writer>>
    BY <1>10 DEF OpenReturn, moduleVars
  <2> QED
    BY <1>0, <1>1, <1>2, <2>1 DEF BeforeList
<1>11. (\E k \in Contexts : device__close(k)) \/ ListModule \/ ListModuleCrashes \/ UNCHANGED vars
         => UNCHANGED <<made, opens, opc, queue_mutex, writer>>
  BY DEF device__close, ListModule, ListModuleCrashes, moduleVars, openVars, vars
<1>12. CASE \E k \in Contexts, m \in Modules : WriterLock(k, m)
  <2>1. PICK k \in Contexts, m \in Modules : WriterLock(k, m)
    BY <1>12
  <2>2. queue_mutex = "free" /\ made' = made /\ writer[k][m] \in {"start", "unlocked"}
    BY <2>1 DEF WriterLock, moduleVars
  <2> QED
    BY <1>0, <1>1, <2>2
<1>13. CASE \E k \in Contexts, m \in Modules : WriterUnlock(k, m)
  <2>1. PICK k \in Contexts, m \in Modules : WriterUnlock(k, m)
    BY <1>13
  <2>2. made' = made /\ writer[k][m] = "locked"
    BY <2>1 DEF WriterUnlock, moduleVars
  <2> QED
    BY <1>0, <1>1, <2>2
<1>14. (\E k \in Contexts, m \in Modules : PollClosed(k, m))
         => UNCHANGED <<made, opens, opc, queue_mutex, writer>>
  BY DEF PollClosed, moduleVars, openVars
<1> QED
  BY <1>3, <1>4, <1>5, <1>6, <1>7, <1>8, <1>9, <1>10, <1>11, <1>12, <1>13, <1>14, Step

\* A step that is not one of the opener's or lister's leaves these alone.
LEMMA OtherStep ==
    (\E k \in Contexts : device__close(k)) \/ ListModuleCrashes \/ OpenModuleCrashes
    \/ (\E k \in Contexts, m \in Modules : WriterLock(k, m))
    \/ (\E k \in Contexts, m \in Modules : WriterUnlock(k, m))
    \/ (\E k \in Contexts, m \in Modules : PollClosed(k, m))
    \/ UNCHANGED vars
      => UNCHANGED <<made, sub_hw_modules, sub_hw_devices, opens, opc, oidx, failed, lpc, early>>
  BY DEF device__close, ListModuleCrashes, OpenModuleCrashes, WriterLock, WriterUnlock, PollClosed,
         moduleVars, openVars, listVars, vars

LEMMA InTimeStep ==
    ASSUME IInv, [Next]_vars
    PROVE  InTime'
<1>1. /\ opens \in Nat /\ (opc # "idle" => opens # 0) /\ opc \in {"idle", "locking", "opening"}
      /\ lpc = "build" => ~Made("list")
      /\ ~Made("list") /\ opens > 1 => opc = "locking"
      /\ (lpc = "build" \/ Made("list")) /\ ~early => opens # 0 /\ (opens = 1 => opc = "idle")
      /\ opc = "opening" /\ ~Made("versions") => early
      /\ early \in BOOLEAN
  BY OpenAssumption DEF IInv, TypeOK, Types, Contexts, Handles, BeforeList, InTime
<1> USE DEF InTime, Made
<1>2. CASE OpenStart
  <2>1. made' = made \cup {"modules"} /\ opens' = opens + 1 /\ opc = "idle" /\ opc' = "locking"
        /\ UNCHANGED <<lpc, early>>
    BY <1>2, Loading DEF OpenStart, IInv, listVars
  <2> QED
    BY <1>1, <2>1
<1>3. CASE OpenLock
  <2>1. made' = made \cup {"versions"} /\ opc = "locking" /\ opc' = "opening"
        /\ UNCHANGED <<opens, lpc, early>>
    BY <1>3 DEF OpenLock, listVars
  <2> QED
    BY <1>1, <2>1
<1>4. CASE OpenModule \/ OpenModuleFails
  <2>1. UNCHANGED <<made, opc, opens, lpc, early>>
    BY <1>4 DEF OpenModule, OpenModuleFails, NextModule, listVars
  <2> QED
    BY <1>1, <2>1
<1>5. CASE OpenReturn
  <2>1. opc' = "idle" /\ UNCHANGED <<made, opens, lpc, early>>
    BY <1>5 DEF OpenReturn, moduleVars, listVars
  <2> QED
    BY <1>1, <2>1
<1>6. CASE ListStart
  <2>1. /\ made' = made \cup {"modules"} /\ ~Made("list")
        /\ UNCHANGED <<opens, opc>>
    BY <1>6, Loading DEF ListStart, IInv, openVars
  <2>2. ~early' => opens # 0 /\ opc = "idle"
    BY <1>6, Zenon DEF ListStart
  <2> QED
    BY <1>1, <2>1, <2>2
<1>7. CASE ListModule
  <2>1. UNCHANGED <<made, opc, opens, lpc, early>>
    BY <1>7 DEF ListModule, moduleVars, openVars
  <2> QED
    BY <1>1, <2>1
<1>8. CASE ListReturn
  <2>1. lpc = "build" /\ UNCHANGED <<opens, opc, early>>
    BY <1>8 DEF ListReturn, openVars
  <2> QED
    BY <1>1, <2>1
<1>9. CASE UNCHANGED <<made, sub_hw_modules, sub_hw_devices, opens, opc, oidx, failed, lpc, early>>
  BY <1>1, <1>9
<1> QED
  BY <1>2, <1>3, <1>4, <1>5, <1>6, <1>7, <1>8, <1>9, OtherStep, Step

LEMMA UnlockIsOwedStep ==
    ASSUME IInv, [Next]_vars
    PROVE  UnlockIsOwed'
<1>1. /\ queue_mutex = "open" => ~Made("list") \/ early \/ Latest > 1
      /\ opens \in Nat /\ (opc # "idle" => opens # 0)
      /\ Made("list") /\ ~early => opens # 0 /\ (opens = 1 => opc = "idle")
      /\ early \in BOOLEAN
  BY OpenAssumption DEF IInv, UnlockIsOwed, TypeOK, Types, Contexts, InTime
<1> USE DEF UnlockIsOwed, Made, Latest
<1>2. CASE OpenStart
  <2>1. /\ made' = made \cup {"modules"} /\ opens' = opens + 1 /\ UNCHANGED <<queue_mutex, early>>
        /\ opc = "idle" /\ opc' = "locking"
    BY <1>2, Loading DEF OpenStart, IInv, listVars
  <2> QED
    BY <1>1, <2>1
<1>3. CASE OpenLock
  <2>1. /\ made' = made \cup {"versions"} /\ UNCHANGED <<opens, early>>
        /\ opc = "locking" /\ opc' = "opening"
    BY <1>3 DEF OpenLock, listVars
  <2> QED
    BY <1>1, <2>1
<1>4. CASE ListStart
  <2>1. made' = made \cup {"modules"} /\ ~Made("list")
    BY <1>4, Loading DEF ListStart, IInv
  <2> QED
    BY <2>1
<1>5. CASE ListReturn
  BY <1>5 DEF ListReturn
<1>6. CASE queue_mutex' # "open"
  BY <1>6
<1>7. CASE UNCHANGED <<made, opens, early, opc, queue_mutex>>
  BY <1>1, <1>7
<1>8. CASE OpenReturn
  <2>1. UNCHANGED <<made, opens, early, queue_mutex>> /\ opc = "opening" /\ opc' = "idle"
    BY <1>8 DEF OpenReturn, moduleVars, listVars
  <2> QED
    BY <1>1, <2>1
<1>9. OpenModule \/ OpenModuleFails \/ ListModule
        => UNCHANGED <<made, opens, early, opc, queue_mutex>>
  BY DEF OpenModule, OpenModuleFails, ListModule, NextModule, moduleVars, openVars, listVars
<1>10. (\E k \in Contexts : device__close(k)) \/ ListModuleCrashes \/ OpenModuleCrashes
      \/ (\E k \in Contexts, m \in Modules : PollClosed(k, m)) \/ UNCHANGED vars
        => UNCHANGED <<made, opens, early, opc, queue_mutex>>
  BY DEF device__close, ListModuleCrashes, OpenModuleCrashes, PollClosed, vars, moduleVars, openVars, listVars
<1>11. (\E k \in Contexts, m \in Modules : WriterLock(k, m))
      \/ (\E k \in Contexts, m \in Modules : WriterUnlock(k, m))
        => queue_mutex' # "open"
  BY DEF WriterLock, WriterUnlock
<1> QED
  BY <1>2, <1>3, <1>4, <1>5, <1>6, <1>7, <1>8, <1>9, <1>10, <1>11, OtherStep, Step

-----------------------------------------------------------------------------
\* What the first context is

\* A module that open_sensors has dealt with is on one of its two lists.
LEMMA Dealt ==
    ASSUME IInv, OpenModule \/ OpenModuleFails
    PROVE  /\ opens \in Contexts /\ opens' = opens /\ opc = "opening" /\ opc' = "opening"
           /\ oidx \in DOMAIN sub_hw_modules /\ oidx' = oidx + 1
           /\ sub_hw_modules' = sub_hw_modules
           /\ \A j \in DOMAIN sub_hw_modules : Handled(j) => Handled(j)'
           /\ \A j \in DOMAIN sub_hw_modules : opens = 1 /\ j = oidx => Handled(j)'
<1> DEFINE m == sub_hw_modules[oidx]
<1>1. /\ opens \in Contexts /\ opens' = opens /\ opc = "opening" /\ opc' = "opening"
      /\ oidx \in DOMAIN sub_hw_modules /\ oidx' = oidx + 1
      /\ sub_hw_modules' = sub_hw_modules
      /\ m \in Modules
      /\ sub_hw_devices \in [Contexts -> Seq(Modules)] /\ sub_hw_devices[opens] \in Seq(Modules)
      /\ failed \in [Contexts -> SUBSET MayFail]
      /\ 1 \in Contexts
  BY OpenAssumption
     DEF IInv, TypeOK, Types, OpenModule, OpenModuleFails, Opening, NextModule, Contexts
<1>2. CASE OpenModule
  <2>1. /\ sub_hw_devices' = [sub_hw_devices EXCEPT ![opens] = Append(sub_hw_devices[opens], m)]
        /\ failed' = failed
    BY <1>2 DEF OpenModule, addSubHwDevice
  <2>2. Range(sub_hw_devices'[opens]) = Range(sub_hw_devices[opens]) \cup {m}
    BY <1>1, <2>1, RangeAppend
  <2>3. Range(sub_hw_devices[1]) \subseteq Range(sub_hw_devices'[1])
    BY <1>1, <2>1, <2>2
  <2>4. \A j \in DOMAIN sub_hw_modules : Handled(j) => Handled(j)'
    <3> TAKE j \in DOMAIN sub_hw_modules
    <3> QED
      BY <1>1, <2>1, <2>3 DEF Handled
  <2>5. \A j \in DOMAIN sub_hw_modules : opens = 1 /\ j = oidx => Handled(j)'
    <3> TAKE j \in DOMAIN sub_hw_modules
    <3> QED
      BY <1>1, <2>1, <2>2 DEF Handled
  <2> QED
    BY <1>1, <2>4, <2>5
<1>3. CASE OpenModuleFails
  <2>1. /\ failed' = [failed EXCEPT ![opens] = failed[opens] \cup {m}]
        /\ sub_hw_devices' = sub_hw_devices
    BY <1>3 DEF OpenModuleFails
  <2>2. failed[1] \subseteq failed'[1] /\ (opens = 1 => m \in failed'[1])
    BY <1>1, <2>1
  <2>3. \A j \in DOMAIN sub_hw_modules : Handled(j) => Handled(j)'
    <3> TAKE j \in DOMAIN sub_hw_modules
    <3> QED
      BY <1>1, <2>1, <2>2 DEF Handled
  <2>4. \A j \in DOMAIN sub_hw_modules : opens = 1 /\ j = oidx => Handled(j)'
    <3> TAKE j \in DOMAIN sub_hw_modules
    <3> QED
      BY <1>1, <2>1, <2>2 DEF Handled
  <2> QED
    BY <1>1, <2>3, <2>4
<1> QED
  BY <1>2, <1>3

LEMMA FirstContextStep ==
    ASSUME IInv, [Next]_vars
    PROVE  FirstContext'
<1>1. /\ opens = 1 /\ opc = "opening" => \A j \in DOMAIN sub_hw_modules : j < oidx => Handled(j)
      /\ opens = 1 /\ opc = "locking" => oidx = 1
      /\ opens > 1 \/ (opens = 1 /\ opc = "idle") => \A j \in DOMAIN sub_hw_modules : Handled(j)
      /\ opens \in Nat /\ (opc # "idle" => opens # 0)
      /\ opens # 0 \/ lpc = "build" => Made("modules")
      /\ oidx \in Nat \ {0} /\ sub_hw_modules \in Seq(Modules)
      /\ DOMAIN sub_hw_modules = 1 .. Len(sub_hw_modules)
  BY OpenAssumption DEF IInv, FirstContext, TypeOK, Types, Contexts
<1>2. CASE OpenStart
  <2>1. /\ opens' = opens + 1 /\ opc = "idle" /\ opc' = "locking" /\ oidx' = 1
        /\ UNCHANGED <<sub_hw_devices, failed>>
        /\ Made("modules") => sub_hw_modules' = sub_hw_modules
    BY <1>2, Loading DEF OpenStart, IInv
  <2> QED
    BY <1>1, <2>1 DEF FirstContext, Handled
<1>3. CASE OpenLock
  <2>1. /\ opc = "locking" /\ opc' = "opening"
        /\ UNCHANGED <<opens, oidx, sub_hw_modules, sub_hw_devices, failed>>
    BY <1>3 DEF OpenLock
  <2> QED
    BY <1>1, <2>1 DEF FirstContext, Handled
<1>4. CASE OpenModule \/ OpenModuleFails
  <2>1. /\ opens' = opens /\ opc = "opening" /\ opc' = "opening"
        /\ oidx \in DOMAIN sub_hw_modules /\ oidx' = oidx + 1
        /\ sub_hw_modules' = sub_hw_modules
        /\ \A j \in DOMAIN sub_hw_modules : Handled(j) => Handled(j)'
        /\ \A j \in DOMAIN sub_hw_modules : opens = 1 /\ j = oidx => Handled(j)'
    BY <1>4, Dealt
  <2>2. \A j \in DOMAIN sub_hw_modules : j < oidx + 1 => j < oidx \/ j = oidx
    BY <1>1
  <2>3. opens = 1 => \A j \in DOMAIN sub_hw_modules : j < oidx + 1 => Handled(j)'
    BY <1>1, <2>1, <2>2
  <2>4. opens > 1 => \A j \in DOMAIN sub_hw_modules : Handled(j)'
    BY <1>1, <2>1
  <2> QED
    BY <2>1, <2>3, <2>4 DEF FirstContext
<1>5. CASE OpenReturn
  <2>1. /\ opc = "opening" /\ opc' = "idle" /\ oidx > Len(sub_hw_modules)
        /\ UNCHANGED <<opens, sub_hw_modules, sub_hw_devices, failed>>
    BY <1>5 DEF OpenReturn, moduleVars
  <2>2. \A j \in DOMAIN sub_hw_modules : j < oidx
    BY <1>1, <2>1
  <2> QED
    BY <1>1, <2>1, <2>2 DEF FirstContext, Handled
<1>6. CASE ListStart
  <2>1. /\ UNCHANGED <<opens, opc, oidx, sub_hw_devices, failed>>
        /\ Made("modules") => sub_hw_modules' = sub_hw_modules
    BY <1>6, Loading DEF ListStart, openVars, IInv
  <2> QED
    BY <1>1, <2>1 DEF FirstContext, Handled
<1>7. CASE UNCHANGED <<sub_hw_modules, sub_hw_devices, opens, opc, oidx, failed>>
  BY <1>1, <1>7 DEF FirstContext, Handled
<1>8. ListModule \/ ListReturn
        => UNCHANGED <<sub_hw_modules, sub_hw_devices, opens, opc, oidx, failed>>
  BY DEF ListModule, ListReturn, moduleVars, openVars
<1> QED
  BY <1>2, <1>3, <1>4, <1>5, <1>6, <1>7, <1>8, OtherStep, Step

-----------------------------------------------------------------------------
\* The two ways to crash

\* A module whose version is missed was not opened by the first open_sensors.
LEMMA MissedVersion ==
    ASSUME IInv, ListModuleCrashes, ~early
    PROVE  \E m \in failed[1] : Sensors[m] # <<>>
<1> DEFINE m == sub_hw_modules[lidx]
<1>1. lpc = "build" /\ ~VersionKnown(m) /\ Sensors[m] # <<>> /\ lidx \in DOMAIN sub_hw_modules
  BY DEF ListModuleCrashes, IInv, TypeOK, Types
<1>2. ~Made("list") /\ opens # 0 /\ (opens = 1 => opc = "idle") /\ opens \in Nat
  BY <1>1, OpenAssumption DEF IInv, Handles, InTime, TypeOK
<1>3. Made("versions") /\ (opens > 1 => opens = 2 /\ opc = "locking")
  BY <1>2 DEF IInv, BeforeList, FirstLocked
<1>4. Latest = 1
  BY <1>2, <1>3 DEF Latest
<1>5. m \notin Range(sub_hw_devices[1])
  BY <1>1, <1>3, <1>4 DEF IInv, TypeOK, VersionKnown
<1>6. Handled(lidx)
  BY <1>1, <1>2 DEF IInv, FirstContext
<1> QED
  BY <1>1, <1>5, <1>6 DEF Handled

LEMMA CrashStep ==
    ASSUME IInv, [Next]_vars
    PROVE  CrashNeedsFailedOpen'
<1>0. crashed => \/ early
                 \/ \E m \in failed[1] : Sensors[m] # <<>>
                 \/ \E k \in closed, m \in Modules : writer[k][m] = "unlocked"
  BY DEF IInv, CrashNeedsFailedOpen
<1>1. CASE ListModuleCrashes
  BY <1>1, MissedVersion DEF CrashNeedsFailedOpen, ListModuleCrashes, openVars, listVars
<1>2. CASE OpenModuleCrashes
  BY <1>2 DEF CrashNeedsFailedOpen, OpenModuleCrashes, Opening, IInv, InTime, openVars, listVars
<1>3. CASE \E k \in Contexts, m \in Modules : PollClosed(k, m)
  <2>1. PICK k \in Contexts, m \in Modules : PollClosed(k, m)
    BY <1>3
  <2>2. k \in closed /\ writer[k][m] = "unlocked" /\ UNCHANGED <<closed, writer>>
    BY <2>1 DEF PollClosed, openVars
  <2>3. \E j \in closed', n \in Modules : writer'[j][n] = "unlocked"
    BY <2>2
  <2> QED
    BY <2>3 DEF CrashNeedsFailedOpen
<1>4. CASE UNCHANGED vars
  <2>1. UNCHANGED <<crashed, early, failed, closed, writer>>
    BY <1>4 DEF vars, openVars, listVars
  <2> QED
    BY <1>0, <2>1 DEF CrashNeedsFailedOpen
<1>5. CASE ~crashed /\ crashed' = crashed
  BY <1>5 DEF CrashNeedsFailedOpen
<1>6. [Next]_vars => UNCHANGED vars \/ ListModuleCrashes \/ OpenModuleCrashes
        \/ (\E k \in Contexts, m \in Modules : PollClosed(k, m)) \/ (~crashed /\ crashed' = crashed)
  BY DEF Next, Framework, OpenStep, Lister, Writer, Stray, OpenStart, OpenLock, OpenModule,
         OpenModuleFails, OpenReturn, NextModule, device__close, ListStart, ListAgain,
         ListModule, ListReturn, WriterLock, WriterUnlock, vars
<1> QED
  BY <1>1, <1>2, <1>3, <1>4, <1>5, <1>6

-----------------------------------------------------------------------------
\* The theorems

LEMMA StepInv == IInv /\ [Next]_vars => IInv'
  BY TypeStep, TypesStep, HandlesStep, BeforeListStep, InTimeStep, FirstContextStep,
     UnlockIsOwedStep, CrashStep DEF IInv

\* The inductive invariant of the start-up, for every configuration file.
THEOREM Invariance == Spec => []IInv
  BY InitInv, StepInv, PTL DEF Spec

\* open_sensors, close, get_sensors_list and the writers keep the types.
THEOREM TypeCorrect == Spec => []TypeOK
<1>1. IInv => TypeOK
  BY DEF IInv
<1> QED
  BY <1>1, Invariance, PTL

\* assign_global_handle numbers the sensors of the list from 1 without a gap, and
\* the two handle maps are inverses of each other at every moment.
THEOREM HandlesAgree == Spec => []HandlesConsistent
<1>1. IInv => HandlesConsistent
  BY DEF IInv, Handles, HandlesConsistent, InverseOf
<1> QED
  BY <1>1, Invariance, PTL

\* The lock of open_sensors is paid back by lazy_init_sensors_list, unless the
\* list came too early or a second open_sensors has taken it again.
THEOREM LockPaidBack == Spec => []UnlockIsOwed
<1>1. IInv => UnlockIsOwed
  BY DEF IInv
<1> QED
  BY <1>1, Invariance, PTL

\* After a list in time nothing but a failed open of a sub-HAL with sensors, or a
\* writer in the poll() of a closed device, ends the process.
THEOREM NoOtherCrash == Spec => []CrashNeedsFailedOpen
<1>1. IInv => CrashNeedsFailedOpen
  BY DEF IInv
<1> QED
  BY <1>1, Invariance, PTL

\* The unlock in lazy_init_sensors_list never ends a writer's critical section.
THEOREM OwnersUnlock == Spec => UnlockedByOwner
<1>1. ASSUME IInv, [Next]_vars, queue_mutex = "writer", queue_mutex' = "free"
      PROVE  \E k \in Contexts, m \in Modules :
               writer[k][m] = "locked" /\ writer'[k][m] = "unlocked"
  <2>1. ~ListReturn
    <3>1. lpc = "build" => ~Made("list")
      BY <1>1 DEF IInv, Handles
    <3>2. ~Made("list") => queue_mutex # "writer"
      BY <1>1 DEF IInv, BeforeList
    <3> QED
      BY <1>1, <3>1, <3>2 DEF ListReturn
  <2>2. ~UNCHANGED queue_mutex
    BY <1>1
  <2>3. \E k \in Contexts, m \in Modules : WriterUnlock(k, m)
    <3>1. ~OpenLock /\ ~\E k \in Contexts, m \in Modules : WriterLock(k, m)
      BY <1>1 DEF OpenLock, WriterLock
    <3>2. OpenStart \/ OpenModule \/ OpenModuleFails \/ OpenModuleCrashes \/ OpenReturn
          \/ (\E k \in Contexts : device__close(k)) \/ ListStart \/ ListModule \/ ListModuleCrashes
          \/ (\E k \in Contexts, m \in Modules : PollClosed(k, m)) \/ UNCHANGED vars
            => UNCHANGED queue_mutex
      BY DEF OpenStart, OpenModule, OpenModuleFails, OpenModuleCrashes, OpenReturn, NextModule,
             device__close, ListStart, ListModule, ListModuleCrashes, PollClosed, vars
    <3> QED
      BY <1>1, <2>1, <2>2, <3>1, <3>2, Step
  <2>4. PICK k \in Contexts, m \in Modules : WriterUnlock(k, m)
    BY <2>3
  <2>5. writer \in [Contexts -> [Modules -> {"none", "start", "locked", "unlocked"}]]
    BY <1>1 DEF IInv, TypeOK
  <2> QED
    BY <2>4, <2>5 DEF WriterUnlock
<1>2. IInv /\ [Next]_vars =>
        [queue_mutex = "writer" /\ queue_mutex' = "free" =>
           \E k \in Contexts, m \in Modules :
              writer[k][m] = "locked" /\ writer'[k][m] = "unlocked"]_vars
  BY <1>1
<1> QED
  BY <1>2, Invariance, PTL DEF Spec, UnlockedByOwner

-----------------------------------------------------------------------------
(***************************************************************************)
(* Routing: why position i of a context's devices belongs to module i.     *)
(* A context is filled in the order of the modules, so its devices are in  *)
(* step with them up to the first sub-HAL that does not open.  A list that *)
(* is made at all has found a version of every sub-HAL with sensors, and   *)
(* the versions there are by then are those of the first context.          *)
(***************************************************************************)

\* Each of the first i modules opened in context k, or was not tried yet.
OpenedThrough(k, i) == \A j \in 1 .. i : sub_hw_modules[j] \notin failed[k]

Parallel ==
    /\ \A k \in Contexts : \A i \in DOMAIN sub_hw_devices[k] :
         /\ i \in DOMAIN sub_hw_modules
         /\ OpenedThrough(k, i) => sub_hw_devices[k][i] = sub_hw_modules[i]
    /\ opc = "locking" => oidx = 1
    /\ opc = "opening" =>
         /\ Len(sub_hw_devices[opens]) < oidx
         /\ \A i \in DOMAIN sub_hw_modules :
              i < oidx /\ OpenedThrough(opens, i) => i <= Len(sub_hw_devices[opens])

\* No library is loaded twice, and no context both opens and misses a module.
Apart ==
    /\ \A i, j \in DOMAIN sub_hw_modules : i < j => sub_hw_modules[i] < sub_hw_modules[j]
    /\ \A k \in Contexts : /\ Range(sub_hw_devices[k]) \cap failed[k] = {}
                           /\ k > Latest => failed[k] = {}
    /\ opc = "opening" =>
         \A j \in DOMAIN sub_hw_modules :
            j >= oidx => sub_hw_modules[j] \notin Range(sub_hw_devices[opens]) \cup failed[opens]

\* The listing thread has passed the module at position j.
HasRead(j) == Made("list") \/ (lpc = "build" /\ j < lidx)

Listed ==
    /\ Made("list") => Made("modules")
    /\ \A j \in DOMAIN sub_hw_modules :
         HasRead(j) /\ Sensors[sub_hw_modules[j]] # <<>> =>
            sub_hw_modules[j] \in Range(sub_hw_devices[1])
    /\ \A g \in DOMAIN global_to_full :
         /\ global_to_full[g].moduleIndex + 1 \in DOMAIN sub_hw_modules
         /\ Sensors[sub_hw_modules[global_to_full[g].moduleIndex + 1]] # <<>>

RoutingInv == Parallel /\ Apart /\ Listed

LEMMA LoadedIncreases ==
    ASSUME NEW s \in Loaded, NEW i \in DOMAIN s, NEW j \in DOMAIN s, i < j
    PROVE  s[i] < s[j]
  BY DEF Loaded

LEMMA InitRouting == Init => RoutingInv
<1> SUFFICES ASSUME Init PROVE RoutingInv
  OBVIOUS
<1>1. /\ sub_hw_modules = <<>> /\ made = {} /\ opc = "idle" /\ lpc = "idle" /\ global_to_full = <<>>
      /\ \A k \in Contexts : sub_hw_devices[k] = <<>> /\ failed[k] = {}
  BY DEF Init
<1> QED
  BY <1>1, RangeEmpty DEF RoutingInv, Parallel, Apart, Listed, HasRead, Made

\* Loading changes the modules only while there is nothing that refers to them.
LEMMA LoadRouting ==
    ASSUME IInv, RoutingInv, OpenStart \/ ListStart
    PROVE  RoutingInv'
<1>1. /\ UNCHANGED <<sub_hw_devices, failed, global_to_full>>
      /\ made' = made \cup {"modules"}
      /\ Made("modules") => sub_hw_modules' = sub_hw_modules
  BY Loading DEF OpenStart, ListStart, IInv, openVars, listVars, mapVars
<1>2. \A i, j \in DOMAIN sub_hw_modules' : i < j => sub_hw_modules'[i] < sub_hw_modules'[j]
  <2>1. CASE Made("modules")
    BY <1>1, <2>1 DEF RoutingInv, Apart
  <2>2. CASE ~Made("modules")
    <3>1. sub_hw_modules' \in Loaded
      BY <2>2 DEF OpenStart, ListStart, lazy_init_modules
    <3> QED
      BY <3>1, LoadedIncreases
  <2> QED
    BY <2>1, <2>2
<1>3. ~Made("modules") =>
        /\ opens = 0 /\ opc = "idle" /\ lpc = "idle" /\ ~Made("list") /\ global_to_full = <<>>
        /\ \A k \in Contexts : sub_hw_devices[k] = <<>>
  BY OpenAssumption DEF IInv, TypeOK, Types, Handles, RoutingInv, Listed, Latest, Contexts
<1>4. /\ Latest' = Latest
      /\ opc' = "opening" => opc = "opening" /\ opens' = opens /\ oidx' = oidx
      /\ opc' = "locking" => oidx' = 1
  <2>1. opens \in Nat /\ (opc = "locking" => oidx = 1)
    BY OpenAssumption DEF IInv, TypeOK, RoutingInv, Parallel
  <2>2. CASE OpenStart
    <3>1. opc = "idle" /\ opc' = "locking" /\ opens' = opens + 1 /\ oidx' = 1
      BY <2>2 DEF OpenStart
    <3> QED
      BY <2>1, <3>1 DEF Latest
  <2>3. CASE ListStart
    <3>1. UNCHANGED <<opc, opens, oidx>>
      BY <2>3 DEF ListStart, openVars
    <3> QED
      BY <2>1, <3>1 DEF Latest
  <2> QED
    BY <2>2, <2>3
<1>5. Parallel'
  <2>1. CASE Made("modules")
    BY <1>1, <1>4, <2>1 DEF RoutingInv, Parallel, OpenedThrough
  <2>2. CASE ~Made("modules")
    BY <1>1, <1>3, <1>4, <2>2 DEF Parallel
  <2> QED
    BY <2>1, <2>2
<1>6. Apart'
  <2>1. \A k \in Contexts : /\ Range(sub_hw_devices'[k]) \cap failed'[k] = {}
                            /\ k > Latest' => failed'[k] = {}
    BY <1>1, <1>4 DEF RoutingInv, Apart
  <2>2. opc' = "opening" =>
          \A j \in DOMAIN sub_hw_modules' :
            j >= oidx' => sub_hw_modules'[j] \notin Range(sub_hw_devices'[opens']) \cup failed'[opens']
    BY <1>1, <1>3, <1>4 DEF RoutingInv, Apart
  <2> QED
    BY <1>2, <2>1, <2>2 DEF Apart
<1>7. Listed'
  <2>1. \A j \in DOMAIN sub_hw_modules' :
          HasRead(j)' => Made("modules") /\ HasRead(j)
    BY <1>1, <1>3 DEF OpenStart, ListStart, HasRead, Made, listVars, RoutingInv, Listed
  <2> QED
    BY <1>1, <1>3, <2>1 DEF RoutingInv, Listed, Made
<1> QED
  BY <1>5, <1>6, <1>7 DEF RoutingInv

\* A context gets the lock before it has opened, or missed, anything.
LEMMA LockRouting ==
    ASSUME IInv, RoutingInv, OpenLock
    PROVE  RoutingInv'
<1>1. /\ opc = "locking" /\ opc' = "opening" /\ oidx = 1
      /\ opens \in Contexts /\ Latest = opens - 1 /\ Latest' = opens
      /\ sub_hw_devices[opens] = <<>> /\ failed[opens] = {}
      /\ made' = made \cup {"versions"}
      /\ UNCHANGED <<sub_hw_modules, sub_hw_devices, opens, oidx, failed, lpc, lidx, global_to_full>>
  BY OpenAssumption
     DEF OpenLock, Latest, listVars, mapVars, IInv, TypeOK, Types, RoutingInv, Parallel, Apart, Contexts
<1>2. Parallel'
  BY <1>1 DEF RoutingInv, Parallel, OpenedThrough
<1>3. Apart'
  <2>1. \A k \in Contexts : k > opens => k > opens - 1
    BY <1>1 DEF Contexts
  <2> QED
    BY <1>1, <2>1, RangeEmpty DEF RoutingInv, Apart
<1>4. Listed'
  BY <1>1 DEF RoutingInv, Listed, HasRead, Made
<1> QED
  BY <1>2, <1>3, <1>4 DEF RoutingInv

\* A device is appended in step with the modules, unless one was missed before.
LEMMA OpenModuleRouting ==
    ASSUME IInv, RoutingInv, OpenModule
    PROVE  RoutingInv'
<1> DEFINE m == sub_hw_modules[oidx]
           D == sub_hw_devices[opens]
<1>1. /\ opc = "opening" /\ opens \in Contexts /\ Latest' = Latest
      /\ oidx \in DOMAIN sub_hw_modules /\ oidx \in Nat \ {0} /\ oidx' = oidx + 1
      /\ m \in Modules /\ D \in Seq(Modules) /\ Len(D) \in Nat /\ DOMAIN D = 1 .. Len(D)
      /\ DOMAIN sub_hw_modules = 1 .. Len(sub_hw_modules) /\ Len(sub_hw_modules) \in Nat
      /\ sub_hw_devices \in [Contexts -> Seq(Modules)]
      /\ UNCHANGED <<made, sub_hw_modules, opens, opc, failed, lpc, lidx, global_to_full>>
  BY OpenAssumption
     DEF OpenModule, Opening, NextModule, Latest, listVars, mapVars, IInv, TypeOK, Types, Contexts
<1>2. sub_hw_devices' = [sub_hw_devices EXCEPT ![opens] = Append(D, m)]
  BY DEF OpenModule, addSubHwDevice
<1>3. /\ DOMAIN Append(D, m) = 1 .. Len(D) + 1
      /\ Len(Append(D, m)) = Len(D) + 1
      /\ Append(D, m)[Len(D) + 1] = m
      /\ \A i \in 1 .. Len(D) : Append(D, m)[i] = D[i]
      /\ Range(Append(D, m)) = Range(D) \cup {m}
  BY <1>1, RangeAppend
<1>4. /\ Len(D) < oidx
      /\ \A i \in DOMAIN sub_hw_modules : i < oidx /\ OpenedThrough(opens, i) => i <= Len(D)
      /\ \A i \in DOMAIN D : i \in DOMAIN sub_hw_modules
      /\ \A i \in DOMAIN D : OpenedThrough(opens, i) => D[i] = sub_hw_modules[i]
  BY <1>1 DEF RoutingInv, Parallel
<1>5. \A k, i : OpenedThrough(k, i)' <=> OpenedThrough(k, i)
  BY <1>1 DEF OpenedThrough
<1>6. sub_hw_devices'[opens] = Append(D, m) /\ \A k \in Contexts : k # opens => sub_hw_devices'[k] = sub_hw_devices[k]
  BY <1>1, <1>2
<1> HIDE DEF m, D
<1>7. \A i \in 1 .. Len(D) + 1 :
        /\ i \in DOMAIN sub_hw_modules
        /\ OpenedThrough(opens, i) => Append(D, m)[i] = sub_hw_modules[i]
  <2> SUFFICES ASSUME NEW i \in 1 .. Len(D) + 1
               PROVE  /\ i \in DOMAIN sub_hw_modules
                      /\ OpenedThrough(opens, i) => Append(D, m)[i] = sub_hw_modules[i]
    OBVIOUS
  <2>1. CASE i \in 1 .. Len(D)
    BY <1>1, <1>3, <1>4, <2>1
  <2>2. CASE i = Len(D) + 1
    <3>1. i \in DOMAIN sub_hw_modules
      BY <1>1, <1>4, <2>2
    <3>2. OpenedThrough(opens, i) => i = oidx
      BY <1>1, <1>4, <2>2, <3>1
    <3>3. OpenedThrough(opens, i) => Append(D, m)[i] = sub_hw_modules[i]
      BY <1>3, <2>2, <3>2 DEF m
    <3> QED
      BY <3>1, <3>3
  <2> QED
    BY <1>1, <2>1, <2>2
<1>8. ASSUME NEW i \in DOMAIN sub_hw_modules, i < oidx + 1, OpenedThrough(opens, i)
      PROVE  i <= Len(D) + 1
  <2>1. CASE i < oidx
    BY <1>1, <1>4, <1>8, <2>1
  <2>2. CASE i = oidx /\ i > 1
    <3>1. i - 1 \in DOMAIN sub_hw_modules /\ i - 1 < oidx
      BY <1>1, <2>2
    <3>2. OpenedThrough(opens, i - 1)
      BY <1>1, <1>8 DEF OpenedThrough
    <3> QED
      BY <1>1, <1>4, <3>1, <3>2
  <2> QED
    BY <1>1, <1>8, <2>1, <2>2
<1>9. Parallel'
  <2>1. ASSUME NEW k \in Contexts, NEW i \in DOMAIN sub_hw_devices'[k]
        PROVE  /\ i \in DOMAIN sub_hw_modules
               /\ OpenedThrough(k, i) => sub_hw_devices'[k][i] = sub_hw_modules[i]
    <3>1. CASE k = opens
      BY <1>3, <1>6, <1>7, <3>1
    <3>2. CASE k # opens
      BY <1>6, <3>2 DEF RoutingInv, Parallel
    <3> QED
      BY <3>1, <3>2
  <2>2. Len(sub_hw_devices'[opens]) < oidx + 1
    BY <1>1, <1>3, <1>4, <1>6
  <2>3. \A i \in DOMAIN sub_hw_modules :
          i < oidx + 1 /\ OpenedThrough(opens, i) => i <= Len(sub_hw_devices'[opens])
    BY <1>3, <1>6, <1>8
  <2> QED
    BY <1>1, <1>5, <2>1, <2>2, <2>3 DEF Parallel
<1>10. Apart'
  <2>1. m \notin failed[opens]
    BY <1>1 DEF RoutingInv, Apart, m
  <2>2. \A k \in Contexts : Range(sub_hw_devices'[k]) \cap failed[k] = {}
    <3>1. Range(sub_hw_devices'[opens]) \cap failed[opens] = {}
      BY <1>1, <1>3, <1>6, <2>1 DEF RoutingInv, Apart, D
    <3> QED
      BY <1>6, <3>1 DEF RoutingInv, Apart
  <2>3. ASSUME NEW j \in DOMAIN sub_hw_modules, j >= oidx + 1
        PROVE  sub_hw_modules[j] \notin Range(Append(D, m)) \cup failed[opens]
    <3>1. oidx < j
      BY <1>1, <2>3
    <3>2. m < sub_hw_modules[j]
      BY <1>1, <3>1 DEF RoutingInv, Apart, m
    <3>3. m # sub_hw_modules[j]
      BY <1>1, <3>2 DEF Modules
    <3>4. j >= oidx
      BY <1>1, <2>3
    <3> QED
      BY <1>1, <1>3, <3>3, <3>4 DEF RoutingInv, Apart, D
  <2> QED
    BY <1>1, <1>6, <2>2, <2>3 DEF RoutingInv, Apart
<1>11. Listed'
  <2>1. Range(sub_hw_devices[1]) \subseteq Range(sub_hw_devices'[1])
    <3>1. 1 \in Contexts
      BY OpenAssumption DEF Contexts
    <3> QED
      BY <1>1, <1>3, <1>6, <3>1 DEF D
  <2> QED
    BY <1>1, <2>1 DEF RoutingInv, Listed, HasRead, Made
<1> QED
  BY <1>9, <1>10, <1>11 DEF RoutingInv

\* A module that is missed ends the step, and the claim with it.
LEMMA FailRouting ==
    ASSUME IInv, RoutingInv, OpenModuleFails
    PROVE  RoutingInv'
<1> DEFINE m == sub_hw_modules[oidx]
<1>1. /\ opc = "opening" /\ opens \in Contexts /\ Latest' = Latest /\ Latest = opens
      /\ oidx \in DOMAIN sub_hw_modules /\ oidx \in Nat \ {0} /\ oidx' = oidx + 1
      /\ m \in Modules /\ Len(sub_hw_devices[opens]) \in Nat
      /\ DOMAIN sub_hw_modules = 1 .. Len(sub_hw_modules) /\ Len(sub_hw_modules) \in Nat
      /\ failed \in [Contexts -> SUBSET MayFail]
      /\ failed' = [failed EXCEPT ![opens] = failed[opens] \cup {m}]
      /\ UNCHANGED <<made, sub_hw_modules, sub_hw_devices, opens, opc, lpc, lidx, global_to_full>>
  BY OpenAssumption
     DEF OpenModuleFails, Opening, NextModule, Latest, listVars, mapVars, IInv, TypeOK, Types, Contexts
<1>2. /\ failed'[opens] = failed[opens] \cup {m}
      /\ \A k \in Contexts : k # opens => failed'[k] = failed[k]
  BY <1>1
<1>3. \A k \in Contexts : \A i \in Nat : OpenedThrough(k, i)' => OpenedThrough(k, i)
  BY <1>1, <1>2 DEF OpenedThrough
<1>4. ASSUME NEW i \in DOMAIN sub_hw_modules, i < oidx + 1, OpenedThrough(opens, i)'
      PROVE  i < oidx
  <2>1. i # oidx
    BY <1>1, <1>2, <1>4 DEF OpenedThrough
  <2> QED
    BY <1>1, <1>4, <2>1
<1>5. Parallel'
  <2>1. \A k \in Contexts : \A i \in DOMAIN sub_hw_devices[k] : i \in Nat
    BY DEF IInv, TypeOK
  <2>2. \A k \in Contexts : \A i \in DOMAIN sub_hw_devices'[k] :
          /\ i \in DOMAIN sub_hw_modules'
          /\ OpenedThrough(k, i)' => sub_hw_devices'[k][i] = sub_hw_modules'[i]
    BY <1>1, <1>3, <2>1 DEF RoutingInv, Parallel
  <2>3. Len(sub_hw_devices[opens]) < oidx + 1
    BY <1>1 DEF RoutingInv, Parallel
  <2>4. \A i \in DOMAIN sub_hw_modules :
          i < oidx + 1 /\ OpenedThrough(opens, i)' => i <= Len(sub_hw_devices[opens])
    BY <1>1, <1>3, <1>4 DEF RoutingInv, Parallel
  <2> QED
    BY <1>1, <2>2, <2>3, <2>4 DEF Parallel
<1>6. Apart'
  <2>1. m \notin Range(sub_hw_devices[opens])
    BY <1>1 DEF RoutingInv, Apart
  <2>2. \A k \in Contexts : /\ Range(sub_hw_devices[k]) \cap failed'[k] = {}
                            /\ k > Latest => failed'[k] = {}
    <3>1. ~(opens > Latest)
      BY <1>1 DEF Contexts
    <3> QED
      BY <1>1, <1>2, <2>1, <3>1 DEF RoutingInv, Apart
  <2>3. ASSUME NEW j \in DOMAIN sub_hw_modules, j >= oidx + 1
        PROVE  sub_hw_modules[j] \notin Range(sub_hw_devices[opens]) \cup failed'[opens]
    <3>1. oidx < j /\ j >= oidx
      BY <1>1, <2>3
    <3>2. m < sub_hw_modules[j]
      BY <1>1, <3>1 DEF RoutingInv, Apart
    <3>3. m # sub_hw_modules[j]
      BY <1>1, <3>2 DEF Modules
    <3> QED
      BY <1>1, <1>2, <3>1, <3>3 DEF RoutingInv, Apart
  <2> QED
    BY <1>1, <2>2, <2>3 DEF RoutingInv, Apart
<1>7. Listed'
  BY <1>1 DEF RoutingInv, Listed, HasRead, Made
<1> QED
  BY <1>5, <1>6, <1>7 DEF RoutingInv

LEMMA Concatenation ==
    ASSUME NEW S, NEW s \in Seq(S), NEW n \in Seq(S)
    PROVE  /\ DOMAIN (s \o n) = 1 .. Len(s) + Len(n)
           /\ \A i \in 1 .. Len(s) : (s \o n)[i] = s[i]
           /\ \A i \in 1 .. Len(s) + Len(n) : i > Len(s) => (s \o n)[i] = n[i - Len(s)]
  OBVIOUS

\* A module with sensors is listed only with its version, which the first
\* context alone can have left.
LEMMA ListModuleRouting ==
    ASSUME IInv, RoutingInv, ListModule
    PROVE  RoutingInv'
<1> DEFINE m == sub_hw_modules[lidx]
           new == [i \in DOMAIN Sensors[m] |->
                     [moduleIndex |-> lidx - 1, localHandle |-> Sensors[m][i]]]
<1>1. /\ lpc = "build" /\ lpc' = "build" /\ lidx' = lidx + 1 /\ lidx \in Nat \ {0}
      /\ lidx \in DOMAIN sub_hw_modules /\ m \in Modules
      /\ \A j \in DOMAIN sub_hw_modules : j \in Nat
      /\ UNCHANGED <<made, sub_hw_modules, sub_hw_devices, opens, opc, oidx, failed>>
      /\ ~Made("list")
  BY DEF ListModule, IInv, TypeOK, Types, Handles, moduleVars, openVars
<1>2. global_to_full' = global_to_full \o new /\ (new # <<>> => VersionKnown(m))
  BY DEF ListModule
<1>3. Sensors[m] \in Seq(Int)
  BY <1>1, SensorsAssumption DEF Modules
<1>4. Sensors[m] # <<>> => m \in Range(sub_hw_devices[1])
  <2>1. Sensors[m] # <<>> => new # <<>>
    BY <1>3
  <2>2. Made("versions") => Latest = 1
    BY <1>1, OpenAssumption DEF IInv, TypeOK, BeforeList, FirstLocked, Latest
  <2>3. VersionKnown(m) => m \in Range(sub_hw_devices[1])
    BY <2>2 DEF VersionKnown, IInv, TypeOK
  <2> QED
    BY <1>2, <2>1, <2>3
<1>5. ASSUME NEW g \in DOMAIN global_to_full'
      PROVE  \/ g \in DOMAIN global_to_full /\ global_to_full'[g] = global_to_full[g]
             \/ global_to_full'[g].moduleIndex = lidx - 1 /\ Sensors[m] # <<>>
  <2>1. new \in Seq(FullHandle) /\ DOMAIN new = DOMAIN Sensors[m] /\ Len(new) = Len(Sensors[m])
        /\ Len(Sensors[m]) \in Nat /\ DOMAIN Sensors[m] = 1 .. Len(Sensors[m])
        /\ \A i \in DOMAIN new : new[i].moduleIndex = lidx - 1
    <3> HIDE DEF m
    <3>1. Len(Sensors[m]) \in Nat /\ DOMAIN Sensors[m] = 1 .. Len(Sensors[m])
      BY <1>3
    <3>2. \A i \in DOMAIN Sensors[m] : Sensors[m][i] \in Int
      BY <1>3
    <3>3. \A i \in DOMAIN Sensors[m] :
            [moduleIndex |-> lidx - 1, localHandle |-> Sensors[m][i]] \in FullHandle
      BY <1>1, <3>2 DEF FullHandle
    <3>4. new \in Seq(FullHandle) /\ Len(new) = Len(Sensors[m])
      BY <3>1, <3>3
    <3> QED
      BY <3>1, <3>4
  <2>2. global_to_full \in Seq(FullHandle) /\ Len(global_to_full) \in Nat
        /\ DOMAIN global_to_full = 1 .. Len(global_to_full)
    BY DEF IInv, Handles
  <2> HIDE DEF new, m
  <2>3. /\ DOMAIN (global_to_full \o new) = 1 .. Len(global_to_full) + Len(new)
        /\ \A i \in 1 .. Len(global_to_full) : (global_to_full \o new)[i] = global_to_full[i]
        /\ \A i \in 1 .. Len(global_to_full) + Len(new) :
             i > Len(global_to_full) => (global_to_full \o new)[i] = new[i - Len(global_to_full)]
    BY <2>1, <2>2, Concatenation
  <2>4. CASE g \in 1 .. Len(global_to_full)
    BY <1>2, <2>2, <2>3, <2>4
  <2>5. CASE g > Len(global_to_full)
    <3>1. g - Len(global_to_full) \in 1 .. Len(new)
      BY <1>2, <2>1, <2>2, <2>3, <2>5
    <3>2. global_to_full'[g] = new[g - Len(global_to_full)]
      BY <1>2, <2>3, <2>5
    <3>3. Sensors[m] # <<>>
      BY <2>1, <3>1
    <3> QED
      BY <2>1, <3>1, <3>2, <3>3
  <2> QED
    BY <1>2, <2>1, <2>2, <2>3, <2>4, <2>5
<1> HIDE DEF new
<1>6. Listed'
  <2>1. \A g \in DOMAIN global_to_full' :
          /\ global_to_full'[g].moduleIndex + 1 \in DOMAIN sub_hw_modules
          /\ Sensors[sub_hw_modules[global_to_full'[g].moduleIndex + 1]] # <<>>
    BY <1>1, <1>5 DEF RoutingInv, Listed
  <2>2. \A j \in DOMAIN sub_hw_modules : HasRead(j)' => HasRead(j) \/ j = lidx
    BY <1>1 DEF HasRead, Made
  <2> QED
    BY <1>1, <1>4, <2>1, <2>2 DEF RoutingInv, Listed, Made
<1>7. Parallel' /\ Apart'
  BY <1>1 DEF RoutingInv, Parallel, Apart, OpenedThrough, Latest
<1> QED
  BY <1>6, <1>7 DEF RoutingInv

LEMMA StepRouting ==
    ASSUME IInv, RoutingInv, [Next]_vars
    PROVE  RoutingInv'
<1>1. CASE OpenReturn
  <2>1. opc = "opening" /\ opc' = "idle"
        /\ UNCHANGED <<made, sub_hw_modules, sub_hw_devices, opens, failed, lpc, lidx, global_to_full>>
    BY <1>1 DEF OpenReturn, moduleVars, listVars, mapVars
  <2> QED
    BY <2>1 DEF RoutingInv, Parallel, Apart, Listed, OpenedThrough, HasRead, Made, Latest
<1>2. CASE ListReturn
  <2>1. /\ lpc = "build" /\ lidx > Len(sub_hw_modules) /\ "modules" \in made'
        /\ UNCHANGED <<sub_hw_modules, sub_hw_devices, opens, opc, oidx, failed, global_to_full>>
    BY <1>2 DEF ListReturn, openVars, IInv, Types, Made
  <2>2. \A j \in DOMAIN sub_hw_modules : HasRead(j)
    BY <2>1 DEF HasRead, IInv, TypeOK, Types
  <2>3. Listed'
    BY <2>1, <2>2 DEF RoutingInv, Listed, Made
  <2> QED
    BY <2>1, <2>3 DEF RoutingInv, Parallel, Apart, OpenedThrough, Latest
<1>3. CASE UNCHANGED <<made, sub_hw_modules, sub_hw_devices, opens, opc, oidx, failed, lpc, lidx,
                       global_to_full>>
  BY <1>3 DEF RoutingInv, Parallel, Apart, Listed, OpenedThrough, HasRead, Made, Latest
<1>4. (\E k \in Contexts : device__close(k)) \/ ListModuleCrashes \/ OpenModuleCrashes
      \/ (\E k \in Contexts, m \in Modules : WriterLock(k, m))
      \/ (\E k \in Contexts, m \in Modules : WriterUnlock(k, m))
      \/ (\E k \in Contexts, m \in Modules : PollClosed(k, m))
      \/ UNCHANGED vars
        => UNCHANGED <<lidx, global_to_full>>
  BY DEF device__close, ListModuleCrashes, OpenModuleCrashes, WriterLock, WriterUnlock, PollClosed,
         listVars, mapVars, vars
<1> QED
  BY <1>1, <1>2, <1>3, <1>4, LoadRouting, LockRouting, OpenModuleRouting, FailRouting,
     ListModuleRouting, OtherStep, Step

LEMMA RoutingAlways == Spec => [](IInv /\ RoutingInv)
<1>1. IInv /\ RoutingInv /\ [Next]_vars => (IInv /\ RoutingInv)'
  BY StepInv, StepRouting
<1> QED
  BY <1>1, InitInv, InitRouting, PTL DEF Spec

(***************************************************************************)
(* A sub-HAL that may fail to open and offers no sensor has none with      *)
(* sensors behind it in the file.  Nothing in the code makes it so: the    *)
(* run init_shifted shows what happens where it is not.                    *)
(***************************************************************************)
NoSilentGap ==
    \A m \in MayFail : Sensors[m] = <<>> => \A n \in Modules : n > m => Sensors[n] = <<>>

\* Where no silent sub-HAL leaves a gap, a handle finds, in every context that the
\* property speaks of, the device of the sub-HAL that listed the sensor.
LEMMA RoutedState ==
    ASSUME NoSilentGap, IInv, RoutingInv
    PROVE  RoutedToOwner
<1> SUFFICES ASSUME Made("list"), NEW k \in 1 .. opens \ closed, NEW g \in DOMAIN global_to_full,
                    k = 1 \/ failed[k] = {},
                    global_to_full[g].moduleIndex < Len(sub_hw_devices[k])
             PROVE  OwnerOfDevice(k, g) = sub_hw_modules[global_to_full[g].moduleIndex + 1]
  BY DEF RoutedToOwner
<1> DEFINE i == global_to_full[g].moduleIndex + 1
<1>1. k \in Contexts /\ 1 \in Contexts
  BY OpenAssumption DEF IInv, TypeOK, Contexts
<1>2. i \in DOMAIN sub_hw_modules /\ Sensors[sub_hw_modules[i]] # <<>>
  BY DEF RoutingInv, Listed
<1>3. /\ DOMAIN sub_hw_modules = 1 .. Len(sub_hw_modules)
      /\ DOMAIN sub_hw_devices[k] = 1 .. Len(sub_hw_devices[k]) /\ Len(sub_hw_devices[k]) \in Nat
      /\ \A j \in DOMAIN sub_hw_modules : sub_hw_modules[j] \in Modules
  BY <1>1 DEF IInv, TypeOK
<1>4. global_to_full[g].moduleIndex \in Nat
  <2>1. global_to_full[g] \in FullHandle
    BY DEF IInv, Handles
  <2> QED
    BY <2>1 DEF FullHandle
<1>5. i \in DOMAIN sub_hw_devices[k]
  BY <1>3, <1>4
<1> HIDE DEF i
<1>6. ASSUME NEW j \in 1 .. i
      PROVE  sub_hw_modules[j] \notin failed[k]
  <2>1. j \in DOMAIN sub_hw_modules /\ (j = i \/ j < i)
    BY <1>2, <1>3
  <2>2. CASE Sensors[sub_hw_modules[j]] # <<>>
    <3>1. sub_hw_modules[j] \in Range(sub_hw_devices[1])
      BY <2>1, <2>2 DEF RoutingInv, Listed, HasRead
    <3> QED
      BY <1>1, <3>1 DEF RoutingInv, Apart
  <2>3. CASE Sensors[sub_hw_modules[j]] = <<>>
    <3>1. j < i
      BY <1>2, <2>1, <2>3
    <3>2. sub_hw_modules[j] < sub_hw_modules[i]
      BY <1>2, <2>1, <3>1 DEF RoutingInv, Apart
    <3>3. sub_hw_modules[i] > sub_hw_modules[j]
      BY <1>2, <1>3, <2>1, <3>2 DEF Modules
    <3>4. sub_hw_modules[j] \notin MayFail
      BY <1>2, <1>3, <2>3, <3>3 DEF NoSilentGap
    <3> QED
      BY <1>1, <3>4 DEF IInv, TypeOK
  <2> QED
    BY <2>2, <2>3
<1>7. OpenedThrough(k, i)
  BY <1>6 DEF OpenedThrough
<1>8. sub_hw_devices[k][i] = sub_hw_modules[i]
  BY <1>1, <1>5, <1>7 DEF RoutingInv, Parallel
<1> QED
  BY <1>8 DEF OwnerOfDevice, i

\* Control calls reach the device of the sensor's own sub-HAL, for every
\* configuration file in which no silent sub-HAL that may fail leaves a gap.
THEOREM Routed ==
    ASSUME NoSilentGap
    PROVE  Spec => []RoutedToOwner
<1>1. IInv /\ RoutingInv => RoutedToOwner
  BY RoutedState
<1> QED
  BY <1>1, RoutingAlways, PTL
===============================================================================
