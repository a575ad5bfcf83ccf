----------------------------- MODULE SensorService -----------------------------
(***************************************************************************)
(* The sensor service as its clients see it through ISensorServer: four    *)
(* methods, a list of built-in sensors, a list of dynamic sensors and a    *)
(* flag that change, and a process that may die.  The service itself is    *)
(* not in this repository.                                                 *)
(***************************************************************************)
EXTENDS Naturals, Sequences

CONSTANTS
    Names,          \* package names
    Ints,           \* the values of an int that are told apart: modes, and
    Zero,           \* zero for no injection
    Sensors,
    SensorList,     \* the built-in sensors, in order
    DynamicLists,   \* the lists of dynamic sensors there may be
    NULL

ASSUME ListsAssumption ==
    /\ SensorList \in Seq(Sensors)
    /\ DynamicLists \subseteq Seq(Sensors)
ASSUME ZeroAssumption == Zero \in Ints

VARIABLES alive, dynamicList, injection

serviceVars == <<alive, dynamicList, injection>>

ListCalls == [method : {"getSensorList", "getDynamicSensorList"}, opPackageName : Names]
ConnectCalls == [method : {"createSensorEventConnection"},
                 packageName : Names, mode : Ints, opPackageName : Names]
InjectionCalls == [method : {"isDataInjectionEnabled"}]

Calls == ListCalls \cup ConnectCalls \cup InjectionCalls

ASSUME NULLAssumption == NULL \notin Calls

\* A connection is known by what it was asked for with; it may be refused.
Connection(a) == <<a.packageName, a.mode, a.opPackageName>>

Answers(a) ==
    CASE a.method = "getSensorList" -> {SensorList}
      [] a.method = "getDynamicSensorList" -> {dynamicList}
      [] a.method = "createSensorEventConnection" -> {Connection(a), NULL}
      [] a.method = "isDataInjectionEnabled" -> {injection}

\* What the caller gets when the transaction fails.
Empty(a) ==
    IF a \in ListCalls THEN <<>>
    ELSE IF a \in ConnectCalls THEN NULL
    ELSE Zero

ServiceInit ==
    /\ alive = TRUE
    /\ dynamicList \in DynamicLists
    /\ injection \in Ints

\* A dynamic sensor comes or goes, or injection is switched.
ServiceChanges ==
    /\ alive
    /\ dynamicList' \in DynamicLists
    /\ injection' \in Ints
    /\ UNCHANGED alive

ServiceDies ==
    /\ alive
    /\ alive' = FALSE
    /\ UNCHANGED <<dynamicList, injection>>

ServiceStarts ==
    /\ ~alive
    /\ alive' = TRUE
    /\ dynamicList' \in DynamicLists
    /\ injection' \in Ints
================================================================================
