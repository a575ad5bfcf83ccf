---------------------------- MODULE MultiHalControl ----------------------------
(***************************************************************************)
(* The control calls of device/huawei/mozart/sensors/multihal.cpp:         *)
(* activate, setDelay, batch, flush and inject_sensor_data of the proxy    *)
(* device, and what they ask of the sub-HAL that owns the sensor.          *)
(*                                                                         *)
(* The proxy advertises API 1.4, where batch() may come before activate(). *)
(* A sub-HAL older than 1.1 has only setDelay(), which must not be called  *)
(* on an inactive sensor.  The proxy bridges the two with one saved batch  *)
(* request and one enable flag for each sensor.                            *)
(*                                                                         *)
(* SensorDevice.cpp serialises the calls, so a handler is one step.  Any   *)
(* call into a sub-HAL may fail and then changes nothing there.            *)
(***************************************************************************)
EXTENDS Integers, Sequences

CONSTANTS
    global_to_full,  \* for each global handle its [moduleIndex, localHandle]
    Version,         \* API version of each entry of sub_hw_devices
    Periods,         \* the period_ns a caller may pass
    INT_MAX,         \* the largest `int'
    NoPeriod         \* no period was set or saved

Handles == DOMAIN global_to_full

\* SENSORS_DEVICE_API_VERSION_x_y, as 10 * x + y.
V1_1 == 11
V1_4 == 14

ASSUME HandleAssumption == global_to_full \in Seq([moduleIndex : Nat, localHandle : Nat])
ASSUME VersionAssumption == Version \in Seq(Nat)
ASSUME PeriodAssumption ==
    /\ Periods \subseteq Nat
    /\ NoPeriod \notin Int
    /\ INT_MAX \in Nat

VARIABLES
    sensors_enable_state,   \* the proxy's flag for each sensor
    sensors_batch_list,     \* period_ns of the saved batch request, or NoPeriod if `empty'
    active,                 \* whether the sub-HAL's sensor is active
    delay,                  \* the period the sub-HAL's sensor runs at
    asked,                  \* history: period of the latest batch or setDelay that returned 0
    forgotten,              \* history: a saved request was dropped because setDelay failed
    last                    \* the latest call of the framework and its outcome

proxyVars == <<sensors_enable_state, sensors_batch_list>>
halVars == <<active, delay>>
vars == <<proxyVars, halVars, asked, forgotten, last>>

\* What an `int' keeps of a 64-bit value.
Narrow(n) == ((n + INT_MAX + 1) % (2 * INT_MAX + 2)) - INT_MAX - 1

\* Index of the sensor's sub-HAL in Version; C++ counts from 0.
DeviceOf(h) == global_to_full[h].moduleIndex + 1

get_v0_device_by_handle(h) == DeviceOf(h) \in DOMAIN Version

halIsAPILevelCompliant(h, level) ==
    get_v0_device_by_handle(h) /\ Version[DeviceOf(h)] >= level

\* The sub-HAL's outcomes: no device means -EINVAL.
Outcomes(h) == IF get_v0_device_by_handle(h) THEN BOOLEAN ELSE {FALSE}

\* Mutant: the arrays are allocated and not initialised.
Init_NotZeroed ==
    /\ sensors_enable_state \in [Handles -> {0, 1, 2}]
    /\ sensors_batch_list = [h \in Handles |-> NoPeriod]
    /\ active = [h \in Handles |-> FALSE]
    /\ delay = [h \in Handles |-> NoPeriod]
    /\ asked = [h \in Handles |-> NoPeriod]
    /\ forgotten = [h \in Handles |-> FALSE]
    /\ last = [op |-> "none", sensor |-> 0, arg |-> 0, ok |-> TRUE]

Init ==
    /\ sensors_enable_state = [h \in Handles |-> 0]
    /\ sensors_batch_list = [h \in Handles |-> NoPeriod]
    /\ active = [h \in Handles |-> FALSE]
    /\ delay = [h \in Handles |-> NoPeriod]
    /\ asked = [h \in Handles |-> NoPeriod]
    /\ forgotten = [h \in Handles |-> FALSE]
    /\ last = [op |-> "none", sensor |-> 0, arg |-> 0, ok |-> TRUE]

Outcome(op, h, arg, ok) == last' = [op |-> op, sensor |-> h, arg |-> arg, ok |-> ok]

-----------------------------------------------------------------------------
\* device__activate when nothing is waiting to be applied to the sub-HAL.
ActivateOnly(h, enabled) ==
    /\ halIsAPILevelCompliant(h, V1_1) \/ enabled = 0 \/ sensors_batch_list[h] = NoPeriod
    /\ sensors_enable_state' =
         IF halIsAPILevelCompliant(h, V1_1) THEN sensors_enable_state
                                            ELSE [sensors_enable_state EXCEPT ![h] = enabled]
    /\ \E ok \in Outcomes(h) :
         /\ active' = IF ok THEN [active EXCEPT ![h] = (enabled = 1)] ELSE active
         /\ Outcome("activate", h, enabled, ok)
    /\ UNCHANGED <<sensors_batch_list, delay, asked, forgotten>>

\* Mutant: only the result of activate() is returned.
ActivateAndSetDelay_IgnoreDelay(h) ==
    /\ ~halIsAPILevelCompliant(h, V1_1)
    /\ sensors_batch_list[h] # NoPeriod
    /\ sensors_enable_state' = [sensors_enable_state EXCEPT ![h] = 1]
    /\ \E ok \in Outcomes(h), delayOk \in Outcomes(h) :
         /\ active' = IF ok THEN [active EXCEPT ![h] = TRUE] ELSE active
         /\ delay' = IF delayOk THEN [delay EXCEPT ![h] = sensors_batch_list[h]] ELSE delay
         /\ forgotten' = [forgotten EXCEPT ![h] = ~delayOk]
         /\ Outcome("activate and setDelay", h, 1, ok)
    /\ sensors_batch_list' = [sensors_batch_list EXCEPT ![h] = NoPeriod]
    /\ UNCHANGED asked

\* device__activate of a sensor of an old sub-HAL with a saved batch request:
\* setDelay() is called, and the request is dropped, whatever activate() returned.
ActivateAndSetDelay(h) ==
    /\ ~halIsAPILevelCompliant(h, V1_1)
    /\ sensors_batch_list[h] # NoPeriod
    /\ sensors_enable_state' = [sensors_enable_state EXCEPT ![h] = 1]
    /\ \E ok \in Outcomes(h), delayOk \in Outcomes(h) :
         /\ active' = IF ok THEN [active EXCEPT ![h] = TRUE] ELSE active
         /\ delay' = IF delayOk THEN [delay EXCEPT ![h] = sensors_batch_list[h]] ELSE delay
         /\ forgotten' = [forgotten EXCEPT ![h] = ~delayOk]
         /\ Outcome("activate and setDelay", h, 1, ok /\ delayOk)
    /\ sensors_batch_list' = [sensors_batch_list EXCEPT ![h] = NoPeriod]
    /\ UNCHANGED asked

\* A period goes straight to the sub-HAL.
SetRate(op, h, period) ==
    /\ \E ok \in Outcomes(h) :
         /\ delay' = IF ok THEN [delay EXCEPT ![h] = period] ELSE delay
         /\ asked' = IF ok THEN [asked EXCEPT ![h] = period] ELSE asked
         /\ forgotten' = IF ok THEN [forgotten EXCEPT ![h] = FALSE] ELSE forgotten
         /\ Outcome(op, h, period, ok)
    /\ UNCHANGED <<proxyVars, active>>

\* device__batch of a sensor whose sub-HAL has batch().
Batch(h, period) ==
    /\ halIsAPILevelCompliant(h, V1_1)
    /\ SetRate("batch", h, period)

\* device__batch of an enabled sensor of an old sub-HAL.
BatchFallBack(h, period) ==
    /\ ~halIsAPILevelCompliant(h, V1_1)
    /\ sensors_enable_state[h] # 0
    /\ SetRate("batch", h, period)

\* Mutant: a saved request is not replaced by a newer one.
BatchSave_KeepOld(h, period) ==
    /\ ~halIsAPILevelCompliant(h, V1_1)
    /\ sensors_enable_state[h] = 0
    /\ sensors_batch_list' =
         [sensors_batch_list EXCEPT ![h] = IF @ = NoPeriod THEN Narrow(period) ELSE @]
    /\ asked' = [asked EXCEPT ![h] = period]
    /\ forgotten' = [forgotten EXCEPT ![h] = FALSE]
    /\ Outcome("batch", h, period, TRUE)
    /\ UNCHANGED <<sensors_enable_state, halVars>>

\* device__batch of a disabled sensor of an old sub-HAL; update_batch_data takes
\* the period as an `int'.
BatchSave(h, period) ==
    /\ ~halIsAPILevelCompliant(h, V1_1)
    /\ sensors_enable_state[h] = 0
    /\ sensors_batch_list' = [sensors_batch_list EXCEPT ![h] = Narrow(period)]
    /\ asked' = [asked EXCEPT ![h] = period]
    /\ forgotten' = [forgotten EXCEPT ![h] = FALSE]
    /\ Outcome("batch", h, period, TRUE)
    /\ UNCHANGED <<sensors_enable_state, halVars>>

\* device__setDelay: only pre-1.1 callers use it, on a sensor they have switched
\* on and not asked to be switched off again.  These two guards are the
\* framework's; the code tests neither.
SetDelay(h, period) ==
    /\ active[h]
    /\ halIsAPILevelCompliant(h, V1_1) \/ sensors_enable_state[h] = 1
    /\ SetRate("setDelay", h, period)

\* device__flush: an old sub-HAL answers -EINVAL without being asked.
Flush(h) ==
    /\ \E ok \in IF halIsAPILevelCompliant(h, V1_1) THEN BOOLEAN ELSE {FALSE} :
         Outcome("flush", h, 0, ok)
    /\ UNCHANGED <<proxyVars, halVars, asked, forgotten>>

\* device__inject_sensor_data.
Inject(h) ==
    /\ \E ok \in IF halIsAPILevelCompliant(h, V1_4) THEN BOOLEAN ELSE {FALSE} :
         Outcome("inject", h, 0, ok)
    /\ UNCHANGED <<proxyVars, halVars, asked, forgotten>>

Next ==
    \E h \in Handles :
        \/ \E enabled \in {0, 1} : ActivateOnly(h, enabled)
        \/ ActivateAndSetDelay(h)
        \/ \E p \in Periods : \/ Batch(h, p)
                              \/ BatchFallBack(h, p)
                              \/ BatchSave(h, p)
                              \/ SetDelay(h, p)
        \/ Flush(h)
        \/ Inject(h)

Spec == Init /\ [][Next]_vars

-----------------------------------------------------------------------------
\* Properties

Period == Periods \cup {NoPeriod}

\* A period as it reaches the sub-HAL: straight, or, if that has no batch(), by
\* way of a saved request.
AsPassedOn(h, p) == IF halIsAPILevelCompliant(h, V1_1) THEN {p} ELSE {p, Narrow(p)}

TypeOK ==
    /\ sensors_enable_state \in [Handles -> {0, 1}]
    /\ sensors_batch_list \in [Handles -> {Narrow(p) : p \in Periods} \cup {NoPeriod}]
    /\ active \in [Handles -> BOOLEAN]
    /\ delay \in [Handles -> {Narrow(p) : p \in Periods} \cup Period]
    /\ asked \in [Handles -> Period]
    /\ forgotten \in [Handles -> BOOLEAN]

(***************************************************************************)
(* No request for a sampling period gets lost between batch(), activate()  *)
(* and setDelay(): the period the framework was last told is accepted is   *)
(* saved while the sensor is off and in force once it is on, unless the    *)
(* sub-HAL itself refused it in a setDelay() that activate() made.  What   *)
(* may change a period on its way is the `int' parameter of                *)
(* update_batch_data, which only an old sub-HAL's requests pass through.   *)
(***************************************************************************)
RateAsAsked ==
    \A h \in Handles :
        asked[h] # NoPeriod /\ ~forgotten[h] =>
            IF sensors_batch_list[h] = NoPeriod
            THEN delay[h] \in AsPassedOn(h, asked[h])
            ELSE sensors_enable_state[h] = 0 /\ sensors_batch_list[h] = Narrow(asked[h])

(***************************************************************************)
(* A return value of 0 is never a lie: activate() left the sub-HAL in the  *)
(* asked state and has no saved request outstanding, and batch() left the  *)
(* period in force or saved.                                               *)
(***************************************************************************)
SuccessIsTrue ==
    LET h == last.sensor
    IN  last.ok =>
          /\ last.op \in {"activate", "activate and setDelay"} => active[h] = (last.arg = 1)
          /\ last.op = "activate" /\ last.arg = 1 => sensors_batch_list[h] = NoPeriod
          /\ last.op = "activate and setDelay" =>
               /\ sensors_batch_list[h] = NoPeriod
               /\ delay[h] = Narrow(asked[h]) /\ ~forgotten[h]
          /\ last.op = "batch" =>
               delay[h] = last.arg \/ sensors_batch_list[h] = Narrow(last.arg)
===============================================================================
