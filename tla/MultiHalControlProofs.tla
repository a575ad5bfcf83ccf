------------------------ MODULE MultiHalControlProofs ------------------------
(***************************************************************************)
(* Proofs about MultiHalControl for any number of sensors and sub-HALs,    *)
(* any mix of API versions, any periods and any width of an `int'.         *)
(***************************************************************************)
EXTENDS MultiHalControl, TLAPS

\* A request is saved only for a sensor of an old sub-HAL, and only while the
\* sensor is off; while it is saved nothing has been forgotten.
SavedWhileOff ==
    \A h \in Handles : sensors_batch_list[h] # NoPeriod =>
        /\ sensors_enable_state[h] = 0
        /\ ~halIsAPILevelCompliant(h, V1_1)
        /\ asked[h] # NoPeriod /\ ~forgotten[h]

IInv == TypeOK /\ SavedWhileOff /\ RateAsAsked

LEMMA InitIInv == Init => IInv
  BY DEF Init, IInv, TypeOK, Period, SavedWhileOff, RateAsAsked

LEMMA NarrowInt == \A p \in Periods : Narrow(p) \in Int /\ Narrow(p) # NoPeriod
<1> SUFFICES ASSUME NEW p \in Periods PROVE Narrow(p) \in Int
  BY PeriodAssumption
<1>1. p + INT_MAX + 1 \in Int /\ 2 * INT_MAX + 2 \in Nat \ {0}
  BY PeriodAssumption
<1>2. (p + INT_MAX + 1) % (2 * INT_MAX + 2) \in Int
  BY <1>1
<1> QED BY <1>2, PeriodAssumption DEF Narrow

LEMMA OutcomesBoolean == \A h \in Handles : Outcomes(h) \subseteq BOOLEAN
  BY DEF Outcomes

\* activate() without a saved request leaves every period where it is.
LEMMA ActivateOnlyIInv ==
    ASSUME IInv, NEW h \in Handles, NEW enabled \in {0, 1}, ActivateOnly(h, enabled)
    PROVE  IInv'
<1> USE DEF IInv
<1>1. PICK ok \in BOOLEAN :
          active' = IF ok THEN [active EXCEPT ![h] = (enabled = 1)] ELSE active
  BY OutcomesBoolean DEF ActivateOnly
<1>2. UNCHANGED <<sensors_batch_list, delay, asked, forgotten>>
  BY DEF ActivateOnly
<1>3. active' \in [Handles -> BOOLEAN]
  BY <1>1 DEF TypeOK
<1>4. \A g \in Handles :
         \/ sensors_enable_state'[g] = sensors_enable_state[g]
         \/ sensors_enable_state'[g] = 0
         \/ g = h /\ ~halIsAPILevelCompliant(h, V1_1) /\ sensors_batch_list[g] = NoPeriod
  BY DEF ActivateOnly, TypeOK
<1>5. sensors_enable_state' \in [Handles -> {0, 1}]
  BY DEF ActivateOnly, TypeOK
<1>6. TypeOK'
  BY <1>2, <1>3, <1>5 DEF TypeOK
<1>7. SavedWhileOff' /\ RateAsAsked'
  BY <1>2, <1>4, <1>5 DEF TypeOK, SavedWhileOff, RateAsAsked, AsPassedOn
<1> QED BY <1>6, <1>7

\* activate() with a saved request: the request is in force, or it is known to
\* be forgotten.
LEMMA ActivateAndSetDelayIInv ==
    ASSUME IInv, NEW h \in Handles, ActivateAndSetDelay(h)
    PROVE  IInv'
<1> USE DEF IInv
<1>1. PICK ok \in BOOLEAN, delayOk \in BOOLEAN :
         /\ active' = IF ok THEN [active EXCEPT ![h] = TRUE] ELSE active
         /\ delay' = IF delayOk THEN [delay EXCEPT ![h] = sensors_batch_list[h]] ELSE delay
         /\ forgotten' = [forgotten EXCEPT ![h] = ~delayOk]
  BY OutcomesBoolean DEF ActivateAndSetDelay
<1>2. /\ sensors_enable_state' = [sensors_enable_state EXCEPT ![h] = 1]
      /\ sensors_batch_list' = [sensors_batch_list EXCEPT ![h] = NoPeriod]
      /\ asked' = asked
      /\ sensors_batch_list[h] # NoPeriod
  BY DEF ActivateAndSetDelay
<1>3. active' \in [Handles -> BOOLEAN] /\ forgotten' \in [Handles -> BOOLEAN]
  BY <1>1 DEF TypeOK
<1>4. delay' \in [Handles -> {Narrow(p) : p \in Periods} \cup Period]
  BY <1>1, <1>2 DEF TypeOK, Period
<1>5. TypeOK'
  BY <1>2, <1>3, <1>4 DEF TypeOK
<1>6. SavedWhileOff'
  BY <1>1, <1>2 DEF TypeOK, SavedWhileOff
<1>7. RateAsAsked'
  <2> SUFFICES ASSUME NEW g \in Handles, asked'[g] # NoPeriod, ~forgotten'[g]
               PROVE  IF sensors_batch_list'[g] = NoPeriod
                      THEN delay'[g] \in AsPassedOn(g, asked'[g])
                      ELSE sensors_enable_state'[g] = 0 /\ sensors_batch_list'[g] = Narrow(asked'[g])
    BY DEF RateAsAsked
  <2>1. CASE g = h
    <3>1. delayOk
      BY <1>1, <2>1 DEF TypeOK
    <3>2. sensors_batch_list'[g] = NoPeriod /\ delay'[g] = sensors_batch_list[h]
      BY <1>1, <1>2, <2>1, <3>1 DEF TypeOK
    <3>3. Narrow(asked[h]) = sensors_batch_list[h]
      BY <1>2, <2>1 DEF SavedWhileOff, RateAsAsked
    <3>4. ~halIsAPILevelCompliant(h, V1_1)
      BY DEF ActivateAndSetDelay
    <3> QED BY <1>2, <2>1, <3>2, <3>3, <3>4 DEF AsPassedOn
  <2>2. CASE g # h
    BY <1>1, <1>2, <2>2 DEF TypeOK, RateAsAsked, AsPassedOn
  <2> QED BY <2>1, <2>2
<1> QED BY <1>5, <1>6, <1>7

\* A period given to the sub-HAL directly: no request was waiting.
LEMMA SetRateIInv ==
    ASSUME IInv, NEW h \in Handles, NEW p \in Periods, NEW op,
           sensors_batch_list[h] = NoPeriod, SetRate(op, h, p)
    PROVE  IInv'
<1> USE DEF IInv
<1>1. PICK ok \in BOOLEAN :
         /\ delay' = IF ok THEN [delay EXCEPT ![h] = p] ELSE delay
         /\ asked' = IF ok THEN [asked EXCEPT ![h] = p] ELSE asked
         /\ forgotten' = IF ok THEN [forgotten EXCEPT ![h] = FALSE] ELSE forgotten
  BY OutcomesBoolean DEF SetRate
<1>2. UNCHANGED <<sensors_enable_state, sensors_batch_list, active>>
  BY DEF SetRate, proxyVars
<1>3. forgotten' \in [Handles -> BOOLEAN]
  BY <1>1 DEF TypeOK
<1>4. /\ delay' \in [Handles -> {Narrow(n) : n \in Periods} \cup Period]
      /\ asked' \in [Handles -> Period]
  BY <1>1 DEF TypeOK, Period
<1>5. TypeOK'
  BY <1>2, <1>3, <1>4 DEF TypeOK
<1>6. SavedWhileOff'
  BY <1>1, <1>2 DEF TypeOK, SavedWhileOff
<1>7. RateAsAsked'
  BY <1>1, <1>2 DEF TypeOK, RateAsAsked, AsPassedOn
<1> QED BY <1>5, <1>6, <1>7

\* A request saved for later is the request that was made, as an `int' has it.
LEMMA BatchSaveIInv ==
    ASSUME IInv, NEW h \in Handles, NEW p \in Periods, BatchSave(h, p)
    PROVE  IInv'
<1> USE DEF IInv
<1>1. /\ ~halIsAPILevelCompliant(h, V1_1)
      /\ sensors_enable_state[h] = 0
      /\ sensors_batch_list' = [sensors_batch_list EXCEPT ![h] = Narrow(p)]
      /\ asked' = [asked EXCEPT ![h] = p]
      /\ forgotten' = [forgotten EXCEPT ![h] = FALSE]
      /\ UNCHANGED <<sensors_enable_state, active, delay>>
  BY DEF BatchSave, halVars
<1>2. /\ sensors_batch_list' \in [Handles -> {Narrow(n) : n \in Periods} \cup {NoPeriod}]
      /\ asked' \in [Handles -> Period]
  BY <1>1 DEF TypeOK, Period
<1>3. TypeOK'
  BY <1>1, <1>2 DEF TypeOK
<1>4. Narrow(p) # NoPeriod /\ p # NoPeriod
  BY NarrowInt, PeriodAssumption
<1>5. SavedWhileOff'
  BY <1>1, <1>4 DEF TypeOK, SavedWhileOff
<1>6. RateAsAsked'
  <2> SUFFICES ASSUME NEW g \in Handles, asked'[g] # NoPeriod, ~forgotten'[g]
               PROVE  IF sensors_batch_list'[g] = NoPeriod
                      THEN delay'[g] \in AsPassedOn(g, asked'[g])
                      ELSE sensors_enable_state'[g] = 0 /\ sensors_batch_list'[g] = Narrow(asked'[g])
    BY DEF RateAsAsked
  <2>1. CASE g = h
    <3>1. sensors_batch_list'[g] = Narrow(p) /\ asked'[g] = p
      BY <1>1, <2>1 DEF TypeOK
    <3> QED BY <1>1, <1>4, <2>1, <3>1
  <2>2. CASE g # h
    BY <1>1, <2>2 DEF TypeOK, RateAsAsked
  <2> QED BY <2>1, <2>2
<1> QED BY <1>3, <1>5, <1>6

LEMMA NextIInv == IInv /\ [Next]_vars => IInv'
<1> SUFFICES ASSUME IInv, [Next]_vars PROVE IInv'
  OBVIOUS
<1>1. ASSUME NEW h \in Handles, NEW enabled \in {0, 1}, ActivateOnly(h, enabled)
      PROVE  IInv'
  BY <1>1, ActivateOnlyIInv
<1>2. ASSUME NEW h \in Handles, ActivateAndSetDelay(h) PROVE IInv'
  BY <1>2, ActivateAndSetDelayIInv
<1>3. ASSUME NEW h \in Handles, NEW p \in Periods,
             Batch(h, p) \/ BatchFallBack(h, p) \/ SetDelay(h, p)
      PROVE  IInv'
  <2>1. sensors_batch_list[h] = NoPeriod
    BY <1>3 DEF IInv, SavedWhileOff, Batch, BatchFallBack, SetDelay
  <2> QED BY <1>3, <2>1, SetRateIInv DEF Batch, BatchFallBack, SetDelay
<1>4. ASSUME NEW h \in Handles, NEW p \in Periods, BatchSave(h, p) PROVE IInv'
  BY <1>4, BatchSaveIInv
<1>5. ASSUME UNCHANGED <<proxyVars, halVars, asked, forgotten>> PROVE IInv'
  BY <1>5 DEF IInv, TypeOK, SavedWhileOff, RateAsAsked, proxyVars, halVars
<1>6. ASSUME NEW h \in Handles, Flush(h) \/ Inject(h) PROVE IInv'
  BY <1>5, <1>6 DEF Flush, Inject
<1>7. CASE UNCHANGED vars
  BY <1>5, <1>7 DEF vars
<1> QED BY <1>1, <1>2, <1>3, <1>4, <1>6, <1>7 DEF Next

THEOREM Invariance == Spec => []IInv
  BY InitIInv, NextIInv, PTL DEF Spec

\* Unless a sub-HAL refuses it, the period the framework was told is accepted
\* is the one in force or the one saved: no order of activate(), batch() and
\* setDelay() calls loses it, and only the `int' parameter of update_batch_data
\* changes it.
THEOREM RateKept == Spec => []RateAsAsked
<1>1. IInv => RateAsAsked
  BY DEF IInv
<1> QED BY <1>1, Invariance, PTL

\* The flags, the saved requests and the sub-HALs' periods keep their types.
THEOREM TypeCorrect == Spec => []TypeOK
<1>1. IInv => TypeOK
  BY DEF IInv
<1> QED BY <1>1, Invariance, PTL

-----------------------------------------------------------------------------
\* What a call reports

\* activate() succeeds only if the sub-HAL did what was asked, and then nothing
\* waits for it any more.
LEMMA ActivateOnlyTrue ==
    ASSUME IInv, NEW h \in Handles, NEW enabled \in {0, 1}, ActivateOnly(h, enabled)
    PROVE  SuccessIsTrue'
<1>1. PICK ok \in BOOLEAN :
          /\ active' = IF ok THEN [active EXCEPT ![h] = (enabled = 1)] ELSE active
          /\ last' = [op |-> "activate", sensor |-> h, arg |-> enabled, ok |-> ok]
  BY OutcomesBoolean DEF ActivateOnly, Outcome
<1>2. sensors_batch_list' = sensors_batch_list
  BY DEF ActivateOnly
<1>3. enabled = 1 => sensors_batch_list[h] = NoPeriod
  BY DEF ActivateOnly, IInv, SavedWhileOff
<1>4. ok => active'[h] = (enabled = 1)
  BY <1>1 DEF IInv, TypeOK
<1> QED BY <1>1, <1>2, <1>3, <1>4 DEF SuccessIsTrue

\* With a saved request both calls have to succeed.
LEMMA ActivateAndSetDelayTrue ==
    ASSUME IInv, NEW h \in Handles, ActivateAndSetDelay(h)
    PROVE  SuccessIsTrue'
<1>1. PICK ok \in BOOLEAN, delayOk \in BOOLEAN :
         /\ active' = IF ok THEN [active EXCEPT ![h] = TRUE] ELSE active
         /\ delay' = IF delayOk THEN [delay EXCEPT ![h] = sensors_batch_list[h]] ELSE delay
         /\ forgotten' = [forgotten EXCEPT ![h] = ~delayOk]
         /\ last' = [op |-> "activate and setDelay", sensor |-> h, arg |-> 1, ok |-> ok /\ delayOk]
  BY OutcomesBoolean DEF ActivateAndSetDelay, Outcome
<1>2. /\ sensors_batch_list' = [sensors_batch_list EXCEPT ![h] = NoPeriod]
      /\ asked' = asked
      /\ sensors_batch_list[h] # NoPeriod
  BY DEF ActivateAndSetDelay
<1>3. sensors_batch_list[h] = Narrow(asked[h])
  BY <1>2 DEF IInv, SavedWhileOff, RateAsAsked
<1>4. CASE ok /\ delayOk
  <2>1. active'[h] = TRUE /\ sensors_batch_list'[h] = NoPeriod
    BY <1>1, <1>2, <1>4 DEF IInv, TypeOK
  <2>2. ~forgotten'[h] /\ delay'[h] = sensors_batch_list[h]
    BY <1>1, <1>4 DEF IInv, TypeOK
  <2> QED BY <1>1, <1>2, <1>3, <1>4, <2>1, <2>2 DEF SuccessIsTrue
<1>5. CASE ~(ok /\ delayOk)
  BY <1>1, <1>5 DEF SuccessIsTrue
<1> QED BY <1>4, <1>5

\* A period given to the sub-HAL directly is in force.
LEMMA SetRateTrue ==
    ASSUME IInv, NEW h \in Handles, NEW p \in Periods, NEW op \in {"batch", "setDelay"},
           SetRate(op, h, p)
    PROVE  SuccessIsTrue'
<1>1. PICK ok \in BOOLEAN :
         /\ delay' = IF ok THEN [delay EXCEPT ![h] = p] ELSE delay
         /\ last' = [op |-> op, sensor |-> h, arg |-> p, ok |-> ok]
  BY OutcomesBoolean DEF SetRate, Outcome
<1>2. ok => delay'[h] = p
  BY <1>1 DEF IInv, TypeOK
<1> QED BY <1>1, <1>2 DEF SuccessIsTrue

LEMMA BatchSaveTrue ==
    ASSUME IInv, NEW h \in Handles, NEW p \in Periods, BatchSave(h, p)
    PROVE  SuccessIsTrue'
<1>1. /\ sensors_batch_list' = [sensors_batch_list EXCEPT ![h] = Narrow(p)]
      /\ last' = [op |-> "batch", sensor |-> h, arg |-> p, ok |-> TRUE]
  BY DEF BatchSave, Outcome
<1>2. sensors_batch_list'[h] = Narrow(p)
  BY <1>1 DEF IInv, TypeOK
<1> QED BY <1>1, <1>2 DEF SuccessIsTrue

LEMMA NextSuccess == IInv /\ SuccessIsTrue /\ [Next]_vars => SuccessIsTrue'
<1> SUFFICES ASSUME IInv, SuccessIsTrue, [Next]_vars PROVE SuccessIsTrue'
  OBVIOUS
<1>1. ASSUME NEW h \in Handles, NEW enabled \in {0, 1}, ActivateOnly(h, enabled)
      PROVE  SuccessIsTrue'
  BY <1>1, ActivateOnlyTrue
<1>2. ASSUME NEW h \in Handles, ActivateAndSetDelay(h) PROVE SuccessIsTrue'
  BY <1>2, ActivateAndSetDelayTrue
<1>3. ASSUME NEW h \in Handles, NEW p \in Periods,
             Batch(h, p) \/ BatchFallBack(h, p) \/ SetDelay(h, p)
      PROVE  SuccessIsTrue'
  BY <1>3, SetRateTrue DEF Batch, BatchFallBack, SetDelay
<1>4. ASSUME NEW h \in Handles, NEW p \in Periods, BatchSave(h, p) PROVE SuccessIsTrue'
  BY <1>4, BatchSaveTrue
<1>5. ASSUME NEW h \in Handles, Flush(h) \/ Inject(h) PROVE SuccessIsTrue'
  <2>1. \E ok \in BOOLEAN :
           \/ last' = [op |-> "flush", sensor |-> h, arg |-> 0, ok |-> ok]
           \/ last' = [op |-> "inject", sensor |-> h, arg |-> 0, ok |-> ok]
    <3>1. CASE Flush(h)
      BY <3>1 DEF Flush, Outcome
    <3>2. CASE Inject(h)
      BY <3>2 DEF Inject, Outcome
    <3> QED BY <1>5, <3>1, <3>2
  <2>2. last'.op \in {"flush", "inject"}
    BY <2>1
  <2>3. /\ last'.op \notin {"activate", "activate and setDelay"}
        /\ last'.op # "activate" /\ last'.op # "activate and setDelay" /\ last'.op # "batch"
    BY <2>2
  <2> QED BY <2>3, Zenon DEF SuccessIsTrue
<1>6. CASE UNCHANGED vars
  BY <1>6 DEF vars, proxyVars, halVars, SuccessIsTrue
<1> QED BY <1>1, <1>2, <1>3, <1>4, <1>5, <1>6 DEF Next

\* No control call returns 0 for what it did not do, in whatever order the calls
\* come and whichever of the sub-HAL's calls fail.
THEOREM SuccessTrue == Spec => []SuccessIsTrue
<1>1. Init => SuccessIsTrue
  BY DEF Init, SuccessIsTrue
<1> QED BY <1>1, NextSuccess, Invariance, PTL DEF Spec
===============================================================================
