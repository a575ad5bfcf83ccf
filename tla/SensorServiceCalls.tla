--------------------------- MODULE SensorServiceCalls ---------------------------
(***************************************************************************)
(* What ISensorServer promises a caller, with no parcel, code or proxy: a  *)
(* call is carried out at one moment between its start and its return, by  *)
(* the service that is alive then, and returns what the service answered   *)
(* at that moment, or the empty answer if the transaction failed, be it    *)
(* before the call was carried out or after.                               *)
(***************************************************************************)
EXTENDS SensorService

CONSTANT Clients

VARIABLES phase, call, answer

callVars == <<phase, call, answer>>
vars == <<serviceVars, callVars>>

Init ==
    /\ ServiceInit
    /\ phase = [c \in Clients |-> "idle"]
    /\ call = [c \in Clients |-> NULL]
    /\ answer = [c \in Clients |-> NULL]

Start(c) ==
    /\ phase[c] \in {"idle", "returned"}
    /\ \E a \in Calls : call' = [call EXCEPT ![c] = a]
    /\ phase' = [phase EXCEPT ![c] = "called"]
    /\ answer' = [answer EXCEPT ![c] = NULL]
    /\ UNCHANGED serviceVars

Answer(c) ==
    /\ phase[c] = "called" /\ alive
    /\ \E x \in Answers(call[c]) : answer' = [answer EXCEPT ![c] = x]
    /\ phase' = [phase EXCEPT ![c] = "answered"]
    /\ UNCHANGED <<serviceVars, call>>

Return(c) ==
    /\ phase[c] = "answered"
    /\ phase' = [phase EXCEPT ![c] = "returned"]
    /\ UNCHANGED <<serviceVars, call, answer>>

Fail(c) ==
    /\ phase[c] \in {"called", "answered"}
    /\ answer' = [answer EXCEPT ![c] = Empty(call[c])]
    /\ phase' = [phase EXCEPT ![c] = "returned"]
    /\ UNCHANGED <<serviceVars, call>>

Next ==
    \/ (ServiceChanges \/ ServiceDies \/ ServiceStarts) /\ UNCHANGED callVars
    \/ \E c \in Clients : Start(c) \/ Answer(c) \/ Return(c) \/ Fail(c)

Spec == Init /\ [][Next]_vars
================================================================================
