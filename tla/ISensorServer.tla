------------------------------ MODULE ISensorServer ------------------------------
(***************************************************************************)
(* device/huawei/mozart/libshims/gui/ISensorServer.cpp: the two ends of    *)
(* the binder interface of the sensor service.  The proxy writes a call    *)
(* into a parcel, field by field, and reads the reply; onTransact reads    *)
(* the parcel and writes the reply.  Neither looks at a status: a          *)
(* transaction that fails leaves an empty reply, which the proxy reads     *)
(* like any other.                                                         *)
(***************************************************************************)
EXTENDS SensorService, FiniteSetsExt

CONSTANTS Clients, Descriptor, Garbage

ASSUME GarbageAssumption ==
    Garbage \notin Sensors \cup Names \cup Ints \cup {NULL, Descriptor}

VARIABLES
    pc,        \* of each client: "idle", "sent", "lost", "served" or "returned"
    call,      \* the call it makes
    request,   \* the code and the parcel it sends
    served,    \* history: the call the service was asked to carry out
    reply,     \* the parcel that comes back
    result     \* what the latest call returned

clientVars == <<pc, call, request, served, reply, result>>
vars == <<serviceVars, clientVars>>

-----------------------------------------------------------------------------
\* Parcels: sequences of typed fields, read by position.

Field(t, v) == [type |-> t, value |-> v]

\* Beyond the end a read yields zero; a field of another type is misread.
Read(parcel, i, t, zero) ==
    IF i \notin DOMAIN parcel THEN zero
    ELSE IF parcel[i].type = t THEN parcel[i].value
    ELSE Garbage

GET_SENSOR_LIST == 1
CREATE_SENSOR_EVENT_CONNECTION == 2
ENABLE_DATA_INJECTION == 3
GET_DYNAMIC_SENSOR_LIST == 4

-----------------------------------------------------------------------------
\* BpSensorServer: the request it writes and the reply it reads.

\* Mutant: the dynamic list is asked for with the code of the other list.
Request_SameCode(a) ==
    IF a \in ListCalls
    THEN [code |-> GET_SENSOR_LIST,
          data |-> <<Field("token", Descriptor), Field("string16", a.opPackageName)>>]
    ELSE IF a \in ConnectCalls
    THEN [code |-> CREATE_SENSOR_EVENT_CONNECTION,
          data |-> <<Field("token", Descriptor), Field("string8", a.packageName),
                     Field("int32", a.mode), Field("string16", a.opPackageName)>>]
    ELSE [code |-> ENABLE_DATA_INJECTION, data |-> <<Field("token", Descriptor)>>]

Request(a) ==
    IF a \in ListCalls
    THEN [code |-> IF a.method = "getSensorList" THEN GET_SENSOR_LIST ELSE GET_DYNAMIC_SENSOR_LIST,
          data |-> <<Field("token", Descriptor), Field("string16", a.opPackageName)>>]
    ELSE IF a \in ConnectCalls
    THEN [code |-> CREATE_SENSOR_EVENT_CONNECTION,
          data |-> <<Field("token", Descriptor), Field("string8", a.packageName),
                     Field("int32", a.mode), Field("string16", a.opPackageName)>>]
    ELSE [code |-> ENABLE_DATA_INJECTION, data |-> <<Field("token", Descriptor)>>]

\* The variable `s' of the loop keeps the sensor read before when a read fails.
LastSensor(parcel, i) ==
    LET read == {j \in 2 .. i + 1 : j \in DOMAIN parcel /\ parcel[j].type = "sensor"}
    IN  IF read = {} THEN Garbage ELSE parcel[Max(read)].value

\* Mutant: one round too many.
ReadList_OneMore(parcel) ==
    [i \in 1 .. Read(parcel, 1, "uint32", 0) + 1 |-> LastSensor(parcel, i)]

ReadList(parcel) ==
    [i \in 1 .. Read(parcel, 1, "uint32", 0) |-> LastSensor(parcel, i)]

Result(a, parcel) ==
    IF a \in ListCalls THEN ReadList(parcel)
    ELSE IF a \in ConnectCalls THEN Read(parcel, 1, "binder", NULL)
    ELSE Read(parcel, 1, "int32", Zero)

-----------------------------------------------------------------------------
\* BnSensorServer::onTransact: the call it reads and the reply it writes.

\* Mutant: the two names are read in the other order.
Unmarshal_Swapped(r) ==
    CASE r.code = GET_SENSOR_LIST ->
            [method |-> "getSensorList", opPackageName |-> Read(r.data, 2, "string16", NULL)]
      [] r.code = GET_DYNAMIC_SENSOR_LIST ->
            [method |-> "getDynamicSensorList", opPackageName |-> Read(r.data, 2, "string16", NULL)]
      [] r.code = CREATE_SENSOR_EVENT_CONNECTION ->
            [method |-> "createSensorEventConnection",
             packageName |-> Read(r.data, 4, "string16", NULL), mode |-> Read(r.data, 3, "int32", Zero),
             opPackageName |-> Read(r.data, 2, "string8", NULL)]
      [] r.code = ENABLE_DATA_INJECTION -> [method |-> "isDataInjectionEnabled"]

Unmarshal(r) ==
    CASE r.code = GET_SENSOR_LIST ->
            [method |-> "getSensorList", opPackageName |-> Read(r.data, 2, "string16", NULL)]
      [] r.code = GET_DYNAMIC_SENSOR_LIST ->
            [method |-> "getDynamicSensorList", opPackageName |-> Read(r.data, 2, "string16", NULL)]
      [] r.code = CREATE_SENSOR_EVENT_CONNECTION ->
            [method |-> "createSensorEventConnection",
             packageName |-> Read(r.data, 2, "string8", NULL), mode |-> Read(r.data, 3, "int32", Zero),
             opPackageName |-> Read(r.data, 4, "string16", NULL)]
      [] r.code = ENABLE_DATA_INJECTION -> [method |-> "isDataInjectionEnabled"]

WriteList(v) ==
    <<Field("uint32", Len(v))>> \o [i \in 1 .. Len(v) |-> Field("sensor", v[i])]

Reply(code, x) ==
    IF code \in {GET_SENSOR_LIST, GET_DYNAMIC_SENSOR_LIST} THEN WriteList(x)
    ELSE <<Field(IF code = CREATE_SENSOR_EVENT_CONNECTION THEN "binder" ELSE "int32", x)>>

-----------------------------------------------------------------------------
Init ==
    /\ ServiceInit
    /\ pc = [c \in Clients |-> "idle"]
    /\ call = [c \in Clients |-> NULL]
    /\ request = [c \in Clients |-> NULL]
    /\ served = [c \in Clients |-> NULL]
    /\ reply = [c \in Clients |-> <<>>]
    /\ result = [c \in Clients |-> NULL]

\* A method of the proxy writes the parcel and enters transact.
Transact(c) ==
    /\ pc[c] \in {"idle", "returned"}
    /\ \E a \in Calls :
         /\ call' = [call EXCEPT ![c] = a]
         /\ request' = [request EXCEPT ![c] = Request(a)]
    /\ pc' = [pc EXCEPT ![c] = IF alive THEN "sent" ELSE "lost"]
    /\ result' = [result EXCEPT ![c] = NULL]
    /\ UNCHANGED <<serviceVars, served, reply>>

\* A binder thread of the service runs onTransact.
onTransact(c) ==
    /\ pc[c] = "sent" /\ alive
    /\ Read(request[c].data, 1, "token", NULL) = Descriptor
    /\ LET asked == Unmarshal(request[c])
       IN  /\ served' = [served EXCEPT ![c] = asked]
           /\ \E x \in Answers(asked) :
                reply' = [reply EXCEPT ![c] = Reply(request[c].code, x)]
    /\ pc' = [pc EXCEPT ![c] = "served"]
    /\ UNCHANGED <<serviceVars, call, request, result>>

\* The method reads the parcel it got and returns; its parcels are gone then.
Return(c, parcel) ==
    /\ result' = [result EXCEPT ![c] = Result(call[c], parcel)]
    /\ pc' = [pc EXCEPT ![c] = "returned"]
    /\ request' = [request EXCEPT ![c] = NULL]
    /\ served' = [served EXCEPT ![c] = NULL]
    /\ reply' = [reply EXCEPT ![c] = <<>>]
    /\ UNCHANGED <<serviceVars, call>>

Receive(c) == pc[c] = "served" /\ Return(c, reply[c])

\* transact returns an error, before or after the call was carried out.
TransactFails(c) == pc[c] \in {"sent", "lost", "served"} /\ Return(c, <<>>)

\* The driver fails what the dead process has not answered.
Die ==
    /\ ServiceDies
    /\ pc' = [c \in Clients |-> IF pc[c] = "sent" THEN "lost" ELSE pc[c]]
    /\ UNCHANGED <<call, request, served, reply, result>>

Service == (ServiceChanges \/ ServiceStarts) /\ UNCHANGED clientVars

Client(c) == Transact(c) \/ onTransact(c) \/ Receive(c) \/ TransactFails(c)

Next == Service \/ Die \/ \E c \in Clients : Client(c)

Spec == Init /\ [][Next]_vars

-----------------------------------------------------------------------------
\* Properties

Results(a) ==
    IF a \in ListCalls THEN Seq(Sensors)
    ELSE IF a \in ConnectCalls THEN {Connection(a), NULL}
    ELSE Ints

\* Whatever the proxy returns is of the type its method declares.
TypeOK ==
    /\ alive \in BOOLEAN /\ dynamicList \in DynamicLists /\ injection \in Ints
    /\ pc \in [Clients -> {"idle", "sent", "lost", "served", "returned"}]
    /\ \A c \in Clients :
         /\ pc[c] # "idle" => call[c] \in Calls
         /\ pc[c] = "returned" => result[c] \in Results(call[c])

(***************************************************************************)
(* The service is asked to do what the client called, with each argument   *)
(* in its place, for whatever calls other clients make meanwhile.          *)
(***************************************************************************)
ArgumentsIntact ==
    \A c \in Clients : served[c] # NULL => served[c] = call[c]

\* Where a call stands, and what it is going to return or has returned.
phase == [c \in Clients |->
            IF pc[c] \in {"sent", "lost"} THEN "called"
            ELSE IF pc[c] = "served" THEN "answered" ELSE pc[c]]
answer == [c \in Clients |->
            IF pc[c] = "served" THEN Result(call[c], reply[c]) ELSE result[c]]

(***************************************************************************)
(* The two ends of the interface with their parcels implement calls that   *)
(* are carried out at most once, and return what the service answered at   *)
(* one moment during the call or the empty answer of a failed transaction. *)
(***************************************************************************)
Abstract == INSTANCE SensorServiceCalls

CallSpec == Abstract!Spec
==================================================================================
