--------------------------- MODULE ISensorServerProofs ---------------------------
(***************************************************************************)
(* The two ends of ISensorServer fit together: what one writes the other   *)
(* reads, and the whole implements SensorServiceCalls.                     *)
(***************************************************************************)
EXTENDS ISensorServer, TLAPS

-----------------------------------------------------------------------------
\* Parcels

\* The kinds of calls are told apart by their methods.
LEMMA KindsDiffer ==
    ASSUME NEW a \in Calls
    PROVE  /\ a \in ListCalls => a \notin ConnectCalls /\ a \notin InjectionCalls
           /\ a \in ConnectCalls => a \notin InjectionCalls
           /\ a \in ListCalls <=> a.method \in {"getSensorList", "getDynamicSensorList"}
           /\ a \in ConnectCalls <=> a.method = "createSensorEventConnection"
           /\ a \in InjectionCalls <=> a.method = "isDataInjectionEnabled"
BY DEF Calls, ListCalls, ConnectCalls, InjectionCalls

\* onTransact reads the call the proxy wrote.
LEMMA RequestRead ==
    ASSUME NEW a \in Calls
    PROVE  Unmarshal(Request(a)) = a
<1> USE DEF Request, Unmarshal, Read, Field, GET_SENSOR_LIST, GET_DYNAMIC_SENSOR_LIST,
            CREATE_SENSOR_EVENT_CONNECTION, ENABLE_DATA_INJECTION
<1>1. CASE a \in ListCalls
    BY <1>1, KindsDiffer DEF ListCalls
<1>2. CASE a \in ConnectCalls
    BY <1>2, KindsDiffer DEF ConnectCalls
<1>3. CASE a \in InjectionCalls
    BY <1>3, KindsDiffer DEF InjectionCalls
<1> QED BY <1>1, <1>2, <1>3 DEF Calls

\* The loop of the proxy reads back the list that the loop of onTransact wrote.
LEMMA ListRead ==
    ASSUME NEW v \in Seq(Sensors)
    PROVE  ReadList(WriteList(v)) = v
<1> DEFINE p == WriteList(v)
<1>1. /\ Len(p) = Len(v) + 1 /\ DOMAIN p = 1 .. Len(v) + 1
      /\ p[1] = Field("uint32", Len(v))
      /\ \A j \in 2 .. Len(v) + 1 : p[j] = Field("sensor", v[j - 1])
    BY DEF WriteList
<1> HIDE DEF p
<1>2. Read(p, 1, "uint32", 0) = Len(v)
    BY <1>1 DEF Read, Field
<1>3. ASSUME NEW i \in 1 .. Len(v) PROVE LastSensor(p, i) = v[i]
    <2> DEFINE read == {j \in 2 .. i + 1 : j \in DOMAIN p /\ p[j].type = "sensor"}
    <2>0. \A j \in 2 .. i + 1 : j \in DOMAIN p /\ p[j].type = "sensor"
        <3> TAKE j \in 2 .. i + 1
        <3>1. j \in 1 .. Len(v) + 1 /\ j \in 2 .. Len(v) + 1
            OBVIOUS
        <3>2. p[j] = Field("sensor", v[j - 1])
            BY <3>1, <1>1
        <3> QED BY <3>1, <3>2, <1>1 DEF Field
    <2>1. read = 2 .. i + 1
        BY <2>0
    <2>2. Max(read) = i + 1
        BY <2>1 DEF Max
    <2>3. p[i + 1] = Field("sensor", v[i])
        BY <1>1
    <2>4. i + 1 \in read
        BY <2>1
    <2> QED BY <2>2, <2>3, <2>4 DEF LastSensor, Field
<1>4. ReadList(p) = [i \in 1 .. Len(v) |-> v[i]]
    BY <1>2, <1>3 DEF ReadList
<1> QED BY <1>4 DEF p

\* An empty reply reads as the empty answer.
LEMMA EmptyRead ==
    ASSUME NEW a \in Calls
    PROVE  Result(a, <<>>) = Empty(a)
<1>1. \A t, z : Read(<<>>, 1, t, z) = z
    BY DEF Read
<1>2. ReadList(<<>>) = <<>>
    BY <1>1 DEF ReadList
<1> QED BY <1>1, <1>2, KindsDiffer DEF Result, Empty, Calls

ServiceOK == alive \in BOOLEAN /\ dynamicList \in DynamicLists /\ injection \in Ints

LEMMA RequestCode ==
    ASSUME NEW a \in Calls
    PROVE  /\ a \in ListCalls => Request(a).code \in {GET_SENSOR_LIST, GET_DYNAMIC_SENSOR_LIST}
           /\ a \in ConnectCalls => Request(a).code = CREATE_SENSOR_EVENT_CONNECTION
           /\ a \in InjectionCalls => Request(a).code = ENABLE_DATA_INJECTION
BY KindsDiffer DEF Request

\* The proxy reads the answer that onTransact wrote.
LEMMA ReplyRead ==
    ASSUME ServiceOK, NEW a \in Calls, NEW x \in Answers(a)
    PROVE  /\ Result(a, Reply(Request(a).code, x)) = x
           /\ x \in Results(a)
<1>1. CASE a \in ListCalls
    <2>1. x \in Seq(Sensors)
        BY <1>1, KindsDiffer, ListsAssumption DEF Answers, ServiceOK, ListCalls
    <2>2. Reply(Request(a).code, x) = WriteList(x)
        BY <1>1, RequestCode DEF Reply
    <2> QED BY <1>1, <2>1, <2>2, ListRead DEF Result, Results
<1>2. CASE a \in ConnectCalls
    <2>1. x \in {Connection(a), NULL}
        BY <1>2, KindsDiffer DEF Answers
    <2>2. Reply(Request(a).code, x) = <<Field("binder", x)>>
        BY <1>2, RequestCode DEF Reply, GET_SENSOR_LIST, GET_DYNAMIC_SENSOR_LIST,
            CREATE_SENSOR_EVENT_CONNECTION
    <2> QED BY <1>2, <2>1, <2>2, KindsDiffer DEF Result, Results, Read, Field
<1>3. CASE a \in InjectionCalls
    <2>1. x \in Ints
        BY <1>3, KindsDiffer DEF Answers, ServiceOK
    <2>2. Reply(Request(a).code, x) = <<Field("int32", x)>>
        BY <1>3, RequestCode DEF Reply, GET_SENSOR_LIST, GET_DYNAMIC_SENSOR_LIST,
            CREATE_SENSOR_EVENT_CONNECTION, ENABLE_DATA_INJECTION
    <2> QED BY <1>3, <2>1, <2>2, KindsDiffer DEF Result, Results, Read, Field
<1> QED BY <1>1, <1>2, <1>3 DEF Calls

LEMMA EmptyTyped ==
    ASSUME NEW a \in Calls
    PROVE  Empty(a) \in Results(a)
<1>1. <<>> \in Seq(Sensors)
    OBVIOUS
<1>2. CASE a \in ListCalls
    BY <1>1, <1>2 DEF Empty, Results
<1>3. CASE a \in ConnectCalls
    BY <1>3, KindsDiffer DEF Empty, Results
<1>4. CASE a \in InjectionCalls
    BY <1>4, KindsDiffer, ZeroAssumption DEF Empty, Results
<1> QED BY <1>2, <1>3, <1>4 DEF Calls

-----------------------------------------------------------------------------
\* What a client's variables hold at each point of its call.
Held(c) ==
    /\ pc[c] \in {"idle", "sent", "lost", "served", "returned"}
    /\ pc[c] # "idle" => call[c] \in Calls
    /\ pc[c] \in {"sent", "lost", "served"} => request[c] = Request(call[c])
    /\ served[c] # NULL => pc[c] = "served" /\ served[c] = call[c]
    /\ pc[c] = "served" => Result(call[c], reply[c]) \in Results(call[c])
    /\ pc[c] = "returned" => result[c] \in Results(call[c])

Functions ==
    /\ pc \in [Clients -> {"idle", "sent", "lost", "served", "returned"}]
    /\ DOMAIN call = Clients /\ DOMAIN request = Clients /\ DOMAIN served = Clients
    /\ DOMAIN reply = Clients /\ DOMAIN result = Clients

IInv == ServiceOK /\ Functions /\ \A c \in Clients : Held(c)

LEMMA InitHeld == Init => IInv
BY ZeroAssumption DEF Init, ServiceInit, IInv, ServiceOK, Functions, Held

\* The actions of a client change its own variables only.
LEMMA OnlyOwn ==
    ASSUME Functions, NEW c \in Clients, Client(c), NEW d \in Clients, d # c, Held(d)
    PROVE  Held(d)'
BY DEF Functions, Client, Transact, onTransact, Receive, TransactFails, Return, Held

LEMMA TransactHeld ==
    ASSUME IInv, NEW c \in Clients, Transact(c)
    PROVE  Functions' /\ Held(c)'
<1>1. Held(c) /\ Functions
    BY DEF IInv
<1>2. PICK a \in Calls : call' = [call EXCEPT ![c] = a]
                         /\ request' = [request EXCEPT ![c] = Request(a)]
    BY DEF Transact
<1>3. Functions'
    BY <1>1, <1>2 DEF Functions, Transact
<1>4. call'[c] = a /\ request'[c] = Request(a) /\ pc'[c] \in {"sent", "lost"} /\ served'[c] = NULL
    BY <1>1, <1>2 DEF Functions, Transact, Held
<1> QED BY <1>3, <1>4 DEF Held

LEMMA OnTransactHeld ==
    ASSUME IInv, NEW c \in Clients, onTransact(c)
    PROVE  /\ Functions' /\ Held(c)'
           /\ Result(call[c], reply'[c]) \in Answers(call[c])
<1>1. Held(c) /\ Functions /\ ServiceOK /\ pc[c] = "sent"
    BY DEF IInv, onTransact
<1>2. call[c] \in Calls /\ request[c] = Request(call[c]) /\ Unmarshal(request[c]) = call[c]
    BY <1>1, RequestRead DEF Held
<1>3. PICK x \in Answers(call[c]) : reply' = [reply EXCEPT ![c] = Reply(request[c].code, x)]
    BY <1>2 DEF onTransact
<1>4. Result(call[c], reply'[c]) = x /\ x \in Results(call[c])
    BY <1>1, <1>2, <1>3, ReplyRead DEF Functions
<1>5. served' = [served EXCEPT ![c] = call[c]]
    BY <1>2 DEF onTransact
<1>6. Functions'
    BY <1>1, <1>3, <1>5 DEF Functions, onTransact
<1>7. Held(c)'
    <2>1. call' = call /\ request' = request /\ result' = result
        BY DEF onTransact
    <2>2. pc'[c] = "served" /\ served'[c] = call[c]
        BY <1>1, <1>5 DEF Functions, onTransact
    <2>3. (Result(call[c], reply[c]))' = Result(call[c], reply'[c])
        BY <2>1 DEF Result, ReadList, LastSensor, Read
    <2>4. Results(call[c])' = Results(call[c])
        BY <2>1 DEF Results, Connection
    <2> QED BY <1>2, <1>4, <2>1, <2>2, <2>3, <2>4 DEF Held
<1> QED BY <1>3, <1>4, <1>6, <1>7

LEMMA ReturnHeld ==
    ASSUME IInv, NEW c \in Clients, Receive(c) \/ TransactFails(c)
    PROVE  Functions' /\ Held(c)'
<1>1. Held(c) /\ Functions
    BY DEF IInv
<1>2. PICK parcel : /\ Return(c, parcel)
                    /\ Result(call[c], parcel) \in Results(call[c])
    <2>1. CASE Receive(c)
        BY <1>1, <2>1 DEF Receive, Held
    <2>2. CASE TransactFails(c)
        <3>1. call[c] \in Calls
            BY <1>1, <2>2 DEF TransactFails, Held
        <3> QED BY <2>2, <3>1, EmptyRead, EmptyTyped DEF TransactFails
    <2> QED BY <2>1, <2>2
<1>3. call[c] \in Calls
    BY <1>1 DEF Receive, TransactFails, Held
<1>4. Functions'
    BY <1>1, <1>2 DEF Functions, Return
<1>5. pc'[c] = "returned" /\ served'[c] = NULL /\ call' = call
      /\ result'[c] = Result(call[c], parcel)
    BY <1>1, <1>2 DEF Functions, Return
<1>6. Results(call[c])' = Results(call[c])
    BY <1>5 DEF Results
<1> QED BY <1>2, <1>3, <1>4, <1>5, <1>6 DEF Held

LEMMA ServiceKeeps ==
    ASSUME IInv, ServiceDies \/ ServiceChanges \/ ServiceStarts
    PROVE  ServiceOK'
BY DEF IInv, ServiceOK, ServiceDies, ServiceChanges, ServiceStarts

LEMMA DieHeld ==
    ASSUME IInv, Die
    PROVE  IInv'
<1>1. ServiceOK'
    BY ServiceKeeps DEF Die
<1>2. Functions /\ Functions'
    BY DEF IInv, Functions, Die
<1>3. ASSUME NEW c \in Clients PROVE Held(c)'
    <2>1. Held(c)
        BY DEF IInv
    <2>2. /\ call' = call /\ request' = request /\ served' = served
          /\ reply' = reply /\ result' = result
        BY DEF Die
    <2>3. pc'[c] = IF pc[c] = "sent" THEN "lost" ELSE pc[c]
        BY <1>2 DEF Die
    <2> QED BY <2>1, <2>2, <2>3 DEF Held
<1> QED BY <1>1, <1>2, <1>3 DEF IInv

LEMMA NextHeld == IInv /\ [Next]_vars => IInv'
<1> SUFFICES ASSUME IInv, [Next]_vars PROVE IInv'
    OBVIOUS
<1>1. CASE Service
    BY <1>1, ServiceKeeps DEF Service, clientVars, IInv, Functions, Held
<1>2. CASE Die
    BY <1>2, DieHeld
<1>3. ASSUME NEW c \in Clients, Client(c) PROVE IInv'
    <2>1. Functions' /\ Held(c)'
        BY <1>3, TransactHeld, OnTransactHeld, ReturnHeld DEF Client
    <2>2. ServiceOK'
        BY <1>3 DEF IInv, ServiceOK, Client, Transact, onTransact, Receive, TransactFails,
            Return, serviceVars
    <2>3. ASSUME NEW d \in Clients PROVE Held(d)'
        BY <1>3, <2>1, OnlyOwn DEF IInv
    <2> QED BY <2>1, <2>2, <2>3 DEF IInv
<1>4. CASE UNCHANGED vars
    BY <1>4 DEF vars, serviceVars, clientVars, IInv, ServiceOK, Functions, Held
<1> QED BY <1>1, <1>2, <1>3, <1>4 DEF Next

THEOREM Invariance == Spec => []IInv
BY InitHeld, NextHeld, PTL DEF Spec

(***************************************************************************)
(* Every method returns a value of its type, whatever happened to the      *)
(* transaction: the proxy's reads of a reply and of an empty parcel.       *)
(***************************************************************************)
THEOREM TypeCorrect == Spec => []TypeOK
<1>1. IInv => TypeOK
    BY DEF IInv, ServiceOK, Functions, Held, TypeOK
<1> QED BY <1>1, Invariance, PTL

(***************************************************************************)
(* The service is asked for what the client called: the proxy's writes and *)
(* onTransact's reads go through the fields in the same order.             *)
(***************************************************************************)
THEOREM ArgumentsArrive == Spec => []ArgumentsIntact
<1>1. IInv => ArgumentsIntact
    BY DEF IInv, Held, ArgumentsIntact
<1> QED BY <1>1, Invariance, PTL

-----------------------------------------------------------------------------
\* Refinement

\* A step that leaves the other clients alone changes one entry of phase and answer.
LEMMA OneEntry ==
    ASSUME IInv, NEW c \in Clients, Client(c)
    PROVE  /\ phase' = [phase EXCEPT ![c] = phase'[c]]
           /\ answer' = [answer EXCEPT ![c] = answer'[c]]
<1>1. Functions
    BY DEF IInv
<1>2. ASSUME NEW d \in Clients, d # c
      PROVE  /\ pc'[d] = pc[d] /\ call'[d] = call[d]
             /\ reply'[d] = reply[d] /\ result'[d] = result[d]
    BY <1>1, <1>2 DEF Functions, Client, Transact, onTransact, Receive, TransactFails, Return
<1>3. ASSUME NEW d \in Clients, d # c
      PROVE  phase'[d] = phase[d] /\ answer'[d] = answer[d]
    <2>1. Result(call[d], reply[d])' = Result(call'[d], reply'[d])
        BY DEF Result, ReadList, LastSensor, Read
    <2>2. Result(call'[d], reply'[d]) = Result(call[d], reply[d])
        BY <1>2, <1>3
    <2> QED BY <1>2, <1>3, <2>1, <2>2 DEF phase, answer
<1>4. /\ DOMAIN phase = Clients /\ DOMAIN answer = Clients
      /\ phase = [d \in Clients |-> phase[d]] /\ phase' = [d \in Clients |-> phase'[d]]
      /\ answer = [d \in Clients |-> answer[d]] /\ answer' = [d \in Clients |-> answer'[d]]
    BY DEF phase, answer
<1>5. phase' = [phase EXCEPT ![c] = phase'[c]]
    BY <1>3, <1>4
<1>6. answer' = [answer EXCEPT ![c] = answer'[c]]
    BY <1>3, <1>4
<1> QED BY <1>5, <1>6

LEMMA InitRefines == Init => Abstract!Init
BY DEF Init, Abstract!Init, phase, answer, ServiceInit, Abstract!ServiceInit

LEMMA TransactRefines ==
    ASSUME IInv, NEW c \in Clients, Transact(c)
    PROVE  Abstract!Start(c)
<1>1. Functions /\ Client(c)
    BY DEF IInv, Client
<1>2. phase[c] = pc[c]
    BY DEF phase, Transact
<1>3. phase'[c] = "called" /\ answer'[c] = NULL
    BY <1>1 DEF phase, answer, Transact, Functions
<1>4. \E a \in Abstract!Calls : call' = [call EXCEPT ![c] = a]
    BY DEF Transact, Calls, Abstract!Calls, ListCalls, Abstract!ListCalls, ConnectCalls,
        Abstract!ConnectCalls, InjectionCalls, Abstract!InjectionCalls
<1> QED BY <1>1, <1>2, <1>3, <1>4, OneEntry
        DEF Abstract!Start, Transact, serviceVars, Abstract!serviceVars

LEMMA OnTransactRefines ==
    ASSUME IInv, NEW c \in Clients, onTransact(c)
    PROVE  Abstract!Answer(c)
<1>1. Functions /\ Client(c)
    BY DEF IInv, Client
<1>2. phase[c] = "called" /\ alive
    BY DEF phase, onTransact
<1>3. phase'[c] = "answered" /\ call' = call
    BY <1>1 DEF phase, onTransact, Functions
<1>4. answer'[c] \in Answers(call[c])
    <2>1. pc'[c] = "served"
        BY <1>1 DEF onTransact, Functions
    <2>2. answer'[c] = Result(call[c], reply[c])'
        BY <2>1 DEF answer
    <2>3. Result(call[c], reply[c])' = Result(call[c], reply'[c])
        BY <1>3 DEF Result, ReadList, LastSensor, Read
    <2> QED BY <2>2, <2>3, OnTransactHeld
<1>5. Abstract!Answers(call[c]) = Answers(call[c])
    BY DEF Answers, Abstract!Answers, Connection, Abstract!Connection
<1>6. \E x \in Abstract!Answers(call[c]) : answer' = [answer EXCEPT ![c] = x]
    BY <1>1, <1>4, <1>5, OneEntry
<1>7. phase' = [phase EXCEPT ![c] = "answered"]
    BY <1>1, <1>3, OneEntry
<1> QED BY <1>2, <1>3, <1>6, <1>7 DEF Abstract!Answer, onTransact, serviceVars, Abstract!serviceVars

LEMMA ReceiveRefines ==
    ASSUME IInv, NEW c \in Clients, Receive(c)
    PROVE  Abstract!Return(c)
<1>1. Functions /\ Client(c)
    BY DEF IInv, Client
<1>2. phase[c] = "answered" /\ answer[c] = Result(call[c], reply[c])
    BY DEF phase, answer, Receive
<1>3. phase'[c] = "returned" /\ answer'[c] = Result(call[c], reply[c]) /\ call' = call
    BY <1>1 DEF phase, answer, Receive, Return, Functions
<1>4. answer' = answer
    <2>1. DOMAIN answer = Clients /\ answer = [d \in Clients |-> answer[d]]
        BY DEF answer
    <2> QED BY <1>1, <1>2, <1>3, <2>1, OneEntry
<1> QED BY <1>1, <1>2, <1>3, <1>4, OneEntry
        DEF Abstract!Return, Receive, Return, serviceVars, Abstract!serviceVars

LEMMA FailsRefines ==
    ASSUME IInv, NEW c \in Clients, TransactFails(c)
    PROVE  Abstract!Fail(c)
<1>1. Functions /\ Client(c) /\ call[c] \in Calls
    BY DEF IInv, Client, TransactFails, Held
<1>2. phase[c] \in {"called", "answered"}
    BY DEF phase, TransactFails
<1>3. phase'[c] = "returned" /\ answer'[c] = Result(call[c], <<>>) /\ call' = call
    BY <1>1 DEF phase, answer, TransactFails, Return, Functions
<1>4. Result(call[c], <<>>) = Abstract!Empty(call[c])
    BY <1>1, EmptyRead DEF Empty, Abstract!Empty, ListCalls, Abstract!ListCalls, ConnectCalls,
        Abstract!ConnectCalls
<1> QED BY <1>1, <1>2, <1>3, <1>4, OneEntry
        DEF Abstract!Fail, TransactFails, Return, serviceVars, Abstract!serviceVars

LEMMA ServiceRefines ==
    ASSUME IInv, Service \/ Die
    PROVE  Abstract!Next
<1>1. call' = call /\ reply' = reply /\ result' = result /\ Functions
    BY DEF Service, Die, clientVars, IInv
<1>2. phase' = phase
    <2>1. ASSUME NEW c \in Clients PROVE phase'[c] = phase[c]
        BY <1>1 DEF phase, Service, Die, clientVars, Functions
    <2> QED BY <2>1 DEF phase
<1>3. answer' = answer
    <2>1. ASSUME NEW c \in Clients PROVE answer'[c] = answer[c]
        <3>1. Result(call[c], reply[c])' = Result(call[c], reply[c])
            BY <1>1 DEF Result, ReadList, LastSensor, Read
        <3>2. pc'[c] = "served" <=> pc[c] = "served"
            BY <1>1 DEF Service, Die, clientVars, Functions
        <3> QED BY <1>1, <3>1, <3>2 DEF answer
    <2> QED BY <2>1 DEF answer
<1> QED BY <1>1, <1>2, <1>3
        DEF Service, Die, ServiceChanges, ServiceDies, ServiceStarts, Abstract!Next,
            Abstract!ServiceChanges, Abstract!ServiceDies, Abstract!ServiceStarts, Abstract!callVars

LEMMA StepRefines == IInv /\ [Next]_vars => [Abstract!Next]_(Abstract!vars)
<1> SUFFICES ASSUME IInv, [Next]_vars PROVE [Abstract!Next]_(Abstract!vars)
    OBVIOUS
<1>1. CASE Service \/ Die
    BY <1>1, ServiceRefines
<1>2. ASSUME NEW c \in Clients, Client(c) PROVE Abstract!Next
    BY <1>2, TransactRefines, OnTransactRefines, ReceiveRefines, FailsRefines
       DEF Client, Abstract!Next
<1>3. CASE UNCHANGED vars
    <2>1. UNCHANGED <<call, phase, answer>>
        BY <1>3 DEF vars, clientVars, phase, answer, Result, ReadList, LastSensor, Read
    <2> QED BY <1>3, <2>1 DEF vars, serviceVars, Abstract!vars, Abstract!serviceVars, Abstract!callVars
<1> QED BY <1>1, <1>2, <1>3 DEF Next

(***************************************************************************)
(* The interface implements calls: whatever fails, dies or restarts, a     *)
(* method returns what the service answered to this call at one moment     *)
(* during it, or the empty answer.                                         *)
(***************************************************************************)
THEOREM Implements == Spec => CallSpec
BY InitRefines, StepRefines, Invariance, PTL DEF Spec, CallSpec, Abstract!Spec
==================================================================================
