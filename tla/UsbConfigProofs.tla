----------------------------- MODULE UsbConfigProofs -----------------------------
(***************************************************************************)
(* Proofs about UsbConfig for any modes and any number of requests.        *)
(*                                                                         *)
(* The inductive invariant says, for the time when no change of            *)
(* sys.usb.config is queued any more, what the rest of the block will make *)
(* of the gadget and of sys.usb.state: each file is either about to be     *)
(* written, and its last write gives it what the current mode wants, or it *)
(* has been written.                                                       *)
(***************************************************************************)
EXTENDS UsbConfig, SequenceTheorems, TLAPS

Values == AllModes \cup {"", "0", "1"}
Events == [name : Names, value : Values]

\* The commands that touch neither the gadget nor the reported state, and set
\* sys.usb.config to what the persistent property holds.
ServiceCommands ==
    {c \in Commands :
        /\ c.do # "write"
        /\ ~(c.do = "setprop" /\ c.to = "sys.usb.state")
        /\ c.do = "setprop" => c.to # "persist.sys.usb.config"
        /\ c.do = "setprop" /\ c.to = "sys.usb.config" => c.value = PERSISTENT}

\* Which property holds what.
Asked ==
    /\ property["sys.usb.config"] \in AllModes \cup {""}
    /\ property["persist.sys.usb.config"] \in AllModes \cup {""}
    /\ \A i \in DOMAIN commands : commands[i].do = "setprop" =>
         /\ commands[i].to # "persist.sys.usb.config"
         /\ commands[i].to = "sys.usb.config" => commands[i].value = PERSISTENT
         /\ commands[i].to = "sys.usb.state" => commands[i].value = CONFIG

ConfigEvent(queue, i) == queue[i].name = "sys.usb.config"
NoConfigEvent(queue) == \A i \in DOMAIN queue : ~ConfigEvent(queue, i)

\* The last change of sys.usb.config in a queue is to the given mode.
LastConfigEvent(queue, mode) ==
    \A i \in DOMAIN queue :
        ConfigEvent(queue, i) /\ (\A j \in DOMAIN queue : ConfigEvent(queue, j) => j <= i)
            => queue[i].value = mode

WriteOf(block, file, i) == block[i].do = "write" /\ block[i].to = file
LastWriteOf(block, file, i) ==
    WriteOf(block, file, i) /\ \A j \in DOMAIN block : WriteOf(block, file, j) => j <= i

\* What a write writes while the current mode is `mode', and what the mode wants.
Written(mode, value) == IF value = CONFIG THEN mode ELSE value
Wanted(mode, file) ==
    IF file = "enable" THEN (IF mode = "none" THEN "0" ELSE "1") ELSE mode

\* The files a mode cares about.
Relevant(mode) == IF mode = "none" THEN {"enable"} ELSE Files

\* The rest of a block brings the files to what a mode wants, or finds them so.
GadgetFollows(block, files, mode) ==
    \A file \in Relevant(mode) :
        /\ \A i \in DOMAIN block :
             LastWriteOf(block, file, i) => Written(mode, block[i].value) = Wanted(mode, file)
        /\ (\A i \in DOMAIN block : ~WriteOf(block, file, i)) => files[file] = Wanted(mode, file)

SetsState(command) == command.do = "setprop" /\ command.to = "sys.usb.state"

\* And so for the mode that is reported.
StateFollows(block, state, mode) ==
    state = mode \/ \E i \in DOMAIN block : SetsState(block[i])

OnItsWay ==
    NoConfigEvent(event_queue) /\ config # "" =>
        /\ GadgetFollows(commands, gadget, config)
        /\ StateFollows(commands, property["sys.usb.state"], config)

IInv ==
    /\ TypeOK
    /\ Asked
    /\ LastConfigEvent(event_queue, config)
    /\ OnItsWay

-----------------------------------------------------------------------------
\* The commands and the blocks

LEMMA Distinct ==
    /\ CONFIG \notin AllModes /\ PERSISTENT \notin AllModes /\ CONFIG # PERSISTENT
    /\ "" \notin AllModes /\ "0" \notin AllModes /\ "1" \notin AllModes
    /\ "none" \in AllModes /\ "none" \notin OwnFunctions
  BY DEF CONFIG, PERSISTENT, AllModes, WithAdb, OwnFunctions, WithDiag, WithModem

LEMMA Expansion ==
    /\ Expand(CONFIG) = config
    /\ Expand(PERSISTENT) = property["persist.sys.usb.config"]
    /\ Expand("0") = "0" /\ Expand("1") = "1"
    /\ \A mode \in AllModes : Expand(mode) = mode
<1>1. CONFIG # PERSISTENT /\ CONFIG \notin {"0", "1"} /\ PERSISTENT \notin {"0", "1"}
  BY DEF CONFIG, PERSISTENT
<1>2. \A value : value # CONFIG /\ value # PERSISTENT => Expand(value) = value
  BY DEF Expand
<1>3. Expand(CONFIG) = config
  BY <1>1 DEF Expand, config
<1>4. Expand(PERSISTENT) = property["persist.sys.usb.config"]
  BY <1>1 DEF Expand
<1> QED
  BY <1>1, <1>2, <1>3, <1>4, Distinct

LEMMA CommandTypes ==
    /\ \A service \in Services :
         Start(service) \in ServiceCommands /\ Stop(service) \in ServiceCommands
    /\ \A name \in {"sys.usb.start_modempcui", "sys.usb.start_atdiag"}, value \in {"0", "1"} :
         Setprop(name, value) \in ServiceCommands
    /\ Setprop("sys.usb.config", PERSISTENT) \in ServiceCommands
    /\ Setprop("sys.usb.state", CONFIG) \in Commands
    /\ \A file \in Files, value \in AllModes \cup {CONFIG, "0", "1"} :
         Write(file, value) \in Commands
    /\ ServiceCommands \subseteq Commands
  BY DEF ServiceCommands, Commands, Start, Stop, Setprop, Write, Names, Files

\* Joining two sequences.
LEMMA Join ==
    ASSUME NEW S, NEW s \in Seq(S), NEW t \in Seq(S)
    PROVE  s \o t \in Seq(S)
  BY ConcatProperties

LEMMA ServicesType == \A mode : ServicesOf(mode) \in Seq(ServiceCommands)
<1> TAKE mode
<1> DEFINE S == ServiceCommands
           s1 == IF mode = "hisi_debug,adb" THEN <<Stop("atcmdserver"), Start("hw_cdma_service")>> ELSE <<>>
           s2 == IF mode \in WithAdb THEN <<Start("adbd")>> ELSE <<>>
           s3 == IF mode = "hisi_debug,adb" THEN <<Start("usbshell")>> ELSE <<>>
           s4 == IF mode \in WithDiag THEN <<Setprop("sys.usb.start_atdiag", "1")>> ELSE <<>>
           s5 == IF mode \in Manufacture THEN <<Setprop("sys.usb.start_modempcui", "0")>> ELSE <<>>
           s6 == IF mode \in WithModem THEN <<Setprop("sys.usb.start_atdiag", "0"),
                                              Setprop("sys.usb.start_modempcui", "1")>> ELSE <<>>
<1>1. /\ Stop("atcmdserver") \in S /\ Start("hw_cdma_service") \in S /\ Start("adbd") \in S
      /\ Start("usbshell") \in S
      /\ Setprop("sys.usb.start_atdiag", "1") \in S /\ Setprop("sys.usb.start_atdiag", "0") \in S
      /\ Setprop("sys.usb.start_modempcui", "0") \in S /\ Setprop("sys.usb.start_modempcui", "1") \in S
  BY CommandTypes DEF Services
<1> HIDE DEF S
<1>2. s1 \in Seq(S) /\ s2 \in Seq(S) /\ s3 \in Seq(S)
  <2>0. /\ <<Stop("atcmdserver"), Start("hw_cdma_service")>> \in Seq(S)
        /\ <<Start("usbshell")>> \in Seq(S) /\ <<>> \in Seq(S)
    BY <1>1
  <2>1. s1 \in Seq(S)
    BY <2>0, Zenon
  <2>2. s2 \in Seq(S)
    BY <1>1
  <2>3. s3 \in Seq(S)
    BY <2>0, Zenon
  <2> QED
    BY <2>1, <2>2, <2>3
<1>3. s4 \in Seq(S) /\ s5 \in Seq(S) /\ s6 \in Seq(S)
  BY <1>1
<1>4. ServicesOf(mode) = s1 \o s2 \o s3 \o s4 \o s5 \o s6
  BY DEF ServicesOf
<1> HIDE DEF s1, s2, s3, s4, s5, s6
<1>5. s1 \o s2 \o s3 \in Seq(S)
  BY <1>2, Join
<1>6. s1 \o s2 \o s3 \o s4 \o s5 \o s6 \in Seq(S)
  BY <1>3, <1>5, Join
<1> QED
  BY <1>4, <1>6 DEF S

\* What each file is given by the last write of a mode's block.
LEMMA ModeBlockShape ==
    ASSUME NEW mode \in AllModes \ {"none"}, NEW n, n = Len(ServicesOf(mode))
    PROVE  /\ n \in Nat
           /\ ModeBlock(mode) \in Seq(Commands)
           /\ DOMAIN ModeBlock(mode) = 1 .. n + 5
           /\ ModeBlock(mode)[1] = Write("enable", "0")
           /\ ModeBlock(mode)[2] = Write("idProduct", mode)
           /\ ModeBlock(mode)[3] \in {Write("functions", mode), Write("functions", CONFIG)}
           /\ ModeBlock(mode)[4] = Write("enable", "1")
           /\ \A i \in 5 .. n + 4 : ModeBlock(mode)[i] \in ServiceCommands
           /\ ModeBlock(mode)[n + 5] = Setprop("sys.usb.state", CONFIG)
<1> DEFINE w == << Write("enable", "0"), Write("idProduct", mode),
                   Write("functions", IF mode \in OwnFunctions THEN mode ELSE CONFIG),
                   Write("enable", "1") >>
           v == ServicesOf(mode)
           e == << Setprop("sys.usb.state", CONFIG) >>
<1>1. w \in Seq(Commands) /\ Len(w) = 4
      /\ w[1] = Write("enable", "0") /\ w[2] = Write("idProduct", mode)
      /\ w[3] \in {Write("functions", mode), Write("functions", CONFIG)}
      /\ w[4] = Write("enable", "1")
  <2>1. /\ Write("enable", "0") \in Commands /\ Write("idProduct", mode) \in Commands
        /\ Write("functions", IF mode \in OwnFunctions THEN mode ELSE CONFIG) \in Commands
        /\ Write("enable", "1") \in Commands
    BY CommandTypes DEF Files
  <2>2. Write("functions", IF mode \in OwnFunctions THEN mode ELSE CONFIG)
          \in {Write("functions", mode), Write("functions", CONFIG)}
    OBVIOUS
  <2> QED
    BY <2>1, <2>2
<1>2. v \in Seq(ServiceCommands) /\ v \in Seq(Commands) /\ Len(v) = n /\ n \in Nat
  <2>1. v \in Seq(ServiceCommands)
    BY ServicesType
  <2> HIDE DEF v
  <2>2. v \in Seq(Commands)
    BY <2>1, CommandTypes
  <2> QED
    BY <2>1, <2>2 DEF v
<1>3. e \in Seq(Commands) /\ Len(e) = 1 /\ e[1] = Setprop("sys.usb.state", CONFIG)
  BY CommandTypes
<1>4. ModeBlock(mode) = (w \o v) \o e
  BY DEF ModeBlock
<1> HIDE DEF w, v, e
<1>5. /\ w \o v \in Seq(Commands) /\ Len(w \o v) = n + 4
      /\ \A i \in 1 .. n + 4 : (w \o v)[i] = IF i <= 4 THEN w[i] ELSE v[i - 4]
  <2>1. /\ w \o v \in Seq(Commands) /\ Len(w \o v) = Len(w) + Len(v)
        /\ \A i \in 1 .. Len(w) + Len(v) : (w \o v)[i] = IF i <= Len(w) THEN w[i] ELSE v[i - Len(w)]
    BY <1>1, <1>2, ConcatProperties, Zenon
  <2>2. Len(w) + Len(v) = n + 4
    BY <1>1, <1>2
  <2> QED
    BY <1>1, <2>1, <2>2
<1>6. /\ (w \o v) \o e \in Seq(Commands) /\ Len((w \o v) \o e) = n + 5
      /\ \A i \in 1 .. n + 5 : ((w \o v) \o e)[i] = IF i <= n + 4 THEN (w \o v)[i] ELSE e[i - (n + 4)]
  <2>1. /\ (w \o v) \o e \in Seq(Commands)
        /\ Len((w \o v) \o e) = Len(w \o v) + Len(e)
        /\ \A i \in 1 .. Len(w \o v) + Len(e) :
             ((w \o v) \o e)[i] = IF i <= Len(w \o v) THEN (w \o v)[i] ELSE e[i - Len(w \o v)]
    BY <1>3, <1>5, ConcatProperties, Zenon
  <2>2. Len(w \o v) + Len(e) = n + 5 /\ Len(w \o v) = n + 4
    BY <1>2, <1>3, <1>5
  <2> QED
    BY <2>1, <2>2
<1> DEFINE b == (w \o v) \o e
<1>7. /\ b \in Seq(Commands) /\ Len(b) = n + 5
      /\ \A i \in 1 .. 4 : b[i] = w[i]
      /\ \A i \in 5 .. n + 4 : b[i] = v[i - 4]
      /\ b[n + 5] = e[1]
  BY <1>2, <1>5, <1>6
<1>8. ModeBlock(mode) = b
  BY <1>4
<1> HIDE DEF b
<1>9. \A i \in 5 .. n + 4 : v[i - 4] \in ServiceCommands
  BY <1>2
<1>10. DOMAIN b = 1 .. n + 5
  BY <1>2, <1>7
<1>11. \A i \in 5 .. n + 4 : b[i] \in ServiceCommands
  BY <1>7, <1>9
<1>12. b[1] = w[1] /\ b[2] = w[2] /\ b[3] = w[3] /\ b[4] = w[4]
  BY <1>7
<1>13. /\ b[1] = Write("enable", "0") /\ b[2] = Write("idProduct", mode)
       /\ b[3] \in {Write("functions", mode), Write("functions", CONFIG)}
       /\ b[4] = Write("enable", "1")
  BY <1>1, <1>12, Zenon
<1>14. b[n + 5] = Setprop("sys.usb.state", CONFIG)
  BY <1>3, <1>7
<1>15. n \in Nat /\ b \in Seq(Commands)
  BY <1>2, <1>7, Zenon
<1> QED
  BY <1>8, <1>10, <1>11, <1>13, <1>14, <1>15, Zenon

LEMMA NoneBlockShape ==
    /\ NoneBlock \in Seq(Commands) /\ DOMAIN NoneBlock = 1 .. 6
    /\ \A i \in 1 .. 4 : NoneBlock[i] \in ServiceCommands
    /\ NoneBlock[5] = Write("enable", "0")
    /\ NoneBlock[6] = Setprop("sys.usb.state", CONFIG)
<1>1. /\ Stop("hw_cdma_service") \in ServiceCommands /\ Stop("adbd") \in ServiceCommands
      /\ Stop("usbshell") \in ServiceCommands
      /\ Setprop("sys.usb.start_modempcui", "0") \in ServiceCommands
      /\ Write("enable", "0") \in Commands /\ Setprop("sys.usb.state", CONFIG) \in Commands
      /\ ServiceCommands \subseteq Commands
  BY CommandTypes DEF Files, Services
<1> QED
  BY <1>1 DEF NoneBlock

LEMMA OtherBlocks ==
    ASSUME NEW name \in Names \ {"sys.usb.config"}, NEW value
    PROVE  Block(name, value) \in Seq(ServiceCommands)
<1> DEFINE S == ServiceCommands
<1>1. \A service \in Services : Start(service) \in S /\ Stop(service) \in S
  BY CommandTypes
<1>2. Setprop("sys.usb.config", PERSISTENT) \in S
  BY CommandTypes
<1> HIDE DEF S
<1>3. ModemBlock(value) \in Seq(S) /\ DiagBlock(value) \in Seq(S) /\ PersistBlock \in Seq(S)
      /\ <<>> \in Seq(S)
  BY <1>1, <1>2 DEF ModemBlock, DiagBlock, PersistBlock, Services
<1>4. Block(name, value) \in {ModemBlock(value), DiagBlock(value), PersistBlock, <<>>}
  BY Zenon DEF Block
<1> QED
  BY <1>3, <1>4 DEF S

LEMMA ConfigBlock ==
    ASSUME NEW value
    PROVE  Block("sys.usb.config", value) = IF value = "none" THEN NoneBlock ELSE ModeBlock(value)
  BY Zenon DEF Block

-----------------------------------------------------------------------------
\* Initial state

LEMMA InitInv == Init => IInv
<1> SUFFICES ASSUME Init PROVE IInv
  OBVIOUS
<1>0. Default \in AllModes /\ Sets \in Nat
  BY ModesAssumption
<1>1. /\ property["sys.usb.config"] = "" /\ property["persist.sys.usb.config"] = Default
      /\ property \in [Names -> AllModes \cup {"", "0", "1"}]
      /\ commands = <<>>
  BY <1>0 DEF Init, Names
<1>2. event_queue = << [name |-> "persist.sys.usb.config", value |-> Default] >>
  BY DEF Init
<1>3. /\ event_queue \in Seq(Events) /\ DOMAIN event_queue = {1}
      /\ event_queue[1].name = "persist.sys.usb.config"
  <2>1. [name |-> "persist.sys.usb.config", value |-> Default] \in Events
    BY <1>0 DEF Events, Values, Names
  <2>2. event_queue \in Seq(Events) /\ Len(event_queue) = 1
    BY <1>2, <2>1
  <2> QED
    BY <1>2, <2>2
<1>4. TypeOK
  <2>1. gadget \in [Files -> AllModes \cup {"", "0", "1"}] /\ services \subseteq Services
    BY DEF Init
  <2>2. sets \in 0 .. Sets
    <3>1. sets = 0
      BY DEF Init
    <3> QED
      BY <1>0, <3>1
  <2>3. commands \in Seq(Commands)
    <3>1. commands = <<>>
      BY <1>1, Zenon
    <3> QED
      BY <3>1
  <2>4. \A i \in DOMAIN event_queue :
          event_queue[i].name = "sys.usb.config" => event_queue[i].value \in AllModes
    BY <1>3
  <2>5. event_queue \in Seq([name : Names, value : AllModes \cup {"", "0", "1"}])
    BY <1>3, Zenon DEF Events, Values
  <2> QED
    BY <1>1, <2>1, <2>2, <2>3, <2>4, <2>5, Zenon DEF TypeOK
<1>5. Asked
  <2>1. commands = <<>>
    BY <1>1, Zenon
  <2>2. \A i \in DOMAIN commands : FALSE
    BY <2>1
  <2>3. /\ property["sys.usb.config"] \in AllModes \cup {""}
        /\ property["persist.sys.usb.config"] \in AllModes \cup {""}
    BY <1>0, <1>1, Zenon
  <2> QED
    BY <2>2, <2>3, Zenon DEF Asked
<1>6. LastConfigEvent(event_queue, config)
  BY <1>3 DEF LastConfigEvent, ConfigEvent
<1>7. OnItsWay
  BY <1>1 DEF OnItsWay, config
<1> QED
  BY <1>4, <1>5, <1>6, <1>7 DEF IInv

-----------------------------------------------------------------------------
\* Setting a property

LEMMA QueueAppend ==
    ASSUME TypeOK, NEW name \in Names, NEW value \in Values, property_set(name, value)
    PROVE  /\ event_queue' \in Seq(Events)
           /\ Len(event_queue) \in Nat
           /\ DOMAIN event_queue = 1 .. Len(event_queue)
           /\ DOMAIN event_queue' = 1 .. Len(event_queue) + 1
           /\ \A i \in DOMAIN event_queue : event_queue'[i] = event_queue[i]
           /\ event_queue'[Len(event_queue) + 1] = [name |-> name, value |-> value]
<1>1. event_queue \in Seq(Events) /\ [name |-> name, value |-> value] \in Events
  BY DEF TypeOK, Events, Values
<1>2. event_queue' = Append(event_queue, [name |-> name, value |-> value])
  BY DEF property_set
<1> QED
  BY <1>1, <1>2

\* A value that names a mode whenever the property is one of the two configurations.
Fits(name, value) ==
    name \in {"sys.usb.config", "persist.sys.usb.config"} =>
        value \in AllModes \cup (IF name = "sys.usb.config" THEN {} ELSE {""})

\* Setting a property keeps the queue and the properties in order.
LEMMA PropertySet ==
    ASSUME IInv, NEW name \in Names, NEW value \in Values, Fits(name, value),
           property_set(name, value)
    PROVE  /\ property' \in [Names -> Values]
           /\ property'["sys.usb.config"] \in AllModes \cup {""}
           /\ property'["persist.sys.usb.config"] \in AllModes \cup {""}
           /\ event_queue' \in Seq(Events)
           /\ \A i \in DOMAIN event_queue' :
                event_queue'[i].name = "sys.usb.config" => event_queue'[i].value \in AllModes
           /\ LastConfigEvent(event_queue', config')
           /\ NoConfigEvent(event_queue') =>
                /\ NoConfigEvent(event_queue)
                /\ name # "sys.usb.config" /\ config' = config
<1> DEFINE n == Len(event_queue)
<1>1. /\ event_queue' \in Seq(Events) /\ n \in Nat
      /\ DOMAIN event_queue = 1 .. n /\ DOMAIN event_queue' = 1 .. n + 1
      /\ \A i \in DOMAIN event_queue : event_queue'[i] = event_queue[i]
      /\ event_queue'[n + 1] = [name |-> name, value |-> value]
  BY QueueAppend DEF IInv
<1>2. /\ property \in [Names -> Values] /\ property' = [property EXCEPT ![name] = value]
      /\ property["sys.usb.config"] \in AllModes \cup {""}
      /\ property["persist.sys.usb.config"] \in AllModes \cup {""}
  BY DEF IInv, TypeOK, Asked, Values, property_set
<1>3. /\ property' \in [Names -> Values]
      /\ property'["sys.usb.config"] \in AllModes \cup {""}
      /\ property'["persist.sys.usb.config"] \in AllModes \cup {""}
      /\ name # "sys.usb.config" => property'["sys.usb.config"] = property["sys.usb.config"]
      /\ name = "sys.usb.config" => property'["sys.usb.config"] = value
  BY <1>2 DEF Fits, Names
<1> HIDE DEF n
<1>4. \A i \in DOMAIN event_queue' : i \in DOMAIN event_queue \/ i = n + 1
  BY <1>1
<1>5. event_queue'[n + 1].name = name /\ event_queue'[n + 1].value = value
  BY <1>1
<1>6. \A i \in DOMAIN event_queue' :
        event_queue'[i].name = "sys.usb.config" => event_queue'[i].value \in AllModes
  <2>1. \A i \in DOMAIN event_queue :
          event_queue[i].name = "sys.usb.config" => event_queue[i].value \in AllModes
    BY DEF IInv, TypeOK
  <2> QED
    BY <1>1, <1>4, <1>5, <2>1 DEF Fits
<1>7. LastConfigEvent(event_queue', config')
  <2> SUFFICES ASSUME NEW i \in DOMAIN event_queue', event_queue'[i].name = "sys.usb.config",
                      \A j \in DOMAIN event_queue' :
                        event_queue'[j].name = "sys.usb.config" => j <= i
               PROVE  event_queue'[i].value = property'["sys.usb.config"]
    BY DEF LastConfigEvent, ConfigEvent, config
  <2>1. CASE name = "sys.usb.config"
    <3>1. i = n + 1
      BY <1>1, <1>5, <2>1
    <3> QED
      BY <1>3, <1>5, <2>1, <3>1
  <2>2. CASE name # "sys.usb.config"
    <3>1. i \in DOMAIN event_queue
      BY <1>4, <1>5, <2>2
    <3>2. \A j \in DOMAIN event_queue : event_queue[j].name = "sys.usb.config" => j <= i
      BY <1>1
    <3>3. event_queue[i].name = "sys.usb.config"
      BY <1>1, <3>1
    <3>4. event_queue[i].value = property["sys.usb.config"]
      BY <3>1, <3>2, <3>3 DEF IInv, LastConfigEvent, ConfigEvent, config
    <3> QED
      BY <1>1, <1>3, <2>2, <3>1, <3>4
  <2> QED
    BY <2>1, <2>2
<1>8. ASSUME NoConfigEvent(event_queue')
      PROVE  NoConfigEvent(event_queue) /\ name # "sys.usb.config" /\ config' = config
  <2>1. \A i \in DOMAIN event_queue' : event_queue'[i].name # "sys.usb.config"
    BY <1>8 DEF NoConfigEvent, ConfigEvent
  <2>2. name # "sys.usb.config"
    BY <1>1, <1>5, <2>1
  <2>3. \A i \in DOMAIN event_queue : event_queue[i].name # "sys.usb.config"
    BY <1>1, <2>1
  <2> QED
    BY <1>3, <2>2, <2>3 DEF NoConfigEvent, ConfigEvent, config
<1> QED
  BY <1>1, <1>3, <1>6, <1>7, <1>8

-----------------------------------------------------------------------------
\* Executing a block

LEMMA TailOf ==
    ASSUME NEW S, NEW block \in Seq(S), block # <<>>
    PROVE  /\ Tail(block) \in Seq(S) /\ Head(block) = block[1] /\ Head(block) \in S
           /\ Len(block) \in Nat \ {0}
           /\ DOMAIN block = 1 .. Len(block) /\ DOMAIN Tail(block) = 1 .. Len(block) - 1
           /\ \A i \in DOMAIN Tail(block) : Tail(block)[i] = block[i + 1]
  OBVIOUS

\* A command that writes no file changes nothing of what the rest will write.
LEMMA PassOver ==
    ASSUME NEW block \in Seq(Commands), block # <<>>, block[1].do # "write",
           NEW files, NEW mode, GadgetFollows(block, files, mode)
    PROVE  GadgetFollows(Tail(block), files, mode)
<1> DEFINE t == Tail(block)
<1>1. /\ Len(block) \in Nat \ {0}
      /\ DOMAIN block = 1 .. Len(block) /\ DOMAIN t = 1 .. Len(block) - 1
      /\ \A i \in DOMAIN t : t[i] = block[i + 1]
  BY TailOf
<1> HIDE DEF t
<1> SUFFICES ASSUME NEW file \in Relevant(mode)
             PROVE  /\ \A i \in DOMAIN t : LastWriteOf(t, file, i) =>
                         Written(mode, t[i].value) = Wanted(mode, file)
                    /\ (\A i \in DOMAIN t : ~WriteOf(t, file, i)) =>
                         files[file] = Wanted(mode, file)
  BY DEF GadgetFollows, t
<1>2. \A i \in DOMAIN block : WriteOf(block, file, i) => i - 1 \in DOMAIN t /\ WriteOf(t, file, i - 1)
  BY <1>1 DEF WriteOf
<1>3. ASSUME NEW i \in DOMAIN t, LastWriteOf(t, file, i)
      PROVE  Written(mode, t[i].value) = Wanted(mode, file)
  <2>1. i + 1 \in DOMAIN block /\ t[i] = block[i + 1]
    BY <1>1
  <2>2. WriteOf(block, file, i + 1)
    BY <1>3, <2>1 DEF LastWriteOf, WriteOf
  <2>3. \A j \in DOMAIN block : WriteOf(block, file, j) => j <= i + 1
    <3> SUFFICES ASSUME NEW j \in DOMAIN block, WriteOf(block, file, j) PROVE j <= i + 1
      OBVIOUS
    <3>1. j - 1 \in DOMAIN t /\ WriteOf(t, file, j - 1)
      BY <1>2
    <3>2. j - 1 <= i
      BY <1>3, <3>1 DEF LastWriteOf
    <3> QED
      BY <1>1, <3>2
  <2> QED
    BY <2>1, <2>2, <2>3 DEF LastWriteOf, GadgetFollows
<1>4. ASSUME \A i \in DOMAIN t : ~WriteOf(t, file, i)
      PROVE  files[file] = Wanted(mode, file)
  <2>1. \A i \in DOMAIN block : ~WriteOf(block, file, i)
    BY <1>2, <1>4
  <2> QED
    BY <2>1 DEF GadgetFollows
<1> QED
  BY <1>3, <1>4

\* A write does what was expected of it.
LEMMA WriteOne ==
    ASSUME NEW block \in Seq(Commands), block # <<>>, block[1].do = "write",
           NEW S, NEW files \in [Files -> S], NEW mode, GadgetFollows(block, files, mode),
           NEW files2,
           files2 = [files EXCEPT ![block[1].to] = Written(mode, block[1].value)]
    PROVE  GadgetFollows(Tail(block), files2, mode)
<1> DEFINE t == Tail(block)
<1>1. /\ Len(block) \in Nat \ {0}
      /\ DOMAIN block = 1 .. Len(block) /\ DOMAIN t = 1 .. Len(block) - 1
      /\ \A i \in DOMAIN t : t[i] = block[i + 1]
      /\ block[1] \in Commands
  BY TailOf
<1> HIDE DEF t
<1> SUFFICES ASSUME NEW file \in Relevant(mode)
             PROVE  /\ \A i \in DOMAIN t : LastWriteOf(t, file, i) =>
                         Written(mode, t[i].value) = Wanted(mode, file)
                    /\ (\A i \in DOMAIN t : ~WriteOf(t, file, i)) =>
                         files2[file] = Wanted(mode, file)
  BY DEF GadgetFollows, t
<1>0. file \in Files
  BY DEF Relevant, Files
<1>2. \A i \in DOMAIN block : WriteOf(block, file, i) =>
        i = 1 \/ (i - 1 \in DOMAIN t /\ WriteOf(t, file, i - 1))
  BY <1>1 DEF WriteOf
<1>3. ASSUME NEW i \in DOMAIN t, LastWriteOf(t, file, i)
      PROVE  Written(mode, t[i].value) = Wanted(mode, file)
  <2>1. i + 1 \in DOMAIN block /\ t[i] = block[i + 1] /\ i \in Nat
    BY <1>1
  <2>2. WriteOf(block, file, i + 1)
    BY <1>3, <2>1 DEF LastWriteOf, WriteOf
  <2>3. \A j \in DOMAIN block : WriteOf(block, file, j) => j <= i + 1
    <3> SUFFICES ASSUME NEW j \in DOMAIN block, WriteOf(block, file, j), j # 1 PROVE j <= i + 1
      BY <2>1
    <3>1. j - 1 \in DOMAIN t /\ WriteOf(t, file, j - 1)
      BY <1>2
    <3>2. j - 1 <= i
      BY <1>3, <3>1 DEF LastWriteOf
    <3> QED
      BY <1>1, <3>2
  <2> QED
    BY <2>1, <2>2, <2>3 DEF LastWriteOf, GadgetFollows
<1>4. ASSUME \A i \in DOMAIN t : ~WriteOf(t, file, i)
      PROVE  files2[file] = Wanted(mode, file)
  <2>1. \A i \in DOMAIN block : WriteOf(block, file, i) => i = 1
    BY <1>2, <1>4
  <2>2. CASE block[1].to = file
    <3>1. 1 \in DOMAIN block /\ WriteOf(block, file, 1)
      BY <1>1, <2>2 DEF WriteOf
    <3>2. \A i \in DOMAIN block : WriteOf(block, file, i) => i <= 1
      BY <1>1, <2>1
    <3>3. Written(mode, block[1].value) = Wanted(mode, file)
      BY <3>1, <3>2 DEF LastWriteOf, GadgetFollows
    <3> QED
      BY <1>0, <2>2, <3>3
  <2>3. CASE block[1].to # file
    <3>1. \A i \in DOMAIN block : ~WriteOf(block, file, i)
      BY <2>1, <2>3 DEF WriteOf
    <3>2. files[file] = Wanted(mode, file)
      BY <3>1 DEF GadgetFollows
    <3> QED
      BY <1>0, <2>3, <3>2
  <2> QED
    BY <2>2, <2>3
<1> QED
  BY <1>3, <1>4

LEMMA StateStays ==
    ASSUME NEW block \in Seq(Commands), block # <<>>, ~SetsState(block[1]),
           NEW state, NEW mode, StateFollows(block, state, mode)
    PROVE  StateFollows(Tail(block), state, mode)
<1> DEFINE t == Tail(block)
<1>1. /\ Len(block) \in Nat \ {0}
      /\ DOMAIN block = 1 .. Len(block) /\ DOMAIN t = 1 .. Len(block) - 1
      /\ \A i \in DOMAIN t : t[i] = block[i + 1]
  BY TailOf
<1> HIDE DEF t
<1>2. CASE state = mode
  BY <1>2 DEF StateFollows
<1>3. CASE state # mode
  <2>1. PICK i \in DOMAIN block : SetsState(block[i])
    BY <1>3 DEF StateFollows
  <2>2. i - 1 \in DOMAIN t /\ t[i - 1] = block[i]
    BY <1>1, <2>1
  <2> QED
    BY <2>1, <2>2 DEF StateFollows, t
<1> QED
  BY <1>2, <1>3

-----------------------------------------------------------------------------
\* Taking up a block

LEMMA CommandKinds ==
    /\ \A file, value : /\ Write(file, value).do = "write" /\ Write(file, value).to = file
                        /\ Write(file, value).value = value
    /\ \A name, value : /\ Setprop(name, value).do = "setprop" /\ Setprop(name, value).to = name
                        /\ Setprop(name, value).value = value
    /\ \A c \in ServiceCommands : c.do # "write" /\ ~SetsState(c)
  BY DEF Write, Setprop, ServiceCommands, SetsState

\* The block of a mode brings the gadget into the mode, whatever it was in.
LEMMA ModeBlockFollows ==
    ASSUME NEW mode \in AllModes \ {"none"}, NEW files, NEW state
    PROVE  /\ GadgetFollows(ModeBlock(mode), files, mode)
           /\ StateFollows(ModeBlock(mode), state, mode)
<1> DEFINE n == Len(ServicesOf(mode))
           b == ModeBlock(mode)
<1>1. /\ n \in Nat /\ DOMAIN b = 1 .. n + 5
      /\ b[1] = Write("enable", "0") /\ b[2] = Write("idProduct", mode)
      /\ b[3] \in {Write("functions", mode), Write("functions", CONFIG)}
      /\ b[4] = Write("enable", "1")
      /\ \A i \in 5 .. n + 4 : b[i] \in ServiceCommands
      /\ b[n + 5] = Setprop("sys.usb.state", CONFIG)
  BY ModeBlockShape
<1> HIDE DEF n, b
<1>2. /\ \A i \in DOMAIN b : b[i].do = "write" => i \in 1 .. 4
      /\ b[1].to = "enable" /\ b[2].to = "idProduct" /\ b[3].to = "functions" /\ b[4].to = "enable"
      /\ b[1].do = "write" /\ b[2].do = "write" /\ b[3].do = "write" /\ b[4].do = "write"
      /\ b[2].value = mode /\ b[3].value \in {mode, CONFIG} /\ b[4].value = "1"
  <2>1. \A i \in 5 .. n + 4 : b[i].do # "write"
    BY <1>1, CommandKinds
  <2>2. b[n + 5].do # "write"
    BY <1>1, CommandKinds
  <2>3. \A i \in 1 .. n + 5 : i \in 1 .. 4 \/ i \in 5 .. n + 4 \/ i = n + 5
    BY <1>1
  <2>4. \A i \in DOMAIN b : b[i].do = "write" => i \in 1 .. 4
    BY <1>1, <2>1, <2>2, <2>3
  <2> QED
    BY <1>1, <2>4, CommandKinds
<1>3. {1, 2, 3, 4} \subseteq DOMAIN b
  BY <1>1
<1>4. CONFIG # "1" /\ CONFIG # mode
  BY Distinct DEF CONFIG
<1>5. ASSUME NEW file \in Files
      PROVE  /\ \A i \in DOMAIN b : LastWriteOf(b, file, i) => Written(mode, b[i].value) = Wanted(mode, file)
             /\ \E i \in DOMAIN b : WriteOf(b, file, i)
  <2>1. CASE file = "enable"
    <3>1. \A i \in DOMAIN b : LastWriteOf(b, file, i) => i = 4
      BY <1>2, <1>3, <2>1 DEF LastWriteOf, WriteOf
    <3>2. Written(mode, b[4].value) = Wanted(mode, file)
      BY <1>2, <1>4, <2>1 DEF Written, Wanted
    <3> QED
      BY <1>2, <1>3, <2>1, <3>1, <3>2 DEF WriteOf
  <2>2. CASE file = "idProduct"
    <3>1. \A i \in DOMAIN b : LastWriteOf(b, file, i) => i = 2
      BY <1>2, <1>3, <2>2 DEF LastWriteOf, WriteOf
    <3>2. Written(mode, b[2].value) = Wanted(mode, file)
      BY <1>2, <1>4, <2>2 DEF Written, Wanted
    <3> QED
      BY <1>2, <1>3, <2>2, <3>1, <3>2 DEF WriteOf
  <2>3. CASE file = "functions"
    <3>1. \A i \in DOMAIN b : LastWriteOf(b, file, i) => i = 3
      BY <1>2, <1>3, <2>3 DEF LastWriteOf, WriteOf
    <3>2. Written(mode, b[3].value) = Wanted(mode, file)
      BY <1>2, <1>4, <2>3 DEF Written, Wanted
    <3> QED
      BY <1>2, <1>3, <2>3, <3>1, <3>2 DEF WriteOf
  <2> QED
    BY <2>1, <2>2, <2>3 DEF Files
<1>6. GadgetFollows(b, files, mode)
  BY <1>5 DEF GadgetFollows, Relevant
<1>7. StateFollows(b, state, mode)
  BY <1>1, CommandKinds DEF StateFollows, SetsState
<1> QED
  BY <1>6, <1>7 DEF b

LEMMA NoneBlockFollows ==
    ASSUME NEW files, NEW state
    PROVE  GadgetFollows(NoneBlock, files, "none") /\ StateFollows(NoneBlock, state, "none")
<1>1. /\ DOMAIN NoneBlock = 1 .. 6
      /\ \A i \in 1 .. 4 : NoneBlock[i] \in ServiceCommands
      /\ NoneBlock[5] = Write("enable", "0")
      /\ NoneBlock[6] = Setprop("sys.usb.state", CONFIG)
  BY NoneBlockShape
<1>2. /\ \A i \in DOMAIN NoneBlock : NoneBlock[i].do = "write" => i = 5
      /\ NoneBlock[5].do = "write" /\ NoneBlock[5].to = "enable" /\ NoneBlock[5].value = "0"
  <2>1. \A i \in 1 .. 4 : NoneBlock[i].do # "write"
    BY <1>1, CommandKinds
  <2>2. NoneBlock[6].do # "write"
    BY <1>1, CommandKinds
  <2> QED
    BY <1>1, <2>1, <2>2, CommandKinds
<1>3. CONFIG # "0"
  BY DEF CONFIG
<1>4. GadgetFollows(NoneBlock, files, "none")
  BY <1>1, <1>2, <1>3 DEF GadgetFollows, Relevant, LastWriteOf, WriteOf, Written, Wanted
<1>5. StateFollows(NoneBlock, state, "none")
  BY <1>1, CommandKinds DEF StateFollows, SetsState
<1> QED
  BY <1>4, <1>5

\* A block of services leaves the gadget and the state as they are.
LEMMA ServiceBlockFollows ==
    ASSUME NEW block \in Seq(ServiceCommands), NEW files, NEW state, NEW mode,
           GadgetFollows(<<>>, files, mode), StateFollows(<<>>, state, mode)
    PROVE  GadgetFollows(block, files, mode) /\ StateFollows(block, state, mode)
<1>1. \A i \in DOMAIN block : block[i].do # "write"
  BY CommandKinds
<1>2. \A file \in Relevant(mode) : files[file] = Wanted(mode, file)
  BY DEF GadgetFollows
<1>3. state = mode
  BY DEF StateFollows
<1> QED
  BY <1>1, <1>2, <1>3 DEF GadgetFollows, StateFollows, LastWriteOf, WriteOf

-----------------------------------------------------------------------------
\* The steps

LEMMA OtherSets ==
    ASSUME IInv, SetByOther
    PROVE  IInv'
<1>1. PICK name \in {"sys.usb.config", "persist.sys.usb.config"}, value \in Values :
        Fits(name, value) /\ property_set(name, value)
  <2>1. /\ \A mode \in Modes : mode \in Values /\ Fits("sys.usb.config", mode)
        /\ \A value \in Persisted : value \in Values /\ Fits("persist.sys.usb.config", value)
    BY ModesAssumption DEF Values, Fits
  <2> QED
    BY <2>1 DEF SetByOther
<1>2. name \in Names
  BY DEF Names
<1>3. /\ property' \in [Names -> Values]
      /\ property'["sys.usb.config"] \in AllModes \cup {""}
      /\ property'["persist.sys.usb.config"] \in AllModes \cup {""}
      /\ event_queue' \in Seq(Events)
      /\ \A i \in DOMAIN event_queue' :
           event_queue'[i].name = "sys.usb.config" => event_queue'[i].value \in AllModes
      /\ LastConfigEvent(event_queue', config')
      /\ NoConfigEvent(event_queue') =>
           NoConfigEvent(event_queue) /\ name # "sys.usb.config" /\ config' = config
  BY <1>1, <1>2, PropertySet
<1>4. UNCHANGED <<commands, gadget, services>> /\ sets' = sets + 1 /\ sets < Sets
  BY DEF SetByOther
<1>5. property'["sys.usb.state"] = property["sys.usb.state"]
  BY <1>1 DEF property_set, IInv, TypeOK, Names
<1>6. sets' \in 0 .. Sets
  <2>1. sets \in 0 .. Sets
    BY DEF IInv, TypeOK
  <2>2. Sets \in Nat
    BY ModesAssumption
  <2> QED
    BY <1>4, <2>1, <2>2
<1>7. TypeOK'
  BY <1>3, <1>4, <1>6 DEF IInv, TypeOK, Events, Values
<1>8. Asked'
  BY <1>3, <1>4 DEF IInv, Asked
<1>9. OnItsWay'
  BY <1>3, <1>4, <1>5 DEF IInv, OnItsWay
<1> QED
  BY <1>3, <1>7, <1>8, <1>9 DEF IInv

LEMMA EventTaken ==
    ASSUME IInv, NextEvent
    PROVE  IInv'
<1> DEFINE e == Head(event_queue)
           Started ==
             /\ OnItsWay' /\ commands' \in Seq(Commands)
             /\ \A i \in DOMAIN commands' :
                  \/ commands'[i] \in ServiceCommands
                  \/ commands'[i].do = "write"
                  \/ commands'[i] = Setprop("sys.usb.state", CONFIG)
<1>1. /\ commands = <<>> /\ event_queue # <<>>
      /\ commands' = Block(e.name, e.value) /\ event_queue' = Tail(event_queue)
      /\ UNCHANGED <<property, gadget, services, sets>>
  BY DEF NextEvent
<1>2. /\ event_queue \in Seq(Events)
      /\ \A i \in DOMAIN event_queue :
           event_queue[i].name = "sys.usb.config" => event_queue[i].value \in AllModes
  BY DEF IInv, TypeOK, Events, Values
<1>3. /\ event_queue' \in Seq(Events) /\ e = event_queue[1] /\ e \in Events
      /\ Len(event_queue) \in Nat \ {0}
      /\ DOMAIN event_queue = 1 .. Len(event_queue)
      /\ DOMAIN event_queue' = 1 .. Len(event_queue) - 1
      /\ \A i \in DOMAIN event_queue' : event_queue'[i] = event_queue[i + 1]
  BY <1>1, <1>2, TailOf
<1> HIDE DEF e
<1>4. config' = config
  BY <1>1 DEF config
<1>5. e.name \in Names /\ (e.name = "sys.usb.config" => e.value \in AllModes)
  <2>1. 1 \in DOMAIN event_queue
    BY <1>3
  <2> QED
    BY <1>2, <1>3, <2>1 DEF Events
<1>6. ASSUME e.name # "sys.usb.config" PROVE Started
  <2>1. commands' \in Seq(ServiceCommands)
    BY <1>1, <1>5, <1>6, OtherBlocks
  <2>2. NoConfigEvent(event_queue') => NoConfigEvent(event_queue)
    <3>1. \A i \in DOMAIN event_queue : i = 1 \/ (i - 1 \in DOMAIN event_queue' /\ event_queue'[i - 1] = event_queue[i])
      BY <1>3
    <3> QED
      BY <1>3, <1>6, <3>1 DEF NoConfigEvent, ConfigEvent
  <2>3. OnItsWay'
    <3>1. ASSUME NoConfigEvent(event_queue'), config # ""
          PROVE  /\ GadgetFollows(commands', gadget, config)
                 /\ StateFollows(commands', property["sys.usb.state"], config)
      <4>1. GadgetFollows(<<>>, gadget, config) /\ StateFollows(<<>>, property["sys.usb.state"], config)
        BY <1>1, <2>2, <3>1 DEF IInv, OnItsWay
      <4> QED
        BY <2>1, <4>1, ServiceBlockFollows
    <3> QED
      BY <1>1, <1>4, <3>1 DEF OnItsWay
  <2>4. commands' \in Seq(Commands)
    BY <2>1, CommandTypes
  <2>5. \A i \in DOMAIN commands' : commands'[i] \in ServiceCommands
    BY <2>1
  <2> QED
    BY <2>3, <2>4, <2>5
<1>7. ASSUME e.name = "sys.usb.config" PROVE Started
  <2>1. commands' = IF e.value = "none" THEN NoneBlock ELSE ModeBlock(e.value)
    BY <1>1, <1>7, ConfigBlock
  <2>2. e.value \in AllModes
    BY <1>5, <1>7
  <2>3. /\ commands' \in Seq(Commands)
        /\ \A i \in DOMAIN commands' :
             \/ commands'[i] \in ServiceCommands
             \/ commands'[i].do = "write"
             \/ commands'[i] = Setprop("sys.usb.state", CONFIG)
    <3>1. CASE e.value = "none"
      <4>1. \A i \in 1 .. 6 : i \in 1 .. 4 \/ i = 5 \/ i = 6
        OBVIOUS
      <4> QED
        BY <2>1, <3>1, <4>1, NoneBlockShape, CommandKinds
    <3>2. CASE e.value # "none"
      <4> DEFINE n == Len(ServicesOf(e.value))
                 b == ModeBlock(e.value)
      <4>1. /\ n \in Nat /\ b \in Seq(Commands) /\ DOMAIN b = 1 .. n + 5
            /\ b[1] = Write("enable", "0") /\ b[2] = Write("idProduct", e.value)
            /\ b[3] \in {Write("functions", e.value), Write("functions", CONFIG)}
            /\ b[4] = Write("enable", "1")
            /\ \A i \in 5 .. n + 4 : b[i] \in ServiceCommands
            /\ b[n + 5] = Setprop("sys.usb.state", CONFIG)
        BY <2>2, <3>2, ModeBlockShape
      <4>2. commands' = b
        BY <2>1, <3>2
      <4> HIDE DEF n, b
      <4>3. b[1].do = "write" /\ b[2].do = "write" /\ b[3].do = "write" /\ b[4].do = "write"
        BY <4>1, CommandKinds
      <4>4. \A i \in DOMAIN b : i = 1 \/ i = 2 \/ i = 3 \/ i = 4 \/ i \in 5 .. n + 4 \/ i = n + 5
        BY <4>1
      <4> QED
        BY <4>1, <4>2, <4>3, <4>4
    <3> QED
      BY <3>1, <3>2
  <2>4. ASSUME NoConfigEvent(event_queue'), config # ""
        PROVE  /\ GadgetFollows(commands', gadget, config)
               /\ StateFollows(commands', property["sys.usb.state"], config)
    <3>1. \A i \in DOMAIN event_queue : event_queue[i].name = "sys.usb.config" => i = 1
      <4>1. \A i \in DOMAIN event_queue :
              i = 1 \/ (i - 1 \in DOMAIN event_queue' /\ event_queue'[i - 1] = event_queue[i])
        BY <1>3
      <4> QED
        BY <2>4, <4>1 DEF NoConfigEvent, ConfigEvent
    <3>2. 1 \in DOMAIN event_queue /\ \A j \in DOMAIN event_queue : event_queue[j].name = "sys.usb.config" => j <= 1
      BY <1>3, <3>1
    <3>3. e.value = config
      BY <1>3, <1>7, <3>2 DEF IInv, LastConfigEvent, ConfigEvent
    <3>4. CASE config = "none"
      BY <2>1, <3>3, <3>4, NoneBlockFollows
    <3>5. CASE config # "none"
      BY <2>1, <2>2, <3>3, <3>5, ModeBlockFollows
    <3> QED
      BY <3>4, <3>5
  <2>5. OnItsWay'
    BY <1>1, <1>4, <2>4 DEF OnItsWay
  <2> QED
    BY <2>3, <2>5
<1>8. Started
  BY <1>6, <1>7
<1>9. LastConfigEvent(event_queue', config')
  <2> SUFFICES ASSUME NEW i \in DOMAIN event_queue', event_queue'[i].name = "sys.usb.config",
                      \A j \in DOMAIN event_queue' : event_queue'[j].name = "sys.usb.config" => j <= i
               PROVE  event_queue'[i].value = config
    BY <1>4 DEF LastConfigEvent, ConfigEvent
  <2>1. /\ i + 1 \in DOMAIN event_queue /\ event_queue'[i] = event_queue[i + 1] /\ i \in Nat
        /\ \A j \in DOMAIN event_queue :
             j = 1 \/ (j - 1 \in DOMAIN event_queue' /\ event_queue'[j - 1] = event_queue[j])
    BY <1>3
  <2>2. \A j \in DOMAIN event_queue : event_queue[j].name = "sys.usb.config" => j <= i + 1
    <3> SUFFICES ASSUME NEW j \in DOMAIN event_queue, event_queue[j].name = "sys.usb.config", j # 1
                 PROVE  j <= i + 1
      BY <2>1
    <3>1. j - 1 <= i
      BY <2>1
    <3> QED
      BY <1>3, <2>1, <3>1
  <2> QED
    BY <2>1, <2>2 DEF IInv, LastConfigEvent, ConfigEvent
<1>10. Asked'
  <2>1. \A i \in DOMAIN commands' : commands'[i].do = "setprop" =>
          /\ commands'[i].to # "persist.sys.usb.config"
          /\ commands'[i].to = "sys.usb.config" => commands'[i].value = PERSISTENT
          /\ commands'[i].to = "sys.usb.state" => commands'[i].value = CONFIG
    BY <1>8, CommandKinds DEF ServiceCommands
  <2> QED
    BY <1>1, <2>1 DEF IInv, Asked
<1>11. TypeOK'
  <2>1. \A i \in DOMAIN event_queue' :
          event_queue'[i].name = "sys.usb.config" => event_queue'[i].value \in AllModes
    BY <1>2, <1>3
  <2> QED
    BY <1>1, <1>3, <1>8, <2>1 DEF IInv, TypeOK, Events, Values
<1> QED
  BY <1>8, <1>9, <1>10, <1>11 DEF IInv

\* The rest of a block is a part of the block.
LEMMA CommandDone ==
    ASSUME IInv, NEW do, Command(do)
    PROVE  /\ commands \in Seq(Commands) /\ commands # <<>>
           /\ Head(commands) = commands[1] /\ commands[1].do = do /\ commands[1] \in Commands
           /\ commands' = Tail(commands) /\ commands' \in Seq(Commands)
           /\ sets' = sets
           /\ 1 \in DOMAIN commands
           /\ \A i \in DOMAIN commands' : commands'[i].do = "setprop" =>
                /\ commands'[i].to # "persist.sys.usb.config"
                /\ commands'[i].to = "sys.usb.config" => commands'[i].value = PERSISTENT
                /\ commands'[i].to = "sys.usb.state" => commands'[i].value = CONFIG
<1>1. /\ commands \in Seq(Commands) /\ commands # <<>>
      /\ Head(commands).do = do /\ commands' = Tail(commands) /\ sets' = sets
  BY DEF Command, IInv, TypeOK
<1>2. /\ Tail(commands) \in Seq(Commands) /\ Head(commands) = commands[1]
      /\ Head(commands) \in Commands
      /\ Len(commands) \in Nat \ {0}
      /\ DOMAIN commands = 1 .. Len(commands) /\ DOMAIN Tail(commands) = 1 .. Len(commands) - 1
      /\ \A i \in DOMAIN Tail(commands) : Tail(commands)[i] = commands[i + 1]
  BY <1>1, TailOf
<1>3. 1 \in DOMAIN commands
      /\ \A i \in DOMAIN commands' : i + 1 \in DOMAIN commands /\ commands'[i] = commands[i + 1]
  BY <1>1, <1>2
<1>4. \A i \in DOMAIN commands : commands[i].do = "setprop" =>
        /\ commands[i].to # "persist.sys.usb.config"
        /\ commands[i].to = "sys.usb.config" => commands[i].value = PERSISTENT
        /\ commands[i].to = "sys.usb.state" => commands[i].value = CONFIG
  BY Zenon DEF IInv, Asked
<1>5. \A i \in DOMAIN commands' : commands'[i].do = "setprop" =>
        /\ commands'[i].to # "persist.sys.usb.config"
        /\ commands'[i].to = "sys.usb.config" => commands'[i].value = PERSISTENT
        /\ commands'[i].to = "sys.usb.state" => commands'[i].value = CONFIG
  BY <1>3, <1>4
<1>6. commands[1].do = do /\ commands[1] \in Commands /\ commands' \in Seq(Commands)
  BY <1>1, <1>2
<1> QED
  BY <1>1, <1>2, <1>3, <1>5, <1>6, Zenon

LEMMA FileWritten ==
    ASSUME IInv, WriteFile
    PROVE  IInv'
<1> DEFINE c == commands[1]
<1>1. /\ commands \in Seq(Commands) /\ commands # <<>>
      /\ Head(commands) = c /\ c.do = "write" /\ c \in Commands
      /\ commands' = Tail(commands) /\ commands' \in Seq(Commands)
      /\ sets' = sets
      /\ \A i \in DOMAIN commands' : commands'[i].do = "setprop" =>
           /\ commands'[i].to # "persist.sys.usb.config"
           /\ commands'[i].to = "sys.usb.config" => commands'[i].value = PERSISTENT
           /\ commands'[i].to = "sys.usb.state" => commands'[i].value = CONFIG
  BY CommandDone DEF WriteFile
<1>2. /\ gadget' = [gadget EXCEPT ![c.to] = Expand(c.value)]
      /\ UNCHANGED <<property, event_queue, services>>
  BY <1>1 DEF WriteFile
<1> HIDE DEF c
<1>3. c.to \in Files /\ c.value \in AllModes \cup {CONFIG, "0", "1"}
  BY <1>1 DEF Commands
<1>4. Expand(c.value) = Written(config, c.value) /\ Expand(c.value) \in Values
  BY <1>3, Expansion, Distinct DEF Written, Values, IInv, Asked, config
<1>5. gadget \in [Files -> Values] /\ gadget' \in [Files -> Values]
  BY <1>2, <1>3, <1>4 DEF IInv, TypeOK, Values
<1>6. config' = config
  BY <1>2 DEF config
<1>7. OnItsWay'
  <2> SUFFICES ASSUME NoConfigEvent(event_queue), config # ""
               PROVE  /\ GadgetFollows(commands', gadget', config)
                      /\ StateFollows(commands', property["sys.usb.state"], config)
    BY <1>2, <1>6 DEF OnItsWay
  <2>1. /\ GadgetFollows(commands, gadget, config)
        /\ StateFollows(commands, property["sys.usb.state"], config)
    BY DEF IInv, OnItsWay
  <2>2. gadget' = [gadget EXCEPT ![commands[1].to] = Written(config, commands[1].value)]
    BY <1>2, <1>4 DEF c
  <2>3. GadgetFollows(Tail(commands), gadget', config)
    BY <1>1, <1>5, <2>1, <2>2, WriteOne DEF c
  <2>4. ~SetsState(commands[1])
    BY <1>1 DEF SetsState, c
  <2>5. StateFollows(Tail(commands), property["sys.usb.state"], config)
    BY <1>1, <2>1, <2>4, StateStays
  <2> QED
    BY <1>1, <2>3, <2>5
<1>8. TypeOK'
  BY <1>1, <1>2, <1>5 DEF IInv, TypeOK, Values
<1>9. Asked'
  BY <1>1, <1>2 DEF IInv, Asked
<1> QED
  BY <1>2, <1>6, <1>7, <1>8, <1>9 DEF IInv

LEMMA ServiceDone ==
    ASSUME IInv, StartService \/ StopService
    PROVE  IInv'
<1>1. /\ commands \in Seq(Commands) /\ commands # <<>>
      /\ Head(commands) = commands[1] /\ commands[1].do \in {"start", "stop"}
      /\ commands[1] \in Commands
      /\ commands' = Tail(commands) /\ commands' \in Seq(Commands)
      /\ sets' = sets
      /\ \A i \in DOMAIN commands' : commands'[i].do = "setprop" =>
           /\ commands'[i].to # "persist.sys.usb.config"
           /\ commands'[i].to = "sys.usb.config" => commands'[i].value = PERSISTENT
           /\ commands'[i].to = "sys.usb.state" => commands'[i].value = CONFIG
  <2>1. CASE StartService
    BY <2>1, CommandDone DEF StartService
  <2>2. CASE StopService
    BY <2>2, CommandDone DEF StopService
  <2> QED
    BY <2>1, <2>2
<1>2. /\ UNCHANGED <<property, event_queue, gadget>>
      /\ services' \subseteq services \cup {commands[1].to}
  BY <1>1 DEF StartService, StopService
<1>3. commands[1].to \in Services
  BY <1>1 DEF Commands
<1>4. config' = config
  BY <1>2 DEF config
<1>5. OnItsWay'
  <2> SUFFICES ASSUME NoConfigEvent(event_queue), config # ""
               PROVE  /\ GadgetFollows(commands', gadget, config)
                      /\ StateFollows(commands', property["sys.usb.state"], config)
    BY <1>2, <1>4 DEF OnItsWay
  <2>1. /\ GadgetFollows(commands, gadget, config)
        /\ StateFollows(commands, property["sys.usb.state"], config)
    BY DEF IInv, OnItsWay
  <2>2. commands[1].do # "write" /\ ~SetsState(commands[1])
    BY <1>1 DEF SetsState
  <2> QED
    BY <1>1, <2>1, <2>2, PassOver, StateStays
<1>6. TypeOK'
  BY <1>1, <1>2, <1>3 DEF IInv, TypeOK
<1>7. Asked'
  BY <1>1, <1>2 DEF IInv, Asked
<1> QED
  BY <1>2, <1>4, <1>5, <1>6, <1>7 DEF IInv

LEMMA PropertyDone ==
    ASSUME IInv, SetProperty
    PROVE  IInv'
<1> DEFINE c == commands[1]
           value == Expand(c.value)
<1>1. /\ commands \in Seq(Commands) /\ commands # <<>>
      /\ Head(commands) = c /\ c.do = "setprop" /\ c \in Commands
      /\ commands' = Tail(commands) /\ commands' \in Seq(Commands)
      /\ sets' = sets
      /\ 1 \in DOMAIN commands
      /\ \A i \in DOMAIN commands' : commands'[i].do = "setprop" =>
           /\ commands'[i].to # "persist.sys.usb.config"
           /\ commands'[i].to = "sys.usb.config" => commands'[i].value = PERSISTENT
           /\ commands'[i].to = "sys.usb.state" => commands'[i].value = CONFIG
  BY CommandDone DEF SetProperty
<1>2. /\ UNCHANGED <<gadget, services>>
      /\ IF value = "" THEN UNCHANGED <<property, event_queue>> ELSE property_set(c.to, value)
  BY <1>1 DEF SetProperty
<1>3. /\ c.to \in Names /\ c.value \in {CONFIG, PERSISTENT, "0", "1"}
      /\ c.to # "persist.sys.usb.config"
      /\ c.to = "sys.usb.config" => c.value = PERSISTENT
      /\ c.to = "sys.usb.state" => c.value = CONFIG
  BY <1>1 DEF Commands, IInv, Asked
<1>4. /\ value \in Values
      /\ c.value = PERSISTENT => value \in AllModes \cup {""}
      /\ c.value = CONFIG => value = config
  BY <1>3, Expansion DEF Values, IInv, Asked, config
<1> HIDE DEF c, value
<1>5. CASE value = ""
  <2>1. UNCHANGED <<property, event_queue>>
    BY <1>2, <1>5
  <2>2. config' = config
    BY <2>1 DEF config
  <2>3. OnItsWay'
    <3> SUFFICES ASSUME NoConfigEvent(event_queue), config # ""
                 PROVE  /\ GadgetFollows(commands', gadget, config)
                        /\ StateFollows(commands', property["sys.usb.state"], config)
      BY <1>2, <2>1, <2>2 DEF OnItsWay
    <3>1. /\ GadgetFollows(commands, gadget, config)
          /\ StateFollows(commands, property["sys.usb.state"], config)
      BY DEF IInv, OnItsWay
    <3>2. commands[1].do # "write" /\ ~SetsState(commands[1])
      BY <1>1, <1>3, <1>4, <1>5 DEF SetsState, c
    <3> QED
      BY <1>1, <3>1, <3>2, PassOver, StateStays
  <2>4. TypeOK'
    BY <1>1, <1>2, <2>1 DEF IInv, TypeOK
  <2>5. Asked'
    BY <1>1, <2>1 DEF IInv, Asked
  <2> QED
    BY <2>1, <2>2, <2>3, <2>4, <2>5 DEF IInv
<1>6. CASE value # ""
  <2>1. property_set(c.to, value) /\ Fits(c.to, value)
    BY <1>2, <1>3, <1>4, <1>6 DEF Fits
  <2>2. /\ property' \in [Names -> Values]
        /\ property'["sys.usb.config"] \in AllModes \cup {""}
        /\ property'["persist.sys.usb.config"] \in AllModes \cup {""}
        /\ event_queue' \in Seq(Events)
        /\ \A i \in DOMAIN event_queue' :
             event_queue'[i].name = "sys.usb.config" => event_queue'[i].value \in AllModes
        /\ LastConfigEvent(event_queue', config')
        /\ NoConfigEvent(event_queue') =>
             NoConfigEvent(event_queue) /\ c.to # "sys.usb.config" /\ config' = config
    BY <1>3, <1>4, <2>1, PropertySet
  <2>3. OnItsWay'
    <3> SUFFICES ASSUME NoConfigEvent(event_queue'), config' # ""
                 PROVE  /\ GadgetFollows(commands', gadget', config')
                        /\ StateFollows(commands', property'["sys.usb.state"], config')
      BY DEF OnItsWay
    <3>1. /\ GadgetFollows(commands, gadget, config)
          /\ StateFollows(commands, property["sys.usb.state"], config)
          /\ config' = config
      BY <2>2 DEF IInv, OnItsWay
    <3>2. GadgetFollows(commands', gadget', config')
      BY <1>1, <1>2, <3>1, PassOver DEF c
    <3>3. property \in [Names -> Values] /\ property' = [property EXCEPT ![c.to] = value]
      BY <2>1 DEF property_set, IInv, TypeOK, Values
    <3>4. CASE c.to = "sys.usb.state"
      <4>1. property'["sys.usb.state"] = config
        BY <1>3, <1>4, <3>3, <3>4
      <4>2. property'["sys.usb.state"] = config'
        BY <3>1, <4>1, Zenon
      <4>3. \A block, mode : StateFollows(block, mode, mode)
        BY Zenon DEF StateFollows
      <4>4. StateFollows(commands', property'["sys.usb.state"], config')
        BY <4>2, <4>3
      <4> QED
        BY <3>2, <4>4
    <3>5. CASE c.to # "sys.usb.state"
      <4>1. property'["sys.usb.state"] = property["sys.usb.state"]
        <5>1. "sys.usb.state" \in Names
          BY DEF Names
        <5>2. DOMAIN property = Names
          BY <3>3
        <5> QED
          BY <3>3, <3>5, <5>1, <5>2, Zenon
      <4>2. ~SetsState(commands[1])
        BY <3>5 DEF SetsState, c
      <4>3. StateFollows(Tail(commands), property["sys.usb.state"], config)
        BY <1>1, <3>1, <4>2, StateStays
      <4> QED
        BY <1>1, <3>1, <3>2, <4>1, <4>3
    <3> QED
      BY <3>4, <3>5
  <2>4. TypeOK'
    BY <1>1, <1>2, <2>2 DEF IInv, TypeOK, Events, Values
  <2>5. Asked'
    BY <1>1, <2>2 DEF Asked
  <2> QED
    BY <2>2, <2>3, <2>4, <2>5 DEF IInv
<1> QED
  BY <1>5, <1>6

LEMMA StepInv == IInv /\ [Next]_vars => IInv'
<1>1. ASSUME IInv, UNCHANGED vars PROVE IInv'
  BY <1>1 DEF IInv, TypeOK, Asked, OnItsWay, config, vars, initVars
<1> QED
  BY <1>1, OtherSets, EventTaken, FileWritten, PropertyDone, ServiceDone DEF Next, InitProcess

-----------------------------------------------------------------------------
\* The theorems

\* The inductive invariant, for any modes and any number of requests.
THEOREM Invariance == Spec => []IInv
  BY InitInv, StepInv, PTL DEF Spec

\* What init does keeps the types, and a queued change of sys.usb.config names a
\* mode that has a block.
THEOREM TypeCorrect == Spec => []TypeOK
<1>1. IInv => TypeOK
  BY DEF IInv
<1> QED
  BY <1>1, Invariance, PTL

\* When init has caught up with the triggers, gadget and sys.usb.state are those
\* of the mode that was asked for last.
THEOREM GadgetSettled == Spec => []SettledAgrees
<1>1. ASSUME IInv, Settled, config # ""
      PROVE  /\ property["sys.usb.state"] = config
             /\ IF config = "none" THEN gadget["enable"] = "0"
                ELSE gadget = [enable |-> "1", idProduct |-> config, functions |-> config]
  <2>1. /\ GadgetFollows(<<>>, gadget, config)
        /\ StateFollows(<<>>, property["sys.usb.state"], config)
    <3>1. event_queue = <<>> /\ commands = <<>>
      BY <1>1 DEF Settled
    <3>2. NoConfigEvent(event_queue)
      BY <3>1 DEF NoConfigEvent
    <3>3. /\ GadgetFollows(commands, gadget, config)
          /\ StateFollows(commands, property["sys.usb.state"], config)
      BY <1>1, <3>2, Zenon DEF IInv, OnItsWay
    <3> QED
      BY <3>1, <3>3, Zenon
  <2>2. \A file \in Relevant(config) : gadget[file] = Wanted(config, file)
    BY <2>1 DEF GadgetFollows
  <2>3. property["sys.usb.state"] = config
    BY <2>1 DEF StateFollows
  <2>4. CASE config = "none"
    BY <2>2, <2>3, <2>4 DEF Relevant, Wanted
  <2>5. CASE config # "none"
    <3>1. /\ gadget["enable"] = "1" /\ gadget["idProduct"] = config /\ gadget["functions"] = config
      BY <2>2, <2>5 DEF Relevant, Wanted, Files
    <3>2. gadget = [file \in {"enable", "idProduct", "functions"} |-> gadget[file]]
      BY <1>1 DEF IInv, TypeOK, Files
    <3>3. gadget = [enable |-> "1", idProduct |-> config, functions |-> config]
      BY <3>1, <3>2
    <3> QED
      BY <2>3, <2>5, <3>3
  <2> QED
    BY <2>4, <2>5
<1>2. IInv => SettledAgrees
  BY <1>1 DEF SettledAgrees
<1> QED
  BY <1>2, Invariance, PTL

-----------------------------------------------------------------------------
(***************************************************************************)
(* Services: what the rest of the block and the queued changes of the two  *)
(* switches will make of them, for the time when no change of              *)
(* sys.usb.config is queued any more.                                      *)
(***************************************************************************)

\* The commands that are left of a block.  None occurs in a block beside its
\* opposite, so their order does not matter here.
Left(block) == {block[i] : i \in DOMAIN block}

\* A service will run, or not, when these commands have been executed.
WillRun(left, running, service) ==
    Stop(service) \notin left /\ (service \in running \/ Start(service) \in left)
WillStop(left, running, service) ==
    Start(service) \notin left /\ (service \notin running \/ Stop(service) \in left)

\* The properties that switch servers on and off, and the modes that set them.
Switches == {"sys.usb.start_modempcui", "sys.usb.start_atdiag"}
Servers(switch) ==
    IF switch = "sys.usb.start_modempcui" THEN {"hw_modem_service", "hw_pcui_service"}
                                          ELSE {"diagserver", "atcmdserver"}
Setters(switch, value) ==
    IF switch = "sys.usb.start_modempcui"
    THEN (IF value = "1" THEN WithModem ELSE {"none"} \cup Manufacture)
    ELSE (IF value = "1" THEN WithDiag ELSE WithModem)

\* The last event of a property in a queue carries the given value.
LastEvent(queue, name, value) ==
    \A i \in DOMAIN queue :
        queue[i].name = name /\ (\A j \in DOMAIN queue : queue[j].name = name => j <= i)
            => queue[i].value = value
NoEvent(queue, name) == \A i \in DOMAIN queue : queue[i].name # name

Reached(left, running, switch, value) ==
    \A service \in Servers(switch) :
        IF value = "1" THEN WillRun(left, running, service) ELSE WillStop(left, running, service)

\* A switch is on its way to a value: it will be set to it, or the event that
\* says so is the last of its kind, or its servers are being dealt with.
SwitchFollows(left, queue, running, switch, value) ==
    /\ \A c \in left : c.do = "setprop" /\ c.to = switch => c.value = value
    /\ Setprop(switch, value) \notin left =>
         /\ LastEvent(queue, switch, value)
         /\ NoEvent(queue, switch) => Reached(left, running, switch, value)

StoppedByNone == {"adbd", "usbshell", "hw_cdma_service"}

\* The services that the block of a mode starts or stops itself.
DirectFollow(left, running, mode) ==
    /\ mode \in WithAdb => WillRun(left, running, "adbd")
    /\ mode = "none" => \A service \in StoppedByNone : WillStop(left, running, service)

\* And so for everything a mode is promised.
Promised(left, queue, running, mode) ==
    /\ DirectFollow(left, running, mode)
    /\ \A switch \in Switches, value \in {"0", "1"} :
         mode \in Setters(switch, value) => SwitchFollows(left, queue, running, switch, value)

ServicesOnTheirWay ==
    NoConfigEvent(event_queue) => Promised(Left(commands), event_queue, services, config)

LEMMA LeftSmall ==
    /\ Left(<<>>) = {}
    /\ \A a : Left(<<a>>) = {a}
    /\ \A a, b : Left(<<a, b>>) = {a, b}
    /\ \A a, b, c, d : Left(<<a, b, c, d>>) = {a, b, c, d}
    /\ \A a, b, c, d, e, f : Left(<<a, b, c, d, e, f>>) = {a, b, c, d, e, f}
<1>1. Left(<<>>) = {}
  BY DEF Left
<1>2. \A a : Left(<<a>>) = {a}
  BY DEF Left
<1>3. \A a, b : Left(<<a, b>>) = {a, b}
  BY DEF Left
<1>4. \A a, b, c, d : Left(<<a, b, c, d>>) = {a, b, c, d}
  BY DEF Left
<1>5. \A a, b, c, d, e, f : Left(<<a, b, c, d, e, f>>) = {a, b, c, d, e, f}
  BY DEF Left
<1> QED
  BY <1>1, <1>2, <1>3, <1>4, <1>5

LEMMA LeftIs ==
    \A block, x : x \in Left(block) <=> \E i \in DOMAIN block : x = block[i]
  BY Zenon DEF Left

LEMMA LeftTail ==
    ASSUME NEW S, NEW block \in Seq(S), block # <<>>
    PROVE  Left(block) = {block[1]} \cup Left(Tail(block))
<1>1. /\ Len(block) \in Nat \ {0} /\ DOMAIN block = 1 .. Len(block)
      /\ DOMAIN Tail(block) = 1 .. Len(block) - 1
      /\ \A i \in DOMAIN Tail(block) : Tail(block)[i] = block[i + 1]
  BY TailOf
<1>2. \A i \in DOMAIN block :
        i = 1 \/ (i - 1 \in DOMAIN Tail(block) /\ block[i] = Tail(block)[i - 1])
  BY <1>1
<1>3. 1 \in DOMAIN block
      /\ \A i \in DOMAIN Tail(block) : i + 1 \in DOMAIN block /\ Tail(block)[i] = block[i + 1]
  BY <1>1
<1>4. ASSUME NEW x \in Left(block) PROVE x = block[1] \/ x \in Left(Tail(block))
  <2>1. PICK i \in DOMAIN block : x = block[i]
    BY LeftIs, Zenon
  <2>2. CASE i # 1
    <3>1. i - 1 \in DOMAIN Tail(block) /\ x = Tail(block)[i - 1]
      BY <1>2, <2>1, <2>2
    <3> QED
      BY <3>1, LeftIs, Zenon
  <2> QED
    BY <2>1, <2>2
<1>5. ASSUME NEW x \in Left(Tail(block)) PROVE x \in Left(block)
  <2>1. PICK i \in DOMAIN Tail(block) : x = Tail(block)[i]
    BY LeftIs, Zenon
  <2>2. i + 1 \in DOMAIN block /\ x = block[i + 1]
    BY <1>3, <2>1
  <2> QED
    BY <2>2, LeftIs, Zenon
<1>6. block[1] \in Left(block)
  BY <1>3, LeftIs
<1> QED
  BY <1>4, <1>5, <1>6

LEMMA LeftConcat ==
    ASSUME NEW S, NEW s \in Seq(S), NEW t \in Seq(S)
    PROVE  s \o t \in Seq(S) /\ Left(s \o t) = Left(s) \cup Left(t)
<1>1. /\ s \o t \in Seq(S) /\ Len(s) \in Nat /\ Len(t) \in Nat
      /\ DOMAIN s = 1 .. Len(s) /\ DOMAIN t = 1 .. Len(t)
      /\ DOMAIN (s \o t) = 1 .. Len(s) + Len(t)
      /\ \A i \in 1 .. Len(s) + Len(t) : (s \o t)[i] = IF i <= Len(s) THEN s[i] ELSE t[i - Len(s)]
  BY ConcatProperties
<1>2. \A i \in DOMAIN (s \o t) :
        \/ i \in DOMAIN s /\ (s \o t)[i] = s[i]
        \/ i - Len(s) \in DOMAIN t /\ (s \o t)[i] = t[i - Len(s)]
  BY <1>1
<1>3. \A i \in DOMAIN s : i \in DOMAIN (s \o t) /\ (s \o t)[i] = s[i]
  BY <1>1
<1>4. \A i \in DOMAIN t : i + Len(s) \in DOMAIN (s \o t) /\ (s \o t)[i + Len(s)] = t[i]
  BY <1>1
<1>5. ASSUME NEW x \in Left(s \o t) PROVE x \in Left(s) \/ x \in Left(t)
  <2>1. PICK i \in DOMAIN (s \o t) : x = (s \o t)[i]
    BY LeftIs, Zenon
  <2> QED
    BY <1>2, <2>1, LeftIs, Zenon
<1>6. ASSUME NEW x, x \in Left(s) \/ x \in Left(t) PROVE x \in Left(s \o t)
  <2>1. CASE x \in Left(s)
    <3>1. PICK i \in DOMAIN s : x = s[i]
      BY <2>1, LeftIs, Zenon
    <3>2. i \in DOMAIN (s \o t) /\ x = (s \o t)[i]
      BY <1>3, <3>1
    <3> QED
      BY <3>2, LeftIs, Zenon
  <2>2. CASE x \in Left(t)
    <3>1. PICK i \in DOMAIN t : x = t[i]
      BY <2>2, LeftIs, Zenon
    <3>2. i + Len(s) \in DOMAIN (s \o t) /\ x = (s \o t)[i + Len(s)]
      BY <1>4, <3>1
    <3> QED
      BY <3>2, LeftIs, Zenon
  <2> QED
    BY <1>6, <2>1, <2>2
<1>7. Left(s \o t) = Left(s) \cup Left(t)
  BY <1>5, <1>6, Zenon
<1> QED
  BY <1>1, <1>7

\* The last event of a kind when another is queued, and when the first is taken.
LEMMA LastAppend ==
    ASSUME NEW queue \in Seq(Events), NEW e \in Events, NEW name, NEW value,
           e.name = name => e.value = value,
           e.name # name => LastEvent(queue, name, value)
    PROVE  LastEvent(Append(queue, e), name, value)
<1> DEFINE n == Len(queue)
           q == Append(queue, e)
<1>1. /\ n \in Nat /\ DOMAIN queue = 1 .. n /\ DOMAIN q = 1 .. n + 1
      /\ \A i \in DOMAIN queue : q[i] = queue[i]
      /\ q[n + 1] = e
  OBVIOUS
<1> HIDE DEF n, q
<1> SUFFICES ASSUME NEW i \in DOMAIN q, q[i].name = name,
                    \A j \in DOMAIN q : q[j].name = name => j <= i
             PROVE  q[i].value = value
  BY DEF LastEvent, q
<1>2. CASE e.name = name
  <2>1. i = n + 1
    BY <1>1, <1>2
  <2> QED
    BY <1>1, <1>2, <2>1
<1>3. CASE e.name # name
  <2>1. i \in DOMAIN queue /\ q[i] = queue[i]
    BY <1>1, <1>3
  <2>2. \A j \in DOMAIN queue : queue[j].name = name => j <= i
    BY <1>1
  <2> QED
    BY <1>3, <2>1, <2>2 DEF LastEvent
<1> QED
  BY <1>2, <1>3

LEMMA LastTail ==
    ASSUME NEW queue \in Seq(Events), queue # <<>>, NEW name, NEW value,
           LastEvent(queue, name, value)
    PROVE  /\ LastEvent(Tail(queue), name, value)
           /\ NoEvent(Tail(queue), name) /\ queue[1].name = name => queue[1].value = value
           /\ NoEvent(Tail(queue), name) /\ queue[1].name # name => NoEvent(queue, name)
<1> DEFINE t == Tail(queue)
<1>1. /\ Len(queue) \in Nat \ {0} /\ DOMAIN queue = 1 .. Len(queue)
      /\ DOMAIN t = 1 .. Len(queue) - 1
      /\ \A i \in DOMAIN t : t[i] = queue[i + 1]
  BY TailOf
<1> HIDE DEF t
<1>2. /\ 1 \in DOMAIN queue
      /\ \A i \in DOMAIN t : i \in Nat /\ i + 1 \in DOMAIN queue /\ t[i] = queue[i + 1]
      /\ \A j \in DOMAIN queue : j = 1 \/ (j - 1 \in DOMAIN t /\ t[j - 1] = queue[j] /\ j \in Nat)
  BY <1>1
<1>3. LastEvent(t, name, value)
  <2> SUFFICES ASSUME NEW i \in DOMAIN t, t[i].name = name,
                      \A j \in DOMAIN t : t[j].name = name => j <= i
               PROVE  t[i].value = value
    BY DEF LastEvent
  <2>1. \A j \in DOMAIN queue : queue[j].name = name => j <= i + 1
    <3> SUFFICES ASSUME NEW j \in DOMAIN queue, queue[j].name = name
                 PROVE  j <= i + 1
      OBVIOUS
    <3>1. j = 1 \/ (j - 1 <= i /\ j \in Nat)
      BY <1>2
    <3> QED
      BY <1>2, <3>1
  <2> QED
    BY <1>2, <2>1 DEF LastEvent
<1>4. ASSUME NoEvent(t, name), queue[1].name = name
      PROVE  queue[1].value = value
  <2>1. \A j \in DOMAIN queue : queue[j].name = name => j <= 1
    <3> SUFFICES ASSUME NEW j \in DOMAIN queue, queue[j].name = name
                 PROVE  j = 1
      BY <1>2
    <3>1. j - 1 \in DOMAIN t => t[j - 1].name # name
      BY <1>4 DEF NoEvent
    <3> QED
      BY <1>2, <3>1
  <2> QED
    BY <1>2, <1>4, <2>1 DEF LastEvent
<1>5. ASSUME NoEvent(t, name), queue[1].name # name
      PROVE  NoEvent(queue, name)
  BY <1>2, <1>5 DEF NoEvent
<1> QED
  BY <1>3, <1>4, <1>5 DEF t

-----------------------------------------------------------------------------
\* What the blocks do to services and switches

LEMMA LeftServices ==
    ASSUME NEW mode
    PROVE  Left(ServicesOf(mode)) =
             (IF mode = "hisi_debug,adb" THEN {Stop("atcmdserver"), Start("hw_cdma_service")} ELSE {})
             \cup (IF mode \in WithAdb THEN {Start("adbd")} ELSE {})
             \cup (IF mode = "hisi_debug,adb" THEN {Start("usbshell")} ELSE {})
             \cup (IF mode \in WithDiag THEN {Setprop("sys.usb.start_atdiag", "1")} ELSE {})
             \cup (IF mode \in Manufacture THEN {Setprop("sys.usb.start_modempcui", "0")} ELSE {})
             \cup (IF mode \in WithModem THEN {Setprop("sys.usb.start_atdiag", "0"),
                                               Setprop("sys.usb.start_modempcui", "1")} ELSE {})
<1> DEFINE S == ServiceCommands
           s1 == IF mode = "hisi_debug,adb" THEN <<Stop("atcmdserver"), Start("hw_cdma_service")>> ELSE <<>>
           s2 == IF mode \in WithAdb THEN <<Start("adbd")>> ELSE <<>>
           s3 == IF mode = "hisi_debug,adb" THEN <<Start("usbshell")>> ELSE <<>>
           s4 == IF mode \in WithDiag THEN <<Setprop("sys.usb.start_atdiag", "1")>> ELSE <<>>
           s5 == IF mode \in Manufacture THEN <<Setprop("sys.usb.start_modempcui", "0")>> ELSE <<>>
           s6 == IF mode \in WithModem THEN <<Setprop("sys.usb.start_atdiag", "0"),
                                              Setprop("sys.usb.start_modempcui", "1")>> ELSE <<>>
<1>1. /\ Stop("atcmdserver") \in S /\ Start("hw_cdma_service") \in S /\ Start("adbd") \in S
      /\ Start("usbshell") \in S
      /\ Setprop("sys.usb.start_atdiag", "1") \in S /\ Setprop("sys.usb.start_atdiag", "0") \in S
      /\ Setprop("sys.usb.start_modempcui", "0") \in S /\ Setprop("sys.usb.start_modempcui", "1") \in S
  BY CommandTypes DEF Services
<1> HIDE DEF S
<1>2. \A a \in S, b \in S : <<a>> \in Seq(S) /\ <<a, b>> \in Seq(S) /\ <<>> \in Seq(S)
  OBVIOUS
<1>3. s1 \in Seq(S) /\ s2 \in Seq(S) /\ s3 \in Seq(S) /\ s4 \in Seq(S) /\ s5 \in Seq(S) /\ s6 \in Seq(S)
  BY <1>1, <1>2, Zenon
<1>4. ServicesOf(mode) = s1 \o s2 \o s3 \o s4 \o s5 \o s6
  BY DEF ServicesOf
<1>5. /\ Left(s1) = IF mode = "hisi_debug,adb" THEN {Stop("atcmdserver"), Start("hw_cdma_service")} ELSE {}
      /\ Left(s2) = IF mode \in WithAdb THEN {Start("adbd")} ELSE {}
      /\ Left(s3) = IF mode = "hisi_debug,adb" THEN {Start("usbshell")} ELSE {}
      /\ Left(s4) = IF mode \in WithDiag THEN {Setprop("sys.usb.start_atdiag", "1")} ELSE {}
      /\ Left(s5) = IF mode \in Manufacture THEN {Setprop("sys.usb.start_modempcui", "0")} ELSE {}
      /\ Left(s6) = IF mode \in WithModem THEN {Setprop("sys.usb.start_atdiag", "0"),
                                                Setprop("sys.usb.start_modempcui", "1")} ELSE {}
  BY LeftSmall, Zenon
<1> HIDE DEF s1, s2, s3, s4, s5, s6
<1> DEFINE c2 == s1 \o s2
           c3 == c2 \o s3
           c4 == c3 \o s4
           c5 == c4 \o s5
<1>6. ServicesOf(mode) = c5 \o s6
  BY <1>4, Zenon
<1>7. c2 \in Seq(S) /\ Left(c2) = Left(s1) \cup Left(s2)
  BY <1>3, LeftConcat
<1> HIDE DEF c2
<1>8. c3 \in Seq(S) /\ Left(c3) = Left(c2) \cup Left(s3)
  BY <1>3, <1>7, LeftConcat
<1> HIDE DEF c3
<1>9. c4 \in Seq(S) /\ Left(c4) = Left(c3) \cup Left(s4)
  BY <1>3, <1>8, LeftConcat
<1> HIDE DEF c4
<1>10. c5 \in Seq(S) /\ Left(c5) = Left(c4) \cup Left(s5)
  BY <1>3, <1>9, LeftConcat
<1> HIDE DEF c5
<1>11. Left(c5 \o s6) = Left(c5) \cup Left(s6)
  BY <1>3, <1>10, LeftConcat
<1> QED
  BY <1>5, <1>6, <1>7, <1>8, <1>9, <1>10, <1>11, Zenon

LEMMA CommandsDiffer ==
    /\ \A x, y : Start(x) # Stop(y)
    /\ \A x, y : Start(x) = Start(y) => x = y
    /\ \A x, y : Stop(x) = Stop(y) => x = y
    /\ \A x, n, v : Start(x) # Setprop(n, v) /\ Stop(x) # Setprop(n, v)
    /\ \A x, f, v : Start(x) # Write(f, v) /\ Stop(x) # Write(f, v)
    /\ \A x : Start(x).do = "start" /\ Start(x).to = x /\ Stop(x).do = "stop" /\ Stop(x).to = x
  BY DEF Start, Stop, Setprop, Write

\* The block of a mode deals with adbd, or what "none" stops, and with each switch
\* that the mode sets.
LEMMA ConfigBlockServices ==
    ASSUME NEW mode \in AllModes, NEW left, left = Left(Block("sys.usb.config", mode)),
           NEW running
    PROVE  /\ DirectFollow(left, running, mode)
           /\ \A switch \in Switches, value \in {"0", "1"} :
                mode \in Setters(switch, value) =>
                  /\ Setprop(switch, value) \in left
                  /\ \A c \in left : c.do = "setprop" /\ c.to = switch => c.value = value
<1>0. /\ "none" \notin WithAdb /\ "none" \notin WithModem /\ "none" \notin WithDiag
      /\ "none" \notin Manufacture
      /\ WithDiag \cap WithModem = {} /\ Manufacture \subseteq WithDiag
      /\ "hisi_debug,adb" \notin WithDiag \cup WithModem
  BY DEF WithAdb, WithModem, WithDiag, Manufacture
<1>1. CASE mode = "none"
  <2>1. left = {Stop("hw_cdma_service"), Stop("adbd"), Stop("usbshell"),
                Setprop("sys.usb.start_modempcui", "0"), Write("enable", "0"),
                Setprop("sys.usb.state", CONFIG)}
    <3>1. left = Left(NoneBlock)
      BY <1>1, ConfigBlock
    <3> QED
      BY <3>1, LeftSmall DEF NoneBlock
  <2>2. \A service \in StoppedByNone : Stop(service) \in left /\ Start(service) \notin left
    BY <2>1, CommandsDiffer DEF StoppedByNone
  <2>3. DirectFollow(left, running, mode)
    BY <1>0, <1>1, <2>2 DEF DirectFollow, WillStop
  <2>4. ASSUME NEW switch \in Switches, NEW value \in {"0", "1"}, mode \in Setters(switch, value)
        PROVE  switch = "sys.usb.start_modempcui" /\ value = "0"
    BY <1>0, <1>1, <2>4 DEF Switches, Setters
  <2>5. \A c \in left : c.do = "setprop" /\ c.to = "sys.usb.start_modempcui" => c.value = "0"
    BY <2>1, CommandKinds, CommandsDiffer
  <2> QED
    BY <2>1, <2>3, <2>4, <2>5
<1>2. CASE mode # "none"
  <2> DEFINE w == << Write("enable", "0"), Write("idProduct", mode),
                     Write("functions", IF mode \in OwnFunctions THEN mode ELSE CONFIG),
                     Write("enable", "1") >>
             v == ServicesOf(mode)
             e == << Setprop("sys.usb.state", CONFIG) >>
  <2>1. w \in Seq(Commands) /\ v \in Seq(Commands) /\ e \in Seq(Commands)
    <3>1. /\ Write("enable", "0") \in Commands /\ Write("idProduct", mode) \in Commands
          /\ Write("functions", IF mode \in OwnFunctions THEN mode ELSE CONFIG) \in Commands
          /\ Write("enable", "1") \in Commands /\ Setprop("sys.usb.state", CONFIG) \in Commands
      BY CommandTypes DEF Files
    <3>2. v \in Seq(ServiceCommands)
      BY ServicesType
    <3> HIDE DEF v
    <3>3. v \in Seq(Commands)
      BY <3>2, CommandTypes
    <3> QED
      BY <3>1, <3>3
  <2>2. left = Left((w \o v) \o e)
    BY <1>2, ConfigBlock DEF ModeBlock
  <2>3. \E x, y, z : /\ x.do = "write" /\ y.do = "write" /\ z.do = "write"
                     /\ Left(w) = {Write("enable", "0"), x, y, z}
    BY LeftSmall, CommandKinds
  <2>4. Left(e) = {Setprop("sys.usb.state", CONFIG)}
    BY LeftSmall
  <2> HIDE DEF w, v, e
  <2> DEFINE wv == w \o v
  <2>5. wv \in Seq(Commands) /\ Left(wv) = Left(w) \cup Left(v) /\ left = Left(wv \o e)
    BY <2>1, <2>2, LeftConcat
  <2> HIDE DEF wv
  <2>6. left = Left(wv) \cup Left(e)
    BY <2>1, <2>5, LeftConcat
  <2>7. /\ \A c \in left : \/ c.do = "write"
                           \/ c \in Left(v)
                           \/ c = Setprop("sys.usb.state", CONFIG)
        /\ Left(v) \subseteq left
    BY <2>3, <2>4, <2>5, <2>6, CommandKinds
  <2>8. Left(v) =
             (IF mode = "hisi_debug,adb" THEN {Stop("atcmdserver"), Start("hw_cdma_service")} ELSE {})
             \cup (IF mode \in WithAdb THEN {Start("adbd")} ELSE {})
             \cup (IF mode = "hisi_debug,adb" THEN {Start("usbshell")} ELSE {})
             \cup (IF mode \in WithDiag THEN {Setprop("sys.usb.start_atdiag", "1")} ELSE {})
             \cup (IF mode \in Manufacture THEN {Setprop("sys.usb.start_modempcui", "0")} ELSE {})
             \cup (IF mode \in WithModem THEN {Setprop("sys.usb.start_atdiag", "0"),
                                               Setprop("sys.usb.start_modempcui", "1")} ELSE {})
    BY LeftServices DEF v
  <2>9. /\ mode \in WithAdb => Start("adbd") \in left
        /\ mode \in WithDiag => Setprop("sys.usb.start_atdiag", "1") \in left
        /\ mode \in Manufacture => Setprop("sys.usb.start_modempcui", "0") \in left
        /\ mode \in WithModem => /\ Setprop("sys.usb.start_atdiag", "0") \in left
                                 /\ Setprop("sys.usb.start_modempcui", "1") \in left
    BY <2>7, <2>8
  <2>10. Stop("adbd") \notin left
    <3>1. Stop("adbd") # Stop("atcmdserver")
      BY CommandsDiffer
    <3>2. \A c \in Left(v) : c.do = "stop" => c = Stop("atcmdserver")
      <4>1. \A n, x : Setprop(n, x).do = "setprop"
        BY CommandKinds
      <4>2. \A c \in Left(v) :
              \/ c = Stop("atcmdserver")
              \/ \E x : c = Start(x)
              \/ \E n, x : c = Setprop(n, x)
        BY <2>8
      <4> QED
        BY <4>1, <4>2, CommandsDiffer
    <3>3. Stop("adbd") \notin Left(v)
      BY <3>1, <3>2, CommandsDiffer
    <3> QED
      BY <2>7, <3>3, CommandsDiffer, CommandKinds
  <2>11. DirectFollow(left, running, mode)
    BY <1>2, <2>9, <2>10 DEF DirectFollow, WillRun
  <2>12. \A c \in Left(v) : c.do = "setprop" =>
           \/ c.to = "sys.usb.start_atdiag" /\ c.value = "1" /\ mode \in WithDiag
           \/ c.to = "sys.usb.start_atdiag" /\ c.value = "0" /\ mode \in WithModem
           \/ c.to = "sys.usb.start_modempcui" /\ c.value = "0" /\ mode \in Manufacture
           \/ c.to = "sys.usb.start_modempcui" /\ c.value = "1" /\ mode \in WithModem
    <3>1. \A c \in Left(v) :
            \/ c.do # "setprop"
            \/ c = Setprop("sys.usb.start_atdiag", "1") /\ mode \in WithDiag
            \/ c = Setprop("sys.usb.start_atdiag", "0") /\ mode \in WithModem
            \/ c = Setprop("sys.usb.start_modempcui", "0") /\ mode \in Manufacture
            \/ c = Setprop("sys.usb.start_modempcui", "1") /\ mode \in WithModem
      BY <2>8, CommandsDiffer
    <3> QED
      BY <3>1, CommandKinds
  <2>13. \A c \in left : c.do = "setprop" /\ c.to \in Switches => c \in Left(v)
    BY <2>7, CommandKinds DEF Switches
  <2>14. ASSUME NEW switch \in Switches, NEW value \in {"0", "1"}, mode \in Setters(switch, value)
         PROVE  /\ Setprop(switch, value) \in left
                /\ \A c \in left : c.do = "setprop" /\ c.to = switch => c.value = value
    <3>1. \/ switch = "sys.usb.start_modempcui" /\ value = "1" /\ mode \in WithModem
          \/ switch = "sys.usb.start_modempcui" /\ value = "0" /\ mode \in Manufacture
          \/ switch = "sys.usb.start_atdiag" /\ value = "1" /\ mode \in WithDiag
          \/ switch = "sys.usb.start_atdiag" /\ value = "0" /\ mode \in WithModem
      BY <1>2, <2>14 DEF Switches, Setters
    <3> QED
      BY <1>0, <2>9, <2>12, <2>13, <3>1
  <2> QED
    BY <2>11, <2>14
<1> QED
  BY <1>1, <1>2

\* Any other block leaves those services alone, sets no switch, and deals with
\* servers only if it is the switch's own.
LEMMA OtherBlockServices ==
    ASSUME NEW name \in Names \ {"sys.usb.config"}, NEW value,
           NEW left, left = Left(Block(name, value))
    PROVE  /\ \A service \in StoppedByNone : Start(service) \notin left /\ Stop(service) \notin left
           /\ \A c \in left : c.do = "setprop" => c.to \notin Switches
           /\ \A switch \in Switches : \A service \in Servers(switch) :
                /\ name # switch => Start(service) \notin left /\ Stop(service) \notin left
                /\ name = switch /\ value = "1" => Start(service) \in left /\ Stop(service) \notin left
                /\ name = switch /\ value # "1" => Start(service) \notin left /\ Stop(service) \in left
<1>1. CASE name = "sys.usb.start_modempcui"
  <2>1. Block(name, value) = ModemBlock(value)
    BY <1>1 DEF Block
  <2>2. left = IF value = "1" THEN {Start("hw_modem_service"), Start("hw_pcui_service")}
                              ELSE {Stop("hw_modem_service"), Stop("hw_pcui_service")}
    BY <2>1, LeftSmall DEF ModemBlock
  <2>3. \A c \in left : c.do # "setprop"
    BY <2>2, CommandsDiffer
  <2>4. \A service : /\ Start(service) \in left <=> value = "1" /\ service \in {"hw_modem_service", "hw_pcui_service"}
                     /\ Stop(service) \in left <=> value # "1" /\ service \in {"hw_modem_service", "hw_pcui_service"}
    BY <2>2, CommandsDiffer
  <2> QED
    BY <1>1, <2>3, <2>4 DEF StoppedByNone, Switches, Servers
<1>2. CASE name = "sys.usb.start_atdiag"
  <2>1. Block(name, value) = DiagBlock(value)
    BY <1>2 DEF Block
  <2>2. left = IF value = "1" THEN {Start("diagserver"), Start("atcmdserver")}
                              ELSE {Stop("diagserver"), Stop("atcmdserver")}
    BY <2>1, LeftSmall DEF DiagBlock
  <2>3. \A c \in left : c.do # "setprop"
    BY <2>2, CommandsDiffer
  <2>4. \A service : /\ Start(service) \in left <=> value = "1" /\ service \in {"diagserver", "atcmdserver"}
                     /\ Stop(service) \in left <=> value # "1" /\ service \in {"diagserver", "atcmdserver"}
    BY <2>2, CommandsDiffer
  <2> QED
    BY <1>2, <2>3, <2>4 DEF StoppedByNone, Switches, Servers
<1>3. CASE name = "persist.sys.usb.config"
  <2>1. Block(name, value) = PersistBlock
    BY <1>3 DEF Block
  <2>2. left = {Setprop("sys.usb.config", PERSISTENT)}
    BY <2>1, LeftSmall DEF PersistBlock
  <2> QED
    BY <1>3, <2>2, CommandKinds, CommandsDiffer DEF Switches
<1>4. CASE name = "sys.usb.state"
  <2>1. Block(name, value) = <<>>
    BY <1>4 DEF Block
  <2>2. left = {}
    BY <2>1, LeftSmall
  <2> QED
    BY <1>4, <2>2 DEF Switches
<1> QED
  BY <1>1, <1>2, <1>3, <1>4 DEF Names

-----------------------------------------------------------------------------
\* The services, step by step

\* What a command does to the set of services that run.
Executed(c, running) ==
    IF c.do = "start" THEN running \cup {c.to}
    ELSE IF c.do = "stop" THEN running \ {c.to}
    ELSE running

LEMMA CommandIs ==
    ASSUME NEW c \in Commands
    PROVE  /\ c.do = "start" => c = Start(c.to)
           /\ c.do = "stop" => c = Stop(c.to)
           /\ c.do = "setprop" => c = Setprop(c.to, c.value)
  BY DEF Commands, Start, Stop, Setprop

\* A promise about a service outlives each command of the block.
LEMMA PromiseKept ==
    ASSUME NEW c \in Commands, NEW rest, NEW running, NEW service
    PROVE  /\ WillRun({c} \cup rest, running, service) => WillRun(rest, Executed(c, running), service)
           /\ WillStop({c} \cup rest, running, service) => WillStop(rest, Executed(c, running), service)
<1>1. ASSUME WillRun({c} \cup rest, running, service)
      PROVE  WillRun(rest, Executed(c, running), service)
  <2>1. c # Stop(service) /\ Stop(service) \notin rest
    BY <1>1 DEF WillRun
  <2>2. service \in running \/ c = Start(service) \/ Start(service) \in rest
    BY <1>1 DEF WillRun
  <2>3. CASE service \in running
    <3>1. c.do = "stop" => c.to # service
      BY <2>1, CommandIs
    <3> QED
      BY <2>1, <2>3, <3>1 DEF Executed, WillRun
  <2>4. CASE c = Start(service)
    BY <2>1, <2>4, CommandsDiffer DEF Executed, WillRun
  <2>5. CASE Start(service) \in rest
    BY <2>1, <2>5 DEF WillRun
  <2> QED
    BY <2>2, <2>3, <2>4, <2>5
<1>2. ASSUME WillStop({c} \cup rest, running, service)
      PROVE  WillStop(rest, Executed(c, running), service)
  <2>1. c # Start(service) /\ Start(service) \notin rest
    BY <1>2 DEF WillStop
  <2>2. service \notin running \/ c = Stop(service) \/ Stop(service) \in rest
    BY <1>2 DEF WillStop
  <2>3. CASE service \notin running
    <3>1. c.do = "start" => c.to # service
      BY <2>1, CommandIs
    <3> QED
      BY <2>1, <2>3, <3>1 DEF Executed, WillStop
  <2>4. CASE c = Stop(service)
    BY <2>1, <2>4, CommandsDiffer DEF Executed, WillStop
  <2>5. CASE Stop(service) \in rest
    BY <2>1, <2>5 DEF WillStop
  <2> QED
    BY <2>2, <2>3, <2>4, <2>5
<1> QED
  BY <1>1, <1>2

LEMMA NoEventAppend ==
    ASSUME NEW queue \in Seq(Events), NEW e \in Events, NEW name
    PROVE  NoEvent(Append(queue, e), name) => NoEvent(queue, name) /\ e.name # name
<1>1. /\ Len(queue) \in Nat /\ DOMAIN queue = 1 .. Len(queue)
      /\ DOMAIN Append(queue, e) = 1 .. Len(queue) + 1
      /\ \A i \in DOMAIN queue : Append(queue, e)[i] = queue[i]
      /\ Append(queue, e)[Len(queue) + 1] = e
  OBVIOUS
<1>2. /\ \A i \in DOMAIN queue : i \in DOMAIN Append(queue, e) /\ Append(queue, e)[i] = queue[i]
      /\ Len(queue) + 1 \in DOMAIN Append(queue, e)
  BY <1>1
<1> QED
  BY <1>1, <1>2 DEF NoEvent

\* A switch stays on its way when another command is executed ...
LEMMA SwitchKept ==
    ASSUME NEW c \in Commands, NEW rest, NEW queue, NEW running, NEW switch, NEW value,
           SwitchFollows({c} \cup rest, queue, running, switch, value),
           c # Setprop(switch, value)
    PROVE  SwitchFollows(rest, queue, Executed(c, running), switch, value)
<1>1. \A d \in rest : d.do = "setprop" /\ d.to = switch => d.value = value
  BY DEF SwitchFollows
<1>2. ASSUME Setprop(switch, value) \notin rest
      PROVE  /\ LastEvent(queue, switch, value)
             /\ NoEvent(queue, switch) => Reached({c} \cup rest, running, switch, value)
  BY <1>2 DEF SwitchFollows
<1>3. Reached({c} \cup rest, running, switch, value)
        => Reached(rest, Executed(c, running), switch, value)
  BY PromiseKept DEF Reached
<1> QED
  BY <1>1, <1>2, <1>3 DEF SwitchFollows

\* ... when another property is set ...
LEMMA SwitchQueued ==
    ASSUME NEW left, NEW queue \in Seq(Events), NEW e \in Events, NEW running, NEW switch,
           NEW value, SwitchFollows(left, queue, running, switch, value), e.name # switch
    PROVE  SwitchFollows(left, Append(queue, e), running, switch, value)
<1>1. LastEvent(queue, switch, value) => LastEvent(Append(queue, e), switch, value)
  BY LastAppend
<1>2. NoEvent(Append(queue, e), switch) => NoEvent(queue, switch)
  BY NoEventAppend
<1> QED
  BY <1>1, <1>2 DEF SwitchFollows

\* ... and when it is set itself.
LEMMA SwitchSet ==
    ASSUME NEW left, NEW rest, rest \subseteq left, NEW queue \in Seq(Events), NEW running,
           NEW switch, NEW value, NEW e \in Events, e.name = switch, e.value = value,
           SwitchFollows(left, queue, running, switch, value)
    PROVE  SwitchFollows(rest, Append(queue, e), running, switch, value)
<1>1. LastEvent(Append(queue, e), switch, value)
  BY LastAppend
<1>2. ~NoEvent(Append(queue, e), switch)
  BY NoEventAppend
<1> QED
  BY <1>1, <1>2 DEF SwitchFollows

\* The promises to a mode when a property that is no switch is set, ...
LEMMA PromisedQueued ==
    ASSUME NEW left, NEW queue \in Seq(Events), NEW e \in Events, e.name \notin Switches,
           NEW running, NEW mode, Promised(left, queue, running, mode)
    PROVE  Promised(left, Append(queue, e), running, mode)
  BY SwitchQueued DEF Promised

\* ... when a command that sets no switch is executed, ...
LEMMA PromisedCommand ==
    ASSUME NEW c \in Commands, NEW rest, NEW queue, NEW running, NEW mode,
           Promised({c} \cup rest, queue, running, mode),
           c.do = "setprop" => c.to \notin Switches \/ c.value \notin {"0", "1"}
    PROVE  Promised(rest, queue, Executed(c, running), mode)
<1>1. DirectFollow(rest, Executed(c, running), mode)
  <2>1. DirectFollow({c} \cup rest, running, mode)
    BY DEF Promised
  <2> QED
    BY <2>1, PromiseKept DEF DirectFollow
<1>2. ASSUME NEW switch \in Switches, NEW value \in {"0", "1"}, mode \in Setters(switch, value)
      PROVE  SwitchFollows(rest, queue, Executed(c, running), switch, value)
  <2>1. SwitchFollows({c} \cup rest, queue, running, switch, value)
    BY <1>2 DEF Promised
  <2>2. c # Setprop(switch, value)
    BY CommandKinds
  <2> QED
    BY <2>1, <2>2, SwitchKept
<1> QED
  BY <1>1, <1>2 DEF Promised

\* ... and when a switch is set.
LEMMA PromisedSwitch ==
    ASSUME NEW c \in Commands, NEW rest, NEW queue \in Seq(Events), NEW running, NEW mode,
           Promised({c} \cup rest, queue, running, mode),
           c.do = "setprop", c.to \in Switches,
           NEW e \in Events, e.name = c.to,
           c.value \in {"0", "1"} => e.value = c.value
    PROVE  Promised(rest, Append(queue, e), running, mode)
<1>1. Executed(c, running) = running
  BY DEF Executed
<1>2. DirectFollow(rest, running, mode)
  <2>1. DirectFollow({c} \cup rest, running, mode)
    BY DEF Promised
  <2> QED
    BY <1>1, <2>1, PromiseKept DEF DirectFollow
<1>3. ASSUME NEW switch \in Switches, NEW value \in {"0", "1"}, mode \in Setters(switch, value)
      PROVE  SwitchFollows(rest, Append(queue, e), running, switch, value)
  <2>1. SwitchFollows({c} \cup rest, queue, running, switch, value)
    BY <1>3 DEF Promised
  <2>2. CASE c.to = switch
    <3>1. c.value = value
      BY <2>1, <2>2 DEF SwitchFollows
    <3>2. rest \subseteq {c} \cup rest
      OBVIOUS
    <3> QED
      BY <2>1, <2>2, <3>1, <3>2, SwitchSet
  <2>3. CASE c.to # switch
    <3>1. c # Setprop(switch, value)
      BY <2>3, CommandKinds
    <3>2. SwitchFollows(rest, queue, running, switch, value)
      BY <1>1, <2>1, <3>1, SwitchKept
    <3> QED
      BY <2>3, <3>2, SwitchQueued
  <2> QED
    BY <2>2, <2>3
<1> QED
  BY <1>2, <1>3 DEF Promised

LEMMA InitServices == Init => ServicesOnTheirWay
<1> SUFFICES ASSUME Init PROVE ServicesOnTheirWay
  OBVIOUS
<1>1. config = ""
  BY DEF Init, config, Names
<1>2. \A switch, value : config \notin Setters(switch, value)
  BY <1>1, Distinct DEF Setters, WithModem, WithDiag, Manufacture
<1>3. config \notin WithAdb /\ config # "none"
  BY <1>1, Distinct DEF WithAdb
<1> QED
  BY <1>2, <1>3 DEF ServicesOnTheirWay, Promised, DirectFollow

\* Another process asks: either it is a mode, and its event is queued, or nothing
\* that matters to the services.
LEMMA OtherSetsServices ==
    ASSUME IInv, ServicesOnTheirWay, SetByOther
    PROVE  ServicesOnTheirWay'
<1>1. PICK name \in {"sys.usb.config", "persist.sys.usb.config"}, value \in Values :
        Fits(name, value) /\ property_set(name, value)
  <2>1. /\ \A mode \in Modes : mode \in Values /\ Fits("sys.usb.config", mode)
        /\ \A value \in Persisted : value \in Values /\ Fits("persist.sys.usb.config", value)
    BY ModesAssumption DEF Values, Fits
  <2> QED
    BY <2>1 DEF SetByOther
<1>2. name \in Names
  BY DEF Names
<1>3. NoConfigEvent(event_queue') => NoConfigEvent(event_queue) /\ config' = config
  BY <1>1, <1>2, PropertySet
<1>4. UNCHANGED <<commands, services>>
  BY DEF SetByOther
<1> DEFINE e == [name |-> name, value |-> value]
<1>5. event_queue' = Append(event_queue, e)
  BY <1>1 DEF property_set
<1>6. event_queue \in Seq(Events) /\ e \in Events /\ e.name \notin Switches
  BY <1>2 DEF IInv, TypeOK, Events, Values, Switches
<1> HIDE DEF e
<1> SUFFICES ASSUME NoConfigEvent(event_queue')
             PROVE  Promised(Left(commands'), event_queue', services', config')
  BY DEF ServicesOnTheirWay
<1>7. Promised(Left(commands), event_queue, services, config)
  BY <1>3 DEF ServicesOnTheirWay
<1>8. Promised(Left(commands), Append(event_queue, e), services, config)
  BY <1>6, <1>7, PromisedQueued
<1> QED
  BY <1>3, <1>4, <1>5, <1>8

\* init takes an event: the one of the current mode starts its block, and the
\* others go on with what that block has begun.
LEMMA EventTakenServices ==
    ASSUME IInv, ServicesOnTheirWay, NextEvent
    PROVE  ServicesOnTheirWay'
<1> DEFINE e == event_queue[1]
<1>1. /\ commands = <<>> /\ event_queue # <<>> /\ event_queue \in Seq(Events)
      /\ event_queue' = Tail(event_queue)
      /\ UNCHANGED <<property, services>>
  BY DEF NextEvent, IInv, TypeOK, Events, Values
<1>2. /\ Head(event_queue) = e /\ e \in Events
      /\ 1 \in DOMAIN event_queue
      /\ \A i \in DOMAIN event_queue :
           i = 1 \/ (i - 1 \in DOMAIN event_queue' /\ event_queue'[i - 1] = event_queue[i])
  BY <1>1, TailOf
<1>3. commands' = Block(e.name, e.value)
  BY <1>2 DEF NextEvent
<1>4. e.name \in Names /\ (e.name = "sys.usb.config" => e.value \in AllModes) /\ e.value \in Values
  BY <1>2 DEF Events, IInv, TypeOK
<1> HIDE DEF e
<1>5. config' = config
  BY <1>1 DEF config
<1> SUFFICES ASSUME NoConfigEvent(event_queue')
             PROVE  Promised(Left(commands'), event_queue', services, config)
  BY <1>1, <1>5 DEF ServicesOnTheirWay
<1>6. CASE e.name = "sys.usb.config"
  <2>1. e.value = config
    <3>1. LastEvent(event_queue, "sys.usb.config", config)
      BY DEF IInv, LastConfigEvent, ConfigEvent, LastEvent
    <3>2. NoEvent(Tail(event_queue), "sys.usb.config")
      BY <1>1 DEF NoConfigEvent, ConfigEvent, NoEvent
    <3> QED
      BY <1>1, <1>6, <3>1, <3>2, LastTail DEF e
  <2>2. commands' = Block("sys.usb.config", config) /\ config \in AllModes
    BY <1>3, <1>4, <1>6, <2>1
  <2>3. /\ DirectFollow(Left(commands'), services, config)
        /\ \A switch \in Switches, value \in {"0", "1"} :
             config \in Setters(switch, value) =>
               /\ Setprop(switch, value) \in Left(commands')
               /\ \A c \in Left(commands') : c.do = "setprop" /\ c.to = switch => c.value = value
    BY <2>2, ConfigBlockServices
  <2> QED
    BY <2>3 DEF Promised, SwitchFollows
<1>7. CASE e.name # "sys.usb.config"
  <2>1. NoConfigEvent(event_queue)
    BY <1>2, <1>7 DEF NoConfigEvent, ConfigEvent, e
  <2>2. Promised({}, event_queue, services, config)
    BY <1>1, <2>1, LeftSmall DEF ServicesOnTheirWay
  <2> DEFINE left == Left(commands')
  <2>3. /\ \A service \in StoppedByNone : Start(service) \notin left /\ Stop(service) \notin left
        /\ \A c \in left : c.do = "setprop" => c.to \notin Switches
        /\ \A switch \in Switches : \A service \in Servers(switch) :
             /\ e.name # switch => Start(service) \notin left /\ Stop(service) \notin left
             /\ e.name = switch /\ e.value = "1" => Start(service) \in left /\ Stop(service) \notin left
             /\ e.name = switch /\ e.value # "1" => Start(service) \notin left /\ Stop(service) \in left
    BY <1>3, <1>4, <1>7, OtherBlockServices
  <2> HIDE DEF left
  <2>4. DirectFollow(left, services, config)
    <3>1. DirectFollow({}, services, config)
      BY <2>2 DEF Promised
    <3>2. "adbd" \in StoppedByNone
      BY DEF StoppedByNone
    <3> QED
      BY <2>3, <3>1, <3>2 DEF DirectFollow, WillRun, WillStop
  <2>5. ASSUME NEW switch \in Switches, NEW value \in {"0", "1"}, config \in Setters(switch, value)
        PROVE  SwitchFollows(left, event_queue', services, switch, value)
    <3>1. /\ LastEvent(event_queue, switch, value)
          /\ NoEvent(event_queue, switch) => Reached({}, services, switch, value)
      BY <2>2, <2>5 DEF Promised, SwitchFollows
    <3>2. /\ LastEvent(event_queue', switch, value)
          /\ NoEvent(event_queue', switch) /\ e.name = switch => e.value = value
          /\ NoEvent(event_queue', switch) /\ e.name # switch => NoEvent(event_queue, switch)
      BY <1>1, <3>1, LastTail DEF e
    <3>3. ASSUME NoEvent(event_queue', switch)
          PROVE  Reached(left, services, switch, value)
      <4>1. CASE e.name = switch
        BY <2>3, <3>2, <3>3, <4>1 DEF Reached, WillRun, WillStop
      <4>2. CASE e.name # switch
        BY <2>3, <3>1, <3>2, <3>3, <4>2 DEF Reached, WillRun, WillStop
      <4> QED
        BY <4>1, <4>2
    <3>4. \A c \in left : c.do = "setprop" /\ c.to = switch => c.value = value
      BY <2>3
    <3> QED
      BY <3>2, <3>3, <3>4 DEF SwitchFollows
  <2> QED
    BY <2>4, <2>5 DEF Promised, left
<1> QED
  BY <1>6, <1>7

\* The next command of the block is executed.
LEMMA CommandServices ==
    ASSUME IInv, ServicesOnTheirWay, WriteFile \/ StartService \/ StopService \/ SetProperty
    PROVE  ServicesOnTheirWay'
<1> DEFINE c == commands[1]
           rest == Left(Tail(commands))
<1>1. /\ commands \in Seq(Commands) /\ commands # <<>> /\ Head(commands) = c /\ c \in Commands
      /\ commands' = Tail(commands)
  <2>1. PICK do : Command(do)
    BY DEF WriteFile, StartService, StopService, SetProperty
  <2> QED
    BY <2>1, CommandDone
<1>2. Left(commands) = {c} \cup rest /\ Left(commands') = rest
  BY <1>1, LeftTail
<1>3. event_queue \in Seq(Events)
  BY DEF IInv, TypeOK, Events, Values
<1> HIDE DEF c, rest
<1>4. ASSUME NoConfigEvent(event_queue) => config' = config,
             c.do = "setprop" => c.to \notin Switches \/ c.value \notin {"0", "1"},
             services' = Executed(c, services), UNCHANGED event_queue
      PROVE  ServicesOnTheirWay'
  <2> SUFFICES ASSUME NoConfigEvent(event_queue)
               PROVE  Promised(rest, event_queue, Executed(c, services), config)
    BY <1>2, <1>4 DEF ServicesOnTheirWay
  <2>1. Promised({c} \cup rest, event_queue, services, config)
    BY <1>2 DEF ServicesOnTheirWay
  <2> QED
    BY <1>1, <1>4, <2>1, PromisedCommand
<1>5. CASE WriteFile \/ StartService \/ StopService
  <2>1. UNCHANGED <<property, event_queue>>
    BY <1>5 DEF WriteFile, StartService, StopService
  <2>2. c.do # "setprop" /\ services' = Executed(c, services)
    BY <1>1, <1>5 DEF WriteFile, StartService, StopService, Command, Executed
  <2> QED
    BY <1>4, <2>1, <2>2 DEF config
<1>6. CASE SetProperty
  <2> DEFINE value == Expand(c.value)
             e == [name |-> c.to, value |-> value]
  <2>1. /\ c.do = "setprop" /\ UNCHANGED services /\ services' = Executed(c, services)
        /\ IF value = "" THEN UNCHANGED <<property, event_queue>> ELSE property_set(c.to, value)
    BY <1>1, <1>6 DEF SetProperty, Command, Executed
  <2>2. /\ c.to \in Names /\ c.value \in {CONFIG, PERSISTENT, "0", "1"}
        /\ c.to # "persist.sys.usb.config"
        /\ c.to = "sys.usb.config" => c.value = PERSISTENT
    <3>1. 1 \in DOMAIN commands
      BY <1>1
    <3> QED
      BY <1>1, <2>1, <3>1 DEF Commands, IInv, Asked, c
  <2>3. /\ value \in Values
        /\ c.value = PERSISTENT => value \in AllModes \cup {""}
        /\ c.value \in {"0", "1"} => value = c.value
    BY <2>2, Expansion DEF Values, IInv, Asked, config
  <2> HIDE DEF value
  <2>4. CASE value = ""
    <3>1. c.value \notin {"0", "1"}
      BY <2>3, <2>4
    <3> QED
      BY <1>4, <2>1, <2>4, <3>1 DEF config
  <2>5. CASE value # ""
    <3>1. property_set(c.to, value) /\ Fits(c.to, value)
      BY <2>1, <2>2, <2>3, <2>5 DEF Fits
    <3>2. NoConfigEvent(event_queue') => NoConfigEvent(event_queue) /\ config' = config
      BY <2>2, <2>3, <3>1, PropertySet
    <3>3. event_queue' = Append(event_queue, e) /\ e \in Events
      BY <2>2, <2>3, <3>1 DEF property_set, Events
    <3>4. e.name = c.to /\ (c.value \in {"0", "1"} => e.value = c.value)
      BY <2>3
    <3> HIDE DEF e
    <3> SUFFICES ASSUME NoConfigEvent(event_queue')
                 PROVE  Promised(rest, Append(event_queue, e), services, config)
      BY <1>2, <2>1, <3>2, <3>3 DEF ServicesOnTheirWay
    <3>5. Promised({c} \cup rest, event_queue, services, config)
      BY <1>2, <3>2 DEF ServicesOnTheirWay
    <3>6. CASE c.to \in Switches
      BY <1>1, <1>3, <2>1, <3>3, <3>4, <3>5, <3>6, PromisedSwitch
    <3>7. CASE c.to \notin Switches
      <4>1. Promised(rest, event_queue, services, config)
        BY <1>1, <2>1, <3>5, <3>7, PromisedCommand
      <4> QED
        BY <1>3, <3>3, <3>4, <3>7, <4>1, PromisedQueued
    <3> QED
      BY <3>6, <3>7
  <2> QED
    BY <2>4, <2>5
<1> QED
  BY <1>5, <1>6

LEMMA StepServices ==
    ASSUME IInv, ServicesOnTheirWay, [Next]_vars
    PROVE  ServicesOnTheirWay'
<1>1. CASE UNCHANGED vars
  BY <1>1 DEF ServicesOnTheirWay, vars, initVars, config
<1> QED
  BY <1>1, OtherSetsServices, EventTakenServices, CommandServices DEF Next, InitProcess

\* When init has caught up, the services are those that the mode asked for last
\* promises, for any modes and any number of requests.
THEOREM ServicesSettled == Spec => []ServicesFollow
<1>1. IInv /\ ServicesOnTheirWay /\ [Next]_vars => (IInv /\ ServicesOnTheirWay)'
  BY StepInv, StepServices
<1>2. ASSUME ServicesOnTheirWay, Settled
      PROVE  /\ DirectFollow({}, services, config)
             /\ \A switch \in Switches, value \in {"0", "1"} :
                  config \in Setters(switch, value) => Reached({}, services, switch, value)
  <2>1. commands = <<>> /\ event_queue = <<>>
    BY <1>2 DEF Settled
  <2>2. NoConfigEvent(event_queue) /\ \A switch : NoEvent(event_queue, switch)
    BY <2>1 DEF NoConfigEvent, NoEvent
  <2>3. Promised({}, event_queue, services, config)
    BY <1>2, <2>1, <2>2, LeftSmall DEF ServicesOnTheirWay
  <2> QED
    BY <2>2, <2>3 DEF Promised, SwitchFollows
<1>3. ServicesOnTheirWay => ServicesFollow
  <2> SUFFICES ASSUME ServicesOnTheirWay, Settled
               PROVE  /\ config \in WithAdb => "adbd" \in services
                      /\ config \in WithModem =>
                           /\ {"hw_modem_service", "hw_pcui_service"} \subseteq services
                           /\ {"diagserver", "atcmdserver"} \cap services = {}
                      /\ config \in WithDiag => {"diagserver", "atcmdserver"} \subseteq services
                      /\ config = "none" =>
                           {"adbd", "usbshell", "hw_cdma_service", "hw_modem_service", "hw_pcui_service"}
                              \cap services = {}
    BY DEF ServicesFollow
  <2>1. /\ config \in WithAdb => "adbd" \in services
        /\ config = "none" => \A service \in StoppedByNone : service \notin services
    BY <1>2 DEF DirectFollow, WillRun, WillStop
  <2>2. \A switch \in Switches :
          /\ config \in Setters(switch, "1") => \A service \in Servers(switch) : service \in services
          /\ config \in Setters(switch, "0") => \A service \in Servers(switch) : service \notin services
    BY <1>2 DEF Reached, WillRun, WillStop
  <2>3. /\ config \in WithModem => {"hw_modem_service", "hw_pcui_service"} \subseteq services
        /\ config \in WithModem => {"diagserver", "atcmdserver"} \cap services = {}
        /\ config \in WithDiag => {"diagserver", "atcmdserver"} \subseteq services
        /\ config = "none" => {"hw_modem_service", "hw_pcui_service"} \cap services = {}
    BY <2>2 DEF Switches, Setters, Servers
  <2> QED
    BY <2>1, <2>3 DEF StoppedByNone
<1> QED
  BY <1>1, <1>3, InitInv, InitServices, PTL DEF Spec
==================================================================================
