------------------------------- MODULE UsbConfig -------------------------------
(***************************************************************************)
(* The property triggers of device/huawei/mozart/rootdir/etc that put the  *)
(* android_usb gadget into another mode: init.hi3635.usb.rc and            *)
(* init.hi3635.chip.usb.rc.                                                *)
(*                                                                         *)
(* init is one thread.  Each property that is set, to a new value or not,  *)
(* queues an event; init takes one event at a time and executes the        *)
(* commands of its block, and between two commands it lets other processes *)
(* set properties.  The value in the event chooses the block, while        *)
(* ${sys.usb.config} in the block is what the property holds when the      *)
(* command runs.                                                           *)
(***************************************************************************)
EXTENDS Naturals, Sequences

CONSTANTS
    Modes,       \* the values of sys.usb.config that other processes ask for
    Persisted,   \* the values of persist.sys.usb.config they set; "" is no value
    Default,     \* the value of persist.sys.usb.config after boot
    Sets         \* bound on the times other processes set a property

\* The modes whose block starts adbd.
WithAdb ==
    {"adb", "mtp,adb", "rndis,adb", "rndis,serial,adb", "ptp,adb", "accessory,adb",
     "mass_storage,adb", "hisuite,mtp,mass_storage,adb", "audio_source,adb",
     "accessory,audio_source,adb", "manufacture,adb", "manufacture_sn,adb",
     "pcmodem2,adb", "midi,adb", "hisi_debug,adb"}

\* The modes that switch the diagnosis servers on, and the modem servers off or on.
WithDiag == {"rndis,serial", "rndis,serial,adb", "manufacture,adb", "manufacture_sn,adb"}
Manufacture == {"manufacture,adb", "manufacture_sn,adb"}
WithModem == {"pcmodem2", "pcmodem2,adb"}

\* The modes whose block does not take its functions from sys.usb.config.
OwnFunctions ==
    WithDiag \cup WithModem
    \cup {"ptp", "ptp,adb", "hisuite,mtp,mass_storage", "hisuite,mtp,mass_storage,adb",
          "pcmodem1", "hisi_debug,adb"}

AllModes ==
    WithAdb \cup OwnFunctions
    \cup {"none", "mtp", "rndis", "accessory", "mass_storage", "audio_source",
          "accessory,audio_source", "midi"}

ASSUME ModesAssumption ==
    /\ Modes \subseteq AllModes
    /\ Persisted \subseteq AllModes \cup {""}
    /\ Default \in AllModes
    /\ Sets \in Nat

Names ==
    {"sys.usb.config", "sys.usb.state", "sys.usb.start_modempcui", "sys.usb.start_atdiag",
     "persist.sys.usb.config"}
Files == {"enable", "idProduct", "functions"}

VARIABLES
    property,      \* the values of the properties
    event_queue,   \* init: the changes it has not looked at
    commands,      \* init: the rest of the block it executes
    gadget,        \* the files of /sys/class/android_usb/android0
    services,      \* the services that run
    sets           \* how often another process has set a property

initVars == <<property, event_queue, commands, gadget, services>>
vars == <<initVars, sets>>

\* The commands of a block.
Write(file, value) == [do |-> "write", to |-> file, value |-> value]
Setprop(name, value) == [do |-> "setprop", to |-> name, value |-> value]
Start(service) == [do |-> "start", to |-> service, value |-> ""]
Stop(service) == [do |-> "stop", to |-> service, value |-> ""]

CONFIG == "${sys.usb.config}"
PERSISTENT == "${persist.sys.usb.config}"

Expand(value) ==
    CASE value = CONFIG -> property["sys.usb.config"]
      [] value = PERSISTENT -> property["persist.sys.usb.config"]
      [] OTHER -> value

NoneBlock ==
    << Stop("hw_cdma_service"), Stop("adbd"), Stop("usbshell"),
       Setprop("sys.usb.start_modempcui", "0"),
       Write("enable", "0"),
       Setprop("sys.usb.state", CONFIG) >>

\* What the block of a mode starts and stops once the gadget is enabled.
ServicesOf(mode) ==
    (IF mode = "hisi_debug,adb" THEN <<Stop("atcmdserver"), Start("hw_cdma_service")>> ELSE <<>>)
    \o (IF mode \in WithAdb THEN <<Start("adbd")>> ELSE <<>>)
    \o (IF mode = "hisi_debug,adb" THEN <<Start("usbshell")>> ELSE <<>>)
    \o (IF mode \in WithDiag THEN <<Setprop("sys.usb.start_atdiag", "1")>> ELSE <<>>)
    \o (IF mode \in Manufacture THEN <<Setprop("sys.usb.start_modempcui", "0")>> ELSE <<>>)
    \o (IF mode \in WithModem THEN <<Setprop("sys.usb.start_atdiag", "0"),
                                     Setprop("sys.usb.start_modempcui", "1")>> ELSE <<>>)

\* Mutant: the gadget stays disabled.
ModeBlock_StayOff(mode) ==
    << Write("enable", "0"),
       Write("idProduct", mode),
       Write("functions", IF mode \in OwnFunctions THEN mode ELSE CONFIG) >>
    \o ServicesOf(mode)
    \o << Setprop("sys.usb.state", CONFIG) >>

\* The identifiers and functions a mode has to itself are named by the mode; the
\* serial number, port_mode and the parameters of the functions are left out.
ModeBlock(mode) ==
    << Write("enable", "0"),
       Write("idProduct", mode),
       Write("functions", IF mode \in OwnFunctions THEN mode ELSE CONFIG),
       Write("enable", "1") >>
    \o ServicesOf(mode)
    \o << Setprop("sys.usb.state", CONFIG) >>

\* Mutant: the modem's servers are left alone.
ModemBlock_StartOnly(value) ==
    IF value = "1" THEN <<Start("hw_modem_service"), Start("hw_pcui_service")>> ELSE <<>>

ModemBlock(value) ==
    IF value = "1" THEN <<Start("hw_modem_service"), Start("hw_pcui_service")>>
                   ELSE <<Stop("hw_modem_service"), Stop("hw_pcui_service")>>

DiagBlock(value) ==
    IF value = "1" THEN <<Start("diagserver"), Start("atcmdserver")>>
                   ELSE <<Stop("diagserver"), Stop("atcmdserver")>>

\* Mutant: the trigger sets the property it waits for.
PersistBlock_Again ==
    << Setprop("sys.usb.config", PERSISTENT), Setprop("persist.sys.usb.config", PERSISTENT) >>

PersistBlock == << Setprop("sys.usb.config", PERSISTENT) >>

\* The block that is triggered when property `name' is set to `value'.
Block(name, value) ==
    CASE name = "sys.usb.config" -> IF value = "none" THEN NoneBlock ELSE ModeBlock(value)
      [] name = "sys.usb.start_modempcui" -> ModemBlock(value)
      [] name = "sys.usb.start_atdiag" -> DiagBlock(value)
      [] name = "persist.sys.usb.config" -> PersistBlock
      [] OTHER -> <<>>

\* At the end of boot init looks at every property that has a value.
Init ==
    /\ property = [name \in Names |-> IF name = "persist.sys.usb.config" THEN Default ELSE ""]
    /\ event_queue = << [name |-> "persist.sys.usb.config", value |-> Default] >>
    /\ commands = <<>>
    /\ gadget = [file \in Files |-> ""]
    /\ services = {}
    /\ sets = 0

property_set(name, value) ==
    /\ property' = [property EXCEPT ![name] = value]
    /\ event_queue' = Append(event_queue, [name |-> name, value |-> value])

\* Another process sets a property: init serves it between two commands.
SetByOther ==
    /\ sets < Sets
    /\ sets' = sets + 1
    /\ \/ \E mode \in Modes : property_set("sys.usb.config", mode)
       \/ \E value \in Persisted : property_set("persist.sys.usb.config", value)
    /\ UNCHANGED <<commands, gadget, services>>

NextEvent ==
    /\ commands = <<>> /\ event_queue # <<>>
    /\ commands' = Block(Head(event_queue).name, Head(event_queue).value)
    /\ event_queue' = Tail(event_queue)
    /\ UNCHANGED <<property, gadget, services, sets>>

\* The next command is a `do'.
Command(do) ==
    /\ commands # <<>> /\ Head(commands).do = do
    /\ commands' = Tail(commands)
    /\ UNCHANGED sets

WriteFile ==
    /\ Command("write")
    /\ gadget' = [gadget EXCEPT ![Head(commands).to] = Expand(Head(commands).value)]
    /\ UNCHANGED <<property, event_queue, services>>

\* Mutant: a property without a value expands to nothing.
SetProperty_Empty ==
    /\ Command("setprop")
    /\ property_set(Head(commands).to, Expand(Head(commands).value))
    /\ UNCHANGED <<gadget, services>>

\* A property without a value cannot be expanded, and the command fails.
SetProperty ==
    /\ Command("setprop")
    /\ IF Expand(Head(commands).value) = ""
       THEN UNCHANGED <<property, event_queue>>
       ELSE property_set(Head(commands).to, Expand(Head(commands).value))
    /\ UNCHANGED <<gadget, services>>

StartService ==
    /\ Command("start")
    /\ services' = services \cup {Head(commands).to}
    /\ UNCHANGED <<property, event_queue, gadget>>

StopService ==
    /\ Command("stop")
    /\ services' = services \ {Head(commands).to}
    /\ UNCHANGED <<property, event_queue, gadget>>

InitProcess == NextEvent \/ WriteFile \/ SetProperty \/ StartService \/ StopService

Next == SetByOther \/ InitProcess

Spec == Init /\ [][Next]_vars

\* init goes on as long as it has something to do.
FairSpec == Spec /\ WF_vars(InitProcess)

-----------------------------------------------------------------------------
\* Properties

Services ==
    {"adbd", "usbshell", "hw_cdma_service", "hw_modem_service", "hw_pcui_service",
     "diagserver", "atcmdserver"}

Commands ==
    [do : {"write"}, to : Files, value : AllModes \cup {CONFIG, "0", "1"}]
    \cup [do : {"setprop"}, to : Names, value : {CONFIG, PERSISTENT, "0", "1"}]
    \cup [do : {"start", "stop"}, to : Services, value : {""}]

\* A change of sys.usb.config that init has queued always names a mode.
TypeOK ==
    /\ property \in [Names -> AllModes \cup {"", "0", "1"}]
    /\ event_queue \in Seq([name : Names, value : AllModes \cup {"", "0", "1"}])
    /\ \A i \in DOMAIN event_queue :
         event_queue[i].name = "sys.usb.config" => event_queue[i].value \in AllModes
    /\ commands \in Seq(Commands)
    /\ gadget \in [Files -> AllModes \cup {"", "0", "1"}]
    /\ services \subseteq Services
    /\ sets \in 0 .. Sets

config == property["sys.usb.config"]
Settled == event_queue = <<>> /\ commands = <<>>

(***************************************************************************)
(* Once init has caught up, the mode it reports is the mode asked for last *)
(* and the one the gadget is in: no mixture of two modes is left over, in  *)
(* whatever order the requests, their events and the commands of their     *)
(* blocks followed each other.                                             *)
(***************************************************************************)
SettledAgrees ==
    Settled /\ config # "" =>
        /\ property["sys.usb.state"] = config
        /\ IF config = "none" THEN gadget["enable"] = "0"
           ELSE gadget = [enable |-> "1", idProduct |-> config, functions |-> config]

(***************************************************************************)
(* And so are the services: adbd runs in every mode with adb, the modem's  *)
(* servers in the modes for a modem, the diagnosis servers in theirs, and  *)
(* nothing that "none" stops survives it.                                  *)
(***************************************************************************)
ServicesFollow ==
    Settled =>
        /\ config \in WithAdb => "adbd" \in services
        /\ config \in WithModem =>
             /\ {"hw_modem_service", "hw_pcui_service"} \subseteq services
             /\ {"diagserver", "atcmdserver"} \cap services = {}
        /\ config \in WithDiag => {"diagserver", "atcmdserver"} \subseteq services
        /\ config = "none" =>
             {"adbd", "usbshell", "hw_cdma_service", "hw_modem_service", "hw_pcui_service"}
                \cap services = {}

(***************************************************************************)
(* The triggers do not set each other off for ever: init catches up.       *)
(***************************************************************************)
Settles == []<>Settled
===============================================================================
