------------------------- MODULE MacAddrNormalization -------------------------
(***************************************************************************)
(* device/huawei/mozart/macaddr/mac_addr_normalization.cpp: a one-shot     *)
(* service that makes sure the Bluetooth and the Wi-Fi address files hold  *)
(* a usable address, and generates and persists one where they do not.     *)
(*                                                                         *)
(* Every system call that can fail may fail, the process may be killed     *)
(* between any two of them, and the power may fail: what is on the disk is *)
(* then older than what programs saw.  The service runs again on the next  *)
(* boot.  Text formatting is abstracted: a file holds an address, or junk  *)
(* that no parser accepts.                                                 *)
(***************************************************************************)
EXTENDS Integers, Sequences, Functions

CONSTANTS
    Files,      \* the files in the order main() treats them
    Octets,     \* first octets the random device may produce
    Rests,      \* and its other five: all zero, all 0xff, or neither
    Boots,      \* how many times the service runs
    None, Junk

ASSUME FilesAssumption == Len(Files) \in Nat \ {0} /\ DOMAIN Files = 1 .. Len(Files)
ASSUME OctetsAssumption == Octets \subseteq 0 .. 255 /\ Rests \subseteq {"zero", "ff", "mixed"}
ASSUME NoneAssumption == None # Junk /\ {None, Junk} \cap [first : 0 .. 255, rest : {"zero", "ff", "mixed"}] = {}
ASSUME BootsAssumption == Boots \in Nat

Random == [first : Octets, rest : Rests]

Name == Range(Files)

(***************************************************************************)
(* GenerateMac: (random & 0xfe) | 0x02 in the first octet.                 *)
(***************************************************************************)
\* Mutant: the multicast bit is not cleared.
GenerateMac_KeepMulticast(r) ==
    [r EXCEPT !.first = IF (@ \div 2) % 2 = 1 THEN @ ELSE @ + 2]

GenerateMac(r) ==
    LET unicast == r.first - (r.first % 2)
    IN  [r EXCEPT !.first = IF (unicast \div 2) % 2 = 1 THEN unicast ELSE unicast + 2]

\* ParseMac on what a file holds.
ParseMac(c) ==
    /\ c \notin {None, Junk}
    /\ ~(c.first = 0 /\ c.rest = "zero")
    /\ ~(c.first = 255 /\ c.rest = "ff")
    /\ c.first % 2 = 0

VARIABLES
    path,    \* what a program reading the file sees: content and owner
    disk,    \* the states a power failure may leave the file in
    tmp,     \* the temporary file: content, owner, whether fsync has returned
    pc,
    index,   \* the file EnsureMac works on
    text,    \* the address StoreMac formatted
    ok,      \* what EnsureMac returned so far
    boots,
    misread  \* history: StoreMac works on a valid file that could not be read

vars == <<path, disk, tmp, pc, index, text, ok, boots, misread>>

Cur == Files[index]
File(c, owner) == [data |-> c, owner |-> owner]
Missing == File(None, "none")
NoTmp == [data |-> None, owner |-> "none", synced |-> FALSE]

\* HasValidMac is true only of a valid file, and may be false of any: open or
\* read may fail.
Valid(f) == ParseMac(path[f].data)

\* The files may be anything when the service runs for the first time.
Init ==
    /\ path \in [Name -> {Missing, File(Junk, "vendor")}
                     \cup {File([first |-> 0, rest |-> r], "vendor") : r \in {"zero", "mixed"}}]
    /\ disk = [f \in Name |-> {path[f]}]
    /\ tmp = [f \in Name |-> NoTmp]
    /\ pc = "main" /\ index = 1 /\ text = None /\ ok = TRUE
    /\ boots = 1 /\ misread = FALSE

Goto(label) == pc' = label
Keep == UNCHANGED <<path, disk, tmp, index, text, ok, boots, misread>>

-----------------------------------------------------------------------------
Main ==
    /\ pc = "main"
    /\ \/ (\A f \in Name : Valid(f)) /\ Goto("ensure")
       \/ Goto("vendor")
    /\ Keep

\* The vendor's helper is not in this repository: it may leave each file alone,
\* write it or delete it, and main() does not believe what it did.
VendorFiles == {Missing, File(Junk, "vendor"), File([first |-> 0, rest |-> "mixed"], "vendor")}

VendorHelper ==
    /\ pc = "vendor"
    /\ \E changed \in SUBSET Name : \E new \in [changed -> VendorFiles] :
         /\ path' = [f \in Name |-> IF f \in changed THEN new[f] ELSE path[f]]
         /\ disk' = [f \in Name |-> IF f \in changed THEN disk[f] \cup {new[f], File(Junk, "vendor")}
                                                     ELSE disk[f]]
    /\ Goto("ensure")
    /\ UNCHANGED <<tmp, index, text, ok, boots, misread>>

\* EnsureMac returns; main() calls it for the next file or exits.
Return(result) ==
    /\ ok' = (ok /\ result)
    /\ IF index < Len(Files)
       THEN index' = index + 1 /\ Goto("ensure")
       ELSE UNCHANGED index /\ Goto("exit")

EnsureValid ==
    /\ pc = "ensure" /\ Valid(Cur)
    /\ Return(TRUE)
    /\ UNCHANGED <<path, disk, tmp, text, boots, misread>>

\* Mutant: EnsureMac stores a new address without looking at the old one.
EnsureStore_Always ==
    /\ pc = "ensure"
    /\ misread' = FALSE
    /\ \E r \in Random : text' = GenerateMac(r)
    /\ Goto("unlink")
    /\ UNCHANGED <<path, disk, tmp, index, ok, boots>>

EnsureStore ==
    /\ pc = "ensure"
    /\ misread' = Valid(Cur)
    /\ \E r \in Random : text' = GenerateMac(r)
    /\ Goto("unlink")
    /\ UNCHANGED <<path, disk, tmp, index, ok, boots>>

\* StoreMac gives up before it has created the temporary file.
FailEarly ==
    /\ pc \in {"ensure", "unlink", "create"}
    /\ Return(FALSE)
    /\ UNCHANGED <<path, disk, tmp, text, boots, misread>>

\* Mutant: a temporary file of an earlier run is left in place.
UnlinkStale_Skip == pc = "unlink" /\ Goto("create") /\ Keep

UnlinkStale ==
    /\ pc = "unlink"
    /\ tmp' = [tmp EXCEPT ![Cur] = NoTmp]
    /\ Goto("create")
    /\ UNCHANGED <<path, disk, index, text, ok, boots, misread>>

\* O_EXCL: only a name that is free can be created.
Create ==
    /\ pc = "create" /\ tmp[Cur].data = None
    /\ tmp' = [tmp EXCEPT ![Cur] = [data |-> Junk, owner |-> "root", synced |-> FALSE]]
    /\ Goto("chown")
    /\ UNCHANGED <<path, disk, index, text, ok, boots, misread>>

\* fchmod and fchown.
Chown ==
    /\ pc = "chown"
    /\ tmp' = [tmp EXCEPT ![Cur].owner = "service"]
    /\ Goto("write")
    /\ UNCHANGED <<path, disk, index, text, ok, boots, misread>>

\* WriteFully; until it returns, the file holds a part of the text.
Write ==
    /\ pc = "write"
    /\ tmp' = [tmp EXCEPT ![Cur].data = text]
    /\ Goto("fsync")
    /\ UNCHANGED <<path, disk, index, text, ok, boots, misread>>

\* Mutant: no fsync.
Fsync_Skip == pc = "fsync" /\ Goto("close") /\ Keep

Fsync ==
    /\ pc = "fsync"
    /\ tmp' = [tmp EXCEPT ![Cur].synced = TRUE]
    /\ Goto("close")
    /\ UNCHANGED <<path, disk, index, text, ok, boots, misread>>

Close == pc = "close" /\ Goto("rename") /\ Keep

\* A call after the creation failed: the temporary file is removed if it can be.
FailLate ==
    /\ pc \in {"chown", "write", "fsync", "close", "rename"}
    /\ tmp' \in {tmp, [tmp EXCEPT ![Cur] = NoTmp]}
    /\ Return(FALSE)
    /\ UNCHANGED <<path, disk, text, boots, misread>>

\* rename replaces the file at once for every reader.  The disk follows at some
\* later time; data that was not synced may then not be there.
Rename ==
    /\ pc = "rename"
    /\ LET new == File(tmp[Cur].data, tmp[Cur].owner)
       IN  /\ path' = [path EXCEPT ![Cur] = new]
           /\ disk' = [disk EXCEPT ![Cur] = @ \cup {new} \cup
                         IF tmp[Cur].synced THEN {} ELSE {File(Junk, tmp[Cur].owner)}]
    /\ tmp' = [tmp EXCEPT ![Cur] = NoTmp]
    /\ Return(TRUE)
    /\ UNCHANGED <<text, boots, misread>>

-----------------------------------------------------------------------------
\* The environment

\* The kernel writes everything back.
WriteBack ==
    /\ \E f \in Name : disk[f] # {path[f]}
    /\ disk' = [f \in Name |-> {path[f]}]
    /\ UNCHANGED <<path, tmp, pc, index, text, ok, boots, misread>>

Restart ==
    /\ boots < Boots
    /\ boots' = boots + 1
    /\ pc' = "main" /\ index' = 1 /\ text' = None /\ ok' = TRUE /\ misread' = FALSE

\* The next run after a clean shutdown, or after the process was killed.
Rerun ==
    /\ Restart
    /\ UNCHANGED <<path, disk, tmp>>

\* One of the possible states for every file.
Selections(S) == {p \in [Name -> UNION Range(S)] : \A f \in Name : p[f] \in S[f]}

\* What the power failure leaves of a temporary file: nothing, or something.
TmpSurvivors(t) ==
    {NoTmp, t} \cup IF t.data = None \/ t.synced THEN {} ELSE {[t EXCEPT !.data = Junk]}

PowerFailure ==
    /\ Restart
    /\ path' \in Selections(disk)
    /\ disk' = [f \in Name |-> {path'[f]}]
    /\ tmp' \in Selections([f \in Name |-> TmpSurvivors(tmp[f])])

Service ==
    \/ Main \/ EnsureValid \/ EnsureStore
    \/ UnlinkStale \/ Create \/ Chown \/ Write \/ Fsync \/ Close \/ Rename

Next ==
    \/ Service \/ VendorHelper \/ FailEarly \/ FailLate
    \/ WriteBack \/ Rerun \/ PowerFailure

Spec == Init /\ [][Next]_vars

-----------------------------------------------------------------------------
\* Properties

Contents == {None, Junk} \cup [first : 0 .. 255, rest : {"zero", "ff", "mixed"}]
Owners == {"none", "vendor", "root", "service"}
Storing == {"unlink", "create", "chown", "write", "fsync", "close", "rename"}

\* What the disk may hold includes what programs see.
TypeOK ==
    /\ path \in [Name -> [data : Contents, owner : Owners]]
    /\ disk \in [Name -> SUBSET [data : Contents, owner : Owners]]
    /\ \A f \in Name : path[f] \in disk[f]
    /\ tmp \in [Name -> [data : Contents, owner : Owners, synced : BOOLEAN]]
    /\ pc \in {"main", "vendor", "ensure", "exit"} \cup Storing
    /\ index \in DOMAIN Files
    /\ text \in Contents
    /\ ok \in BOOLEAN
    /\ boots \in 1 .. Boots + 1
    /\ misread \in BOOLEAN

(***************************************************************************)
(* Exit status 0 means that both files hold an address the service itself  *)
(* would accept: whatever was generated passes ParseMac.                   *)
(***************************************************************************)
SuccessMeansValid == pc = "exit" /\ ok => \A f \in Name : Valid(f)

(***************************************************************************)
(* Only complete, accepted, correctly owned addresses are put in place: a  *)
(* file the service has replaced is usable whenever it is read, and after  *)
(* any power failure.                                                      *)
(***************************************************************************)
InstalledWhole ==
    \A f \in Name : \A c \in {path[f]} \cup disk[f] :
        c.owner \notin {"none", "vendor"} => c.owner = "service" /\ ParseMac(c.data)

(***************************************************************************)
(* A temporary file left by a crash never keeps a later run from creating  *)
(* its own (O_EXCL).                                                       *)
(***************************************************************************)
StaleTmpHarmless == pc = "create" => tmp[Cur].data = None

(***************************************************************************)
(* The device keeps its identity: the service replaces a valid address     *)
(* only after it could not read it, and once an address has reached the    *)
(* disk no crash and no later run changes it either.  The vendor's helper  *)
(* may.                                                                    *)
(***************************************************************************)
ValidIsKept ==
    [][pc # "vendor" =>
         \A f \in Name :
            Valid(f) /\ (boots' = boots \/ disk[f] = {path[f]}) =>
               path'[f] = path[f] \/ (misread /\ f = Cur)]_vars
===============================================================================
