---------------------------- MODULE MacAddrProofs ----------------------------
(***************************************************************************)
(* Proofs about MacAddrNormalization: for every random address, any number *)
(* of files, of crashes and of runs.                                       *)
(***************************************************************************)
EXTENDS MacAddrNormalization, TLAPS

\* Whatever /dev/urandom returns, the generated address is one that ParseMac
\* accepts, and it is locally administered.
LEMMA GeneratedAccepted ==
    ASSUME NEW r \in [first : 0 .. 255, rest : {"zero", "ff", "mixed"}]
    PROVE  /\ GenerateMac(r) \in Contents
           /\ ParseMac(GenerateMac(r))
           /\ (GenerateMac(r).first \div 2) % 2 = 1
<1> DEFINE b == r.first
           e == b - (b % 2)
           g == IF (e \div 2) % 2 = 1 THEN e ELSE e + 2
<1>1. b \in 0 .. 255 /\ r.rest \in {"zero", "ff", "mixed"}
  OBVIOUS
<1>2. g \in 2 .. 254 /\ g % 2 = 0 /\ (g \div 2) % 2 = 1
  BY <1>1
<1>3. GenerateMac(r) = [first |-> g, rest |-> r.rest]
  BY DEF GenerateMac
<1> HIDE DEF g
<1>4. GenerateMac(r) \in [first : 0 .. 255, rest : {"zero", "ff", "mixed"}]
  BY <1>1, <1>2, <1>3
<1>5. GenerateMac(r) \notin {None, Junk}
  BY <1>4, NoneAssumption
<1> QED BY <1>2, <1>3, <1>4, <1>5 DEF ParseMac, Contents

-----------------------------------------------------------------------------
\* Where StoreMac is, and what the temporary file holds by then.
StoreInv ==
    /\ pc \in Storing => ParseMac(text)
    /\ pc \in {"write", "fsync", "close", "rename"} => tmp[Cur].owner = "service"
    /\ pc \in {"fsync", "close", "rename"} => tmp[Cur].data = text
    /\ pc \in {"close", "rename"} => tmp[Cur].synced

IInv == TypeOK /\ StoreInv /\ InstalledWhole

LEMMA CurName == TypeOK => Cur \in Name
  BY DEF TypeOK, Cur, Name, Range

LEMMA InitIInv == Init => IInv
<1> SUFFICES ASSUME Init PROVE IInv
  OBVIOUS
<1>1. \A f \in Name : /\ path[f] \in [data : Contents, owner : Owners]
                       /\ path[f].owner \in {"none", "vendor"}
  BY DEF Init, Missing, File, Contents, Owners
<1>2. path \in [Name -> [data : Contents, owner : Owners]]
  <2>1. path = [f \in Name |-> path[f]]
    BY DEF Init
  <2> QED BY <1>1, <2>1
<1>3. /\ disk \in [Name -> SUBSET [data : Contents, owner : Owners]]
      /\ \A f \in Name : path[f] \in disk[f]
  BY <1>1 DEF Init
<1>4. tmp \in [Name -> [data : Contents, owner : Owners, synced : BOOLEAN]]
  BY DEF Init, NoTmp, Contents, Owners
<1>5. TypeOK
  <2>1. index \in DOMAIN Files /\ boots \in 1 .. Boots + 1 /\ text \in Contents
    BY FilesAssumption, BootsAssumption DEF Init, Contents
  <2>2. ok \in BOOLEAN /\ misread \in BOOLEAN
    BY Zenon DEF Init
  <2>3. pc \in {"main", "vendor", "ensure", "exit"} \cup Storing
    BY DEF Init
  <2> QED BY <1>2, <1>3, <1>4, <2>1, <2>2, <2>3 DEF TypeOK
<1>6. StoreInv
  BY DEF Init, StoreInv, Storing
<1>7. InstalledWhole
  BY <1>1 DEF Init, InstalledWhole
<1> QED BY <1>5, <1>6, <1>7 DEF IInv

\* No step gives the history variable another type.
LEMMA MisreadType ==
    ASSUME misread \in BOOLEAN, Next PROVE misread' \in BOOLEAN
<1>1. CASE Main \/ UnlinkStale \/ Create \/ Chown \/ Write \/ Fsync \/ Close
  BY <1>1 DEF Main, UnlinkStale, Create, Chown, Write, Fsync, Close, Keep
<1>2. CASE EnsureStore
  <2>1. Valid(Cur) \in BOOLEAN
    BY DEF Valid, ParseMac
  <2> QED BY <1>2, <2>1 DEF EnsureStore
<1>3. CASE EnsureValid \/ Rename \/ VendorHelper \/ FailEarly \/ FailLate \/ WriteBack
  BY <1>3 DEF EnsureValid, Rename, VendorHelper, FailEarly, FailLate, WriteBack
<1>4. CASE Rerun \/ PowerFailure
  BY <1>4 DEF Rerun, PowerFailure, Restart
<1> QED BY <1>1, <1>2, <1>3, <1>4 DEF Next, Service

\* Leaving EnsureMac: the next file, or the end.
LEMMA ReturnLemma ==
    ASSUME TypeOK, NEW r \in BOOLEAN, Return(r)
    PROVE  /\ ok' \in BOOLEAN
           /\ index' \in DOMAIN Files
           /\ pc' \in {"ensure", "exit"}
  BY FilesAssumption DEF TypeOK, Return, Goto

\* The steps that touch neither the address files nor the temporary ones.
LEMMA QuietIInv ==
    ASSUME IInv, Main \/ EnsureValid \/ EnsureStore \/ FailEarly \/ Close
    PROVE  IInv'
<1> USE DEF IInv
<1>0. misread' \in BOOLEAN
  BY MisreadType DEF TypeOK, Next, Service
<1>1. UNCHANGED <<path, disk, tmp, boots>>
  BY DEF Main, EnsureValid, EnsureStore, FailEarly, Close, Keep
<1>2. InstalledWhole'
  BY <1>1 DEF InstalledWhole
<1>3. /\ pc' \in {"main", "vendor", "ensure", "exit"} \cup Storing
      /\ index' \in DOMAIN Files /\ text' \in Contents /\ ok' \in BOOLEAN
      /\ StoreInv'
  <2>1. CASE Main
    BY <2>1 DEF Main, Goto, Keep, TypeOK, StoreInv, Storing
  <2>2. CASE EnsureValid \/ FailEarly
    <3>1. PICK r \in BOOLEAN : Return(r)
      BY <2>2 DEF EnsureValid, FailEarly
    <3>2. text' = text
      BY <2>2 DEF EnsureValid, FailEarly
    <3> QED BY <3>1, <3>2, ReturnLemma DEF TypeOK, StoreInv, Storing
  <2>3. CASE EnsureStore
    <3>1. PICK r \in Random : text' = GenerateMac(r)
      BY <2>3 DEF EnsureStore
    <3>2. r \in [first : 0 .. 255, rest : {"zero", "ff", "mixed"}]
      BY OctetsAssumption DEF Random
    <3>3. text' \in Contents /\ ParseMac(text')
      BY <3>1, <3>2, GeneratedAccepted
    <3>4. pc' = "unlink" /\ UNCHANGED <<index, ok>>
      BY <2>3 DEF EnsureStore, Goto
    <3> QED BY <3>3, <3>4 DEF TypeOK, StoreInv, Storing
  <2>4. CASE Close
    BY <1>1, <2>4 DEF Close, Goto, Keep, TypeOK, StoreInv, Storing, Cur
  <2> QED BY <2>1, <2>2, <2>3, <2>4
<1>4. TypeOK'
  BY <1>0, <1>1, <1>3 DEF TypeOK
<1> QED BY <1>2, <1>3, <1>4

\* The steps that work on the temporary file.
LEMMA TmpIInv ==
    ASSUME IInv, UnlinkStale \/ Create \/ Chown \/ Write \/ Fsync \/ FailLate
    PROVE  IInv'
<1> USE DEF IInv
<1>0. misread' \in BOOLEAN
  BY MisreadType DEF TypeOK, Next, Service
<1>1. UNCHANGED <<path, disk, text, boots>>
  BY DEF UnlinkStale, Create, Chown, Write, Fsync, FailLate
<1>2. InstalledWhole'
  BY <1>1 DEF InstalledWhole
<1>3. Cur \in Name
  BY CurName
<1>4. /\ NoTmp \in [data : Contents, owner : Owners, synced : BOOLEAN]
      /\ [data |-> Junk, owner |-> "root", synced |-> FALSE]
           \in [data : Contents, owner : Owners, synced : BOOLEAN]
  BY DEF NoTmp, Contents, Owners
<1>5. tmp' \in [Name -> [data : Contents, owner : Owners, synced : BOOLEAN]]
  <2>1. CASE UnlinkStale \/ FailLate
    BY <1>4, <2>1 DEF UnlinkStale, FailLate, TypeOK
  <2>2. CASE Create
    BY <1>4, <2>2 DEF Create, TypeOK
  <2>3. CASE Chown
    BY <1>3, <2>3 DEF Chown, TypeOK, Owners
  <2>4. CASE Write
    BY <1>3, <2>4 DEF Write, TypeOK
  <2>5. CASE Fsync
    BY <1>3, <2>5 DEF Fsync, TypeOK
  <2> QED BY <2>1, <2>2, <2>3, <2>4, <2>5
<1>6. /\ pc' \in {"main", "vendor", "ensure", "exit"} \cup Storing
      /\ index' \in DOMAIN Files /\ ok' \in BOOLEAN
      /\ StoreInv'
  <2>1. CASE UnlinkStale \/ Create
    BY <1>1, <2>1 DEF UnlinkStale, Create, Goto, TypeOK, StoreInv, Storing
  <2>2. CASE Chown
    BY <1>1, <1>3, <2>2 DEF Chown, Goto, TypeOK, StoreInv, Storing, Cur
  <2>3. CASE Write
    BY <1>1, <1>3, <2>3 DEF Write, Goto, TypeOK, StoreInv, Storing, Cur
  <2>4. CASE Fsync
    BY <1>1, <1>3, <2>4 DEF Fsync, Goto, TypeOK, StoreInv, Storing, Cur
  <2>5. CASE FailLate
    BY <2>5, ReturnLemma DEF FailLate, StoreInv, Storing
  <2> QED BY <2>1, <2>2, <2>3, <2>4, <2>5
<1>7. TypeOK'
  BY <1>0, <1>1, <1>5, <1>6 DEF TypeOK
<1> QED BY <1>2, <1>6, <1>7

\* rename installs the synced, owned, accepted text and nothing else.
LEMMA RenameIInv ==
    ASSUME IInv, Rename
    PROVE  IInv'
<1> USE DEF IInv
<1>0. misread' \in BOOLEAN
  BY MisreadType DEF TypeOK, Next, Service
<1> DEFINE new == File(tmp[Cur].data, tmp[Cur].owner)
<1>1. Cur \in Name /\ tmp[Cur].data = text /\ tmp[Cur].owner = "service" /\ tmp[Cur].synced
      /\ ParseMac(text) /\ text \in Contents
  BY CurName DEF Rename, StoreInv, Storing, TypeOK
<1>2. new = [data |-> text, owner |-> "service"]
  BY <1>1 DEF File
<1>3. /\ path' = [path EXCEPT ![Cur] = new]
      /\ disk' = [disk EXCEPT ![Cur] = @ \cup {new}]
      /\ tmp' = [tmp EXCEPT ![Cur] = NoTmp]
      /\ Return(TRUE)
      /\ UNCHANGED <<text, boots>>
  BY <1>1 DEF Rename, TypeOK
<1> HIDE DEF new
<1>4. new \in [data : Contents, owner : Owners]
  BY <1>1, <1>2 DEF Owners
<1>5. /\ path' \in [Name -> [data : Contents, owner : Owners]]
      /\ disk' \in [Name -> SUBSET [data : Contents, owner : Owners]]
      /\ \A f \in Name : path'[f] \in disk'[f]
  BY <1>1, <1>3, <1>4 DEF TypeOK
<1>6. tmp' \in [Name -> [data : Contents, owner : Owners, synced : BOOLEAN]]
  BY <1>3 DEF NoTmp, TypeOK, Contents, Owners
<1>7. ok' \in BOOLEAN /\ index' \in DOMAIN Files /\ pc' \in {"ensure", "exit"}
  BY <1>3, ReturnLemma
<1>8. TypeOK'
  BY <1>0, <1>3, <1>5, <1>6, <1>7 DEF TypeOK
<1>9. StoreInv'
  BY <1>7 DEF StoreInv, Storing
<1>10. InstalledWhole'
  <2> SUFFICES ASSUME NEW f \in Name, NEW c \in {path'[f]} \cup disk'[f],
                      c.owner \notin {"none", "vendor"}
               PROVE  c.owner = "service" /\ ParseMac(c.data)
    BY DEF InstalledWhole
  <2>1. c = new \/ c \in {path[f]} \cup disk[f]
    BY <1>1, <1>3 DEF TypeOK
  <2> QED BY <1>1, <1>2, <2>1 DEF InstalledWhole
<1> QED BY <1>8, <1>9, <1>10

\* The vendor's helper, the kernel's writing back, crashes and power failures.
LEMMA EnvironmentIInv ==
    ASSUME IInv, VendorHelper \/ WriteBack \/ Rerun \/ PowerFailure
    PROVE  IInv'
<1> USE DEF IInv
<1>0. misread' \in BOOLEAN
  BY MisreadType DEF TypeOK, Next, Service
<1>1. CASE VendorHelper
  <2>1. UNCHANGED <<tmp, index, text, ok, boots>> /\ pc' = "ensure"
    BY <1>1 DEF VendorHelper, Goto
  <2>2. \A x \in VendorFiles \cup {File(Junk, "vendor")} :
          x \in [data : Contents, owner : Owners] /\ x.owner \in {"none", "vendor"}
    BY DEF VendorFiles, Missing, File, Contents, Owners
  <2>0. PICK changed \in SUBSET Name : \E new \in [changed -> VendorFiles] :
          /\ path' = [f \in Name |-> IF f \in changed THEN new[f] ELSE path[f]]
          /\ disk' = [f \in Name |-> IF f \in changed THEN disk[f] \cup {new[f], File(Junk, "vendor")}
                                                      ELSE disk[f]]
    BY <1>1 DEF VendorHelper
  <2>3. PICK new \in [changed -> VendorFiles] :
          /\ path' = [f \in Name |-> IF f \in changed THEN new[f] ELSE path[f]]
          /\ disk' = [f \in Name |-> IF f \in changed THEN disk[f] \cup {new[f], File(Junk, "vendor")}
                                                      ELSE disk[f]]
    BY <2>0
  <2>4. TypeOK'
    BY <1>0, <2>1, <2>2, <2>3 DEF TypeOK
  <2>5. StoreInv'
    BY <2>1 DEF StoreInv, Storing
  <2>6. InstalledWhole'
    <3> SUFFICES ASSUME NEW f \in Name, NEW x \in {path'[f]} \cup disk'[f],
                        x.owner \notin {"none", "vendor"}
                 PROVE  x.owner = "service" /\ ParseMac(x.data)
      BY DEF InstalledWhole
    <3>1. x \in VendorFiles \cup {File(Junk, "vendor")} \/ x \in {path[f]} \cup disk[f]
      BY <2>3
    <3> QED BY <2>2, <3>1 DEF InstalledWhole
  <2> QED BY <2>4, <2>5, <2>6
<1>2. CASE WriteBack
  <2>1. disk' = [f \in Name |-> {path[f]}] /\ UNCHANGED <<path, tmp, pc, index, text, ok, boots>>
    BY <1>2 DEF WriteBack
  <2>2. TypeOK' /\ InstalledWhole'
    BY <1>0, <2>1 DEF TypeOK, InstalledWhole
  <2>3. StoreInv'
    BY <2>1 DEF StoreInv, Cur
  <2> QED BY <2>2, <2>3
<1>3. ASSUME Restart
      PROVE  /\ boots' \in 1 .. Boots + 1 /\ pc' = "main" /\ index' \in DOMAIN Files
             /\ text' \in Contents /\ ok' \in BOOLEAN /\ StoreInv'
  BY <1>3, FilesAssumption, BootsAssumption
     DEF Restart, TypeOK, StoreInv, Storing, Contents
<1>4. CASE Rerun
  BY <1>0, <1>3, <1>4 DEF Rerun, TypeOK, InstalledWhole
<1>5. CASE PowerFailure
  <2>1. \A f \in Name : path'[f] \in disk[f] /\ disk'[f] = {path'[f]}
    BY <1>5 DEF PowerFailure, Selections
  <2>2. /\ path' \in [Name -> [data : Contents, owner : Owners]]
        /\ disk' \in [Name -> SUBSET [data : Contents, owner : Owners]]
    <3>1. \E S : path' \in [Name -> S]
      BY <1>5 DEF PowerFailure, Selections
    <3>2. disk' = [f \in Name |-> {path'[f]}]
      BY <1>5 DEF PowerFailure
    <3> QED BY <2>1, <3>1, <3>2 DEF TypeOK
  <2>3. tmp' \in [Name -> [data : Contents, owner : Owners, synced : BOOLEAN]]
    <3>1. ASSUME NEW t \in [data : Contents, owner : Owners, synced : BOOLEAN]
          PROVE  TmpSurvivors(t) \subseteq [data : Contents, owner : Owners, synced : BOOLEAN]
      <4>1. NoTmp \in [data : Contents, owner : Owners, synced : BOOLEAN]
        BY DEF NoTmp, Contents, Owners
      <4>2. [t EXCEPT !.data = Junk] \in [data : Contents, owner : Owners, synced : BOOLEAN]
        BY DEF Contents
      <4>3. \A s \in TmpSurvivors(t) : s \in {NoTmp, t, [t EXCEPT !.data = Junk]}
        BY DEF TmpSurvivors
      <4> QED BY <4>1, <4>2, <4>3
    <3>2. \A f \in Name : tmp'[f] \in TmpSurvivors(tmp[f])
      BY <1>5 DEF PowerFailure, Selections
    <3>3. \E S : tmp' \in [Name -> S]
      BY <1>5 DEF PowerFailure, Selections
    <3> QED BY <3>1, <3>2, <3>3 DEF TypeOK
  <2>4. Restart
    BY <1>5 DEF PowerFailure
  <2>5. TypeOK'
    BY <1>0, <1>3, <2>1, <2>2, <2>3, <2>4 DEF TypeOK
  <2>6. InstalledWhole'
    BY <2>1 DEF InstalledWhole
  <2> QED BY <1>3, <2>4, <2>5, <2>6
<1> QED BY <1>1, <1>2, <1>4, <1>5

LEMMA NextIInv == IInv /\ [Next]_vars => IInv'
<1> SUFFICES ASSUME IInv, [Next]_vars PROVE IInv'
  OBVIOUS
<1>1. CASE UNCHANGED vars
  BY <1>1 DEF vars, IInv, TypeOK, StoreInv, InstalledWhole, Cur
<1> QED BY <1>1, QuietIInv, TmpIInv, RenameIInv, EnvironmentIInv DEF Next, Service

\* Every file the service has put in place is complete, accepted and rightly
\* owned, whenever it is read and after any crash or power failure.
THEOREM InstallationSafe == Spec => []InstalledWhole
<1>1. IInv => InstalledWhole
  BY DEF IInv
<1> QED BY <1>1, InitIInv, NextIInv, PTL DEF Spec

\* The states and variables have their types, whatever the first contents of the
\* files, the random bytes and the failures are.
THEOREM TypeCorrect == Spec => []TypeOK
<1>1. IInv => TypeOK
  BY DEF IInv
<1> QED BY <1>1, InitIInv, NextIInv, PTL DEF Spec

-----------------------------------------------------------------------------
(***************************************************************************)
(* What main() may rely on: while no call has failed, every file it has    *)
(* passed holds an address the service would accept, and it works on a     *)
(* file with such an address only after a failed look at it.  The name of  *)
(* the temporary file is free when the file is about to be created.        *)
(***************************************************************************)
PassedValid ==
    /\ pc \in {"main", "vendor"} => index = 1
    /\ pc \in {"ensure"} \cup Storing /\ ok => \A i \in 1 .. index - 1 : Valid(Files[i])
    /\ SuccessMeansValid
    /\ pc \in Storing /\ Valid(Cur) => misread
    /\ StaleTmpHarmless

LEMMA InitPassedValid == Init => PassedValid
  BY DEF Init, PassedValid, SuccessMeansValid, StaleTmpHarmless, Storing

\* EnsureMac reports success of a file that is valid when it returns; the
\* files before it must not have lost their addresses meanwhile.
LEMMA ReturnPassedValid ==
    ASSUME IInv, PassedValid, NEW r \in BOOLEAN, Return(r),
           pc \in {"ensure"} \cup Storing,
           r => ParseMac(path'[Cur].data),
           \A f \in Name : Valid(f) => ParseMac(path'[f].data)
    PROVE  PassedValid'
<1>1. /\ index' \in DOMAIN Files /\ pc' \in {"ensure", "exit"}
      /\ index \in 1 .. Len(Files) /\ Len(Files) \in Nat
  BY FilesAssumption, ReturnLemma DEF IInv, TypeOK
<1>2. ASSUME ok'
      PROVE  \A i \in 1 .. index : ParseMac(path'[Files[i]].data)
  <2>1. ok /\ r
    BY <1>2, Zenon DEF Return
  <2>2. \A i \in 1 .. index - 1 : Valid(Files[i])
    BY <2>1 DEF PassedValid
  <2>3. \A i \in 1 .. index : Files[i] \in Name
    BY <1>1, FilesAssumption DEF Name, Range
  <2>4. \A i \in 1 .. index : i = index \/ i \in 1 .. index - 1
    BY <1>1
  <2> QED BY <2>1, <2>2, <2>3, <2>4, <1>1 DEF Cur
<1>3. pc' = "ensure" => index' = index + 1
  BY DEF Return, Goto
<1>4. pc' = "exit" => index = Len(Files)
  BY <1>1 DEF Return, Goto
<1>5. pc' = "ensure" /\ ok' => \A i \in 1 .. index' - 1 : Valid(Files[i])'
  BY <1>1, <1>2, <1>3 DEF Valid
<1>6. pc' = "exit" /\ ok' => \A f \in Name : Valid(f)'
  <2>1. \A f \in Name : \E i \in 1 .. Len(Files) : f = Files[i]
    BY FilesAssumption DEF Name, Range
  <2> QED BY <1>2, <1>4, <2>1 DEF Valid
<1> QED BY <1>1, <1>5, <1>6 DEF PassedValid, SuccessMeansValid, StaleTmpHarmless, Storing

\* The steps of the service that do not leave EnsureMac.
LEMMA WorkPassedValid ==
    ASSUME IInv, PassedValid,
           Main \/ EnsureStore \/ UnlinkStale \/ Create \/ Chown \/ Write \/ Fsync \/ Close
    PROVE  PassedValid'
<1>1. UNCHANGED <<path, index, ok>>
  BY DEF Main, EnsureStore, UnlinkStale, Create, Chown, Write, Fsync, Close, Keep
<1>2. Cur \in Name
  BY CurName DEF IInv
<1>3. CASE Main
  BY <1>1, <1>3 DEF Main, Goto, PassedValid, SuccessMeansValid, StaleTmpHarmless, Storing,
                    IInv, TypeOK
<1>4. CASE EnsureStore
  <2>1. pc = "ensure" /\ pc' = "unlink" /\ (Valid(Cur) => misread')
    BY <1>4 DEF EnsureStore, Goto
  <2> QED BY <1>1, <2>1 DEF PassedValid, SuccessMeansValid, StaleTmpHarmless, Storing, Valid, Cur
<1>5. CASE UnlinkStale \/ Create \/ Chown \/ Write \/ Fsync \/ Close
  <2>1. pc \in Storing /\ pc' \in Storing /\ UNCHANGED misread
    BY <1>5 DEF UnlinkStale, Create, Chown, Write, Fsync, Close, Keep, Goto, Storing
  <2>2. pc' = "create" => tmp'[Cur].data = None
    BY <1>2, <1>5 DEF UnlinkStale, Create, Chown, Write, Fsync, Close, Goto, NoTmp, IInv, TypeOK
  <2> QED BY <1>1, <2>1, <2>2 DEF PassedValid, SuccessMeansValid, StaleTmpHarmless, Storing, Valid, Cur
<1> QED BY <1>3, <1>4, <1>5

LEMMA NextPassedValid ==
    ASSUME IInv, PassedValid, [Next]_vars
    PROVE  PassedValid'
<1>1. CASE UNCHANGED vars
  BY <1>1 DEF vars, PassedValid, SuccessMeansValid, StaleTmpHarmless, Valid, Cur
<1>2. CASE EnsureValid
  BY <1>2, ReturnPassedValid DEF EnsureValid, Valid
<1>3. CASE FailEarly \/ FailLate
  BY <1>3, ReturnPassedValid DEF FailEarly, FailLate, Valid, Storing
<1>4. CASE Rename
  <2>1. /\ Cur \in Name /\ ParseMac(tmp[Cur].data)
        /\ path' = [path EXCEPT ![Cur] = File(tmp[Cur].data, tmp[Cur].owner)]
    BY <1>4, CurName DEF Rename, IInv, StoreInv, Storing
  <2>2. \A f \in Name : path'[f].data = IF f = Cur THEN tmp[Cur].data ELSE path[f].data
    BY <2>1 DEF File, IInv, TypeOK
  <2> QED BY <1>4, <2>1, <2>2, ReturnPassedValid DEF Rename, Valid, Storing
<1>5. CASE VendorHelper
  BY <1>5 DEF VendorHelper, Goto, PassedValid, SuccessMeansValid, StaleTmpHarmless, Storing
<1>6. CASE WriteBack
  BY <1>6 DEF WriteBack, PassedValid, SuccessMeansValid, StaleTmpHarmless, Valid, Cur
<1>7. CASE Rerun \/ PowerFailure
  BY <1>7 DEF Rerun, PowerFailure, Restart, PassedValid, SuccessMeansValid, StaleTmpHarmless, Storing
<1> QED BY <1>1, <1>2, <1>3, <1>4, <1>5, <1>6, <1>7, WorkPassedValid DEF Next, Service

LEMMA PassedValidAlways == Spec => [](IInv /\ PassedValid)
<1>1. IInv /\ PassedValid /\ [Next]_vars => (IInv /\ PassedValid)'
  BY NextIInv, NextPassedValid
<1> QED BY <1>1, InitIInv, InitPassedValid, PTL DEF Spec

\* Exit status 0 means that every file holds an address the service itself
\* would accept, whichever calls failed and whatever crashed before.
THEOREM ExitZeroMeansValid == Spec => []SuccessMeansValid
<1>1. PassedValid => SuccessMeansValid
  BY DEF PassedValid
<1> QED BY <1>1, PassedValidAlways, PTL

\* open(O_EXCL) never meets the temporary file that an earlier run left.
THEOREM TmpNameIsFree == Spec => []StaleTmpHarmless
<1>1. PassedValid => StaleTmpHarmless
  BY DEF PassedValid
<1> QED BY <1>1, PassedValidAlways, PTL

\* A valid address is replaced only after a failed look at it, and one that is
\* on the disk survives every power failure.
THEOREM IdentityIsKept == Spec => ValidIsKept
<1> DEFINE Step ==
        pc # "vendor" =>
          \A f \in Name :
            Valid(f) /\ (boots' = boots \/ disk[f] = {path[f]}) =>
               path'[f] = path[f] \/ (misread /\ f = Cur)
<1>1. ASSUME IInv, PassedValid, [Next]_vars
      PROVE  Step
  <2> SUFFICES ASSUME pc # "vendor", NEW f \in Name, Valid(f),
                      boots' = boots \/ disk[f] = {path[f]}
               PROVE  path'[f] = path[f] \/ (misread /\ f = Cur)
    OBVIOUS
  <2>1. CASE Rename
    <3>1. f # Cur => path'[f] = path[f]
      BY <1>1, <2>1 DEF Rename, IInv, TypeOK
    <3>2. pc \in Storing
      BY <2>1 DEF Rename, Storing
    <3>3. f = Cur => misread
      BY <1>1, <3>2, Zenon DEF PassedValid
    <3> QED BY <3>1, <3>3, Zenon
  <2>2. CASE PowerFailure
    <3>1. boots' # boots /\ path'[f] \in disk[f]
      BY <1>1, <2>2 DEF PowerFailure, Restart, Selections, IInv, TypeOK
    <3> QED BY <3>1
  <2>3. CASE UNCHANGED vars \/ (Next /\ ~Rename /\ ~PowerFailure)
    BY <2>3 DEF vars, Next, Service, Main, EnsureValid, EnsureStore, UnlinkStale, Create, Chown,
                Write, Fsync, Close, Keep, VendorHelper, FailEarly, FailLate, WriteBack, Rerun
  <2> QED BY <1>1, <2>1, <2>2, <2>3, Zenon
<1>2. IInv /\ PassedValid /\ [Next]_vars => [Step]_vars
  BY <1>1
<1> QED BY <1>2, PassedValidAlways, PTL DEF Spec, ValidIsKept
===============================================================================
