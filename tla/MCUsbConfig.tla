------------------------------ MODULE MCUsbConfig ------------------------------
(***************************************************************************)
(* Modes with and without adb, with functions of their own, with modem and *)
(* diagnosis servers, for UsbConfig.                                       *)
(***************************************************************************)
EXTENDS UsbConfig

SomeModes == {"none", "mtp", "mtp,adb", "manufacture,adb", "pcmodem2", "hisi_debug,adb"}

\* What device.mk sets, adb alone, and adb switched off.
SomePersisted == {"mtp,adb", "adb", ""}
===============================================================================
