---------------------------- MODULE MCUsbGadget ----------------------------
(***************************************************************************)
(* TLC's constants for the USB gadget: NONE, a request that is pulled up at *)
(* once, one that waits for a daemon, one of both kinds, and a combination  *)
(* nobody supports.                                                         *)
(***************************************************************************)
EXTENDS UsbGadget

MCRequested == {{}, {"RNDIS"}, {"ADB"}, {"ADB", "RNDIS"}, {"MTP", "RNDIS"}}
=============================================================================
