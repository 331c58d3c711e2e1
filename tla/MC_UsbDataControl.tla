------------------------- MODULE MC_UsbDataControl -------------------------
(* Model-checking instance of UsbDataControl: two binder threads.         *)
EXTENDS UsbDataControl, TLC

CONSTANTS c1, c2

MCTwoClients == {c1, c2}
MCOneClient == {c1}
=============================================================================
