------------------------- MODULE MC_UsbRoleSwitch -------------------------
(* Model-checking instance of UsbRoleSwitch: one or two ports, two binder  *)
(* threads calling switchRole, a two-tick timeout, one spurious wake-up,   *)
(* two kernel partner events and two switchRole calls.                     *)
EXTENDS UsbRoleSwitch, TLC

CONSTANTS p1, p2, c1, c2

MCOnePort == {p1}
MCTwoPorts == {p1, p2}
MCCallers == {c1, c2}

(* The written power/data string does not matter to this model (the       *)
(* hardware's answer is a free choice), so one value per tag is enough;   *)
(* every mode string is kept.                                              *)
MCRequests ==
    [port : Ports, tag : {"power"}, val : {"source"}]
    \cup [port : Ports, tag : {"data"}, val : {"host"}]
    \cup [port : Ports, tag : {"mode"}, val : ModeStrings]
=============================================================================
