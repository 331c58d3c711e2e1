-------------------------- MODULE MC_UsbCallback --------------------------
(* Model-checking instance of UsbCallback: two binder threads, two worker  *)
(* thread ids and one callback object.                                     *)
EXTENDS UsbCallback, TLC

CONSTANTS a1, a2, w1, w2, cb1

MCClients == {a1, a2}
MCWorkers == {w1, w2}
MCHandles == {cb1}
=============================================================================
