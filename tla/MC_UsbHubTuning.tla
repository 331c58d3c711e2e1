------------------------- MODULE MC_UsbHubTuning -------------------------
(* Model-checking instance of UsbHubTuning: one shell thread, the default *)
(* pair (0x0008, 0x0404) and one other value and index.                    *)
EXTENDS UsbHubTuning, TLC

CONSTANTS s1

MCShells == {s1}
MCValues == {8, 15}
MCIndices == {1028, 514}
=============================================================================
