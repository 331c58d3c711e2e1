--------------------------- MODULE MC_UsbStatus ---------------------------
(* Model-checking instance of UsbStatus: two typec ports, one reason list  *)
(* text and one data-session warning.                                      *)
EXTENDS UsbStatus, TLC

CONSTANTS p1, p2

MCPorts == {p1, p2}
MCSessionChoices == {{}, {"ENUMERATION_FAIL"}}

(* The keywords of Usb.cpp:76-80, spelt out character by character.      *)
MCDebugAccessoryWord ==
    <<"d", "e", "b", "u", "g", "-", "a", "c", "c", "e", "s", "s", "o", "r", "y">>
MCBC12Word == <<"b", "c", "1", "2">>
MCMissingRpWord == <<"m", "i", "s", "s", "i", "n", "g", "_", "r", "p">>
MCOtherWord == <<"o", "t", "h", "e", "r">>
MCInputPowerLimitedWord ==
    <<"i", "n", "p", "u", "t", "_", "p", "o", "w", "e", "r", "_",
      "l", "i", "m", "i", "t", "e", "d">>

(* The five keywords and one word the HAL does not know.                   *)
MCReasonWords ==
    {MCDebugAccessoryWord, MCBC12Word, MCMissingRpWord, MCOtherWord,
     MCInputPowerLimitedWord, <<"s", "b", "u">>}

(* No reasons, or a charger listing bc12 and input_power_limited.          *)
MCReasonChoices == {<<>>, <<MCBC12Word, MCInputPowerLimitedWord>>}
=============================================================================
