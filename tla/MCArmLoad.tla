------------------------------ MODULE MCArmLoad ------------------------------
(* Small firmware files for ArmLoad: words of four digits (two bytes).        *)
EXTENDS ArmLoad

Data(at, d)  == [type |-> "data", offset |-> at, digits |-> d]
Address(t, v) == [type |-> t, value |-> v]
End == [type |-> "end"]

Firmware == <<Address("linear", 1), Data(4, <<1, 2, 3, 4, 5, 6, 7, 8>>), Data(8, <<9, 0, 9, 1>>), End>>
Segmented == <<Data(0, <<1, 2, 3, 4>>), Address("segment", 1), Data(2, <<5, 6, 7, 8>>),
               Address("goto", 0), End>>
Truncated == <<Data(0, <<1, 2, 3, 4>>)>>

FirmwareFiles == {Firmware, Segmented, Truncated}

ASSUME FilesAreWellFormed == \A f \in Files : WellFormed(f)
===============================================================================
