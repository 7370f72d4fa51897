-------------------------------- MODULE MCArmIo --------------------------------
(* Instances of ArmIo and of the channel it implements, and the properties    *)
(* that are checked but not proved.                                           *)
EXTENDS ArmIo

(* The ARM gets every command accepted, whatever the order of boot loader     *)
(* commands and others, of interrupts, responses and callers: once the        *)
(* callers pause, it has caught up with them.                                 *)
EveryCommandTaken == []<>(taken = accepted)
===============================================================================
