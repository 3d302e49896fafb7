------------------------------- MODULE MCMgmt -------------------------------
(* Mgmt with two controllers, one of them with two commands.               *)
EXTENDS Mgmt
MCCommands == {[opcode |-> "a", index |-> "hci0"], [opcode |-> "b", index |-> "hci0"],
               [opcode |-> "a", index |-> "hci1"]}
MCUses == {{"reply", "nowait"}, {"reply", "cancel", "cancelIndex"},
           {"cancelAll", "unref"}, {"events", "unref"}}
=============================================================================
