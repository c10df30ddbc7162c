--------------------------- MODULE MCDeviceGateway ---------------------------
(***************************************************************************)
(* DeviceGateway with the default commands, a custom dispense command and  *)
(* a custom reading command that retains the card.                         *)
(***************************************************************************)
EXTENDS DeviceGateway

MCWireCommands ==
    [getStatus    |-> {"status"},
     printReceipt |-> {"print"},
     readCard     |-> {"read"},
     dispense     |-> {"dispense", "cash-out"},
     accept       |-> {"accept"}]

\* The same, with a reading command that must not be repeated.
MCRetainingCommands == [MCWireCommands EXCEPT !["readCard"] = {"read", "read-retain"}]
=============================================================================
