---------------------------- MODULE MCModbusLink ----------------------------
(***************************************************************************)
(* Two masters: one writes a register and reads it back, one writes two    *)
(* coils in one request and asks for an address that does not exist.       *)
(***************************************************************************)
EXTENDS ModbusLink, TLC

CONSTANTS Cell, Panel

MCMasters == {Cell, Panel}
WriteMultipleCoils ==
  [fc |-> 15, address |-> 0, count |-> 2, data |-> <<1, 1>>]
MCRequests ==
  (Cell :> {WriteRegister(0, WordModulus + 1), Read(3, 0, 1)})
    @@ (Panel :> {WriteMultipleCoils, Read(1, 0, Size + 1)})
MCMaxCalls == (Cell :> 2) @@ (Panel :> 1)
=============================================================================
