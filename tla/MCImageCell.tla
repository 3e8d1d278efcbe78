---------------------------- MODULE MCImageCell -----------------------------
(***************************************************************************)
(* The tags of tags.conveyor_sorting_cell.json that the cell computes      *)
(* with, the same with a normally closed E-stop (adr/0004), and two files  *)
(* that the validation refuses: the E-stop at the eye's address, and the   *)
(* eye in a table no master writes.                                        *)
(***************************************************************************)
EXTENDS ImageCell

In(name, type, table, address) ==
  [name |-> name, type |-> type, direction |-> "sim_to_plc", table |-> table,
   address |-> address, initial |-> FALSE, invert |-> FALSE]
Out(name, type, table, address) ==
  [In(name, type, table, address) EXCEPT !.direction = "plc_to_sim"]

OutTags == << Out("motor", "bool", "discrete_input", 0),
              Out("armA", "bool", "discrete_input", 1),
              Out("armB", "bool", "discrete_input", 2),
              Out("jam", "bool", "discrete_input", 3),
              Out("running", "bool", "discrete_input", 4),
              Out("count", "uint16", "input_register", 0) >>
Destination == [In("destination", "uint16", "holding_register", 0)
                  EXCEPT !.initial = 0]
WithTags(eye, estop) == <<eye, estop, Destination>> \o OutTags

Eye == In("preDivert", "bool", "coil", 1)
Estop == In("estop", "bool", "coil", 4)
NormallyClosed == [Estop EXCEPT !.initial = TRUE, !.invert = TRUE]

MCRegistries ==
  [shipped |-> WithTags(Eye, Estop),
   normally_closed |-> WithTags(Eye, NormallyClosed),
   shared_address |-> WithTags(Eye, [Estop EXCEPT !.address = 1]),
   read_only |-> WithTags([Eye EXCEPT !.table = "discrete_input", !.address = 5], Estop)]
MCPlan == <<2, 1, 3>>
=============================================================================
