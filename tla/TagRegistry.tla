---------------------------- MODULE TagRegistry -----------------------------
(***************************************************************************)
(* The tag registry of protocol-gateway/tag_registry.py and the two sides  *)
(* that reach the process image through it: the gateway, which asks the    *)
(* Modbus server (protocol-gateway/gateway.py), and the soft PLC, which    *)
(* uses the store itself (plc/soft_plc.py).  A registry is a sequence of   *)
(* tags, in the order of the file: the soft PLC reads its inputs in it.    *)
(*                                                                         *)
(* The two sides agree on tags of one word only: the gateway writes and    *)
(* reads uint32 and float32 as two registers, the soft PLC one.            *)
(*                                                                         *)
(* TableUnchecked and KeepsRaw are mutants of the operators they           *)
(* precede.                                                                *)
(***************************************************************************)
EXTENDS ModbusStore, SequencesExt

Types == {"bool", "uint16", "uint32", "float32"}
Directions == {"sim_to_plc", "plc_to_sim"}
MasterWritable == {"coil", "holding_register"}
MasterReadOnly == {"discrete_input", "input_register"}

Bit(b) == IF b THEN 1 ELSE 0

(* validate_registry, for tags that have every field. *)
TableUnchecked(t) ==
  /\ t.type \in Types /\ t.direction \in Directions
  /\ t.table \in Tables /\ t.address \in Nat
WellFormed(t) ==
  /\ t.type \in Types /\ t.direction \in Directions
  /\ t.table \in Tables /\ t.address \in Nat
  /\ t.table \in IF t.direction = "sim_to_plc" THEN MasterWritable
                                               ELSE MasterReadOnly

Valid(reg) ==
  /\ reg # <<>> /\ \A t \in Range(reg) : WellFormed(t)
  /\ \A i, j \in DOMAIN reg : i # j =>
       /\ reg[i].name # reg[j].name
       /\ <<reg[i].table, reg[i].address>> # <<reg[j].table, reg[j].address>>

ByDirection(reg, d) == SelectSeq(reg, LAMBDA t : t.direction = d)
TagNamed(reg, name) == reg[CHOOSE i \in DOMAIN reg : reg[i].name = name]
WordCount(t) == IF t.type \in {"uint32", "float32"} THEN 2 ELSE 1

-----------------------------------------------------------------------------
(* The gateway: the requests that write a tag, one after the other... *)
ReadCode(table) == CHOOSE fc \in DOMAIN ReadTable : ReadTable[fc] = table

Encoded(t, v) == IF WordCount(t) = 2
                 THEN <<(v \div WordModulus) % WordModulus, v % WordModulus>>
                 ELSE <<v>>
MayWrite(t) == t.table \in MasterWritable
WriteRequests(t, v) ==
  IF t.table = "coil" THEN <<WriteCoil(t.address, Bit(v))>>
  ELSE [i \in 1 .. WordCount(t) |-> WriteRegister(t.address + i - 1, Encoded(t, v)[i])]

(* ...and what it reads for one. *)
Decoded(t, words) == CASE t.type = "bool"     -> words[1] # 0
                       [] WordCount(t) = 2    -> words[1] * WordModulus + words[2]
                       [] OTHER               -> words[1]
ReadTag(store, t) ==
  Decoded(t, Answer(store, Read(ReadCode(t.table), t.address, WordCount(t))).values)

-----------------------------------------------------------------------------
(* The soft PLC: one word, under the lock, with the tag's inversion. *)
KeepsRaw(store, t) ==
  IF t.type = "bool" THEN store[t.table][t.address] # 0
                     ELSE store[t.table][t.address]
PlcRead(store, t) ==
  IF t.type = "bool" THEN (store[t.table][t.address] # 0) # t.invert
                     ELSE store[t.table][t.address]
PlcWrite(store, t, v) ==
  [store EXCEPT ![t.table][t.address] =
     IF t.type = "bool" THEN Bit(v # t.invert) ELSE v % WordModulus]
=============================================================================
