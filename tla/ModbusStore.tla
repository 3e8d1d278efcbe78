---------------------------- MODULE ModbusStore -----------------------------
(***************************************************************************)
(* The process image and what the Modbus server of                         *)
(* protocol-gateway/modbus_tcp.py does to it: the four tables of           *)
(* ModbusDataStore, and the answer and the effect of one request, which    *)
(* the server computes under the store's lock.  Coils and discrete inputs  *)
(* hold 0 or 1; the two values a coil may be written with, 0x0000 and      *)
(* 0xFF00, are 0 and 1 here and any other word stands for the rest.        *)
(* NoMask is a mutant of WriteRegister.                                    *)
(***************************************************************************)
EXTENDS Naturals, Sequences, FiniteSets

CONSTANTS
  Size,          \* of each table (512)
  WordModulus,   \* 2^16
  MaxBits,       \* most bits one request may read (2000)
  MaxRegisters   \* most registers one request may read (125)

ASSUME StoreAssumption ==
  /\ {Size, MaxBits, MaxRegisters} \subseteq Nat \ {0}
  /\ WordModulus \in Nat /\ WordModulus > 1

Tables == {"coil", "discrete_input", "holding_register", "input_register"}
BitTables == {"coil", "discrete_input"}
Addresses == 0 .. Size - 1

Stores == [Tables -> [Addresses -> 0 .. WordModulus - 1]]
EmptyStore == [t \in Tables |-> [a \in Addresses |-> 0]]

-----------------------------------------------------------------------------
(* A request: function code, first address, number of values, and the      *)
(* values of a write.  Eight function codes are served.                    *)
ReadTable == [fc \in 1 .. 4 |-> <<"coil", "discrete_input",
                                  "holding_register", "input_register">>[fc]]
WriteTable == [fc \in {5, 6, 15, 16} |->
                 IF fc \in {5, 15} THEN "coil" ELSE "holding_register"]
IsRead(p)  == p.fc \in DOMAIN ReadTable
IsWrite(p) == p.fc \in DOMAIN WriteTable

ReadLimit(fc) == IF ReadTable[fc] \in BitTables THEN MaxBits ELSE MaxRegisters

(* _dispatch and the handlers: why a request is refused, checked in the    *)
(* order of the code.                                                      *)
Refusal(p) ==
  CASE ~IsRead(p) /\ ~IsWrite(p)                        -> "illegal function"
    [] IsRead(p) /\ p.count \notin 1 .. ReadLimit(p.fc) -> "illegal value"
    [] p.fc = 5 /\ p.data[1] \notin {0, 1}              -> "illegal value"
    [] p.address + p.count > Size                       -> "illegal address"
    [] OTHER                                            -> "none"

Span(p) == p.address .. p.address + p.count - 1

(* The store a request leaves... *)
Written(store, p) ==
  IF IsWrite(p) /\ Refusal(p) = "none"
  THEN [store EXCEPT ![WriteTable[p.fc]] =
         [a \in Addresses |-> IF a \in Span(p) THEN p.data[a - p.address + 1]
                              ELSE @[a]]]
  ELSE store

(* ...and its answer: a refusal, or the values read. *)
Answer(store, p) ==
  [refused |-> Refusal(p),
   values |-> IF IsRead(p) /\ Refusal(p) = "none"
              THEN [i \in 1 .. p.count |-> store[ReadTable[p.fc]][p.address + i - 1]]
              ELSE <<>>]

-----------------------------------------------------------------------------
(* The client's methods, as the requests they send. *)
Read(fc, address, count) ==
  [fc |-> fc, address |-> address, count |-> count, data |-> <<>>]

WriteCoil(address, bit) ==
  [fc |-> 5, address |-> address, count |-> 1, data |-> <<bit>>]

NoMask(address, value) ==
  [fc |-> 6, address |-> address, count |-> 1, data |-> <<value>>]
WriteRegister(address, value) ==
  [fc |-> 6, address |-> address, count |-> 1, data |-> <<value % WordModulus>>]

(* LocalStoreClient, the same methods without a wire: no request is        *)
(* limited or refused, and a read past the end comes back short.           *)
LocalCodes == 1 .. 6
LocalRead(store, p) ==
  LET present == {a \in Span(p) : a < Size}
  IN  [i \in 1 .. Cardinality(present) |-> store[ReadTable[p.fc]][p.address + i - 1]]

LocalWritten(store, p) ==
  [store EXCEPT ![WriteTable[p.fc]][p.address] = p.data[1] % WordModulus]
=============================================================================
