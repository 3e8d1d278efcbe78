--------------------------- MODULE ImageCellProofs ---------------------------
(***************************************************************************)
(* Theorems about ImageCell, for every stream of parcels, any number of    *)
(* moves of the E-stop and every registry with the cell's tags, whichever  *)
(* way the E-stop is wired and wherever the tags lie in their tables.      *)
(***************************************************************************)
EXTENDS ImageCell, TLAPS

Inputs == {"preDivert", "estop", "destination"}
Bools == {"motor", "armA", "armB", "jam", "running"}

(* The word of the image that holds a tag. *)
Word(name) == store[Tag(name).table][Tag(name).address]

LEMMA NamesAre ==
  /\ Names = Inputs \cup Bools \cup {"count"}
  /\ NOut = 6
  /\ OutputOrder \in [1 .. 6 -> Bools \cup {"count"}]
  /\ \A name \in Bools \cup {"count"} : \E i \in 1 .. 6 : OutputOrder[i] = name
  /\ Range(OutputOrder) = Bools \cup {"count"}
  <1>1. DOMAIN OutputOrder = 1 .. 6 /\ NOut = 6
    BY DEF OutputOrder, NOut
  <1>2. /\ OutputOrder[1] = "motor" /\ OutputOrder[2] = "armA" /\ OutputOrder[3] = "armB"
        /\ OutputOrder[4] = "jam" /\ OutputOrder[5] = "running" /\ OutputOrder[6] = "count"
    BY DEF OutputOrder
  <1>3. \A i \in 1 .. 6 : i = 1 \/ i = 2 \/ i = 3 \/ i = 4 \/ i = 5 \/ i = 6
    OBVIOUS
  <1>4. OutputOrder = [i \in 1 .. 6 |-> OutputOrder[i]]
    BY DEF OutputOrder
  <1> HIDE DEF OutputOrder
  <1>5. /\ \A i \in 1 .. 6 : OutputOrder[i] \in Bools \cup {"count"}
        /\ \A name \in Bools \cup {"count"} : \E i \in 1 .. 6 : OutputOrder[i] = name
    BY <1>2, <1>3 DEF Bools
  <1>6. Range(OutputOrder) = Bools \cup {"count"}
    BY <1>1, <1>5 DEF Range
  <1>. QED  BY <1>1, <1>4, <1>5, <1>6 DEF Names, Inputs

(* The tag found for a name has that name, and a place of its own. *)
LEMMA TagsAre ==
  ASSUME file \in Files
  PROVE  /\ \A name \in Names : /\ Tag(name) \in Range(Registries[file])
                               /\ Tag(name).name = name
                               /\ WellFormed(Tag(name))
                               /\ Tag(name).address \in Addresses
         /\ \A a, b \in Names : a # b =>
              <<Tag(a).table, Tag(a).address>> # <<Tag(b).table, Tag(b).address>>
  <1> DEFINE reg == Registries[file]
             At(name) == CHOOSE i \in DOMAIN reg : reg[i].name = name
  <1>1. Valid(reg)
    BY DEF Files
  <1>2. ASSUME NEW name \in Names
        PROVE  At(name) \in DOMAIN reg /\ reg[At(name)].name = name /\ Tag(name) = reg[At(name)]
    <2>1. name \in {t.name : t \in Range(reg)}
      BY RegistryAssumption
    <2>2. \E i \in DOMAIN reg : reg[i].name = name
      BY <2>1 DEF Range
    <2>3. Tag(name) = TagNamed(reg, name)
      BY DEF Tag, TagsOf
    <2>. QED  BY <2>2, <2>3 DEF TagNamed
  <1> HIDE DEF At
  <1>3. ASSUME NEW name \in Names
        PROVE  /\ Tag(name) \in Range(reg) /\ Tag(name).name = name
               /\ WellFormed(Tag(name))
    <2>1. Tag(name) \in Range(reg) /\ Tag(name).name = name
      BY <1>2 DEF Range
    <2>. QED  BY <1>1, <2>1 DEF Valid
  <1>4. ASSUME NEW name \in Names PROVE Tag(name).address \in Addresses
    <2>1. Tag(name).address \in Nat /\ Tag(name).address < Size
      BY <1>3, RegistryAssumption DEF WellFormed, Tag
    <2>. QED  BY <2>1, StoreAssumption DEF Addresses
  <1>5. ASSUME NEW a \in Names, NEW b \in Names, a # b
        PROVE  <<Tag(a).table, Tag(a).address>> # <<Tag(b).table, Tag(b).address>>
    <2>1. At(a) # At(b) /\ At(a) \in DOMAIN reg /\ At(b) \in DOMAIN reg
      BY <1>2, <1>5
    <2>2. <<reg[At(a)].table, reg[At(a)].address>> # <<reg[At(b)].table, reg[At(b)].address>>
      BY <1>1, <2>1 DEF Valid
    <2>. QED  BY <1>2, <2>2
  <1>. QED  BY <1>3, <1>4, <1>5

(* What the tags of the cell are. *)
LEMMA CellTags ==
  ASSUME file \in Files
  PROVE  /\ Tag("preDivert").type = "bool" /\ Tag("preDivert").table = "coil"
         /\ Tag("preDivert").initial = FALSE
         /\ Tag("estop").type = "bool" /\ Tag("estop").table = "coil"
         /\ Tag("estop").invert \in BOOLEAN /\ Tag("estop").initial \in BOOLEAN
         /\ Tag("destination").type = "uint16"
         /\ Tag("destination").table = "holding_register"
         /\ Tag("destination").initial \in 0 .. WordModulus - 1
         /\ \A name \in Names \ {"estop"} : Tag(name).invert = FALSE
         /\ \A name \in Bools \cup {"count"} : Tag(name).table \in MasterReadOnly
         /\ \A name \in Bools : Tag(name).type = "bool"
         /\ Tag("count").type = "uint16"
         /\ InputTags \in {<<Tag("preDivert"), Tag("estop"), Tag("destination")>>,
                           <<Tag("estop"), Tag("preDivert"), Tag("destination")>>,
                           <<Tag("preDivert"), Tag("destination"), Tag("estop")>>}
         /\ NIn = 3
  <1>1. \A name \in Bools \cup {"count"} : Tag(name).direction = "plc_to_sim"
    BY NamesAre, RegistryAssumption DEF Tag
  <1>2. \A name \in Bools \cup {"count"} : Tag(name).table \in MasterReadOnly
    BY <1>1, NamesAre, TagsAre DEF WellFormed
  <1>3. \A name \in Bools : Tag(name).type = "bool"
    BY NamesAre, RegistryAssumption DEF Tag, Bools
  <1>4. \A name \in Names \ {"estop"} : Tag(name).invert = FALSE
    BY RegistryAssumption DEF Tag
  <1>5. InputTags \in {<<Tag("preDivert"), Tag("estop"), Tag("destination")>>,
                       <<Tag("estop"), Tag("preDivert"), Tag("destination")>>,
                       <<Tag("preDivert"), Tag("destination"), Tag("estop")>>}
    BY RegistryAssumption DEF Tag, InputTags
  <1>6. NIn = 3
    BY <1>5 DEF NIn
  <1>7. \A name \in Inputs : Tag(name).direction = "sim_to_plc"
    BY RegistryAssumption DEF Tag, Inputs
  <1>8. \A name \in Inputs : Tag(name).table \in {"coil", "holding_register"}
    BY <1>7, NamesAre, TagsAre DEF WellFormed, MasterWritable
  <1>9. /\ Tag("preDivert").table = "coil" /\ Tag("estop").table = "coil"
        /\ Tag("destination").table = "holding_register"
    BY <1>8, RegistryAssumption DEF Tag, Inputs
  <1>. QED
    BY <1>2, <1>3, <1>4, <1>5, <1>6, <1>9, RegistryAssumption DEF Tag

-----------------------------------------------------------------------------
(* The ways to a tag: the gateway's requests and the scan's own accesses.  *)
LEMMA CodesAre ==
  ASSUME NEW t \in Tables
  PROVE  ReadCode(t) \in 1 .. 4 /\ ReadTable[ReadCode(t)] = t
  <1>1. /\ DOMAIN ReadTable = 1 .. 4
        /\ ReadTable[1] = "coil" /\ ReadTable[2] = "discrete_input"
        /\ ReadTable[3] = "holding_register" /\ ReadTable[4] = "input_register"
    BY DEF ReadTable
  <1>2. \E fc \in DOMAIN ReadTable : ReadTable[fc] = t
    BY <1>1 DEF Tables
  <1> HIDE DEF ReadTable
  <1>. QED  BY <1>1, <1>2 DEF ReadCode

LEMMA OneWord ==
  ASSUME file \in Files, NEW name \in Names
  PROVE  WordCount(Tag(name)) = 1
  <1>1. Names = Inputs \cup Bools \cup {"count"}
    BY NamesAre
  <1>2. CASE name \in Bools \cup {"preDivert", "estop"}
    BY <1>2, CellTags DEF WordCount
  <1>3. CASE name \in {"destination", "count"}
    BY <1>3, CellTags DEF WordCount
  <1>. QED  BY <1>1, <1>2, <1>3 DEF Inputs

LEMMA GetsTheWord ==
  ASSUME file \in Files, store \in Stores, NEW name \in Names
  PROVE  Gets(name) = IF Tag(name).type = "bool" THEN Word(name) # 0 ELSE Word(name)
  <1> DEFINE t == Tag(name)
             fc == ReadCode(t.table)
             p == Read(fc, t.address, 1)
  <1>1. t.table \in Tables /\ t.address \in Addresses
    BY TagsAre DEF WellFormed
  <1>2. fc \in 1 .. 4 /\ ReadTable[fc] = t.table
    BY <1>1, CodesAre
  <1>3. p.fc = fc /\ p.address = t.address /\ p.count = 1
    BY DEF Read
  <1>4. WordCount(t) = 1
    BY OneWord
  <1>9. Gets(name) = Decoded(t, Answer(store, p).values)
    BY <1>4 DEF Gets, ReadTag
  <1> HIDE DEF fc, t
  <1>5. IsRead(p)
    BY <1>2, <1>3 DEF IsRead, ReadTable
  <1>6. Refusal(p) = "none"
    <2>1. 1 \in 1 .. ReadLimit(p.fc)
      BY StoreAssumption DEF ReadLimit
    <2>2. p.fc # 5
      BY <1>2, <1>3
    <2>3. ~(p.address + p.count > Size)
      BY <1>1, <1>3, StoreAssumption DEF Addresses
    <2> HIDE DEF p
    <2>. QED  BY <1>3, <1>5, <2>1, <2>2, <2>3 DEF Refusal
  <1>7. Answer(store, p).values = [i \in 1 .. p.count |-> store[ReadTable[p.fc]][p.address + i - 1]]
    BY <1>5, <1>6 DEF Answer
  <1>8. Answer(store, p).values[1] = store[t.table][t.address]
    <2>1. t.address \in Nat
      BY <1>1, StoreAssumption DEF Addresses
    <2>2. 1 \in 1 .. p.count /\ p.address + 1 - 1 = t.address
      BY <1>3, <2>1
    <2> HIDE DEF p
    <2>. QED  BY <1>2, <1>3, <1>7, <2>2
  <1> HIDE DEF p
  <1>. QED  BY <1>4, <1>8, <1>9 DEF Decoded, Word, t

(* A request of a master that writes one of the scan's inputs... *)
Coded(name, v) == IF name = "destination" THEN v ELSE Bit(v)
Values(name) == IF name = "destination" THEN 0 .. WordModulus - 1 ELSE BOOLEAN

LEMMA OneCellWritten ==
  ASSUME store \in Stores, NEW p, NEW w,
         \/ p.fc = 5 /\ p.data[1] \in {0, 1}
         \/ p.fc = 6,
         p.count = 1, p.address \in Addresses, w = p.data[1]
  PROVE  Written(store, p) = [store EXCEPT ![WriteTable[p.fc]][p.address] = w]
  <1>1. IsWrite(p) /\ ~IsRead(p)
    BY DEF IsWrite, IsRead, WriteTable, ReadTable
  <1>2. Refusal(p) = "none"
    <2>1. ~(p.address + p.count > Size)
      BY StoreAssumption DEF Addresses
    <2>2. ~(p.fc = 5 /\ p.data[1] \notin {0, 1})
      OBVIOUS
    <2>. QED  BY <1>1, <2>1, <2>2 DEF Refusal
  <1>3. Span(p) = {p.address}
    BY StoreAssumption DEF Span, Addresses
  <1>4. WriteTable[p.fc] \in Tables
    BY DEF WriteTable, Tables
  <1> DEFINE t == WriteTable[p.fc]
             row == [a \in Addresses |-> IF a \in Span(p) THEN p.data[a - p.address + 1]
                                         ELSE store[t][a]]
  <1>5. Written(store, p) = [store EXCEPT ![t] = row]
    BY <1>1, <1>2 DEF Written
  <1>6. row = [store[t] EXCEPT ![p.address] = w]
    <2>1. store[t] \in [Addresses -> 0 .. WordModulus - 1]
      BY <1>4 DEF Stores
    <2>2. \A a \in Addresses : a \in Span(p) => a - p.address + 1 = 1
      BY <1>3, StoreAssumption DEF Addresses
    <2>. QED  BY <1>3, <2>1, <2>2
  <1>. QED  BY <1>5, <1>6

LEMMA RequestWrites ==
  ASSUME file \in Files, store \in Stores, NEW name \in Inputs, NEW v \in Values(name)
  PROVE  /\ MayWrite(Tag(name))
         /\ Coded(name, v) \in 0 .. WordModulus - 1
         /\ Written(store, WriteRequests(Tag(name), v)[1])
              = [store EXCEPT ![Tag(name).table][Tag(name).address] = Coded(name, v)]
  <1> DEFINE t == Tag(name)
             p == WriteRequests(t, v)[1]
  <1>1. name \in Names
    BY NamesAre
  <1>2. t.address \in Addresses
    BY <1>1, TagsAre
  <1>3. MayWrite(t)
    BY CellTags DEF MayWrite, MasterWritable, Inputs
  <1>4. Coded(name, v) \in 0 .. WordModulus - 1
    BY RegistryAssumption, StoreAssumption DEF Coded, Values, Bit
  <1>5. CASE name # "destination"
    <2>1. t.table = "coil"
      BY <1>5, CellTags DEF Inputs
    <2>2. p = WriteCoil(t.address, Bit(v))
      BY <2>1 DEF WriteRequests
    <2>3. /\ p.fc = 5 /\ p.data[1] = Bit(v) /\ p.count = 1 /\ p.address = t.address
      BY <2>2 DEF WriteCoil
    <2>4. Bit(v) \in {0, 1}
      BY <1>5 DEF Bit, Values
    <2>5. WriteTable[5] = "coil"
      BY DEF WriteTable
    <2> HIDE DEF p, t
    <2>6. Written(store, p) = [store EXCEPT ![WriteTable[p.fc]][p.address] = Bit(v)]
      BY <1>2, <2>3, <2>4, OneCellWritten
    <2>. QED  BY <1>3, <1>4, <1>5, <2>1, <2>3, <2>5, <2>6 DEF Coded, p, t
  <1>6. CASE name = "destination"
    <2>1. t.table = "holding_register" /\ WordCount(t) = 1
      BY <1>1, <1>6, CellTags, OneWord
    <2>2. p = WriteRegister(t.address + 1 - 1, Encoded(t, v)[1])
      BY <2>1 DEF WriteRequests
    <2>3. Encoded(t, v)[1] = v
      BY <2>1 DEF Encoded
    <2>4. t.address + 1 - 1 = t.address
      BY <1>2, StoreAssumption DEF Addresses
    <2>5. v % WordModulus = v
      BY <1>6, StoreAssumption DEF Values
    <2> HIDE DEF t
    <2>6. p.fc = 6 /\ p.data[1] = v /\ p.count = 1 /\ p.address = t.address
      BY <2>2, <2>3, <2>4, <2>5 DEF WriteRegister
    <2>7. WriteTable[6] = "holding_register"
      BY DEF WriteTable
    <2> HIDE DEF p
    <2>8. Written(store, p) = [store EXCEPT ![WriteTable[p.fc]][p.address] = v]
      BY <1>2, <2>6, OneCellWritten
    <2>. QED  BY <1>3, <1>4, <1>6, <2>1, <2>6, <2>7, <2>8 DEF Coded, p, t
  <1>. QED  BY <1>5, <1>6

(* ...changes the word of that tag and of no other; so does the scan. *)
LEMMA OneWordChanges ==
  ASSUME file \in Files, store \in Stores, UNCHANGED file,
         NEW name \in Names, NEW w \in 0 .. WordModulus - 1,
         store' = [store EXCEPT ![Tag(name).table][Tag(name).address] = w]
  PROVE  /\ store' \in Stores
         /\ Word(name)' = w
         /\ \A other \in Names : other # name => Word(other)' = Word(other)
  <1>1. \A other \in Names : /\ Tag(other).table \in Tables /\ Tag(other).address \in Addresses
                             /\ Tag(other)' = Tag(other)
    BY TagsAre DEF WellFormed, Tag
  <1>2. \A other \in Names : other # name =>
          Tag(other).table # Tag(name).table \/ Tag(other).address # Tag(name).address
    BY TagsAre
  <1>3. store' \in Stores
    BY <1>1 DEF Stores
  <1>4. Word(name)' = w
    BY <1>1 DEF Stores, Word
  <1>5. ASSUME NEW other \in Names, other # name PROVE Word(other)' = Word(other)
    BY <1>1, <1>2, <1>5 DEF Stores, Word
  <1>. QED  BY <1>3, <1>4, <1>5

-----------------------------------------------------------------------------
(* What a step does, word by word.                                         *)
Engaged == EngagedIn(store)

(* What a scan that reads the input now is given. *)
Seen(name) == IF name = "destination" THEN Word(name)
              ELSE IF name = "estop" THEN Engaged ELSE Word(name) # 0

OutputStates == [motor : BOOLEAN, armA : BOOLEAN, armB : BOOLEAN, jam : BOOLEAN,
                 running : BOOLEAN, count : Nat]
InputStates == [preDivert : BOOLEAN, estop : BOOLEAN, destination : 0 .. WordModulus - 1]
States == [prev_preDivert : BOOLEAN, throughput : Nat, jam_latched : {FALSE}]

Typed ==
  /\ TypeOK
  /\ file \in Files
  /\ state \in States
  /\ outputs \in OutputStates /\ outputs.count = state.throughput
  /\ arms \in [armA : BOOLEAN, armB : BOOLEAN]
  /\ {stopped, late, lowRead} \subseteq BOOLEAN
  /\ phase \in {"release", "motor"} => n = 0
  /\ phase \notin Setup => n > 0

(* The place of an input among those the scan reads. *)
Place(name) == CHOOSE i \in 1 .. 3 : InputTags[i] = Tag(name)

LEMMA PlacesAre ==
  ASSUME file \in Files
  PROVE  /\ \A name \in Inputs : /\ Place(name) \in 1 .. 3
                                /\ InputTags[Place(name)] = Tag(name)
         /\ \A i \in 1 .. 3 : \E name \in Inputs : i = Place(name)
         /\ \A a, b \in Inputs : Place(a) = Place(b) => a = b
         /\ Place("preDivert") < Place("destination")
  <1> DEFINE e == Tag("preDivert")
             s == Tag("estop")
             d == Tag("destination")
  <1>1. e.name = "preDivert" /\ s.name = "estop" /\ d.name = "destination"
    BY NamesAre, TagsAre DEF Inputs
  <1>2. InputTags \in {<<e, s, d>>, <<s, e, d>>, <<e, d, s>>}
    BY CellTags
  <1>3. e # s /\ e # d /\ s # d
    BY <1>1
  <1> HIDE DEF e, s, d
  <1> DEFINE At(t) == CHOOSE i \in 1 .. 3 : InputTags[i] = t
  <1>4. \A i \in 1 .. 3 : i = 1 \/ i = 2 \/ i = 3
    OBVIOUS
  <1>9. Place("preDivert") = At(e) /\ Place("estop") = At(s) /\ Place("destination") = At(d)
    BY DEF Place, e, s, d
  <1>10. Tag("preDivert") = e /\ Tag("estop") = s /\ Tag("destination") = d
    BY DEF e, s, d
  <1>5. CASE InputTags = <<e, s, d>>
    <2>1. InputTags[1] = e /\ InputTags[2] = s /\ InputTags[3] = d
      BY <1>5
    <2>2. At(e) = 1 /\ At(s) = 2 /\ At(d) = 3
      BY <1>3, <1>4, <2>1
    <2> HIDE DEF At
    <2>. QED  BY <1>4, <1>9, <1>10, <2>1, <2>2 DEF Inputs
  <1>6. CASE InputTags = <<s, e, d>>
    <2>1. InputTags[1] = s /\ InputTags[2] = e /\ InputTags[3] = d
      BY <1>6
    <2>2. At(s) = 1 /\ At(e) = 2 /\ At(d) = 3
      BY <1>3, <1>4, <2>1
    <2> HIDE DEF At
    <2>. QED  BY <1>4, <1>9, <1>10, <2>1, <2>2 DEF Inputs
  <1>7. CASE InputTags = <<e, d, s>>
    <2>1. InputTags[1] = e /\ InputTags[2] = d /\ InputTags[3] = s
      BY <1>7
    <2>2. At(e) = 1 /\ At(d) = 2 /\ At(s) = 3
      BY <1>3, <1>4, <2>1
    <2> HIDE DEF At
    <2>. QED  BY <1>4, <1>9, <1>10, <2>1, <2>2 DEF Inputs
  <1>. QED  BY <1>2, <1>5, <1>6, <1>7

(* Nothing but a step that writes changes a word. *)
LEMMA WordsStay ==
  ASSUME UNCHANGED <<file, store>>
  PROVE  /\ \A name \in Names : Word(name)' = Word(name)
         /\ Engaged' = Engaged
         /\ InputTags' = InputTags /\ NIn' = NIn
         /\ \A name : Place(name)' = Place(name)
  BY DEF Word, Engaged, EngagedIn, Tag, InputTags, NIn, Place

LEMMA EngagedIs ==
  Engaged <=> (Word("estop") # 0) # Tag("estop").invert
  BY DEF Engaged, EngagedIn, Word

(* The scan copies an input. *)
LEMMA ReadEffect ==
  ASSUME Typed, ReadInput
  PROVE  /\ pc \in 0 .. 2 /\ pc' = pc + 1
         /\ UNCHANGED <<file, store, lastLow, demo, toggles, stopped, late, hurried>>
         /\ \E name \in Inputs :
              /\ Place(name) = pc + 1
              /\ inputs' = [inputs EXCEPT ![name] = Seen(name)]
         /\ pc + 1 = 3 => /\ outputs' = Outputs(inputs', state)
                          /\ state' = NextState(inputs', state)
         /\ pc + 1 # 3 => UNCHANGED <<outputs, state>>
         /\ held' = IF pc = 0 /\ Engaged /\ held = "no" THEN "scanning" ELSE held
         /\ lowRead' \in BOOLEAN
  <1> DEFINE t == InputTags[pc + 1]
             in == [inputs EXCEPT ![t.name] = PlcRead(store, t)]
  <1>1. pc \in 0 .. 2 /\ NIn = 3
    BY CellTags DEF ReadInput, Typed, TypeOK
  <1>2. PICK name \in Inputs : Place(name) = pc + 1
    BY <1>1, PlacesAre DEF Typed
  <1>3. t = Tag(name) /\ name \in Names
    BY <1>2, PlacesAre, NamesAre DEF Typed
  <1>4. t.name = name
    BY <1>3, TagsAre DEF Typed
  <1>5. PlcRead(store, t) = Seen(name)
    <2>1. /\ Tag("preDivert").type = "bool" /\ Tag("preDivert").invert = FALSE
          /\ Tag("estop").type = "bool" /\ Tag("estop").invert \in BOOLEAN
          /\ Tag("destination").type = "uint16"
      BY CellTags, NamesAre DEF Typed, Inputs
    <2>2. CASE name = "preDivert"
      BY <1>3, <2>1, <2>2 DEF PlcRead, Seen, Word
    <2>3. CASE name = "estop"
      BY <1>3, <2>1, <2>3, EngagedIs DEF PlcRead, Seen, Word, Engaged, EngagedIn
    <2>4. CASE name = "destination"
      BY <1>3, <2>1, <2>4 DEF PlcRead, Seen, Word
    <2>. QED  BY <2>2, <2>3, <2>4 DEF Inputs
  <1>6. /\ inputs' = in
        /\ pc + 1 = NIn => outputs' = Outputs(in, state) /\ state' = NextState(in, state)
        /\ pc + 1 # NIn => UNCHANGED <<outputs, state>>
        /\ lowRead' = (lowRead \/ (t.name = "preDivert" /\ ~in.preDivert))
        /\ pc' = pc + 1
        /\ held' = IF pc = 0 /\ EngagedIn(store) /\ held = "no" THEN "scanning" ELSE held
        /\ UNCHANGED <<file, store, lastLow, demo, toggles, stopped, late, hurried>>
    BY DEF ReadInput
  <1>7. in = [inputs EXCEPT ![name] = Seen(name)]
    BY <1>4, <1>5
  <1> HIDE DEF t, in
  <1>. QED  BY <1>1, <1>2, <1>6, <1>7 DEF Engaged

(* The scan writes an output. *)
Shown(name) == IF name = "count" THEN outputs.count % WordModulus ELSE Bit(outputs[name])

LEMMA OutputEffect ==
  ASSUME Typed, WriteOutput
  PROVE  /\ pc \in 3 .. 8 /\ pc' = pc + 1
         /\ UNCHANGED <<file, inputs, outputs, state, lastLow, demo, toggles,
                        held, lowRead, stopped, late, hurried>>
         /\ store' \in Stores
         /\ \E name \in Bools \cup {"count"} :
              /\ name = OutputOrder[pc - 2]
              /\ Word(name)' = Shown(name)
              /\ \A other \in Names : other # name => Word(other)' = Word(other)
  <1>1. pc \in 3 .. 8 /\ NIn = 3 /\ NOut = 6
    BY CellTags, NamesAre DEF WriteOutput, Typed, TypeOK
  <1>2. PICK name \in Bools \cup {"count"} : name = OutputOrder[pc - 2]
    BY <1>1, NamesAre
  <1> DEFINE t == Tag(name)
  <1>3. /\ store' = PlcWrite(store, t, outputs[name])
        /\ UNCHANGED file
    <2>1. pc - NIn + 1 = pc - 2
      BY <1>1
    <2>. QED  BY <1>2, <2>1 DEF WriteOutput, OutputAt
  <1>4. t.type = (IF name = "count" THEN "uint16" ELSE "bool") /\ t.invert = FALSE
    <2>1. name # "estop" /\ name \in Names
      BY NamesAre DEF Bools
    <2>2. t.invert = FALSE
      BY <2>1, CellTags DEF Typed
    <2>3. CASE name = "count"
      BY <2>2, <2>3, CellTags DEF Typed
    <2>4. CASE name # "count"
      BY <2>2, <2>4, CellTags DEF Typed
    <2>. QED  BY <2>3, <2>4
  <1>5. name # "count" => outputs[name] \in BOOLEAN
    BY DEF Typed, OutputStates, Bools
  <1>6. store' = [store EXCEPT ![t.table][t.address] = Shown(name)]
    BY <1>3, <1>4, <1>5 DEF PlcWrite, Shown, Bit
  <1>7. Shown(name) \in 0 .. WordModulus - 1
    BY StoreAssumption DEF Shown, Bit, Typed, OutputStates
  <1>8. /\ store' \in Stores /\ Word(name)' = Shown(name)
        /\ \A other \in Names : other # name => Word(other)' = Word(other)
    <2>1. file \in Files /\ store \in Stores /\ name \in Names
      BY NamesAre DEF Typed, TypeOK
    <2>2. store' = [store EXCEPT ![Tag(name).table][Tag(name).address] = Shown(name)]
      BY <1>6
    <2> HIDE DEF t
    <2>3. \A w : w \in 0 .. WordModulus - 1 /\ w = Shown(name) =>
            /\ store' \in Stores /\ Word(name)' = w
            /\ \A other \in Names : other # name => Word(other)' = Word(other)
      BY <1>3, <2>1, <2>2, OneWordChanges
    <2>. QED  BY <1>7, <2>3
  <1>. QED  BY <1>1, <1>2, <1>8 DEF WriteOutput

(* A master writes an input. *)
LEMMA InputEffect ==
  ASSUME Typed, NEW name \in Inputs, NEW v \in Values(name), NEW p,
         p = WriteRequests(Tag(name), v)[1], store' = Written(store, p), UNCHANGED file
  PROVE  /\ store' \in Stores
         /\ Word(name)' = Coded(name, v)
         /\ \A other \in Names : other # name => Word(other)' = Word(other)
         /\ name # "estop" => Engaged' = Engaged
  <1>1. name \in Names /\ store \in Stores
    BY NamesAre DEF Typed, TypeOK, Stores
  <1>2. /\ Coded(name, v) \in 0 .. WordModulus - 1
        /\ store' = [store EXCEPT ![Tag(name).table][Tag(name).address] = Coded(name, v)]
    BY <1>1, RequestWrites DEF Typed
  <1>3. /\ store' \in Stores /\ Word(name)' = Coded(name, v)
        /\ \A other \in Names : other # name => Word(other)' = Word(other)
    BY <1>1, <1>2, OneWordChanges DEF Typed
  <1>4. name # "estop" => Engaged' = Engaged
    <2>1. "estop" \in Names /\ Tag("estop")' = Tag("estop")
      BY NamesAre DEF Inputs, Tag
    <2>2. Engaged' <=> (Word("estop")' # 0) # Tag("estop")'.invert
      BY DEF Engaged, EngagedIn, Word
    <2>3. Engaged \in BOOLEAN /\ Engaged' \in BOOLEAN
      BY DEF Engaged, EngagedIn
    <2>. QED  BY <1>3, <2>1, <2>2, <2>3, EngagedIs
  <1>. QED  BY <1>3, <1>4

LEMMA WritesEffect ==
  ASSUME Typed, NEW name \in Inputs, NEW v \in Values(name), NEW next, Writes(name, v, next)
  PROVE  /\ phase' = next
         /\ store' \in Stores
         /\ Word(name)' = Coded(name, v)
         /\ \A other \in Names : other # name => Word(other)' = Word(other)
         /\ name # "estop" => Engaged' = Engaged
         /\ held' = IF Engaged' THEN held ELSE "no"
         /\ stopped' = (stopped \/ (phase' \notin Setup /\ Engaged'))
         /\ UNCHANGED <<file, plc, arms, toggles, late>>
  <1>1. MayWrite(Tag(name))
    BY RequestWrites DEF Typed, TypeOK, Stores
  <1>2. /\ store' = Written(store, WriteRequests(Tag(name), v)[1])
        /\ phase' = next
        /\ held' = IF EngagedIn(store') THEN held ELSE "no"
        /\ stopped' = (stopped \/ (phase' \notin Setup /\ EngagedIn(store')))
        /\ UNCHANGED <<file, plc, arms, toggles, late>>
    BY <1>1 DEF Writes
  <1>3. Engaged' <=> EngagedIn(store')
    BY <1>2 DEF Engaged, EngagedIn, Tag
  <1>4. /\ store' \in Stores
        /\ Word(name)' = Coded(name, v)
        /\ \A other \in Names : other # name => Word(other)' = Word(other)
        /\ name # "estop" => Engaged' = Engaged
    BY <1>2, InputEffect
  <1>. QED  BY <1>2, <1>3, <1>4

-----------------------------------------------------------------------------
(* The actions of the masters, in terms of words.                          *)
LEMMA FileStays ==
  ASSUME UNCHANGED file
  PROVE  /\ InputTags' = InputTags /\ NIn' = NIn /\ NOut' = NOut
         /\ \A name : Tag(name)' = Tag(name)
  BY DEF InputTags, NIn, NOut, Tag

OutputWords == \A name \in Bools \cup {"count"} : Word(name)' = Word(name)
MasterStep ==
  /\ UNCHANGED <<file, pc, inputs, outputs, state, lastLow>>
  /\ store' \in Stores
  /\ OutputWords

LEMMA InitializeEffect ==
  ASSUME Typed, Initialize
  PROVE  /\ MasterStep
         /\ phase = "initialize" /\ phase' = IF n = 2 THEN "release" ELSE "initialize"
         /\ n' = IF n = 2 THEN 0 ELSE n + 1
         /\ Word("preDivert")' \in {0, Word("preDivert")}
         /\ held' = IF Engaged' THEN held ELSE "no"
         /\ UNCHANGED <<arms, toggles, late, lowRead, stopped>>
  <1>1. n \in 0 .. 2 /\ phase = "initialize" /\ NIn = 3
    BY CellTags DEF Initialize, Typed, TypeOK
  <1>2. PICK name \in Inputs : n + 1 = Place(name)
    BY <1>1, PlacesAre DEF Typed
  <1>3. InputTags[n + 1] = Tag(name) /\ Tag(name).name = name
    BY <1>2, PlacesAre, TagsAre, NamesAre DEF Typed
  <1> DEFINE v == Tag(name).initial
             next == IF n = 2 THEN "release" ELSE "initialize"
  <1>4. v \in Values(name)
    BY CellTags DEF Typed, Inputs, Values
  <1>5. Writes(name, v, next)
    BY <1>1, <1>3 DEF Initialize
  <1>6. /\ n' = IF n = 2 THEN 0 ELSE n + 1
        /\ UNCHANGED lowRead
    BY <1>1 DEF Initialize
  <1>7. name = "preDivert" => v = FALSE
    BY CellTags DEF Typed
  <1> HIDE DEF v, next
  <1>8. /\ phase' = next /\ store' \in Stores
        /\ Word(name)' = Coded(name, v)
        /\ \A other \in Names : other # name => Word(other)' = Word(other)
        /\ held' = IF Engaged' THEN held ELSE "no"
        /\ stopped' = (stopped \/ (phase' \notin Setup /\ Engaged'))
        /\ UNCHANGED <<file, plc, arms, toggles, late>>
    BY <1>4, <1>5, WritesEffect
  <1>9. stopped' = stopped
    BY <1>8 DEF Setup, next, Typed
  <1>10. OutputWords
    BY <1>8, NamesAre DEF OutputWords, Inputs, Bools
  <1>11. Word("preDivert")' \in {0, Word("preDivert")}
    <2>1. CASE name = "preDivert"
      BY <1>7, <1>8, <2>1 DEF Coded, Bit
    <2>2. CASE name # "preDivert"
      BY <1>8, <2>2, NamesAre DEF Inputs
    <2>. QED  BY <2>1, <2>2
  <1>. QED  BY <1>1, <1>6, <1>8, <1>9, <1>10, <1>11 DEF MasterStep, plc, next

LEMMA ReleaseEffect ==
  ASSUME Typed, Release
  PROVE  /\ MasterStep
         /\ phase = "release" /\ phase' = "motor" /\ UNCHANGED n
         /\ Word("preDivert")' = Word("preDivert")
         /\ held' = IF Engaged' THEN held ELSE "no"
         /\ UNCHANGED <<arms, toggles, late, lowRead, stopped>>
  <1>1. /\ phase = "release" /\ Writes("estop", FALSE, "motor") /\ UNCHANGED <<n, lowRead>>
    BY DEF Release
  <1>2. "estop" \in Inputs /\ FALSE \in Values("estop")
    BY DEF Inputs, Values
  <1>3. /\ phase' = "motor" /\ store' \in Stores
        /\ \A other \in Names : other # "estop" => Word(other)' = Word(other)
        /\ held' = IF Engaged' THEN held ELSE "no"
        /\ stopped' = (stopped \/ (phase' \notin Setup /\ Engaged'))
        /\ UNCHANGED <<file, plc, arms, toggles, late>>
    BY <1>1, <1>2, WritesEffect
  <1>4. stopped' = stopped
    BY <1>3 DEF Setup, Typed
  <1>5. OutputWords /\ Word("preDivert")' = Word("preDivert")
    BY <1>3, NamesAre DEF OutputWords, Inputs, Bools
  <1>. QED  BY <1>1, <1>3, <1>4, <1>5 DEF MasterStep, plc

LEMMA PresentEffect ==
  ASSUME Typed, Present
  PROVE  /\ MasterStep
         /\ UNCHANGED <<n, arms, toggles, late, lowRead>>
         /\ held' = IF Engaged' THEN held ELSE "no"
         /\ Engaged' = Engaged /\ stopped' = (stopped \/ Engaged)
         /\ \/ /\ phase = "destination" /\ phase' = "sensor"
               /\ Word("preDivert")' = Word("preDivert")
               /\ Word("destination")' = Plan[n]
            \/ /\ phase = "sensor" /\ phase' = "count"
               /\ Word("preDivert")' = 1
               /\ Word("destination")' = Word("destination")
  <1>1. n \in 1 .. Len(Plan) /\ Plan[n] \in {1, 2, 3}
    BY CellAssumption DEF Present, Typed, TypeOK, Setup
  <1>2. CASE phase = "destination"
    <2>1. /\ Writes("destination", Plan[n], "sensor") /\ UNCHANGED <<n, lowRead>>
      BY <1>2 DEF Present, Presents
    <2>2. "destination" \in Inputs /\ Plan[n] \in Values("destination")
      BY <1>1, RegistryAssumption, StoreAssumption DEF Inputs, Values
    <2>3. /\ phase' = "sensor" /\ store' \in Stores
          /\ Word("destination")' = Coded("destination", Plan[n])
          /\ \A other \in Names : other # "destination" => Word(other)' = Word(other)
          /\ Engaged' = Engaged
          /\ held' = IF Engaged' THEN held ELSE "no"
          /\ stopped' = (stopped \/ (phase' \notin Setup /\ Engaged'))
          /\ UNCHANGED <<file, plc, arms, toggles, late>>
      BY <2>1, <2>2, WritesEffect
    <2>4. OutputWords /\ Word("preDivert")' = Word("preDivert")
      BY <2>3, NamesAre DEF OutputWords, Inputs, Bools
    <2>. QED  BY <1>2, <2>1, <2>3, <2>4 DEF MasterStep, Coded, plc, Setup
  <1>3. CASE phase = "sensor"
    <2>1. /\ Writes("preDivert", TRUE, "count") /\ UNCHANGED <<n, lowRead>>
      BY <1>3 DEF Present, Presents
    <2>2. "preDivert" \in Inputs /\ TRUE \in Values("preDivert")
      BY DEF Inputs, Values
    <2>3. /\ phase' = "count" /\ store' \in Stores
          /\ Word("preDivert")' = Coded("preDivert", TRUE)
          /\ \A other \in Names : other # "preDivert" => Word(other)' = Word(other)
          /\ Engaged' = Engaged
          /\ held' = IF Engaged' THEN held ELSE "no"
          /\ stopped' = (stopped \/ (phase' \notin Setup /\ Engaged'))
          /\ UNCHANGED <<file, plc, arms, toggles, late>>
      BY <2>1, <2>2, WritesEffect
    <2>4. OutputWords /\ Word("destination")' = Word("destination")
      BY <2>3, NamesAre DEF OutputWords, Inputs, Bools
    <2>. QED  BY <1>3, <2>1, <2>3, <2>4 DEF MasterStep, Coded, Bit, plc, Setup
  <1>. QED  BY <1>2, <1>3 DEF Present

LEMMA ClearEffect ==
  ASSUME Typed, Clear
  PROVE  /\ MasterStep
         /\ UNCHANGED <<n, arms, toggles, late>>
         /\ held' = IF Engaged' THEN held ELSE "no"
         /\ Engaged' = Engaged /\ stopped' = (stopped \/ Engaged)
         /\ phase = "clear" /\ phase' = "cleared" /\ lowRead' = FALSE
         /\ Word("preDivert")' = 0
         /\ Word("destination")' = Word("destination")
  <1>1. phase = "clear" /\ Writes("preDivert", FALSE, "cleared") /\ UNCHANGED n /\ lowRead' = FALSE
    BY DEF Clear
  <1>2. "preDivert" \in Inputs /\ FALSE \in Values("preDivert")
    BY DEF Inputs, Values
  <1>3. /\ phase' = "cleared" /\ store' \in Stores
        /\ Word("preDivert")' = Coded("preDivert", FALSE)
        /\ \A other \in Names : other # "preDivert" => Word(other)' = Word(other)
        /\ Engaged' = Engaged
        /\ held' = IF Engaged' THEN held ELSE "no"
        /\ stopped' = (stopped \/ (phase' \notin Setup /\ Engaged'))
        /\ UNCHANGED <<file, plc, arms, toggles, late>>
    BY <1>1, <1>2, WritesEffect
  <1>4. OutputWords /\ Word("destination")' = Word("destination")
    BY <1>3, NamesAre DEF OutputWords, Inputs, Bools
  <1>. QED  BY <1>1, <1>3, <1>4 DEF MasterStep, Coded, Bit, plc, Setup

LEMMA ToggleEffect ==
  ASSUME Typed, Toggle
  PROVE  /\ MasterStep
         /\ UNCHANGED <<phase, n, arms, late, lowRead>>
         /\ toggles < MaxToggles /\ toggles' = toggles + 1
         /\ held' = IF Engaged' THEN held ELSE "no"
         /\ stopped' = (stopped \/ (phase \notin Setup /\ Engaged'))
         /\ Word("preDivert")' = Word("preDivert")
         /\ Word("destination")' = Word("destination")
  <1> DEFINE t == Tag("estop")
             v == ~ReadTag(store, t)
             p == WriteRequests(t, v)[1]
  <1>1. "estop" \in Inputs /\ v \in Values("estop")
    BY DEF Inputs, Values
  <1>2. p = WriteCoil(t.address, Bit(v))
    BY CellTags DEF Typed, WriteRequests
  <1>3. store' = Written(store, p) /\ UNCHANGED file
    BY <1>2 DEF Toggle
  <1>4. /\ store' \in Stores
        /\ \A other \in Names : other # "estop" => Word(other)' = Word(other)
    BY <1>1, <1>3, InputEffect
  <1>5. Engaged' <=> EngagedIn(store')
    BY <1>3 DEF Engaged, EngagedIn, Tag
  <1>6. /\ UNCHANGED <<plc, demo, late, lowRead>>
        /\ toggles < MaxToggles /\ toggles' = toggles + 1
        /\ held' = IF EngagedIn(store') THEN held ELSE "no"
        /\ stopped' = (stopped \/ (phase \notin Setup /\ EngagedIn(store')))
    BY DEF Toggle
  <1>. QED  BY <1>3, <1>4, <1>5, <1>6, NamesAre DEF MasterStep, OutputWords, Inputs, Bools, plc, demo

(* The steps of the demo that write nothing. *)
Waits == AwaitMotor \/ AwaitCount \/ ReadArm \/ AwaitCleared \/ TimedOut

LEMMA WaitsEffect ==
  ASSUME Typed, Waits
  PROVE  /\ MasterStep
         /\ \A name \in Names : Word(name)' = Word(name)
         /\ Engaged' = Engaged
         /\ UNCHANGED <<toggles, held>>
         /\ \/ phase = "motor" /\ phase' = "destination" /\ n' = 1 /\ stopped' = Engaged
            \/ phase = "count" /\ phase' = "armA" /\ UNCHANGED <<n, stopped>>
            \/ phase = "armA" /\ phase' = "armB" /\ UNCHANGED <<n, stopped>>
            \/ phase = "armB" /\ phase' = "clear" /\ UNCHANGED <<n, stopped>>
            \/ /\ phase = "cleared" /\ UNCHANGED stopped
               /\ \/ n < Len(Plan) /\ phase' = "destination" /\ n' = n + 1
                  \/ n >= Len(Plan) /\ phase' = "finished" /\ n' = n
         /\ arms' = IF phase \in {"armA", "armB"} THEN [arms EXCEPT ![phase] = Gets(phase)]
                                                  ELSE arms
         /\ late' \in BOOLEAN
         /\ late => late'
         /\ phase = "count" /\ ~late' => Gets("count") = n
         /\ UNCHANGED lowRead
  <1>1. UNCHANGED <<file, store, plc, toggles, held, lowRead>>
    BY DEF Waits, AwaitMotor, AwaitCount, ReadArm, AwaitCleared, TimedOut, Goes, NextParcel
  <1>2. /\ \A name \in Names : Word(name)' = Word(name)
        /\ Engaged' = Engaged
    BY <1>1, WordsStay
  <1>3. MasterStep
    BY <1>1, <1>2, NamesAre DEF MasterStep, OutputWords, plc, Typed, TypeOK
  <1>4. n \in Nat /\ Len(Plan) \in Nat /\ late \in BOOLEAN
    BY CellAssumption, CellTags DEF Typed, TypeOK
  <1>5. CASE AwaitMotor
    BY <1>1, <1>2, <1>3, <1>4, <1>5 DEF AwaitMotor, Engaged
  <1>6. CASE AwaitCount
    BY <1>1, <1>2, <1>3, <1>4, <1>6 DEF AwaitCount, Goes
  <1>7. CASE ReadArm
    BY <1>1, <1>2, <1>3, <1>4, <1>7 DEF ReadArm, Goes
  <1>8. CASE AwaitCleared
    BY <1>1, <1>2, <1>3, <1>4, <1>8 DEF AwaitCleared, NextParcel, Goes
  <1>9. CASE TimedOut
    BY <1>1, <1>2, <1>3, <1>4, <1>9 DEF TimedOut, NextParcel, Goes, Engaged
  <1>. QED  BY <1>5, <1>6, <1>7, <1>8, <1>9 DEF Waits

-----------------------------------------------------------------------------
(* The invariants.                                                         *)
EyeUp == {"count", "armA", "armB", "clear"}

(* What the masters have left in the image; the count shown never runs     *)
(* ahead of the count kept.                                                *)
WordInv ==
  /\ Word("preDivert") = IF phase \in EyeUp THEN 1 ELSE 0
  /\ phase \in EyeUp \cup {"sensor"} => Word("destination") = Plan[n]
  /\ phase \notin Setup /\ ~stopped => ~Engaged
  /\ Word("count") <= state.throughput

(* A parcel before the eye is counted, or about to be counted by the scan  *)
(* under way (Due), or not yet seen (Coming), one of the three.            *)
Due == inputs.preDivert /\ ~state.prev_preDivert
Coming == Word("preDivert") = 1 /\ ~inputs.preDivert
Raised == IF phase \in {"destination", "sensor"} THEN n - 1 ELSE n
CountInv ==
  /\ pc < Place("preDivert") \/ pc >= 3 => state.prev_preDivert = inputs.preDivert
  /\ phase \in Setup => /\ state.throughput = 0
                        /\ ~inputs.preDivert /\ ~state.prev_preDivert
  /\ phase \notin Setup => state.throughput + Bit(Due) + Bit(Coming) <= Raised

(* A demo that never gave up waiting is with the scan.                     *)
KeepsUp ==
  phase \notin Setup /\ ~late =>
    /\ phase \in {"destination", "sensor", "count"} => state.throughput >= n - 1
    /\ phase \notin {"destination", "sensor", "count"} => state.throughput = n
    /\ phase \in {"armA", "armB", "clear"} => Word("count") = n

(* The way of an output through the scan: computed with the count, written *)
(* at its place.                                                           *)
ArmOf(p) == CASE p = 1 -> "armA" [] p = 2 -> "armB" [] OTHER -> "none"
ArmPlace == [armA |-> 2, armB |-> 3]
RouteInv ==
  phase \in EyeUp /\ ~late /\ ~stopped =>
    /\ Due /\ pc >= Place("destination") => inputs.destination = Plan[n]
    /\ state.throughput = n =>
         /\ inputs.preDivert /\ ~inputs.estop /\ inputs.destination = Plan[n]
         /\ \A arm \in {"armA", "armB"} :
              /\ outputs[arm] <=> arm = ArmOf(Plan[n])
              /\ Word("count") = n \/ pc >= 3 + ArmPlace[arm] =>
                   Word(arm) = Bit(arm = ArmOf(Plan[n]))
    /\ phase \in {"armB", "clear"} => (arms.armA <=> "armA" = ArmOf(Plan[n]))
    /\ phase = "clear" => (arms.armB <=> "armB" = ArmOf(Plan[n]))

(* An E-stop engaged since the scan under way began has been seen if its   *)
(* turn has come, and what was written since is off.                       *)
Off == {"motor", "armA", "armB", "running"}
WrittenSoFar(name) == \E i \in 1 .. 6 : i <= pc - 3 /\ OutputOrder[i] = name
HeldInv ==
  held # "no" =>
    /\ Engaged
    /\ held = "done" \/ pc >= Place("estop") => inputs.estop
    /\ held = "done" \/ pc >= 3 => \A name \in Off : ~outputs[name]
    /\ \A name \in Off : held = "done" \/ WrittenSoFar(name) => Word(name) = 0

-----------------------------------------------------------------------------
LEMMA TypedInit == Init => Typed
  <1> SUFFICES ASSUME Init PROVE Typed
    OBVIOUS
  <1>1. file \in Files /\ file \in DOMAIN Registries /\ NIn = 3 /\ NOut = 6
    BY CellTags, NamesAre DEF Init, Files
  <1>2. store \in Stores
    BY StoreAssumption DEF Init, Stores, EmptyStore, Addresses, Tables
  <1>3. inputs \in InputStates
    BY StoreAssumption DEF Init, InputStates
  <1>4. state \in States /\ state.throughput = 0
    BY DEF Init, States, InitialState
  <1>5. outputs \in OutputStates /\ outputs.count = state.throughput
    BY DEF Init, OutputStates, Outputs, NextState, Counts, Running, InitialState
  <1>6. /\ pc \in 0 .. NIn + NOut /\ n \in 0 .. NIn - 1
        /\ toggles \in 0 .. MaxToggles
    BY <1>1, CellAssumption DEF Init
  <1>7. /\ phase = "initialize" /\ held = "no" /\ arms \in [armA : BOOLEAN, armB : BOOLEAN]
        /\ {stopped, late, lowRead} \subseteq BOOLEAN
    BY DEF Init
  <1>8. TypeOK
    BY <1>1, <1>2, <1>3, <1>4, <1>6, <1>7 DEF TypeOK, Setup, InputStates, States
  <1>. QED  BY <1>1, <1>4, <1>5, <1>7, <1>8 DEF Typed, Setup

(* The scan computes the states it may be in. *)
LEMMA ScanComputes ==
  ASSUME NEW in \in InputStates, NEW s \in States
  PROVE  /\ NextState(in, s) \in States
         /\ Outputs(in, s) \in OutputStates
         /\ Outputs(in, s).count = NextState(in, s).throughput
         /\ NextState(in, s).prev_preDivert = in.preDivert
         /\ NextState(in, s).throughput = IF ~in.estop /\ in.preDivert /\ ~s.prev_preDivert
                                          THEN s.throughput + 1 ELSE s.throughput
         /\ Outputs(in, s).motor = ~in.estop /\ Outputs(in, s).running = ~in.estop
         /\ Outputs(in, s).armA = (~in.estop /\ in.preDivert /\ in.destination = 1)
         /\ Outputs(in, s).armB = (~in.estop /\ in.preDivert /\ in.destination = 2)
  <1>1. /\ in.preDivert \in BOOLEAN /\ in.estop \in BOOLEAN
        /\ s.prev_preDivert \in BOOLEAN /\ s.throughput \in Nat /\ s.jam_latched = FALSE
        /\ s = [prev_preDivert |-> s.prev_preDivert, throughput |-> s.throughput,
                jam_latched |-> FALSE]
    BY DEF InputStates, States
  <1>2. Running(in, s) = ~in.estop
    BY <1>1 DEF Running
  <1>3. Counts(in, s) = (~in.estop /\ in.preDivert /\ ~s.prev_preDivert)
    BY <1>2 DEF Counts
  <1> DEFINE sum == IF ~in.estop /\ in.preDivert /\ ~s.prev_preDivert
                    THEN s.throughput + 1 ELSE s.throughput
  <1>4. sum \in Nat
    BY <1>1
  <1>5. NextState(in, s) = [s EXCEPT !.prev_preDivert = in.preDivert, !.throughput = sum]
    BY <1>3 DEF NextState
  <1> HIDE DEF sum
  <1>6. /\ NextState(in, s) \in States
        /\ NextState(in, s).prev_preDivert = in.preDivert
        /\ NextState(in, s).throughput = sum
    BY <1>1, <1>4, <1>5 DEF States
  <1>7. /\ Running(in, s) \in BOOLEAN
        /\ (Running(in, s) /\ in.preDivert /\ in.destination = 1) \in BOOLEAN
        /\ (Running(in, s) /\ in.preDivert /\ in.destination = 2) \in BOOLEAN
    BY <1>2
  <1>8. Outputs(in, s) \in OutputStates
    BY <1>1, <1>4, <1>6, <1>7 DEF Outputs, OutputStates
  <1>9. /\ Outputs(in, s).count = sum
        /\ Outputs(in, s).motor = Running(in, s) /\ Outputs(in, s).running = Running(in, s)
        /\ Outputs(in, s).armA = (Running(in, s) /\ in.preDivert /\ in.destination = 1)
        /\ Outputs(in, s).armB = (Running(in, s) /\ in.preDivert /\ in.destination = 2)
    BY <1>6 DEF Outputs
  <1>. QED  BY <1>2, <1>6, <1>8, <1>9 DEF sum

LEMMA TypedStep == Typed /\ [Next]_vars => Typed'
  <1> SUFFICES ASSUME Typed, [Next]_vars PROVE Typed'
    OBVIOUS
  <1>1. /\ file \in Files /\ file \in DOMAIN Registries /\ NIn = 3 /\ NOut = 6
        /\ n \in Nat /\ Len(Plan) \in Nat /\ Len(Plan) > 0 /\ pc \in 0 .. 9
    BY CellAssumption, CellTags, NamesAre DEF Typed, TypeOK
  <1>2. file' = file /\ NIn' = NIn /\ NOut' = NOut /\ InputTags' = InputTags
    <2>1. UNCHANGED file
      BY DEF Next, vars, Scan, ReadInput, WriteOutput, Publish, Demo, Initialize, Release,
             Writes, AwaitMotor, Present, AwaitCount, ReadArm, Clear, AwaitCleared,
             TimedOut, NextParcel, Goes, Toggle
    <2>. QED  BY <2>1, FileStays
  <1>3. CASE ReadInput
    <2>1. PICK name \in Inputs : inputs' = [inputs EXCEPT ![name] = Seen(name)]
      BY <1>3, ReadEffect
    <2>2. Seen(name) \in IF name = "destination" THEN 0 .. WordModulus - 1 ELSE BOOLEAN
      <3>1. name = "destination" => Word(name) \in 0 .. WordModulus - 1
        BY TagsAre, NamesAre DEF Typed, TypeOK, Stores, Word, WellFormed, Inputs
      <3>. QED  BY <3>1 DEF Seen, Engaged, EngagedIn
    <2>3. inputs' \in InputStates
      BY <2>1, <2>2 DEF Typed, TypeOK, InputStates, Inputs
    <2>4. /\ pc' = pc + 1 /\ pc \in 0 .. 2 /\ lowRead' \in BOOLEAN
          /\ UNCHANGED <<file, store, lastLow, demo, toggles, stopped, late, hurried>>
          /\ held' \in {"no", "scanning", "done"}
      BY <1>3, ReadEffect DEF Typed, TypeOK
    <2>5. state' \in States /\ outputs' \in OutputStates /\ outputs'.count = state'.throughput
      <3>1. CASE pc + 1 = 3
        <4>1. outputs' = Outputs(inputs', state) /\ state' = NextState(inputs', state)
          BY <1>3, <3>1, ReadEffect
        <4>2. state \in States
          BY DEF Typed
        <4>. QED  BY <2>3, <4>1, <4>2, ScanComputes
      <3>2. CASE pc + 1 # 3
        BY <1>3, <3>2, ReadEffect DEF Typed
      <3>. QED  BY <3>1, <3>2
    <2>6. /\ pc' \in 0 .. 9
          /\ UNCHANGED <<file, store, phase, n, arms, toggles, stopped, late>>
      BY <2>4 DEF demo
    <2>7. state'.prev_preDivert \in BOOLEAN /\ state'.throughput \in Nat
      BY <2>5 DEF States
    <2>8. TypeOK'
      BY <1>1, <1>2, <2>3, <2>4, <2>6, <2>7 DEF Typed, TypeOK, InputStates
    <2>. QED  BY <1>1, <2>4, <2>5, <2>6, <2>8 DEF Typed
  <1>4. CASE WriteOutput
    <2>1. /\ pc \in 3 .. 8 /\ pc' = pc + 1 /\ store' \in Stores
          /\ UNCHANGED <<file, inputs, outputs, state, lastLow, demo, toggles,
                         held, lowRead, stopped, late, hurried>>
      BY <1>4, OutputEffect
    <2>. QED  BY <1>1, <1>2, <2>1 DEF Typed, TypeOK, demo
  <1>5. CASE Publish
    BY <1>1, <1>2, <1>5 DEF Publish, Typed, TypeOK, demo
  <1>6. CASE Initialize
    BY <1>1, <1>2, <1>6, InitializeEffect DEF MasterStep, Typed, TypeOK, Setup
  <1>7. CASE Release
    BY <1>1, <1>2, <1>7, ReleaseEffect DEF MasterStep, Typed, TypeOK, Setup
  <1>8. CASE Present
    <2>1. Engaged \in BOOLEAN
      BY DEF Engaged, EngagedIn
    <2>. QED  BY <1>1, <1>2, <1>8, <2>1, PresentEffect DEF MasterStep, Typed, TypeOK, Setup
  <1>9. CASE Clear
    <2>1. Engaged \in BOOLEAN
      BY DEF Engaged, EngagedIn
    <2>. QED  BY <1>1, <1>2, <1>9, <2>1, ClearEffect DEF MasterStep, Typed, TypeOK, Setup
  <1>10. CASE Toggle
    <2>1. Engaged' \in BOOLEAN
      BY DEF Engaged, EngagedIn
    <2>2. toggles' \in 0 .. MaxToggles
      BY <1>10, ToggleEffect, CellAssumption DEF Typed, TypeOK
    <2>. QED  BY <1>1, <1>2, <1>10, <2>1, <2>2, ToggleEffect DEF MasterStep, Typed, TypeOK, Setup
  <1>11. CASE Waits
    <2>1. Engaged \in BOOLEAN
      BY DEF Engaged, EngagedIn
    <2>2. arms' \in [armA : BOOLEAN, armB : BOOLEAN]
      <3>1. \A name \in {"armA", "armB"} : Gets(name) \in BOOLEAN
        BY <1>1, GetsTheWord, NamesAre, CellTags DEF Typed, TypeOK, Bools
      <3>. QED  BY <1>11, <3>1, WaitsEffect DEF Typed
    <2>3. /\ n' \in 1 .. Len(Plan) /\ phase' \notin Setup
          /\ phase' \in {"destination", "sensor", "count", "armA", "armB",
                           "clear", "cleared", "finished"}
      <3>1. phase \notin Setup => n \in 1 .. Len(Plan)
        BY <1>1 DEF Typed, TypeOK, Setup
      <3>2. \/ phase = "motor" /\ phase' = "destination" /\ n' = 1
            \/ phase = "count" /\ phase' = "armA" /\ n' = n
            \/ phase = "armA" /\ phase' = "armB" /\ n' = n
            \/ phase = "armB" /\ phase' = "clear" /\ n' = n
            \/ /\ phase = "cleared"
               /\ \/ n < Len(Plan) /\ phase' = "destination" /\ n' = n + 1
                  \/ phase' = "finished" /\ n' = n
        BY <1>11, WaitsEffect
      <3>. QED  BY <1>1, <3>1, <3>2 DEF Setup
    <2>4. late' \in BOOLEAN /\ stopped' \in BOOLEAN
      BY <1>11, <2>1, WaitsEffect DEF Typed
    <2>5. MasterStep /\ UNCHANGED <<toggles, held, lowRead>>
      BY <1>11, WaitsEffect
    <2>. QED  BY <1>1, <1>2, <2>2, <2>3, <2>4, <2>5 DEF MasterStep, Typed, TypeOK, Setup
  <1>12. CASE UNCHANGED vars
    BY <1>1, <1>2, <1>12 DEF vars, plc, demo, Typed, TypeOK
  <1>. QED
    BY <1>3, <1>4, <1>5, <1>6, <1>7, <1>8, <1>9, <1>10, <1>11, <1>12
       DEF Next, Scan, Demo, Waits

(* Every variable keeps its type, and a valid registry never makes the     *)
(* demo write a table that is not a master's ("raised").                   *)
THEOREM TypeCorrect == Spec => []TypeOK
  <1>1. Typed => TypeOK
    BY DEF Typed
  <1>. QED  BY <1>1, TypedInit, TypedStep, PTL DEF Spec

LEMMA TypedInvariance == Spec => []Typed
  BY TypedInit, TypedStep, PTL DEF Spec

-----------------------------------------------------------------------------
LEMMA PlacesStay ==
  ASSUME UNCHANGED file
  PROVE  \A name : Place(name)' = Place(name)
  BY FileStays DEF Place

LEMMA HeldInit == Init => HeldInv
  BY DEF Init, HeldInv

LEMMA HeldByMasters ==
  ASSUME Typed, HeldInv, MasterStep,
         \/ held' = IF Engaged' THEN held ELSE "no"
         \/ held' = held /\ Engaged' = Engaged
  PROVE  HeldInv'
  <1> SUFFICES ASSUME held' # "no" PROVE HeldInv'
    BY DEF HeldInv
  <1>1. held' = held /\ held # "no" /\ Engaged'
    BY DEF HeldInv
  <1>2. /\ UNCHANGED <<pc, inputs, outputs>> /\ Place("estop")' = Place("estop")
        /\ \A name \in Off : Word(name)' = Word(name)
    BY PlacesStay DEF MasterStep, OutputWords, Off, Bools
  <1>3. \A name \in Off : WrittenSoFar(name)' <=> WrittenSoFar(name)
    BY <1>2 DEF WrittenSoFar
  <1>. QED  BY <1>1, <1>2, <1>3 DEF HeldInv

LEMMA HeldStep == Typed /\ HeldInv /\ [Next]_vars => HeldInv'
  <1> SUFFICES ASSUME Typed, HeldInv, [Next]_vars PROVE HeldInv'
    OBVIOUS
  <1>1. CASE ReadInput
    <2> SUFFICES ASSUME held' # "no" PROVE HeldInv'
      BY DEF HeldInv
    <2>1. PICK name \in Inputs : /\ Place(name) = pc + 1
                                 /\ inputs' = [inputs EXCEPT ![name] = Seen(name)]
      BY <1>1, ReadEffect
    <2>2. /\ pc \in 0 .. 2 /\ pc' = pc + 1 /\ UNCHANGED <<file, store>>
          /\ held' = IF pc = 0 /\ Engaged /\ held = "no" THEN "scanning" ELSE held
          /\ pc + 1 = 3 => outputs' = Outputs(inputs', state)
          /\ pc + 1 # 3 => outputs' = outputs
      BY <1>1, ReadEffect
    <2>3. Engaged /\ Engaged' /\ (held = "no" => pc = 0) /\ (held' = "done" => held = "done")
      BY <2>2, WordsStay DEF HeldInv
    <2>4. Place("estop")' = Place("estop") /\ Place("estop") \in 1 .. 3
      BY <2>2, PlacesStay, PlacesAre DEF Typed, Inputs
    <2>5. inputs' \in InputStates
      BY TypedStep DEF Typed, TypeOK, InputStates
    <2>6. held' = "done" \/ pc + 1 >= Place("estop") => inputs'.estop
      <3>1. CASE name = "estop"
        <4>1. Seen(name) = Engaged
          BY <3>1 DEF Seen
        <4>. QED  BY <2>1, <2>3, <3>1, <4>1 DEF Typed, TypeOK
      <3>2. CASE name # "estop"
        <4>1. pc + 1 # Place("estop")
          BY <2>1, <3>2, PlacesAre DEF Typed, Inputs
        <4>2. inputs'.estop = inputs.estop
          BY <2>1, <3>2 DEF Typed, TypeOK, Inputs
        <4>3. pc + 1 >= Place("estop") => pc >= Place("estop")
          BY <2>2, <2>4, <4>1
        <4>4. held = "no" => ~(pc >= Place("estop"))
          BY <2>3, <2>4
        <4>. QED  BY <2>3, <4>2, <4>3, <4>4 DEF HeldInv
      <3>. QED  BY <3>1, <3>2
    <2>7. held' = "done" \/ pc + 1 >= 3 => \A other \in Off : ~outputs'[other]
      <3>1. CASE pc + 1 = 3
        <4>1. inputs'.estop
          BY <2>4, <2>6, <3>1
        <4>2. outputs' = Outputs(inputs', state) /\ state \in States
          BY <2>2, <3>1 DEF Typed
        <4>. QED  BY <2>5, <4>1, <4>2, ScanComputes DEF Off
      <3>2. CASE pc + 1 # 3
        BY <2>2, <2>3, <3>2 DEF HeldInv
      <3>. QED  BY <3>1, <3>2
    <2>8. \A other \in Off : ~WrittenSoFar(other)'
      BY <2>2 DEF WrittenSoFar
    <2>9. \A other \in Off : held' = "done" => Word(other)' = 0
      BY <2>2, <2>3, WordsStay, NamesAre DEF HeldInv, Off, Bools
    <2>. QED  BY <2>2, <2>3, <2>4, <2>6, <2>7, <2>8, <2>9 DEF HeldInv
  <1>2. CASE WriteOutput
    <2> SUFFICES ASSUME held' # "no" PROVE HeldInv'
      BY DEF HeldInv
    <2>1. /\ pc \in 3 .. 8 /\ pc' = pc + 1 /\ store' \in Stores
          /\ UNCHANGED <<file, inputs, outputs, held>>
      BY <1>2, OutputEffect
    <2>2. PICK name \in Bools \cup {"count"} :
            /\ name = OutputOrder[pc - 2]
            /\ Word(name)' = Shown(name)
            /\ \A other \in Names : other # name => Word(other)' = Word(other)
      BY <1>2, OutputEffect
    <2>3. Engaged' = Engaged
      <3>1. Word("estop")' = Word("estop") /\ Tag("estop")' = Tag("estop")
        BY <2>1, <2>2, NamesAre, FileStays DEF Inputs, Bools
      <3>2. Engaged' <=> (Word("estop")' # 0) # Tag("estop")'.invert
        BY DEF Engaged, EngagedIn, Word
      <3>3. Engaged \in BOOLEAN /\ Engaged' \in BOOLEAN
        BY DEF Engaged, EngagedIn
      <3>. QED  BY <3>1, <3>2, <3>3, EngagedIs
    <2>4. Place("estop")' = Place("estop") /\ Place("estop") \in 1 .. 3
      BY <2>1, PlacesStay, PlacesAre DEF Typed, Inputs
    <2>5. held # "no" /\ inputs.estop /\ \A other \in Off : ~outputs[other]
      BY <2>1, <2>4 DEF HeldInv
    <2>6. ASSUME NEW other \in Off, held' = "done" \/ WrittenSoFar(other)'
          PROVE  Word(other)' = 0
      <3>1. CASE other = name
        BY <2>2, <2>5, <3>1 DEF Shown, Bit, Off
      <3>2. CASE other # name
        <4>1. Word(other)' = Word(other)
          BY <2>2, <3>2, NamesAre DEF Off, Bools
        <4>2. WrittenSoFar(other)' => WrittenSoFar(other)
          BY <2>1, <2>2, <3>2 DEF WrittenSoFar
        <4>. QED  BY <2>1, <2>5, <2>6, <4>1, <4>2 DEF HeldInv
      <3>. QED  BY <3>1, <3>2
    <2>. QED  BY <2>1, <2>3, <2>4, <2>5, <2>6 DEF HeldInv
  <1>3. CASE Publish
    <2> SUFFICES ASSUME held' # "no" PROVE HeldInv'
      BY DEF HeldInv
    <2>1. /\ pc = 9 /\ pc' = 0 /\ UNCHANGED <<file, store, inputs, outputs>>
          /\ held # "no"
      BY <1>3, CellTags, NamesAre DEF Publish, Typed
    <2>2. Place("estop") \in 1 .. 3
      BY PlacesAre DEF Typed, Inputs
    <2>3. Engaged' /\ inputs.estop /\ \A other \in Off : ~outputs[other]
      BY <2>1, <2>2, WordsStay DEF HeldInv
    <2>4. \A other \in Off : WrittenSoFar(other)
      BY <2>1, NamesAre DEF WrittenSoFar, Off, Bools
    <2>5. \A other \in Off : Word(other)' = 0
      BY <2>1, <2>4, WordsStay, NamesAre DEF HeldInv, Off, Bools
    <2>. QED  BY <2>1, <2>3, <2>5 DEF HeldInv
  <1>4. CASE Initialize
    BY <1>4, InitializeEffect, HeldByMasters
  <1>5. CASE Release
    BY <1>5, ReleaseEffect, HeldByMasters
  <1>6. CASE Present
    BY <1>6, PresentEffect, HeldByMasters
  <1>7. CASE Clear
    BY <1>7, ClearEffect, HeldByMasters
  <1>8. CASE Toggle
    BY <1>8, ToggleEffect, HeldByMasters
  <1>9. CASE Waits
    BY <1>9, WaitsEffect, HeldByMasters
  <1>10. CASE UNCHANGED vars
    <2>1. MasterStep /\ UNCHANGED held /\ Engaged' = Engaged
      BY <1>10, WordsStay, NamesAre DEF vars, plc, MasterStep, OutputWords, Typed, TypeOK
    <2>. QED  BY <2>1, HeldByMasters
  <1>. QED
    BY <1>1, <1>2, <1>3, <1>4, <1>5, <1>6, <1>7, <1>8, <1>9, <1>10
       DEF Next, Scan, Demo, Waits

(* An E-stop that has been engaged for one whole scan has stopped the      *)
(* cell and keeps it stopped until the release, whichever way the button   *)
(* is wired and wherever the demo is: control_logic.py:48-51.              *)
THEOREM StopHolds == Spec => []EstopTrips
  <1>1. Typed /\ HeldInv => EstopTrips
    <2> SUFFICES ASSUME Typed, HeldInv, held = "done", NEW name \in Off PROVE ~Gets(name)
      BY DEF EstopTrips, Off
    <2>1. Word(name) = 0
      BY DEF HeldInv
    <2>2. name \in Bools /\ name \in Names
      BY NamesAre DEF Off, Bools
    <2>. QED  BY <2>1, <2>2, GetsTheWord, CellTags DEF Typed, TypeOK
  <1>. QED  BY <1>1, HeldInit, HeldStep, TypedInvariance, PTL DEF Spec

-----------------------------------------------------------------------------
LEMMA ModuloBelow ==
  ASSUME NEW a \in Nat, NEW m \in Nat \ {0}
  PROVE  a % m \in 0 .. m - 1 /\ a % m <= a
  OBVIOUS

(* The scan reads and computes: what it makes of the eye and of the count. *)
LEMMA ScanEffect ==
  ASSUME Typed, ReadInput
  PROVE  /\ pc \in 0 .. 2 /\ pc' = pc + 1
         /\ UNCHANGED <<file, store, phase, n, arms, late, stopped>>
         /\ \A name \in Names : Word(name)' = Word(name)
         /\ Engaged' = Engaged
         /\ \A name : Place(name)' = Place(name)
         /\ inputs' \in InputStates
         /\ \A name \in Inputs :
              inputs'[name] = IF pc + 1 = Place(name) THEN Seen(name) ELSE inputs[name]
         /\ pc + 1 # 3 => UNCHANGED <<state, outputs>>
         /\ pc + 1 = 3 =>
              /\ state'.prev_preDivert = inputs'.preDivert
              /\ state'.throughput = IF ~inputs'.estop /\ inputs'.preDivert
                                        /\ ~state.prev_preDivert
                                     THEN state.throughput + 1 ELSE state.throughput
              /\ outputs'.armA = (~inputs'.estop /\ inputs'.preDivert /\ inputs'.destination = 1)
              /\ outputs'.armB = (~inputs'.estop /\ inputs'.preDivert /\ inputs'.destination = 2)
  <1>1. /\ pc \in 0 .. 2 /\ pc' = pc + 1
        /\ UNCHANGED <<file, store, phase, n, arms, late, stopped>>
    BY ReadEffect DEF demo
  <1>2. PICK name \in Inputs : /\ Place(name) = pc + 1
                               /\ inputs' = [inputs EXCEPT ![name] = Seen(name)]
    BY ReadEffect
  <1>3. inputs' \in InputStates
    BY TypedStep DEF Typed, TypeOK, InputStates, Next, Scan
  <1>4. \A other \in Inputs : Place(other) = pc + 1 => other = name
    BY <1>2, PlacesAre DEF Typed
  <1>5. \A other \in Inputs :
          inputs'[other] = IF pc + 1 = Place(other) THEN Seen(other) ELSE inputs[other]
    BY <1>2, <1>4 DEF Typed, TypeOK, Inputs
  <1>6. pc + 1 # 3 => UNCHANGED <<state, outputs>>
    BY ReadEffect
  <1>7. pc + 1 = 3 => /\ outputs' = Outputs(inputs', state) /\ state' = NextState(inputs', state)
                      /\ state \in States
    BY ReadEffect DEF Typed
  <1>8. /\ \A other \in Names : Word(other)' = Word(other)
        /\ Engaged' = Engaged
        /\ \A other : Place(other)' = Place(other)
    BY <1>1, WordsStay, PlacesStay
  <1>. QED  BY <1>1, <1>3, <1>5, <1>6, <1>7, <1>8, ScanComputes

(* The scan writes: the words of the inputs stay. *)
LEMMA OutputFrame ==
  ASSUME Typed, WriteOutput
  PROVE  /\ pc \in 3 .. 8 /\ pc' = pc + 1
         /\ UNCHANGED <<file, inputs, outputs, state, phase, n, arms, late, stopped>>
         /\ \A name \in Inputs : Word(name)' = Word(name)
         /\ Engaged' = Engaged
         /\ Word("count")' \in {Word("count"), state.throughput % WordModulus}
         /\ \A name \in Bools \cup {"count"} :
              /\ OutputOrder[pc - 2] = name => Word(name)' = Shown(name)
              /\ OutputOrder[pc - 2] # name => Word(name)' = Word(name)
  <1>1. /\ pc \in 3 .. 8 /\ pc' = pc + 1 /\ store' \in Stores
        /\ UNCHANGED <<file, inputs, outputs, state, phase, n, arms, late, stopped>>
    BY OutputEffect DEF demo
  <1>2. PICK name \in Bools \cup {"count"} :
          /\ name = OutputOrder[pc - 2]
          /\ Word(name)' = Shown(name)
          /\ \A other \in Names : other # name => Word(other)' = Word(other)
    BY OutputEffect
  <1>3. \A other \in Inputs : Word(other)' = Word(other)
    BY <1>2, NamesAre DEF Inputs, Bools
  <1>4. Engaged' = Engaged
    <2>1. Word("estop")' = Word("estop") /\ Tag("estop")' = Tag("estop")
      BY <1>1, <1>3, FileStays DEF Inputs
    <2>2. Engaged' <=> (Word("estop")' # 0) # Tag("estop")'.invert
      BY DEF Engaged, EngagedIn, Word
    <2>3. Engaged \in BOOLEAN /\ Engaged' \in BOOLEAN
      BY DEF Engaged, EngagedIn
    <2>. QED  BY <2>1, <2>2, <2>3, EngagedIs
  <1>5. \A other \in Bools \cup {"count"} :
          /\ OutputOrder[pc - 2] = other => Word(other)' = Shown(other)
          /\ OutputOrder[pc - 2] # other => Word(other)' = Word(other)
    BY <1>2, NamesAre
  <1>6. Word("count")' \in {Word("count"), state.throughput % WordModulus}
    BY <1>5 DEF Shown, Typed
  <1>. QED  BY <1>1, <1>3, <1>4, <1>5, <1>6

LEMMA PublishEffect ==
  ASSUME Typed, Publish
  PROVE  /\ pc = 9 /\ pc' = 0
         /\ UNCHANGED <<file, store, inputs, outputs, state, phase, n, arms, late, stopped>>
         /\ \A name \in Names : Word(name)' = Word(name)
         /\ Engaged' = Engaged
         /\ \A name : Place(name)' = Place(name)
  BY CellTags, NamesAre, WordsStay, PlacesStay DEF Publish, Typed, demo

LEMMA StuttersEffect ==
  ASSUME Typed, UNCHANGED vars
  PROVE  /\ UNCHANGED <<file, store, pc, inputs, outputs, state, phase, n, arms, late, stopped>>
         /\ \A name \in Names : Word(name)' = Word(name)
         /\ Engaged' = Engaged
         /\ \A name : Place(name)' = Place(name)
  BY WordsStay, PlacesStay DEF vars, plc, demo

LEMMA WordsAreWords ==
  ASSUME Typed
  PROVE  \A name \in Names : Word(name) \in 0 .. WordModulus - 1
  BY TagsAre DEF Typed, TypeOK, Stores, Word, WellFormed

LEMMA WordInit == Init => WordInv
  <1> SUFFICES ASSUME Init PROVE WordInv
    OBVIOUS
  <1>1. \A name \in Names : Word(name) = 0
    BY TagsAre DEF Init, EmptyStore, Word, WellFormed
  <1>. QED  BY <1>1, NamesAre DEF Init, WordInv, EyeUp, Setup, InitialState, Inputs

LEMMA WordStep == Typed /\ WordInv /\ [Next]_vars => WordInv'
  <1> SUFFICES ASSUME Typed, WordInv, [Next]_vars PROVE WordInv'
    OBVIOUS
  <1>1. /\ {"preDivert", "estop", "destination"} = Inputs /\ Inputs \subseteq Names
        /\ "count" \in Names /\ "count" \in Bools \cup {"count"}
    BY NamesAre DEF Inputs
  <1>2. state.throughput \in Nat /\ Word("count") \in Nat
    <2>1. Word("count") \in 0 .. WordModulus - 1
      BY <1>1, WordsAreWords
    <2>2. state.throughput \in Nat
      BY DEF Typed, States
    <2>. QED  BY <2>1, <2>2, StoreAssumption
  <1>3. MasterStep => Word("count")' = Word("count") /\ state' = state
    BY <1>1 DEF MasterStep, OutputWords
  <1>4. CASE ReadInput
    <2>1. state'.throughput >= state.throughput
      BY <1>2, <1>4, ScanEffect
    <2>2. Word("count")' <= state'.throughput
      <3>1. state'.throughput \in Nat /\ Word("count")' = Word("count")
        BY <1>1, <1>4, ScanEffect, TypedStep DEF Typed, States
      <3>. QED  BY <1>2, <2>1, <3>1 DEF WordInv
    <2>. QED  BY <1>1, <1>4, <2>2, ScanEffect DEF WordInv
  <1>5. CASE WriteOutput
    <2>1. state.throughput % WordModulus <= state.throughput
      BY <1>2, ModuloBelow, StoreAssumption
    <2>. QED  BY <1>1, <1>5, <2>1, OutputFrame DEF WordInv
  <1>6. CASE Publish
    BY <1>1, <1>6, PublishEffect DEF WordInv
  <1>7. CASE Initialize
    BY <1>3, <1>7, InitializeEffect DEF WordInv, EyeUp, Setup, Typed
  <1>8. CASE Release
    BY <1>3, <1>8, ReleaseEffect DEF WordInv, EyeUp, Setup, Typed
  <1>9. CASE Present
    BY <1>3, <1>9, PresentEffect DEF WordInv, EyeUp, Setup, Typed
  <1>10. CASE Clear
    <2>1. /\ MasterStep /\ phase = "clear" /\ phase' = "cleared"
          /\ Word("preDivert")' = 0
          /\ Engaged' = Engaged /\ stopped' = (stopped \/ Engaged)
      BY <1>10, ClearEffect
    <2>. QED  BY <1>3, <2>1 DEF WordInv, EyeUp, Setup
  <1>11. CASE Toggle
    BY <1>3, <1>11, ToggleEffect DEF WordInv, EyeUp, Setup, Typed
  <1>12. CASE Waits
    <2>1. /\ Word("preDivert")' = Word("preDivert") /\ Word("destination")' = Word("destination")
          /\ Engaged' = Engaged
      BY <1>1, <1>12, WaitsEffect
    <2>2. \/ phase = "motor" /\ phase' = "destination" /\ n' = 1 /\ stopped' = Engaged
          \/ phase = "count" /\ phase' = "armA" /\ n' = n /\ stopped' = stopped
          \/ phase = "armA" /\ phase' = "armB" /\ n' = n /\ stopped' = stopped
          \/ phase = "armB" /\ phase' = "clear" /\ n' = n /\ stopped' = stopped
          \/ phase = "cleared" /\ stopped' = stopped /\ phase' \in {"destination", "finished"}
      BY <1>12, WaitsEffect
    <2>. QED  BY <1>3, <1>12, <2>1, <2>2, WaitsEffect DEF WordInv, EyeUp, Setup
  <1>13. CASE UNCHANGED vars
    BY <1>1, <1>13, StuttersEffect DEF WordInv
  <1>. QED
    BY <1>4, <1>5, <1>6, <1>7, <1>8, <1>9, <1>10, <1>11, <1>12, <1>13
       DEF Next, Scan, Demo, Waits

-----------------------------------------------------------------------------
LEMMA CountInit == Init => CountInv
  BY DEF Init, CountInv, InitialState, Setup

LEMMA CountStep == Typed /\ WordInv /\ CountInv /\ [Next]_vars => CountInv'
  <1> SUFFICES ASSUME Typed, WordInv, CountInv, [Next]_vars PROVE CountInv'
    OBVIOUS
  <1> DEFINE eye == Place("preDivert")
             sum == state.throughput + Bit(Due) + Bit(Coming)
  <1>1. /\ eye \in 1 .. 2 /\ "preDivert" \in Inputs /\ "preDivert" \in Names
        /\ n \in Nat
        /\ state.throughput \in Nat /\ state.prev_preDivert \in BOOLEAN
        /\ inputs.preDivert \in BOOLEAN
    <2>1. eye \in 1 .. 3 /\ Place("destination") \in 1 .. 3 /\ eye < Place("destination")
      BY PlacesAre DEF Typed, Inputs
    <2>2. n \in Nat
      BY CellAssumption, CellTags DEF Typed, TypeOK
    <2>. QED  BY <2>1, <2>2, NamesAre DEF Typed, TypeOK, Inputs
  <1>2. state'.throughput \in Nat /\ state'.prev_preDivert \in BOOLEAN
    BY TypedStep DEF Typed, States
  <1>3. Word("preDivert") \in {0, 1}
    BY DEF WordInv
  <1>4. CASE ReadInput
    <2>1. /\ pc \in 0 .. 2 /\ pc' = pc + 1 /\ eye' = eye /\ UNCHANGED <<phase, n>>
          /\ Word("preDivert")' = Word("preDivert")
          /\ inputs'.preDivert = IF pc + 1 = eye THEN Word("preDivert") # 0 ELSE inputs.preDivert
      BY <1>1, <1>4, ScanEffect DEF Seen
    <2>2. inputs'.preDivert \in BOOLEAN
      BY <1>4, ScanEffect DEF InputStates
    <2>3. CASE pc + 1 = eye
      <3>1. /\ UNCHANGED state /\ inputs'.preDivert = (Word("preDivert") # 0)
            /\ state.prev_preDivert = inputs.preDivert
        BY <1>1, <1>4, <2>1, <2>3, ScanEffect DEF CountInv
      <3>2. phase \in Setup => Word("preDivert") = 0
        BY DEF WordInv, EyeUp, Setup
      <3>3. Bit(Due)' + Bit(Coming)' = Bit(Due) + Bit(Coming)
        BY <1>1, <1>3, <2>1, <3>1 DEF Due, Coming, Bit
      <3>4. phase' \notin Setup => sum' <= Raised'
        <4>1. /\ Bit(Due) \in {0, 1} /\ Bit(Coming) \in {0, 1}
              /\ Bit(Due)' \in {0, 1} /\ Bit(Coming)' \in {0, 1}
          BY DEF Bit
        <4>2. sum' = sum
          BY <1>1, <3>1, <3>3, <4>1
        <4>3. Raised' = Raised
          BY <2>1 DEF Raised
        <4>. QED  BY <2>1, <4>2, <4>3 DEF CountInv
      <3>. QED  BY <1>1, <2>1, <2>3, <3>1, <3>2, <3>4 DEF CountInv
    <2>4. CASE pc + 1 # eye /\ pc + 1 # 3
      <3>1. UNCHANGED state /\ inputs'.preDivert = inputs.preDivert
        BY <1>4, <2>1, <2>4, ScanEffect
      <3>2. sum' = sum /\ Raised' = Raised
        BY <2>1, <3>1 DEF Due, Coming, Raised
      <3>3. pc' < eye' \/ pc' >= 3 => pc < eye
        BY <1>1, <2>1, <2>4
      <3>. QED  BY <2>1, <3>1, <3>2, <3>3 DEF CountInv
    <2>5. CASE pc + 1 # eye /\ pc + 1 = 3
      <3>1. /\ inputs'.preDivert = inputs.preDivert
            /\ state'.prev_preDivert = inputs.preDivert
            /\ state'.throughput = IF ~inputs'.estop /\ inputs.preDivert /\ ~state.prev_preDivert
                                   THEN state.throughput + 1 ELSE state.throughput
        BY <1>4, <2>1, <2>5, ScanEffect
      <3>2. Coming' = Coming /\ ~Due' /\ Raised' = Raised
        BY <2>1, <3>1 DEF Due, Coming, Raised
      <3>3. state'.throughput <= state.throughput + Bit(Due)
        BY <1>1, <3>1 DEF Due, Bit
      <3>4. Bit(Due)' = 0 /\ Bit(Coming)' = Bit(Coming) /\ Bit(Coming) \in {0, 1}
            /\ Bit(Due) \in {0, 1}
        BY <3>2 DEF Bit
      <3>5. sum' <= sum
        BY <1>1, <1>2, <3>3, <3>4
      <3>6. phase \in Setup => ~inputs.preDivert /\ state.throughput = 0
        BY DEF CountInv
      <3>7. Raised \in Int /\ sum \in Int /\ sum' \in Int
        BY <1>1, <1>2, <3>4 DEF Raised
      <3>8. phase' \notin Setup => sum' <= Raised'
        <4> HIDE DEF sum
        <4>1. phase \notin Setup => sum <= Raised
          BY DEF CountInv, sum
        <4>. QED  BY <2>1, <3>2, <3>5, <3>7, <4>1
      <3>. QED  BY <2>1, <3>1, <3>6, <3>8 DEF CountInv
    <2>. QED  BY <2>3, <2>4, <2>5
  <1>5. ASSUME UNCHANGED <<state, inputs, phase, n>>,
               Word("preDivert")' = Word("preDivert"), eye' = eye,
               pc' < eye \/ pc' >= 3 => pc < eye \/ pc >= 3
        PROVE  CountInv'
    BY <1>5 DEF CountInv, Due, Coming, Raised
  <1>6. CASE WriteOutput
    <2>1. /\ pc \in 3 .. 8 /\ UNCHANGED <<state, inputs, phase, n>>
          /\ Word("preDivert")' = Word("preDivert") /\ eye' = eye
      BY <1>1, <1>6, OutputFrame, PlacesStay
    <2>. QED  BY <1>5, <2>1
  <1>7. CASE Publish
    <2>1. /\ pc = 9 /\ UNCHANGED <<state, inputs, phase, n>>
          /\ Word("preDivert")' = Word("preDivert") /\ eye' = eye
      BY <1>1, <1>7, PublishEffect
    <2>. QED  BY <1>5, <2>1
  <1>8. CASE UNCHANGED vars
    BY <1>1, <1>5, <1>8, StuttersEffect
  <1>9. MasterStep => UNCHANGED <<state, inputs, pc>> /\ eye' = eye /\ Due' = Due
    BY PlacesStay DEF MasterStep, Due
  <1>10. ASSUME MasterStep, phase \in Setup, phase' \in Setup PROVE CountInv'
    BY <1>9, <1>10 DEF CountInv
  <1>11. CASE Initialize
    BY <1>10, <1>11, InitializeEffect DEF Setup
  <1>12. CASE Release
    BY <1>10, <1>12, ReleaseEffect DEF Setup
  <1>13. CASE Toggle
    BY <1>5, <1>9, <1>13, ToggleEffect DEF MasterStep
  <1>14. Bit(Due) \in {0, 1} /\ Bit(Coming) \in {0, 1}
    BY DEF Bit
  <1>15. CASE Present
    <2>1. /\ MasterStep /\ n' = n
          /\ \/ /\ phase = "destination" /\ phase' = "sensor"
                /\ Word("preDivert")' = Word("preDivert")
             \/ /\ phase = "sensor" /\ phase' = "count"
      BY <1>15, PresentEffect
    <2>2. CASE phase = "destination" /\ phase' = "sensor" /\ Word("preDivert")' = Word("preDivert")
      <3>1. Coming' = Coming /\ Raised' = Raised
        BY <1>9, <2>1, <2>2 DEF Coming, Raised
      <3>. QED  BY <1>9, <2>1, <2>2, <3>1 DEF CountInv, Setup
    <2>3. CASE phase = "sensor" /\ phase' = "count"
      <3>1. sum <= n - 1
        BY <2>3 DEF CountInv, Setup, Raised
      <3>2. Bit(Coming)' \in {0, 1} /\ Bit(Due)' = Bit(Due) /\ Raised' = n
        BY <1>9, <2>1, <2>3 DEF Bit, Raised
      <3>3. state.throughput + Bit(Due) + Bit(Coming)' <= n
        BY <1>1, <1>14, <3>1, <3>2
      <3>. QED  BY <1>9, <2>1, <2>3, <3>2, <3>3 DEF CountInv, Setup
    <2>. QED  BY <2>1, <2>2, <2>3
  <1>16. CASE Clear
    <2>1. MasterStep /\ n' = n /\ phase = "clear" /\ phase' = "cleared" /\ Word("preDivert")' = 0
      BY <1>16, ClearEffect
    <2>2. Bit(Coming)' = 0 /\ Bit(Due)' = Bit(Due) /\ Raised' = n /\ Raised = n
      BY <1>9, <2>1 DEF Bit, Coming, Raised
    <2>3. sum <= n
      BY <2>1, <2>2 DEF CountInv, Setup
    <2>4. state.throughput + Bit(Due) + 0 <= n
      BY <1>1, <1>14, <2>3
    <2>. QED  BY <1>9, <2>1, <2>2, <2>4 DEF CountInv, Setup
  <1>17. CASE Waits
    <2>1. MasterStep /\ Word("preDivert")' = Word("preDivert")
      BY <1>1, <1>17, WaitsEffect
    <2>2. Coming' = Coming
      BY <1>9, <2>1 DEF Coming
    <2>3. CASE phase = "motor"
      <3>1. phase' = "destination" /\ n' = 1
        BY <1>17, <2>3, WaitsEffect
      <3>2. state.throughput = 0 /\ ~Due /\ ~Coming /\ Raised' = 0
        BY <2>3, <3>1 DEF CountInv, WordInv, EyeUp, Setup, Due, Coming, Raised
      <3>3. state.throughput + Bit(Due) + Bit(Coming) <= Raised'
        BY <3>2 DEF Bit
      <3>. QED  BY <1>9, <2>1, <2>2, <3>1, <3>3 DEF CountInv, Setup
    <2>4. CASE phase # "motor"
      <3>1. /\ phase \notin Setup /\ phase' \notin Setup
            /\ Raised' = Raised
        BY <1>1, <1>17, <2>4, WaitsEffect DEF Setup, Raised
      <3>. QED  BY <1>9, <2>1, <2>2, <3>1 DEF CountInv
    <2>. QED  BY <2>3, <2>4
  <1>. QED
    BY <1>4, <1>6, <1>7, <1>8, <1>11, <1>12, <1>13, <1>15, <1>16, <1>17
       DEF Next, Scan, Demo, Waits

LEMMA WordInvariance == Spec => []WordInv
  BY WordInit, WordStep, TypedInvariance, PTL DEF Spec

LEMMA CountInvariance == Spec => []CountInv
  BY CountInit, CountStep, WordInvariance, TypedInvariance, PTL DEF Spec

(* However the scan and the demo interleave, whatever the E-stop does and  *)
(* whichever wait gave up, the scan never counts more parcels than the     *)
(* demo has put before the eye: control_logic.py:54-57, run_demo.py:57-67. *)
THEOREM CountedOnce == Spec => []NeverCountedTwice
  <1>1. Typed /\ CountInv => NeverCountedTwice
    <2> SUFFICES ASSUME Typed, CountInv, phase \notin Setup
                 PROVE  state.throughput <= Raised
      BY DEF NeverCountedTwice, Raised
    <2>1. state.throughput \in Nat /\ Bit(Due) \in {0, 1} /\ Bit(Coming) \in {0, 1}
      BY DEF Typed, States, Bit
    <2>2. Raised \in Int
      BY CellAssumption, CellTags DEF Typed, TypeOK, Raised
    <2>3. state.throughput + Bit(Due) + Bit(Coming) <= Raised
      BY DEF CountInv
    <2>. QED  BY <2>1, <2>2, <2>3
  <1>. QED  BY <1>1, TypedInvariance, CountInvariance, PTL

-----------------------------------------------------------------------------
LEMMA KeepsUpInit == Init => KeepsUp
  BY DEF Init, KeepsUp, Setup

LEMMA ParcelNumber ==
  ASSUME Typed
  PROVE  /\ n \in Nat
         /\ phase \notin Setup => n \in 1 .. Len(Plan) /\ Plan[n] \in {1, 2, 3}
  <1>1. n \in Nat /\ phase \notin Setup => n \in 1 .. Len(Plan)
    BY CellAssumption, CellTags DEF Typed, TypeOK, Setup
  <1>2. n \in Nat
    BY CellAssumption, CellTags DEF Typed, TypeOK
  <1>3. \A i \in 1 .. Len(Plan) : Plan[i] \in {1, 2, 3}
    BY CellAssumption
  <1>. QED  BY <1>1, <1>2, <1>3

LEMMA KeepsUpStep ==
  Typed /\ WordInv /\ CountInv /\ KeepsUp /\ [Next]_vars => KeepsUp'
  <1> SUFFICES ASSUME Typed, WordInv, CountInv, KeepsUp, [Next]_vars,
                      phase' \notin Setup, ~late'
               PROVE  KeepsUp'
    BY DEF KeepsUp
  <1>1. /\ n \in Nat /\ state.throughput \in Nat /\ state'.throughput \in Nat
        /\ Word("count") \in 0 .. WordModulus - 1
        /\ "count" \in Names /\ "count" \in Bools \cup {"count"}
    BY TypedStep, ParcelNumber, WordsAreWords, NamesAre DEF Typed, States
  <1>2. state'.throughput <= IF phase' \in {"destination", "sensor"} THEN n' - 1 ELSE n'
    <2>1. CountInv' /\ Bit(Due)' \in {0, 1} /\ Bit(Coming)' \in {0, 1}
      BY CountStep DEF Bit
    <2>2. state'.throughput + Bit(Due)' + Bit(Coming)' <= Raised'
      BY <2>1 DEF CountInv
    <2>3. Raised' \in Int
      BY TypedStep, CellAssumption, CellTags DEF Typed, TypeOK, Raised
    <2>4. state'.throughput <= Raised'
      BY <1>1, <2>1, <2>2, <2>3
    <2>. QED  BY <2>4 DEF Raised
  <1>3. ASSUME UNCHANGED <<phase, n, late>>, state'.throughput >= state.throughput,
               Word("count")' = Word("count") \/ state.throughput # Word("count")
        PROVE  KeepsUp'
    BY <1>1, <1>2, <1>3 DEF KeepsUp, Setup
  <1>4. CASE ReadInput
    <2>1. /\ UNCHANGED <<phase, n, late>> /\ state'.throughput >= state.throughput
          /\ Word("count")' = Word("count")
      BY <1>1, <1>4, ScanEffect
    <2>. QED  BY <1>3, <2>1
  <1>5. CASE WriteOutput
    <2>1. /\ UNCHANGED <<phase, n, late, state>>
          /\ Word("count")' \in {Word("count"), state.throughput % WordModulus}
      BY <1>5, OutputFrame
    <2>2. Word("count") = state.throughput => state.throughput % WordModulus = state.throughput
      BY <1>1, StoreAssumption
    <2>. QED  BY <1>1, <1>3, <2>1, <2>2
  <1>6. CASE Publish
    <2>1. /\ UNCHANGED <<phase, n, late, state>> /\ Word("count")' = Word("count")
      BY <1>1, <1>6, PublishEffect
    <2>. QED  BY <1>1, <1>3, <2>1
  <1>7. MasterStep => UNCHANGED state /\ Word("count")' = Word("count")
    BY <1>1 DEF MasterStep, OutputWords
  <1>8. CASE Initialize \/ Release
    BY <1>8, InitializeEffect, ReleaseEffect DEF Setup
  <1>9. CASE Present
    <2>1. /\ MasterStep /\ UNCHANGED <<n, late>>
          /\ phase \in {"destination", "sensor"} /\ phase' \in {"sensor", "count"}
      BY <1>9, PresentEffect
    <2>. QED  BY <1>7, <2>1 DEF KeepsUp, Setup
  <1>10. CASE Clear
    <2>1. MasterStep /\ UNCHANGED <<n, late>> /\ phase = "clear" /\ phase' = "cleared"
      BY <1>10, ClearEffect
    <2>. QED  BY <1>7, <2>1 DEF KeepsUp, Setup
  <1>11. CASE Toggle
    <2>1. MasterStep /\ UNCHANGED <<phase, n, late>>
      BY <1>11, ToggleEffect
    <2>. QED  BY <1>7, <2>1 DEF KeepsUp
  <1>12. CASE UNCHANGED vars
    <2>1. /\ UNCHANGED <<phase, n, late, state>> /\ Word("count")' = Word("count")
      BY <1>1, <1>12, StuttersEffect
    <2>. QED  BY <2>1 DEF KeepsUp
  <1>13. CASE Waits
    <2>1. MasterStep /\ ~late
      BY <1>13, WaitsEffect
    <2>2. CASE phase = "motor"
      <3>1. phase' = "destination" /\ n' = 1
        BY <1>13, <2>2, WaitsEffect
      <3>. QED  BY <1>1, <1>7, <2>1, <3>1 DEF KeepsUp
    <2>3. CASE phase = "count"
      <3>1. phase' = "armA" /\ n' = n /\ Gets("count") = n
        BY <1>13, <2>3, WaitsEffect
      <3>2. Word("count") = n
        BY <1>1, <3>1, GetsTheWord, CellTags DEF Typed, TypeOK
      <3>3. state.throughput >= n
        BY <1>1, <3>2 DEF WordInv
      <3>4. state.throughput <= n
        BY <1>2, <1>7, <2>1, <3>1
      <3>5. state.throughput = n
        BY <1>1, <3>3, <3>4
      <3>. QED  BY <1>7, <2>1, <3>1, <3>2, <3>5 DEF KeepsUp
    <2>4. CASE phase \in {"armA", "armB"}
      <3>1. phase' \in {"armB", "clear"} /\ n' = n
        BY <1>13, <2>4, WaitsEffect
      <3>. QED  BY <1>7, <2>1, <2>4, <3>1 DEF KeepsUp, Setup
    <2>5. CASE phase = "cleared"
      <3>1. \/ phase' = "destination" /\ n' = n + 1
            \/ phase' = "finished" /\ n' = n
        BY <1>13, <2>5, WaitsEffect
      <3>2. state.throughput = n
        BY <2>1, <2>5 DEF KeepsUp, Setup
      <3>. QED  BY <1>1, <1>7, <2>1, <3>1, <3>2 DEF KeepsUp
    <2>. QED  BY <1>13, <2>2, <2>3, <2>4, <2>5, WaitsEffect
  <1>. QED
    BY <1>4, <1>5, <1>6, <1>8, <1>9, <1>10, <1>11, <1>12, <1>13
       DEF Next, Scan, Demo, Waits

LEMMA KeepsUpInvariance == Spec => []KeepsUp
  BY KeepsUpInit, KeepsUpStep, TypedInvariance, WordInvariance, CountInvariance, PTL DEF Spec

-----------------------------------------------------------------------------
LEMMA RouteInit == Init => RouteInv
  BY DEF Init, RouteInv, EyeUp

(* What the demo does while a parcel waits before the eye leaves the       *)
(* scan's side alone.                                                      *)
LEMMA RouteByMasters ==
  ASSUME Typed, RouteInv, MasterStep, UNCHANGED n,
         phase \in EyeUp, phase' \in EyeUp, ~late, ~stopped
  PROVE  /\ Due' /\ pc' >= Place("destination")' => inputs'.destination = Plan[n']
         /\ state'.throughput = n' =>
              /\ inputs'.preDivert /\ ~inputs'.estop /\ inputs'.destination = Plan[n']
              /\ \A arm \in {"armA", "armB"} :
                   /\ outputs'[arm] <=> arm = ArmOf(Plan[n'])
                   /\ Word("count")' = n' \/ pc' >= 3 + ArmPlace[arm] =>
                        Word(arm)' = Bit(arm = ArmOf(Plan[n']))
  <1>1. /\ UNCHANGED <<pc, inputs, outputs, state>> /\ Place("destination")' = Place("destination")
        /\ Word("count")' = Word("count") /\ Due' = Due
        /\ \A arm \in {"armA", "armB"} : Word(arm)' = Word(arm)
    BY PlacesStay DEF MasterStep, OutputWords, Bools, Due
  <1>. QED  BY <1>1 DEF RouteInv

LEMMA RouteByScan ==
  ASSUME Typed, WordInv, CountInv, KeepsUp, RouteInv, ReadInput,
         phase \in EyeUp, ~late, ~stopped
  PROVE  RouteInv'
  <1> DEFINE d == Place("destination")
             e == Place("preDivert")
  <1>1. /\ pc \in 0 .. 2 /\ pc' = pc + 1 /\ UNCHANGED <<phase, n, arms, late, stopped>>
        /\ d' = d /\ e' = e
        /\ \A name \in Names : Word(name)' = Word(name)
        /\ \A name \in Inputs :
              inputs'[name] = IF pc + 1 = Place(name) THEN Seen(name) ELSE inputs[name]
    BY ScanEffect
  <1>2. /\ d \in 1 .. 3 /\ e \in 1 .. 3 /\ e < d
        /\ {"preDivert", "estop", "destination"} = Inputs /\ {"armA", "armB", "count"} \subseteq Names
    BY PlacesAre, NamesAre DEF Typed, Inputs, Bools
  <1>3. Seen("preDivert") /\ ~Seen("estop") /\ Seen("destination") = Plan[n]
    BY DEF Seen, WordInv, EyeUp, Setup
  <1>4. n \in Nat /\ state.throughput \in Nat /\ Word("count") \in Int
        /\ Plan[n] \in {1, 2, 3}
    <2>1. n \in Nat /\ Plan[n] \in {1, 2, 3}
      BY ParcelNumber DEF EyeUp, Setup
    <2>2. Word("count") \in Int
      BY <1>2, WordsAreWords, StoreAssumption
    <2>3. state.throughput \in Nat
      BY DEF Typed, States
    <2>. QED  BY <2>1, <2>2, <2>3
  <1>5. /\ state.throughput <= n /\ state.throughput >= n - 1
        /\ Word("count") <= state.throughput
    <2>1. /\ state.throughput + Bit(Due) + Bit(Coming) <= n
          /\ Bit(Due) \in {0, 1} /\ Bit(Coming) \in {0, 1}
      BY DEF CountInv, EyeUp, Setup, Raised, Bit
    <2>2. state.throughput <= n
      BY <1>4, <2>1
    <2>3. phase \in {"count", "armA", "armB", "clear"} /\ phase \notin Setup
      BY DEF EyeUp, Setup
    <2>4. state.throughput >= n - 1
      BY <1>4, <2>3 DEF KeepsUp
    <2>. QED  BY <2>2, <2>4 DEF WordInv
  (* A parcel about to be counted comes with its own destination. *)
  <1>6. ASSUME inputs'.preDivert, ~state.prev_preDivert, state.throughput = n - 1, pc + 1 >= d
        PROVE  inputs'.destination = Plan[n]
    <2>1. CASE pc + 1 = d
      BY <1>1, <1>2, <1>3, <2>1
    <2>2. CASE pc + 1 # d
      <3>1. pc >= d /\ pc + 1 # e
        BY <1>1, <1>2, <1>6, <2>2
      <3>2. inputs'.preDivert = inputs.preDivert /\ inputs'.destination = inputs.destination
        BY <1>1, <1>2, <2>2, <3>1
      <3>. QED  BY <1>6, <3>1, <3>2 DEF RouteInv, Due
    <2>. QED  BY <2>1, <2>2
  <1>7. ASSUME Due', pc + 1 >= d PROVE inputs'.destination = Plan[n]
    <2>1. pc + 1 # 3
      BY <1>7, ScanEffect DEF Due
    <2>2. UNCHANGED state /\ inputs'.preDivert /\ ~state.prev_preDivert
      BY <1>7, <2>1, ScanEffect DEF Due
    <2>3. CASE state.throughput = n - 1
      BY <1>6, <1>7, <2>2, <2>3
    <2>4. CASE state.throughput = n
      BY <1>1, <1>2, <1>3, <2>4 DEF RouteInv
    <2>. QED  BY <1>4, <1>5, <2>3, <2>4
  <1>8. ASSUME state.throughput = n
        PROVE  /\ inputs'.preDivert /\ ~inputs'.estop /\ inputs'.destination = Plan[n]
               /\ \A arm \in {"armA", "armB"} :
                    Word("count") = n => Word(arm) = Bit(arm = ArmOf(Plan[n]))
    <2>1. inputs.preDivert /\ ~inputs.estop /\ inputs.destination = Plan[n]
      BY <1>8 DEF RouteInv
    <2>2. inputs'.preDivert /\ ~inputs'.estop /\ inputs'.destination = Plan[n]
      BY <1>1, <1>2, <1>3, <2>1
    <2>. QED  BY <1>8, <2>2 DEF RouteInv
  <1>9. ASSUME state'.throughput = n, state.throughput # n
        PROVE  /\ pc + 1 = 3
               /\ inputs'.preDivert /\ ~inputs'.estop /\ inputs'.destination = Plan[n]
               /\ Word("count") # n
    <2>1. pc + 1 = 3
      BY <1>9, ScanEffect
    <2>2. inputs'.preDivert /\ ~inputs'.estop /\ ~state.prev_preDivert
      BY <1>9, <2>1, ScanEffect
    <2>3. state.throughput = n - 1 /\ Word("count") # n
      BY <1>4, <1>5, <1>9
    <2>. QED  BY <1>2, <1>6, <2>1, <2>2, <2>3
  <1>10. ASSUME state'.throughput = n, NEW arm \in {"armA", "armB"}
         PROVE  outputs'[arm] <=> arm = ArmOf(Plan[n])
    <2>1. CASE pc + 1 = 3
      <3>1. inputs'.preDivert /\ ~inputs'.estop /\ inputs'.destination = Plan[n]
        BY <1>8, <1>9, <1>10
      <3>2. /\ outputs'.armA = (~inputs'.estop /\ inputs'.preDivert /\ inputs'.destination = 1)
            /\ outputs'.armB = (~inputs'.estop /\ inputs'.preDivert /\ inputs'.destination = 2)
        BY <2>1, ScanEffect
      <3>3. /\ outputs'.armA <=> Plan[n] = 1
            /\ outputs'.armB <=> Plan[n] = 2
        BY <3>1, <3>2
      <3>4. /\ "armA" = ArmOf(Plan[n]) <=> Plan[n] = 1
            /\ "armB" = ArmOf(Plan[n]) <=> Plan[n] = 2
        BY <1>4 DEF ArmOf
      <3>. QED  BY <3>3, <3>4
    <2>2. CASE pc + 1 # 3
      <3>1. UNCHANGED <<state, outputs>>
        BY <2>2, ScanEffect
      <3>. QED  BY <1>10, <3>1 DEF RouteInv
    <2>. QED  BY <2>1, <2>2
  <1>11. ASSUME state'.throughput = n, NEW arm \in {"armA", "armB"},
                Word("count") = n \/ pc + 1 >= 3 + ArmPlace[arm]
         PROVE  Word(arm) = Bit(arm = ArmOf(Plan[n]))
    <2>1. ~(pc + 1 >= 3 + ArmPlace[arm])
      BY <1>1 DEF ArmPlace
    <2>. QED  BY <1>8, <1>9, <1>11, <2>1
  <1>12. state'.throughput = n =>
           inputs'.preDivert /\ ~inputs'.estop /\ inputs'.destination = Plan[n]
    BY <1>8, <1>9
  <1>. QED  BY <1>1, <1>2, <1>7, <1>10, <1>11, <1>12 DEF RouteInv

LEMMA RouteByOutput ==
  ASSUME Typed, CountInv, RouteInv, WriteOutput, phase \in EyeUp, ~late, ~stopped
  PROVE  RouteInv'
  <1>1. /\ pc \in 3 .. 8 /\ pc' = pc + 1
        /\ UNCHANGED <<inputs, outputs, state, phase, n, arms, late, stopped>>
        /\ \A name \in Bools \cup {"count"} :
              /\ OutputOrder[pc - 2] = name => Word(name)' = Shown(name)
              /\ OutputOrder[pc - 2] # name => Word(name)' = Word(name)
    BY OutputFrame
  <1>2. ~Due'
    BY <1>1 DEF CountInv, Due
  <1>3. ASSUME NEW arm \in {"armA", "armB"}, state.throughput = n,
               Word("count")' = n \/ pc + 1 >= 3 + ArmPlace[arm]
        PROVE  Word(arm)' = Bit(arm = ArmOf(Plan[n]))
    <2>1. /\ ArmPlace[arm] \in {2, 3} /\ OutputOrder[ArmPlace[arm]] = arm
          /\ OutputOrder[6] = "count" /\ arm # "count"
      BY DEF ArmPlace, OutputOrder
    <2>2. arm \in Bools
      BY DEF Bools
    <2>3. CASE OutputOrder[pc - 2] = arm
      <3>1. Word(arm)' = Bit(outputs[arm])
        BY <1>1, <2>1, <2>2, <2>3 DEF Shown
      <3>2. outputs[arm] <=> arm = ArmOf(Plan[n])
        BY <1>3 DEF RouteInv
      <3>. QED  BY <3>1, <3>2 DEF Bit
    <2>4. CASE OutputOrder[pc - 2] # arm
      <3>1. Word(arm)' = Word(arm) /\ pc - 2 # ArmPlace[arm]
        BY <1>1, <2>1, <2>2, <2>4
      <3>2. pc + 1 >= 3 + ArmPlace[arm] => pc >= 3 + ArmPlace[arm]
        BY <1>1, <2>1, <3>1
      <3>3. Word("count")' = n => Word("count") = n \/ pc >= 3 + ArmPlace[arm]
        <4>1. CASE pc = 8
          BY <2>1, <4>1
        <4>2. CASE pc # 8
          <5>1. OutputOrder[pc - 2] # "count"
            BY <1>1, <4>2 DEF OutputOrder
          <5>. QED  BY <1>1, <5>1
        <4>. QED  BY <4>1, <4>2
      <3>. QED  BY <1>3, <3>1, <3>2, <3>3 DEF RouteInv
    <2>. QED  BY <2>3, <2>4
  <1>. QED  BY <1>1, <1>2, <1>3 DEF RouteInv

LEMMA RouteStep ==
  Typed /\ WordInv /\ CountInv /\ KeepsUp /\ RouteInv /\ [Next]_vars => RouteInv'
  <1> SUFFICES ASSUME Typed, WordInv, CountInv, KeepsUp, RouteInv, [Next]_vars,
                      phase' \in EyeUp, ~late', ~stopped'
               PROVE  RouteInv'
    BY DEF RouteInv
  <1>1. n \in Nat /\ state.throughput \in Nat
    BY ParcelNumber DEF Typed, States
  <1>2. CASE ReadInput
    BY <1>2, RouteByScan, ScanEffect
  <1>3. CASE WriteOutput
    BY <1>3, RouteByOutput, OutputFrame
  <1>4. CASE Publish
    <2>1. /\ pc = 9 /\ pc' = 0 /\ UNCHANGED <<inputs, outputs, state, phase, n, arms, late, stopped>>
          /\ Word("armA")' = Word("armA") /\ Word("armB")' = Word("armB")
          /\ Word("count")' = Word("count")
      BY <1>4, PublishEffect, NamesAre DEF Bools
    <2>2. ~Due'
      BY <2>1 DEF CountInv, Due
    <2>3. ArmPlace["armA"] = 2 /\ ArmPlace["armB"] = 3
      BY DEF ArmPlace
    <2>. QED  BY <2>1, <2>2, <2>3 DEF RouteInv
  <1>5. CASE Initialize \/ Release \/ Clear
    BY <1>5, InitializeEffect, ReleaseEffect, ClearEffect DEF EyeUp
  <1>6. CASE Present
    <2>1. /\ MasterStep /\ UNCHANGED <<n, late>> /\ phase = "sensor" /\ phase' = "count"
      BY <1>6, PresentEffect DEF EyeUp
    <2>2. /\ state.throughput + Bit(Due) + Bit(Coming) <= n - 1
          /\ state.throughput >= n - 1
          /\ Bit(Due) \in {0, 1} /\ Bit(Coming) \in {0, 1}
      BY <2>1 DEF CountInv, KeepsUp, Setup, Raised, Bit
    <2>3. Bit(Due) = 0 /\ state.throughput # n
      BY <1>1, <2>2
    <2>4. ~Due' /\ state'.throughput # n'
      BY <2>1, <2>3 DEF MasterStep, Bit, Due
    <2>. QED  BY <2>1, <2>4 DEF RouteInv
  <1>7. CASE Toggle
    <2>1. /\ MasterStep /\ UNCHANGED <<n, phase, late, arms>> /\ ~late /\ ~stopped
      <3>1. /\ MasterStep /\ UNCHANGED <<n, phase, late, arms>>
            /\ stopped' = (stopped \/ (phase \notin Setup /\ Engaged'))
        BY <1>7, ToggleEffect
      <3>2. ~late /\ ~stopped
        BY <3>1 DEF Typed
      <3>. QED  BY <3>1, <3>2
    <2>. QED  BY <2>1, RouteByMasters DEF RouteInv
  <1>8. CASE Waits
    <2>1. /\ MasterStep /\ ~late
          /\ arms' = IF phase \in {"armA", "armB"} THEN [arms EXCEPT ![phase] = Gets(phase)]
                                                   ELSE arms
      BY <1>8, WaitsEffect
    <2>2. /\ n' = n /\ ~stopped
          /\ \/ phase = "count" /\ phase' = "armA"
             \/ phase = "armA" /\ phase' = "armB"
             \/ phase = "armB" /\ phase' = "clear"
      BY <1>8, WaitsEffect DEF EyeUp
    <2>3. ASSUME phase \in {"armA", "armB"}
          PROVE  Gets(phase) <=> phase = ArmOf(Plan[n])
      <3>1. state.throughput = n /\ Word("count") = n /\ phase \in EyeUp
        BY <2>1, <2>3 DEF KeepsUp, Setup, EyeUp
      <3>2. Word(phase) = Bit(phase = ArmOf(Plan[n]))
        BY <2>1, <2>2, <2>3, <3>1 DEF RouteInv
      <3>3. Gets(phase) = (Word(phase) # 0)
        <4>1. phase \in Bools /\ phase \in Names
          BY <2>3, NamesAre DEF Bools
        <4>. QED  BY <4>1, GetsTheWord, CellTags DEF Typed, TypeOK
      <3>4. Bit(phase = ArmOf(Plan[n])) # 0 <=> phase = ArmOf(Plan[n])
        BY DEF Bit
      <3>. QED  BY <3>2, <3>3, <3>4
    <2>4. /\ phase' \in {"armB", "clear"} => (arms'.armA <=> "armA" = ArmOf(Plan[n]))
          /\ phase' = "clear" => (arms'.armB <=> "armB" = ArmOf(Plan[n]))
      <3>1. phase = "armA" => arms'.armA = Gets("armA")
        BY <2>1 DEF Typed
      <3>2. phase = "armB" => arms'.armA = arms.armA /\ arms'.armB = Gets("armB")
        BY <2>1 DEF Typed
      <3>3. phase = "armB" => (arms.armA <=> "armA" = ArmOf(Plan[n]))
        BY <2>1, <2>2 DEF RouteInv, EyeUp
      <3>. QED  BY <2>2, <2>3, <3>1, <3>2, <3>3
    <2>5. phase \in EyeUp
      BY <2>2 DEF EyeUp
    <2>. QED  BY <2>1, <2>2, <2>4, <2>5, RouteByMasters DEF RouteInv
  <1>9. CASE UNCHANGED vars
    <2>1. MasterStep /\ UNCHANGED <<n, phase, late, stopped, arms>>
      <3>1. /\ UNCHANGED <<file, store, pc, inputs, outputs, state, lastLow, phase, n, arms,
                           late, stopped>>
            /\ \A name \in Names : Word(name)' = Word(name)
        BY <1>9, StuttersEffect DEF vars, plc
      <3>. QED  BY <3>1, NamesAre DEF MasterStep, OutputWords, Typed, TypeOK
    <2>. QED  BY <2>1, RouteByMasters DEF RouteInv
  <1>. QED
    BY <1>2, <1>3, <1>4, <1>5, <1>6, <1>7, <1>8, <1>9
       DEF Next, Scan, Demo, Waits

(* The way the demo prints for a parcel is the destination it presented,   *)
(* for every stream and every interleaving of the torn copies, as long as  *)
(* no wait gave up and the E-stop stayed out: soft_plc.py:87-92,           *)
(* cell_sim.py:27-28.                                                      *)
THEOREM PrintedAsPresented == Spec => []RoutedAsPresented
  <1>1. Typed /\ RouteInv => RoutedAsPresented
    <2> SUFFICES ASSUME Typed, RouteInv, phase = "clear", ~stopped, ~late
                 PROVE  Routed = Plan[n]
      BY DEF RoutedAsPresented
    <2>1. Plan[n] \in {1, 2, 3}
      BY ParcelNumber DEF Setup
    <2>2. /\ arms.armA <=> "armA" = ArmOf(Plan[n])
          /\ arms.armB <=> "armB" = ArmOf(Plan[n])
      BY DEF RouteInv, EyeUp
    <2>. QED  BY <2>1, <2>2 DEF ArmOf, Routed
  <1>. QED
    BY <1>1, RouteInit, RouteStep, TypedInvariance, WordInvariance, CountInvariance,
       KeepsUpInvariance, PTL DEF Spec
=============================================================================
