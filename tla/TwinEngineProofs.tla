-------------------------- MODULE TwinEngineProofs --------------------------
(***************************************************************************)
(* Theorems about TwinEngine, for any number of client threads, parcels    *)
(* and commands, and any geometry of the line: the engine thread and the   *)
(* clients share their state without a lock, and the properties hold in    *)
(* every interleaving of their statements.                                 *)
(***************************************************************************)
EXTENDS TwinEngine, ScanPlantProofs

(* What is left of a command: the suffixes of the programs. *)
Todos == {<<>>,
          <<"press", "pulse", "unlatch", "look", "filter", "replace">>,
          <<"pulse", "unlatch", "look", "filter", "replace">>,
          <<"unlatch", "look", "filter", "replace">>, <<"look", "filter", "replace">>,
          <<"filter", "replace">>, <<"replace">>,
          <<"press", "pulse">>, <<"pulse">>, <<"latch">>,
          <<"spawn", "place", "mark", "stick">>, <<"place", "mark", "stick">>,
          <<"mark", "stick">>, <<"stick">>}

ClientStates == [todo : Todos, button : Momentary \cup {"none"},
                 mine : 0 .. MaxParcels, kept : SUBSET Parcels]

(* The statement a client is at, and what may come after it. *)
First(todo) == IF todo = <<>> THEN "none" ELSE Head(todo)

Follows(s, n) ==
  \/ s = "press" /\ n = "pulse"
  \/ s = "pulse" /\ n \in {"none", "unlatch"}
  \/ s = "unlatch" /\ n = "look"
  \/ s = "look" /\ n = "filter"
  \/ s = "filter" /\ n = "replace"
  \/ s = "spawn" /\ n = "place"
  \/ s = "place" /\ n = "mark"
  \/ s = "mark" /\ n = "stick"
  \/ s \in {"latch", "replace", "stick"} /\ n = "none"

LEMMA TodoEffect ==
  ASSUME NEW t \in Todos, t # <<>>
  PROVE  /\ Tail(t) \in Todos
         /\ Len(t) = 1 <=> Tail(t) = <<>>
         /\ Follows(Head(t), First(Tail(t)))
  <1> USE DEF Todos, First, Follows
  <1>1. CASE t = <<"press", "pulse", "unlatch", "look", "filter", "replace">>
    BY <1>1
  <1>2. CASE t = <<"pulse", "unlatch", "look", "filter", "replace">>
    BY <1>2
  <1>3. CASE t = <<"unlatch", "look", "filter", "replace">>
    BY <1>3
  <1>13. CASE t = <<"look", "filter", "replace">>
    BY <1>13
  <1>4. CASE t = <<"filter", "replace">>
    BY <1>4
  <1>5. CASE t = <<"replace">>
    BY <1>5
  <1>6. CASE t = <<"press", "pulse">>
    BY <1>6
  <1>7. CASE t = <<"pulse">>
    BY <1>7
  <1>8. CASE t = <<"latch">>
    BY <1>8
  <1>9. CASE t = <<"spawn", "place", "mark", "stick">>
    BY <1>9
  <1>10. CASE t = <<"place", "mark", "stick">>
    BY <1>10
  <1>11. CASE t = <<"mark", "stick">>
    BY <1>11
  <1>12. CASE t = <<"stick">>
    BY <1>12
  <1>. QED  BY <1>1, <1>2, <1>3, <1>4, <1>5, <1>6,
               <1>7, <1>8, <1>9, <1>10, <1>11, <1>12, <1>13

(* Going on to the next statement keeps the rest of the client's state, or *)
(* ends the command.                                                       *)
LEMMA AdvanceEffect ==
  ASSUME NEW c \in Clients, client[c] \in ClientStates, NEW s, Doing(c, s)
  PROVE  /\ Advanced(c) \in ClientStates
         /\ First(client[c].todo) = s
         /\ Follows(s, First(Advanced(c).todo))
         /\ \/ Advanced(c) = Idle
            \/ /\ Advanced(c).button = client[c].button
               /\ Advanced(c).mine = client[c].mine
               /\ Advanced(c).kept = client[c].kept
  <1> DEFINE t == client[c].todo
  <1>1. t \in Todos /\ t # <<>> /\ Head(t) = s /\ First(t) = s
    BY DEF ClientStates, Doing, First
  <1>2. /\ Tail(t) \in Todos
        /\ Len(t) = 1 <=> Tail(t) = <<>>
        /\ Follows(s, First(Tail(t)))
    BY <1>1, TodoEffect
  <1>3. CASE Len(t) = 1
    <2>1. Advanced(c) = Idle /\ Idle.todo = Tail(t)
      BY <1>2, <1>3 DEF Advanced, Idle
    <2>2. Idle \in ClientStates
      BY TwinAssumption, SceneAssumption DEF Idle, ClientStates, Todos
    <2>. QED  BY <1>1, <1>2, <2>1, <2>2
  <1>4. CASE Len(t) # 1
    <2>1. Advanced(c) = [client[c] EXCEPT !.todo = Tail(t)]
      BY <1>4 DEF Advanced
    <2>2. Advanced(c) \in ClientStates /\ Advanced(c).todo = Tail(t)
      BY <1>2, <2>1 DEF ClientStates
    <2>. QED  BY <1>1, <1>2, <2>1, <2>2 DEF ClientStates
  <1>. QED  BY <1>3, <1>4

-----------------------------------------------------------------------------
(* The types, with what the clients and the engine carry in their hands:   *)
(* a button that is a momentary one, parcels that have been spawned; and   *)
(* what a scan relies on, a coherent state that shows its motor.           *)
Spawned == {i \in Parcels : parcel[i].born}

ClientHolds(c) ==
  /\ First(client[c].todo) \in {"press", "pulse"} => client[c].button \in Momentary
  /\ First(client[c].todo) \in {"place", "mark", "stick"} => client[c].mine \in Spawned
  /\ client[c].kept \subseteq Spawned

ClientsTyped == /\ client \in [Clients -> ClientStates]
                /\ \A c \in Clients : ClientHolds(c)

Typed == /\ TypeOK /\ ClientsTyped
         /\ Coherent(plc) /\ out.motor = plc.running
         /\ remaining \subseteq Spawned /\ visit \subseteq Spawned
         /\ at \notin {"loop", "clear", "dead"} => released = {}

LEMMA IdleHolds ==
  /\ Idle \in ClientStates /\ First(Idle.todo) = "none" /\ Idle.kept = {}
  BY TwinAssumption, SceneAssumption DEF Idle, ClientStates, Todos, First

LEMMA InitTyped == Init => Typed
  <1> SUFFICES ASSUME Init PROVE Typed
    OBVIOUS
  <1>1. ClientsTyped
    BY IdleHolds DEF Init, ClientsTyped, ClientHolds
  <1>2. /\ plc \in ControlState /\ out \in OutputStates
        /\ Coherent(plc) /\ out.motor = plc.running
    BY ScanStarts DEF Init, InitialState, OutputsOff
  <1>3. parcel \in [Parcels -> [born : BOOLEAN, dest : {ChuteA, ChuteB}, pos : 0 .. Far,
                             scanned : BOOLEAN, stuck : BOOLEAN,
                             routed : {"no", "A", "B"}]]
    BY TwinAssumption, SceneAssumption DEF Init, Nobody, Far
  <1>4. read \in ScanInputs
    BY TwinAssumption, SceneAssumption DEF Init, NoRead, ScanInputs
  <1>5. at \in EngineSteps /\ {fresh, estopped, obeyed, slipped, raced} \subseteq BOOLEAN
    BY DEF Init, EngineSteps
  <1>6. \A c \in Clients : client[c].button \in Momentary \cup {"none"}
    BY DEF Init, Idle
  <1>7. level \in [Buttons -> BOOLEAN] /\ size \in 0 .. 3 /\ sent \in 0 .. MaxCommands
    BY TwinAssumption, SceneAssumption DEF Init
  <1>. QED
    BY <1>1, <1>2, <1>3, <1>4, <1>5, <1>6, <1>7 DEF Init, Typed, TypeOK

(* One client changes, and no parcel is forgotten. *)
LEMMA ClientChanges ==
  ASSUME ClientsTyped, Spawned \subseteq Spawned', NEW c \in Clients, NEW x \in ClientStates,
         client' = [client EXCEPT ![c] = x],
         First(x.todo) \in {"press", "pulse"} => x.button \in Momentary,
         First(x.todo) \in {"place", "mark", "stick"} => x.mine \in Spawned',
         x.kept \subseteq Spawned'
  PROVE  ClientsTyped'
  <1>1. client' \in [Clients -> ClientStates] /\ client'[c] = x
    BY DEF ClientsTyped
  <1>2. ClientHolds(c)'
    BY <1>1 DEF ClientHolds
  <1>3. ASSUME NEW d \in Clients, d # c PROVE ClientHolds(d)'
    BY <1>3 DEF ClientsTyped, ClientHolds
  <1>. QED  BY <1>1, <1>2, <1>3 DEF ClientsTyped

(* A client goes on to its next statement. *)
LEMMA AdvanceTyped ==
  ASSUME Typed, NEW c \in Clients, NEW s, Doing(c, s), s # "spawn", Advance(c),
         Spawned \subseteq Spawned'
  PROVE  ClientsTyped'
  <1>1. ClientsTyped /\ client' = [client EXCEPT ![c] = Advanced(c)]
    BY DEF Typed, Advance
  <1>2. client[c] \in ClientStates /\ ClientHolds(c)
    BY <1>1 DEF ClientsTyped
  <1>3. /\ Advanced(c) \in ClientStates
        /\ First(client[c].todo) = s
        /\ Follows(s, First(Advanced(c).todo))
        /\ \/ Advanced(c) = Idle
           \/ /\ Advanced(c).button = client[c].button
              /\ Advanced(c).mine = client[c].mine
              /\ Advanced(c).kept = client[c].kept
    BY <1>2, AdvanceEffect
  <1>4. /\ First(Advanced(c).todo) \in {"press", "pulse"} => Advanced(c).button \in Momentary
        /\ First(Advanced(c).todo) \in {"place", "mark", "stick"} => Advanced(c).mine \in Spawned'
        /\ Advanced(c).kept \subseteq Spawned'
    BY <1>2, <1>3, IdleHolds DEF ClientHolds, Follows
  <1>. QED  BY <1>1, <1>3, <1>4, ClientChanges

(* A client's command is over. *)
LEMMA IdleTyped ==
  ASSUME ClientsTyped, NEW c \in Clients, client' = [client EXCEPT ![c] = Idle],
         Spawned \subseteq Spawned'
  PROVE  ClientsTyped'
  BY IdleHolds, ClientChanges

ParcelStates == [born : BOOLEAN, dest : {ChuteA, ChuteB}, pos : 0 .. Far,
                 scanned : BOOLEAN, stuck : BOOLEAN, routed : {"no", "A", "B"}]

(* What the scene must be for the types to hold. *)
SceneTyped == /\ parcel \in [Parcels -> ParcelStates]
              /\ list \subseteq Spawned /\ remaining \subseteq Spawned
              /\ visit \subseteq Spawned
              /\ published \in {0, ChuteA, ChuteB} /\ next \in {ChuteA, ChuteB}

(* What the rest of the state must be. *)
RestTyped ==
  /\ level \in [Buttons -> BOOLEAN] /\ pulse \subseteq Momentary
  /\ plc \in ControlState /\ out \in OutputStates
  /\ Coherent(plc) /\ out.motor = plc.running
  /\ at \in EngineSteps /\ read \in ScanInputs
  /\ released \subseteq pulse /\ size \in 0 .. 3
  /\ sent \in 0 .. MaxCommands
  /\ attached \in BOOLEAN /\ cleared \subseteq Parcels
  /\ {fresh, estopped, obeyed, slipped, raced} \subseteq BOOLEAN
  /\ at \notin {"loop", "clear", "dead"} => released = {}

LEMMA TypedParts == Typed <=> SceneTyped /\ RestTyped /\ ClientsTyped
  <1>1. ClientsTyped => \A c \in Clients : client[c].button \in Momentary \cup {"none"}
    BY DEF ClientsTyped, ClientStates
  <1>. QED
    BY <1>1 DEF Typed, TypeOK, SceneTyped, RestTyped, ParcelStates, Spawned

(* One parcel on the line changes. *)
LEMMA ParcelChanges ==
  ASSUME SceneTyped, NEW i \in Parcels, NEW x \in ParcelStates,
         x.born = parcel[i].born, parcel' = [parcel EXCEPT ![i] = x]
  PROVE  parcel' \in [Parcels -> ParcelStates] /\ Spawned' = Spawned
  BY DEF SceneTyped, Spawned

(* A parcel comes to the line: the least of those still to come. *)
LEMMA NewcomerEffect ==
  ASSUME SceneTyped, Unspawned # {}, NEW dest \in {ChuteA, ChuteB},
         parcel' = [parcel EXCEPT ![Min(Unspawned)] = Newcomer(dest)]
  PROVE  /\ Min(Unspawned) \in Parcels /\ ~parcel[Min(Unspawned)].born
         /\ parcel' \in [Parcels -> ParcelStates]
         /\ Spawned' = Spawned \cup {Min(Unspawned)}
         /\ parcel'[Min(Unspawned)].routed = "no"
  <1> DEFINE i == Min(Unspawned)
  <1>1. i \in Unspawned
    BY MinIsLeast, TwinAssumption, SceneAssumption DEF Unspawned, Parcels
  <1>2. i \in Parcels /\ ~parcel[i].born
    BY <1>1 DEF Unspawned
  <1>3. Newcomer(dest) \in ParcelStates /\ Newcomer(dest).born /\ Newcomer(dest).routed = "no"
    <2>1. 0 \in 0 .. Far
      BY TwinAssumption, SceneAssumption DEF Far
    <2>2. Nobody \in ParcelStates /\ Nobody.routed = "no"
      BY <2>1 DEF Nobody, ParcelStates
    <2>. QED  BY <2>2 DEF Newcomer, ParcelStates
  <1> HIDE DEF i
  <1>4. parcel' = [parcel EXCEPT ![i] = Newcomer(dest)]
    BY DEF i
  <1>5. /\ parcel' \in [Parcels -> ParcelStates]
        /\ Spawned' = Spawned \cup {i}
        /\ parcel'[i].routed = "no"
    BY <1>2, <1>3, <1>4 DEF SceneTyped, Spawned
  <1>. QED  BY <1>2, <1>5 DEF i

(* The scan runs the program on the image the tick has read. *)
LEMMA ScanOnceEffect ==
  ASSUME Typed, ScanOnce
  PROVE  /\ Scanned(plc, read, plc')
         /\ out' \in OutputStates /\ out'.motor = plc'.running
         /\ at = "scan" /\ at' \in {"move", "label"}
  <1>1. RestTyped
    BY TypedParts
  <1>2. Scanned(plc, read, plc')
    BY <1>1, ScanEffect DEF ScanOnce, RestTyped
  <1>3. out' \in OutputStates /\ out'.motor = plc'.running
    BY <1>1, <1>2, OutputsEffect DEF ScanOnce, RestTyped, Scanned
  <1>. QED  BY <1>2, <1>3 DEF ScanOnce

(* A loop of the step comes to one parcel of its list, and changes none    *)
(* but that: its position, its label, or its route if it had none.         *)
LEMMA VisitEffect ==
  ASSUME Typed, NEW i \in Parcels, Move(i) \/ Label(i) \/ Route(i)
  PROVE  /\ i \in visit /\ visit' = visit \ {i} /\ at' = at /\ at \in Loops
         /\ UNCHANGED <<list, next, level, pulse, plc, out, read, attached, released,
                        size, client, sent, history>>
         /\ parcel' \in [Parcels -> ParcelStates]
         /\ published' \in {0, ChuteA, ChuteB}
         /\ remaining' \subseteq remaining \cup {i}
         /\ \A j \in Parcels \ {i} : parcel'[j] = parcel[j]
         /\ parcel'[i].born = parcel[i].born
         /\ parcel'[i].stuck = parcel[i].stuck
         /\ parcel[i].routed # "no" => parcel'[i].routed = parcel[i].routed
  <1> DEFINE m == [parcel[i] EXCEPT !.pos = IF parcel[i].stuck \/ @ = Far THEN @ ELSE @ + 1]
             l == [parcel[i] EXCEPT !.scanned = TRUE]
             w == [parcel[i] EXCEPT !.routed = IF out.divert THEN "A" ELSE "B"]
  <1>1. SceneTyped /\ parcel[i] \in ParcelStates /\ parcel \in [Parcels -> ParcelStates]
    BY TypedParts DEF SceneTyped
  <1>2. i \in visit /\ visit' = visit \ {i} /\ at' = at /\ at \in Loops
    <2>1. visit # {} /\ i = Min(visit) /\ visit' = visit \ {i} /\ at \in Loops
      BY DEF Move, Label, Route, Visits, Loops
    <2>2. visit \subseteq 1 .. MaxParcels
      BY <1>1 DEF SceneTyped, Spawned, Parcels
    <2>3. Min(visit) \in visit
      BY <2>1, <2>2, MinIsLeast, SceneAssumption
    <2>. QED  BY <2>1, <2>3 DEF Move, Label, Route
  <1>3. /\ m \in ParcelStates /\ l \in ParcelStates /\ w \in ParcelStates
        /\ m.born = parcel[i].born /\ l.born = parcel[i].born /\ w.born = parcel[i].born
        /\ m.stuck = parcel[i].stuck /\ l.stuck = parcel[i].stuck /\ w.stuck = parcel[i].stuck
        /\ m.routed = parcel[i].routed /\ l.routed = parcel[i].routed
    <2>1. Far \in Nat
      BY SceneAssumption DEF Far
    <2>2. parcel[i].pos \in 0 .. Far
      BY <1>1 DEF ParcelStates
    <2>3. (IF parcel[i].stuck \/ parcel[i].pos = Far THEN parcel[i].pos
           ELSE parcel[i].pos + 1) \in 0 .. Far
      BY <2>1, <2>2
    <2>. QED  BY <1>1, <2>3 DEF ParcelStates
  <1>4. \/ parcel' = parcel
        \/ parcel' = [parcel EXCEPT ![i] = m]
        \/ parcel' = [parcel EXCEPT ![i] = l]
        \/ /\ parcel[i].routed = "no"
           /\ parcel' = [parcel EXCEPT ![i] = w]
    BY DEF Move, Label, Route, Routes
  <1>5. published' = published \/ published' = parcel[i].dest
    BY DEF Move, Label, Route
  <1>6. remaining' = remaining \/ remaining' = remaining \cup {i}
    BY DEF Move, Label, Route
  <1>7. UNCHANGED <<list, next, level, pulse, plc, out, read, attached, released,
                    size, client, sent, history>>
    BY DEF Move, Label, Route
  <1> HIDE DEF m, l, w
  <1>8. published' \in {0, ChuteA, ChuteB}
    BY <1>1, <1>5 DEF SceneTyped, ParcelStates
  <1>9. /\ parcel' \in [Parcels -> ParcelStates]
        /\ \A j \in Parcels \ {i} : parcel'[j] = parcel[j]
        /\ parcel'[i].born = parcel[i].born
        /\ parcel'[i].stuck = parcel[i].stuck
        /\ parcel[i].routed # "no" => parcel'[i].routed = parcel[i].routed
    BY <1>1, <1>3, <1>4
  <1>. QED  BY <1>2, <1>6, <1>7, <1>8, <1>9

(* The pulses to release are momentary buttons: at most three. *)
LEMMA PulsesAreFew ==
  ASSUME NEW S \in SUBSET Momentary
  PROVE  Cardinality(S) \in 0 .. 3
  <1>1. IsFiniteSet({"start"}) /\ Cardinality({"start"}) = 1
    BY FS_Singleton
  <1>2. IsFiniteSet({"start"} \cup {"stop"}) /\ Cardinality({"start"} \cup {"stop"}) <= 2
    BY <1>1, FS_AddElement
  <1>3. /\ IsFiniteSet({"start"} \cup {"stop"} \cup {"reset"})
        /\ Cardinality({"start"} \cup {"stop"} \cup {"reset"}) <= 3
    <2>1. Cardinality({"start"} \cup {"stop"}) \in Nat
      BY <1>2, FS_CardinalityType
    <2>. QED  BY <1>2, <2>1, FS_AddElement
  <1>4. Momentary = {"start"} \cup {"stop"} \cup {"reset"}
    BY DEF Momentary
  <1>5. IsFiniteSet(S) /\ Cardinality(S) <= Cardinality(Momentary)
    BY <1>3, <1>4, FS_Subset
  <1>6. Cardinality(S) \in Nat /\ Cardinality(Momentary) \in Nat
    BY <1>3, <1>4, <1>5, FS_CardinalityType
  <1>. QED  BY <1>3, <1>4, <1>5, <1>6

LEMMA StepTyped ==
  ASSUME Typed, [Next]_vars
  PROVE  Typed'
  <1>1. SceneTyped /\ RestTyped /\ ClientsTyped
    BY TypedParts
  <1> SUFFICES SceneTyped' /\ RestTyped' /\ ClientsTyped'
    BY TypedParts, PTL
  <1> USE DEF scene, engine, history, lines
  <1>2. CASE UNCHANGED vars
    BY <1>1, <1>2
       DEF vars, SceneTyped, RestTyped, ClientsTyped, ClientHolds, Spawned
  <1>3. ASSUME NEW c \in Clients, NEW cmd \in Commands, Command(c, cmd)
        PROVE  SceneTyped' /\ RestTyped' /\ ClientsTyped'
    <2>1. cmd \in {"start", "stop", "reset", "estop", "jam"}
      BY TwinAssumption, SceneAssumption
    <2>2. /\ Program[cmd] \in Todos
          /\ First(Program[cmd]) \in {"press", "latch", "spawn"}
          /\ First(Program[cmd]) = "press" => cmd \in Momentary
      BY <2>1 DEF Program, Todos, First, Momentary
    <2>3. client[c] \in ClientStates /\ ClientHolds(c)
      BY <1>1 DEF ClientsTyped
    <2>4. ClientsTyped'
      <3> DEFINE x == [client[c] EXCEPT !.todo = Program[cmd],
                         !.button = IF cmd \in Momentary THEN cmd ELSE "none"]
      <3>1. x \in ClientStates /\ x.todo = Program[cmd] /\ x.kept = client[c].kept
        BY <2>2, <2>3 DEF ClientStates
      <3>2. cmd \in Momentary => x.button = cmd
        BY <2>3 DEF ClientStates
      <3>3. client' = [client EXCEPT ![c] = x] /\ Spawned' = Spawned
        BY <1>1, <1>3 DEF Command, ClientsTyped, Spawned
      <3> HIDE DEF x
      <3>. QED  BY <1>1, <2>2, <2>3, <3>1, <3>2, <3>3, ClientChanges DEF ClientHolds
    <2>. QED
      BY <1>1, <1>3, <2>4, TwinAssumption, SceneAssumption DEF Command, SceneTyped, RestTyped, Spawned
  <1>4. ASSUME NEW c \in Clients, ClientStep(c)
        PROVE  SceneTyped' /\ RestTyped' /\ ClientsTyped'
    <2>1. client[c] \in ClientStates /\ ClientHolds(c)
      BY <1>1 DEF ClientsTyped
    <2>2. ASSUME NEW s, Doing(c, s) PROVE First(client[c].todo) = s
      BY <2>1, <2>2, AdvanceEffect
    <2>3. CASE Press(c)
      <3>1. ClientsTyped'
        BY <2>3, AdvanceTyped DEF Press, Spawned
      <3>2. client[c].button \in Momentary
        BY <2>1, <2>2, <2>3 DEF Press, ClientHolds
      <3>. QED
        BY <1>1, <2>3, <3>1, <3>2 DEF Press, SceneTyped, RestTyped, Spawned, Buttons
    <2>4. CASE Pulse(c)
      <3>1. ClientsTyped'
        BY <2>4, AdvanceTyped DEF Pulse, Spawned
      <3>2. client[c].button \in Momentary
        BY <2>1, <2>2, <2>4 DEF Pulse, ClientHolds
      <3>. QED
        BY <1>1, <2>4, <3>1, <3>2 DEF Pulse, SceneTyped, RestTyped, Spawned
    <2>5. CASE Latch(c)
      <3>1. ClientsTyped'
        BY <2>5, AdvanceTyped DEF Latch, Spawned
      <3>. QED
        BY <1>1, <2>5, <3>1 DEF Latch, SceneTyped, RestTyped, Spawned, Buttons
    <2>6. CASE Unlatch(c)
      <3>1. ClientsTyped'
        BY <2>6, AdvanceTyped DEF Unlatch, Spawned
      <3>. QED
        BY <1>1, <2>6, <3>1 DEF Unlatch, SceneTyped, RestTyped, Spawned, Buttons
    <2>13. CASE Look(c)
      <3>1. ClientsTyped'
        BY <1>1, <2>13, AdvanceTyped, IdleTyped DEF Look, Spawned
      <3>. QED  BY <1>1, <2>13, <3>1 DEF Look, SceneTyped, RestTyped, Spawned
    <2>7. CASE Filter(c)
      <3> DEFINE kept == {i \in list : ~parcel[i].stuck}
                 x == [Advanced(c) EXCEPT !.kept = kept]
      <3>1. Spawned' = Spawned /\ Doing(c, "filter") /\ client' = [client EXCEPT ![c] = x]
        BY <2>7 DEF Filter, Spawned
      <3>2. Advanced(c) \in ClientStates /\ First(Advanced(c).todo) = "replace"
        BY <2>1, <3>1, AdvanceEffect DEF Follows
      <3>3. kept \subseteq Spawned'
        BY <1>1, <3>1 DEF SceneTyped
      <3>4. x \in ClientStates /\ First(x.todo) = "replace" /\ x.kept \subseteq Spawned'
        BY <3>1, <3>2, <3>3 DEF ClientStates, Spawned
      <3>5. ClientsTyped'
        BY <1>1, <3>1, <3>4, ClientChanges
      <3>. QED  BY <1>1, <2>7, <3>5 DEF Filter, SceneTyped, RestTyped, Spawned
    <2>8. CASE Replace(c)
      <3>1. ClientsTyped'
        BY <2>8, AdvanceTyped DEF Replace, Spawned
      <3>2. cleared' \subseteq Parcels /\ attached' \in BOOLEAN /\ raced' \in BOOLEAN
        BY <1>1, <2>8 DEF Replace, SceneTyped, RestTyped, Spawned, EngineHolds, OtherHolds, Doing
      <3>. QED
        BY <1>1, <2>1, <2>8, <3>1, <3>2 DEF Replace, SceneTyped, RestTyped, Spawned, ClientHolds
    <2>9. CASE SpawnJam(c)
      <3> DEFINE i == Min(Unspawned)
                 x == [Advanced(c) EXCEPT !.mine = i]
      <3>1. /\ i \in Parcels /\ Spawned' = Spawned \cup {i}
            /\ parcel' \in [Parcels -> ParcelStates]
        BY <1>1, <2>9, NewcomerEffect DEF SpawnJam
      <3>2. Doing(c, "spawn") /\ list' = list \cup {i} /\ client' = [client EXCEPT ![c] = x]
        BY <2>9 DEF SpawnJam
      <3> HIDE DEF i
      <3>3. Advanced(c) \in ClientStates /\ First(Advanced(c).todo) = "place"
        BY <2>1, <3>2, AdvanceEffect DEF Follows
      <3>4. Advanced(c).kept \subseteq Spawned
        BY <2>1, <3>2, AdvanceEffect, IdleHolds DEF ClientHolds
      <3>5. /\ x \in ClientStates /\ First(x.todo) = "place" /\ x.mine = i
            /\ x.kept = Advanced(c).kept
        BY <3>1, <3>3 DEF ClientStates, Parcels
      <3> HIDE DEF x
      <3>6. ClientsTyped'
        BY <1>1, <3>1, <3>2, <3>4, <3>5, ClientChanges
      <3>7. visit' \subseteq Spawned'
        <4>1. visit' = Joins(i)
          BY <2>9 DEF SpawnJam, i
        <4>. QED  BY <1>1, <3>1, <4>1 DEF Joins, SceneTyped
      <3>8. raced' \in BOOLEAN
        BY <1>1, <2>9 DEF SpawnJam, RestTyped, OtherHolds, Doing
      <3>9. SceneTyped'
        BY <1>1, <2>9, <3>1, <3>2, <3>7 DEF SpawnJam, SceneTyped
      <3>10. RestTyped'
        BY <1>1, <2>9, <3>8 DEF SpawnJam, RestTyped
      <3>. QED  BY <3>6, <3>9, <3>10
    <2>10. CASE Place(c)
      <3>1. client[c].mine \in Parcels /\ Pe2 \in 0 .. Far
        BY <2>1, <2>2, <2>10, TwinAssumption, SceneAssumption DEF Place, ClientHolds, Spawned, Far
      <3>2. parcel' \in [Parcels -> ParcelStates] /\ Spawned' = Spawned
        BY <1>1, <2>10, <3>1 DEF Place, SceneTyped, ParcelStates, Spawned
      <3>3. ClientsTyped'
        BY <1>1, <2>10, <3>2, AdvanceTyped, IdleTyped DEF Place
      <3>. QED
        BY <1>1, <2>10, <3>2, <3>3 DEF Place, SceneTyped, RestTyped
    <2>11. CASE Mark(c)
      <3>1. client[c].mine \in Spawned /\ client[c].mine \in Parcels
        BY <2>1, <2>2, <2>11 DEF Mark, ClientHolds, Spawned
      <3>2. parcel' \in [Parcels -> ParcelStates] /\ Spawned' = Spawned
        <4> DEFINE m == client[c].mine
                   x == [parcel[m] EXCEPT !.scanned = TRUE]
        <4>1. parcel' = [parcel EXCEPT ![m] = x]
          BY <2>11 DEF Mark
        <4>2. parcel[m] \in ParcelStates
          BY <1>1, <3>1 DEF SceneTyped
        <4>3. x \in ParcelStates /\ x.born = parcel[m].born
          BY <4>2 DEF ParcelStates
        <4>. QED  BY <1>1, <3>1, <4>1, <4>3, ParcelChanges
      <3>3. ClientsTyped'
        BY <2>11, <3>2, AdvanceTyped DEF Mark
      <3>. QED
        BY <1>1, <2>11, <3>2, <3>3 DEF Mark, SceneTyped, RestTyped
    <2>12. CASE StickIt(c)
      <3>1. client[c].mine \in Spawned /\ client[c].mine \in Parcels
        BY <2>1, <2>2, <2>12 DEF StickIt, ClientHolds, Spawned
      <3>2. parcel' \in [Parcels -> ParcelStates] /\ Spawned' = Spawned
        <4> DEFINE m == client[c].mine
                   x == [parcel[m] EXCEPT !.stuck = TRUE]
        <4>1. parcel' = [parcel EXCEPT ![m] = x]
          BY <2>12 DEF StickIt
        <4>2. parcel[m] \in ParcelStates
          BY <1>1, <3>1 DEF SceneTyped
        <4>3. x \in ParcelStates /\ x.born = parcel[m].born
          BY <4>2 DEF ParcelStates
        <4>. QED  BY <1>1, <3>1, <4>1, <4>3, ParcelChanges
      <3>3. ClientsTyped'
        BY <2>12, <3>2, AdvanceTyped DEF StickIt
      <3>. QED
        BY <1>1, <2>12, <3>2, <3>3 DEF StickIt, SceneTyped, RestTyped
    <2>. QED
      BY <1>4, <2>3, <2>4, <2>5, <2>6, <2>7, <2>8, <2>9, <2>10, <2>11, <2>12,
         <2>13 DEF ClientStep
  <1>5. ASSUME EngineStep
        PROVE  SceneTyped' /\ RestTyped' /\ ClientsTyped'
    <2>1. ClientsTyped'
      <3>1. client' = client /\ Spawned \subseteq Spawned'
        <4>1. CASE \E i \in Parcels : Move(i) \/ Label(i) \/ Route(i)
          BY <4>1, VisitEffect DEF Spawned
        <4>2. CASE ~\E i \in Parcels : Move(i) \/ Label(i) \/ Route(i)
          BY <1>1, <1>5, <4>2, NewcomerEffect
             DEF EngineStep, Feed, Sense, Copy, ScanOnce, LoopEnds, Assign, BeginRelease,
                 NextRelease, ClearPulses, SceneTyped, Spawned
        <4>. QED  BY <4>1, <4>2
      <3>. QED  BY <1>1, <3>1 DEF ClientsTyped, ClientHolds
    <2>2. CASE Feed
      <3>0. raced' \in BOOLEAN
        BY <1>1, <2>2 DEF Feed, RestTyped, Doing
      <3>1. CASE UNCHANGED <<parcel, list, next>>
        BY <1>1, <2>1, <2>2, <3>0, <3>1
           DEF Feed, SceneTyped, RestTyped, EngineSteps, Buttons, Momentary, Spawned
      <3>2. CASE /\ Unspawned # {}
                 /\ parcel' = [parcel EXCEPT ![Min(Unspawned)] = Newcomer(next)]
                 /\ list' = list \cup {Min(Unspawned)}
                 /\ next' = IF next = ChuteA THEN ChuteB ELSE ChuteA
        <4>1. /\ Spawned' = Spawned \cup {Min(Unspawned)}
              /\ parcel' \in [Parcels -> ParcelStates]
          BY <1>1, <3>2, NewcomerEffect DEF SceneTyped
        <4>. QED
          BY <1>1, <2>1, <2>2, <3>0, <3>2, <4>1
             DEF Feed, SceneTyped, RestTyped, EngineSteps, Buttons, Momentary
      <3>. QED  BY <2>2, <3>1, <3>2 DEF Feed
    <2>3. CASE Sense
      <3>1. read' \in ScanInputs
        BY <1>1, <2>3, TwinAssumption, SceneAssumption
           DEF Sense, SceneTyped, RestTyped, ScanInputs, Blocked
      <3>. QED
        BY <1>1, <2>1, <2>3, <3>1
           DEF Sense, SceneTyped, RestTyped, EngineSteps, Buttons, Momentary, Spawned
    <2>4. ASSUME NEW b \in Buttons, Copy(b) PROVE SceneTyped' /\ RestTyped'
      <3>1. level[b] \in BOOLEAN /\ read \in ScanInputs
        BY <1>1 DEF RestTyped
      <3>2. read' \in ScanInputs
        BY <2>4, <3>1 DEF Copy, ScanInputs, Buttons, Momentary
      <3>3. at' \in EngineSteps /\ at' \notin {"loop", "clear", "dead"}
            /\ at \notin {"loop", "clear", "dead"}
        BY <2>4 DEF Copy, NextOf, EngineSteps, Buttons, Momentary
      <3>. QED
        BY <1>1, <2>4, <3>2, <3>3 DEF Copy, SceneTyped, RestTyped, Spawned
    <2>5. CASE ScanOnce
      <3>1. /\ plc' \in ControlState /\ Coherent(plc')
            /\ out' \in OutputStates /\ out'.motor = plc'.running
            /\ at = "scan" /\ at' \in {"move", "label"}
        BY <2>5, ScanOnceEffect DEF Scanned
      <3>2. read' \in ScanInputs
        BY <2>5, TwinAssumption, SceneAssumption DEF ScanOnce, NoRead, ScanInputs
      <3>3. {fresh', estopped', obeyed', slipped', raced'} \subseteq BOOLEAN
        BY <1>1, <2>5 DEF ScanOnce, RestTyped
      <3>4. SceneTyped'
        BY <1>1, <2>5 DEF ScanOnce, SceneTyped, Spawned
      <3>5. RestTyped'
        BY <1>1, <2>5, <3>1, <3>2, <3>3 DEF ScanOnce, RestTyped, EngineSteps, Loops
      <3>. QED  BY <2>1, <3>4, <3>5
    <2>10. CASE LoopEnds
      <3>1. at' \in EngineSteps /\ at \notin {"loop", "clear", "dead"}
            /\ at' \notin {"loop", "clear", "dead"}
        BY <2>10 DEF LoopEnds, Loops, NextLoop, EngineSteps
      <3>2. SceneTyped'
        BY <1>1, <2>10 DEF LoopEnds, SceneTyped, Spawned
      <3>3. RestTyped'
        BY <1>1, <2>10, <3>1 DEF LoopEnds, RestTyped
      <3>. QED  BY <2>1, <3>2, <3>3
    <2>11. ASSUME NEW i \in Parcels, Move(i) \/ Label(i) \/ Route(i)
           PROVE  SceneTyped' /\ RestTyped'
      <3>1. /\ i \in visit /\ visit' = visit \ {i} /\ at' = at
            /\ UNCHANGED <<list, next, level, pulse, plc, out, read, attached, released,
                           size, client, sent, history>>
            /\ parcel' \in [Parcels -> ParcelStates]
            /\ published' \in {0, ChuteA, ChuteB}
            /\ remaining' \subseteq remaining \cup {i}
            /\ Spawned' = Spawned
        BY <2>11, VisitEffect DEF Spawned
      <3>2. SceneTyped'
        BY <1>1, <3>1 DEF SceneTyped
      <3>3. RestTyped'
        BY <1>1, <3>1 DEF RestTyped
      <3>. QED  BY <3>2, <3>3
    <2>6. CASE Assign
      <3>1. raced' \in BOOLEAN
        BY <1>1, <2>6 DEF Assign, RestTyped, Doing
      <3>. QED
        BY <1>1, <2>1, <2>6, <3>1 DEF Assign, SceneTyped, RestTyped, EngineSteps, Spawned
    <2>7. CASE BeginRelease
      <3>1. size' \in 0 .. 3
        BY <1>1, <2>7, PulsesAreFew DEF BeginRelease, RestTyped
      <3>. QED
        BY <1>1, <2>1, <2>7, <3>1
           DEF BeginRelease, Release, SceneTyped, RestTyped, EngineSteps, Spawned
    <2>8. CASE NextRelease
      BY <1>1, <2>1, <2>8
         DEF NextRelease, Release, SceneTyped, RestTyped, EngineSteps, Spawned
    <2>9. CASE ClearPulses
      BY <1>1, <2>1, <2>9 DEF ClearPulses, SceneTyped, RestTyped, EngineSteps, Spawned
    <2>. QED
      BY <1>5, <2>1, <2>2, <2>3, <2>4, <2>5, <2>6, <2>7, <2>8, <2>9, <2>10, <2>11
         DEF EngineStep
  <1>. QED  BY <1>2, <1>3, <1>4, <1>5 DEF Next

LEMMA TypedInvariance == Spec => []Typed
  <1>1. Typed /\ [Next]_vars => Typed'
    BY StepTyped
  <1>. QED  BY <1>1, InitTyped, PTL DEF Spec

(* Every variable keeps its type: in particular a list never names a       *)
(* parcel that was not spawned, whichever thread's list survives.          *)
THEOREM TypeCorrect == Spec => []TypeOK
  <1>1. Typed => TypeOK
    BY DEF Typed
  <1>. QED  BY <1>1, TypedInvariance, PTL

(* The only buttons a client presses or releases are the momentary ones. *)
LEMMA MomentaryOnly ==
  ASSUME Typed, NEW c \in Clients, Press(c) \/ Pulse(c)
  PROVE  client[c].button \in Momentary
  <1>1. client[c].todo # <<>> /\ First(client[c].todo) \in {"press", "pulse"}
    BY DEF Press, Pulse, Doing, First
  <1>. QED  BY <1>1 DEF Typed, ClientsTyped, ClientHolds

(* The loop of the pulses clears one of their levels, or none. *)
LEMMA ReleaseEffect ==
  ASSUME Typed, BeginRelease \/ NextRelease \/ ClearPulses
  PROVE  \/ level' = level
         \/ \E b \in pulse : b \in Momentary /\ Release(b)
  BY DEF BeginRelease, NextRelease, ClearPulses, Typed, TypeOK

-----------------------------------------------------------------------------
(* The E-stop: while a command has not been followed by a reset's, its     *)
(* level is up; a tick that began since then copies it before it scans.    *)
EstopInv ==
  /\ estopped => level["estop"]
  /\ obeyed => estopped
  /\ obeyed /\ at = "scan" => read.estop
  /\ EstopHolds

LEMMA StepEstop ==
  ASSUME Typed, EstopInv, [Next]_vars
  PROVE  EstopInv'
  <1> USE DEF scene, engine, history, lines
  <1>1. level \in [Buttons -> BOOLEAN] /\ read \in ScanInputs /\ at \in EngineSteps
    BY DEF Typed, TypeOK
  <1>2. CASE UNCHANGED vars
    BY <1>2 DEF vars, EstopInv, EstopHolds
  <1>3. ASSUME NEW c \in Clients, NEW cmd \in Commands, Command(c, cmd) PROVE EstopInv'
    BY <1>3 DEF Command, EstopInv, EstopHolds
  <1>4. ASSUME NEW c \in Clients, Press(c) PROVE EstopInv'
    <2>1. client[c].button # "estop"
      BY <1>4, MomentaryOnly DEF Momentary
    <2>. QED  BY <1>1, <1>4, <2>1 DEF Press, EstopInv, EstopHolds, Buttons
  <1>5. ASSUME NEW c \in Clients, Latch(c) PROVE EstopInv'
    BY <1>1, <1>5 DEF Latch, EstopInv, EstopHolds, Buttons
  <1>6. ASSUME NEW c \in Clients, Unlatch(c) PROVE EstopInv'
    BY <1>6 DEF Unlatch, EstopInv, EstopHolds
  <1>7. ASSUME NEW c \in Clients, \/ Pulse(c) \/ Look(c) \/ Filter(c) \/ Replace(c) \/ SpawnJam(c)
                                  \/ Place(c) \/ Mark(c) \/ StickIt(c)
        PROVE  EstopInv'
    BY <1>7 DEF Pulse, Look, Filter, Replace, SpawnJam, Place, Mark, StickIt,
                EstopInv, EstopHolds
  <1>8. ASSUME NEW b \in Buttons, Copy(b) PROVE EstopInv'
    <2>1. UNCHANGED <<level, out, estopped, obeyed>> /\ at = b /\ at' = NextOf[b]
      BY <1>8 DEF Copy
    <2>2. CASE b = "estop"
      <3>1. read'.estop = level["estop"]
        BY <1>1, <1>8, <2>2 DEF Copy, ScanInputs
      <3>. QED  BY <2>1, <2>2, <3>1 DEF EstopInv, EstopHolds, NextOf
    <2>3. CASE b # "estop"
      <3>1. at' \in Buttons /\ at' # "scan"
        BY <2>1, <2>3 DEF NextOf, Buttons, Momentary
      <3>. QED  BY <2>1, <3>1 DEF EstopInv, EstopHolds
    <2>. QED  BY <2>2, <2>3
  <1>9. CASE ScanOnce
    <2>1. /\ Scanned(plc, read, plc') /\ out'.motor = plc'.running
          /\ at = "scan" /\ at' \in {"move", "label"}
      BY <1>9, ScanOnceEffect
    <2>2. UNCHANGED <<level, estopped, obeyed>>
      BY <1>9 DEF ScanOnce
    <2>. QED  BY <2>1, <2>2 DEF EstopInv, EstopHolds, Scanned
  <1>10. CASE Feed \/ Sense \/ Assign
    BY <1>10 DEF Feed, Sense, Assign, EstopInv, EstopHolds, Buttons, Momentary
  <1>12. CASE LoopEnds \/ \E i \in Parcels : Move(i) \/ Label(i) \/ Route(i)
    <2>1. /\ at \in Loops /\ at' \in Loops \cup {"assign"}
          /\ UNCHANGED <<level, out, estopped, obeyed>>
      BY <1>12 DEF LoopEnds, NextLoop, Move, Label, Route, Visits, Loops
    <2>. QED  BY <2>1 DEF EstopInv, EstopHolds, Loops, Buttons, Momentary
  <1>11. CASE BeginRelease \/ NextRelease \/ ClearPulses
    <2>1. UNCHANGED <<out, estopped, obeyed>> /\ at' # "scan"
          /\ at \notin {"sense", "scan"} \cup Buttons
      BY <1>11 DEF BeginRelease, NextRelease, ClearPulses, Buttons, Momentary
    <2>2. level'["estop"] = level["estop"]
      BY <1>1, <1>11, ReleaseEffect DEF Release, Buttons, Momentary
    <2>. QED  BY <2>1, <2>2 DEF EstopInv, EstopHolds
  <1>. QED
    BY <1>2, <1>3, <1>4, <1>5, <1>6, <1>7, <1>8, <1>9, <1>10, <1>11, <1>12
       DEF Next, ClientStep, EngineStep

(* An E-stop is obeyed by the first tick that begins after it, and holds   *)
(* until a reset releases it, in every interleaving with other commands.   *)
THEOREM EstopIsObeyed == Spec => []EstopHolds
  <1>1. Init => EstopInv
    BY DEF Init, EstopInv, EstopHolds
  <1>2. Typed /\ EstopInv /\ [Next]_vars => EstopInv'
    BY StepEstop
  <1>3. EstopInv => EstopHolds
    BY DEF EstopInv
  <1>. QED  BY <1>1, <1>2, <1>3, TypedInvariance, PTL DEF Spec

-----------------------------------------------------------------------------
(* The starts: a Start that a scan will take for a new one, because it is  *)
(* in the image or because its level is up and still to be copied, was     *)
(* pressed after the last one scanned.                                     *)
StartInv ==
  /\ level["start"] /\ ~plc.prevStart => fresh
  /\ read.start /\ ~plc.prevStart => fresh
  /\ at \in {"stop", "reset", "estop", "scan"} /\ level["start"] /\ ~read.start => fresh

LEMMA StepStart ==
  ASSUME Typed, StartInv, [Next]_vars
  PROVE  StartInv'
  <1> USE DEF scene, engine, history, lines
  <1>1. /\ level \in [Buttons -> BOOLEAN] /\ read \in ScanInputs /\ at \in EngineSteps
        /\ "start" \in Buttons
    BY DEF Typed, TypeOK, Buttons, Momentary
  <1>2. CASE UNCHANGED vars
    BY <1>2 DEF vars, StartInv
  <1>3. ASSUME NEW c \in Clients, NEW cmd \in Commands, Command(c, cmd) PROVE StartInv'
    BY <1>3 DEF Command, StartInv
  <1>4. ASSUME NEW c \in Clients, Press(c) PROVE StartInv'
    <2>1. CASE client[c].button = "start"
      BY <1>4, <2>1 DEF Press, StartInv
    <2>2. CASE client[c].button # "start"
      BY <1>1, <1>4, <2>2 DEF Press, StartInv
    <2>. QED  BY <2>1, <2>2
  <1>5. ASSUME NEW c \in Clients, Latch(c) \/ Unlatch(c) PROVE StartInv'
    BY <1>1, <1>5 DEF Latch, Unlatch, StartInv
  <1>6. ASSUME NEW c \in Clients, \/ Pulse(c) \/ Look(c) \/ Filter(c) \/ Replace(c) \/ SpawnJam(c)
                                  \/ Place(c) \/ Mark(c) \/ StickIt(c)
        PROVE  StartInv'
    BY <1>6 DEF Pulse, Look, Filter, Replace, SpawnJam, Place, Mark, StickIt, StartInv
  <1>7. ASSUME NEW b \in Buttons, Copy(b) PROVE StartInv'
    <2>1. UNCHANGED <<level, plc, fresh>> /\ at = b /\ at' = NextOf[b]
      BY <1>7 DEF Copy
    <2>2. CASE b = "start"
      <3>1. read'.start = level["start"]
        BY <1>1, <1>7, <2>2 DEF Copy, ScanInputs
      <3>. QED  BY <2>1, <3>1 DEF StartInv
    <2>3. CASE b # "start"
      <3>1. read'.start = read.start
        BY <1>1, <1>7, <2>3 DEF Copy, ScanInputs
      <3>. QED  BY <2>1, <2>3, <3>1 DEF StartInv, Buttons, Momentary
    <2>. QED  BY <2>2, <2>3
  <1>8. CASE ScanOnce
    <2>1. plc'.prevStart = read.start /\ at = "scan" /\ at' \in {"move", "label"}
      BY <1>8, ScanOnceEffect DEF Scanned
    <2>2. /\ level' = level /\ ~read'.start
          /\ fresh' = (fresh /\ ~StartEdge(plc, read))
      BY <1>8 DEF ScanOnce, NoRead
    <2>. QED  BY <2>1, <2>2 DEF StartInv, StartEdge
  <1>11. CASE LoopEnds \/ \E i \in Parcels : Move(i) \/ Label(i) \/ Route(i)
    <2>1. at' \in Loops \cup {"assign"} /\ UNCHANGED <<level, read, plc, fresh>>
      BY <1>11 DEF LoopEnds, NextLoop, Move, Label, Route, Visits, Loops
    <2>. QED  BY <2>1 DEF StartInv, Loops
  <1>9. CASE Feed \/ Sense \/ Assign
    <2>1. UNCHANGED <<level, plc, fresh>> /\ at' \in {"sense", "start", "pulses"}
          /\ read'.start = read.start
      BY <1>1, <1>9 DEF Feed, Sense, Assign, ScanInputs
    <2>. QED  BY <2>1 DEF StartInv
  <1>10. CASE BeginRelease \/ NextRelease \/ ClearPulses
    <2>1. UNCHANGED <<read, plc, fresh>> /\ at' \in {"loop", "clear", "feed", "dead"}
      BY <1>10 DEF BeginRelease, NextRelease, ClearPulses
    <2>2. level'["start"] => level["start"]
      BY <1>1, <1>10, ReleaseEffect DEF Release, Buttons
    <2>. QED  BY <2>1, <2>2 DEF StartInv
  <1>. QED
    BY <1>2, <1>3, <1>4, <1>5, <1>6, <1>7, <1>8, <1>9, <1>10, <1>11
       DEF Next, ClientStep, EngineStep

(* The motor comes on only by a Start pressed after the last one scanned.  *)
THEOREM StartsAreDeliberate == Spec => StartsNeedPresses
  <1>1. Init => StartInv
    BY DEF Init, StartInv, NoRead, Buttons, Momentary
  <1>2. Typed /\ StartInv /\ [Next]_vars => StartInv'
    BY StepStart
  <1>3. Typed /\ StartInv /\ [Next]_vars => [out'.motor /\ ~out.motor => fresh]_vars
    <2> SUFFICES ASSUME Typed, StartInv, Next, out'.motor, ~out.motor PROVE fresh
      OBVIOUS
    <2>1. CASE ScanOnce
      BY <2>1, ScanOnceEffect DEF Typed, Scanned, StartInv
    <2>2. CASE ~ScanOnce
      <3>1. out' = out
        BY <2>2 DEF Next, ClientStep, EngineStep, Command, Press, Pulse, Latch, Unlatch,
                    LoopEnds, Move, Label, Route, Look, Filter, Replace, SpawnJam, Place, Mark, StickIt, Feed, Sense, Copy,
                    Assign, BeginRelease, NextRelease, ClearPulses
      <3>. QED  BY <3>1
    <2>. QED  BY <2>1, <2>2
  <1>. QED  BY <1>1, <1>2, <1>3, TypedInvariance, PTL DEF Spec, StartsNeedPresses

-----------------------------------------------------------------------------
(* The routes: a parcel still to come has not been routed, so a route is   *)
(* given only by the scan, to a parcel that had none.                      *)
RoutedInv == \A i \in Parcels : ~parcel[i].born => parcel[i].routed = "no"

RoutesStay ==
  \A i \in Parcels : parcel[i].routed # "no" => parcel'[i].routed = parcel[i].routed

LEMMA StepRouted ==
  ASSUME Typed, RoutedInv, [Next]_vars
  PROVE  RoutedInv' /\ RoutesStay
  <1>1. SceneTyped
    BY TypedParts
  <1>2. CASE parcel' = parcel
    BY <1>2 DEF RoutedInv, RoutesStay
  <1>3. ASSUME NEW dest \in {ChuteA, ChuteB}, Unspawned # {},
               parcel' = [parcel EXCEPT ![Min(Unspawned)] = Newcomer(dest)]
        PROVE  RoutedInv' /\ RoutesStay
    <2> DEFINE i == Min(Unspawned)
    <2>1. i \in Parcels /\ ~parcel[i].born /\ parcel'[i].routed = "no"
      BY <1>1, <1>3, NewcomerEffect
    <2>2. \A j \in Parcels : j # i => parcel'[j] = parcel[j]
      BY <1>1, <1>3 DEF SceneTyped
    <2> HIDE DEF i
    <2>. QED  BY <2>1, <2>2 DEF RoutedInv, RoutesStay
  <1>4. ASSUME NEW i \in Parcels, Move(i) \/ Label(i) \/ Route(i)
        PROVE  RoutedInv' /\ RoutesStay
    <2>1. /\ parcel[i].born /\ parcel'[i].born = parcel[i].born
          /\ parcel[i].routed # "no" => parcel'[i].routed = parcel[i].routed
          /\ \A j \in Parcels \ {i} : parcel'[j] = parcel[j]
      BY <1>1, <1>4, VisitEffect DEF SceneTyped, Spawned
    <2>. QED  BY <2>1 DEF RoutedInv, RoutesStay
  <1>5. ASSUME NEW c \in Clients, Place(c) \/ Mark(c) \/ StickIt(c)
        PROVE  RoutedInv' /\ RoutesStay
    <2>1. \A i \in Parcels : /\ parcel'[i].born = parcel[i].born
                             /\ parcel'[i].routed = parcel[i].routed
      BY <1>1, <1>5 DEF Place, Mark, StickIt, SceneTyped, ParcelStates
    <2>. QED  BY <2>1 DEF RoutedInv, RoutesStay
  <1>6. next \in {ChuteA, ChuteB}
    BY <1>1 DEF SceneTyped
  <1>. QED
    BY <1>2, <1>3, <1>4, <1>5, <1>6
       DEF Next, vars, scene, ClientStep, EngineStep, Command, Press, Pulse, Latch,
           Unlatch, Look, Filter, Replace, SpawnJam, Feed, Sense, Copy, ScanOnce,
           LoopEnds, Assign, BeginRelease, NextRelease, ClearPulses

(* A parcel is routed once, whichever list survives a race. *)
THEOREM RoutesAreFinal == Spec => RoutedForGood
  <1>1. Init => RoutedInv
    BY DEF Init, RoutedInv, Nobody
  <1>2. Typed /\ RoutedInv /\ [Next]_vars => RoutedInv' /\ [RoutesStay]_vars
    BY StepRouted
  <1>. QED
    BY <1>1, <1>2, TypedInvariance, PTL DEF Spec, RoutedForGood, RoutesStay

-----------------------------------------------------------------------------
(* The buttons: while no pulse slips in between the start of the loop and  *)
(* clear(), what clear() forgets is what the loop has released, and a      *)
(* released button that is down again was pressed by a client that has     *)
(* still to add its pulse.                                                 *)
Due(b) == \E c \in Clients : client[c].button = b /\ Doing(c, "pulse")

ButtonInv ==
  ~slipped =>
    /\ \A b \in Momentary : level[b] => b \in pulse \/ Due(b)
    /\ at \in {"loop", "clear"} => \A b \in released : level[b] => Due(b)
    /\ at = "clear" => released = pulse

(* A client that is not adding a pulse leaves what is due as it was. *)
LEMMA DueStays ==
  ASSUME Typed, NEW c \in Clients, ~Doing(c, "pulse"),
         NEW x, client' = [client EXCEPT ![c] = x], NEW b, Due(b)
  PROVE  Due(b)'
  <1>1. PICK d \in Clients : client[d].button = b /\ Doing(d, "pulse")
    BY DEF Due
  <1>2. client'[d] = client[d]
    BY <1>1 DEF Typed, ClientsTyped
  <1>. QED  BY <1>1, <1>2 DEF Due, Doing

LEMMA StepButton ==
  ASSUME Typed, ButtonInv, [Next]_vars
  PROVE  ButtonInv'
  <1> USE DEF scene, engine, history, lines
  <1>1. /\ level \in [Buttons -> BOOLEAN] /\ pulse \subseteq Momentary
        /\ released \subseteq pulse /\ Momentary \subseteq Buttons
        /\ at \notin {"loop", "clear", "dead"} => released = {}
        /\ client \in [Clients -> ClientStates] /\ slipped \in BOOLEAN
    BY DEF Typed, TypeOK, ClientsTyped, Buttons
  <1>2. CASE UNCHANGED vars
    BY <1>2 DEF vars, ButtonInv, Due, Doing
  <1>3. ASSUME NEW c \in Clients, NEW x, ~Doing(c, "pulse"),
               client' = [client EXCEPT ![c] = x],
               UNCHANGED <<pulse, at, released, slipped>>,
               \A b \in Momentary : level'[b] => level[b]
        PROVE  ButtonInv'
    <2>1. \A b : Due(b) => Due(b)'
      BY <1>3, DueStays
    <2>. QED  BY <1>1, <1>3, <2>1 DEF ButtonInv
  <1>4. ASSUME NEW c \in Clients, NEW cmd \in Commands, Command(c, cmd) PROVE ButtonInv'
    <2> DEFINE x == [client[c] EXCEPT !.todo = Program[cmd],
                       !.button = IF cmd \in Momentary THEN cmd ELSE "none"]
    <2>1. ~Doing(c, "pulse") /\ UNCHANGED <<level, pulse, at, released, slipped>>
      BY <1>4 DEF Command, Doing
    <2>2. client' = [client EXCEPT ![c] = x]
      BY <1>1, <1>4 DEF Command
    <2> HIDE DEF x
    <2>. QED  BY <1>3, <2>1, <2>2
  <1>5. ASSUME NEW c \in Clients, Press(c) PROVE ButtonInv'
    <2>1. Doing(c, "press") /\ client' = [client EXCEPT ![c] = Advanced(c)]
      BY <1>5 DEF Press, Advance
    <2>2. client[c].button \in Momentary
      BY <1>5, MomentaryOnly
    <2>3. /\ Advanced(c) \in ClientStates
          /\ First(Advanced(c).todo) = "pulse"
          /\ Advanced(c).button = client[c].button
      BY <1>1, <2>1, AdvanceEffect, IdleHolds DEF Follows
    <2>4. client'[c] = Advanced(c) /\ Advanced(c).todo # <<>>
      BY <1>1, <2>1, <2>3 DEF First
    <2>5. ASSUME NEW b, b = client[c].button PROVE Due(b)'
      BY <2>3, <2>4, <2>5 DEF Due, Doing, First
    <2>6. \A b : Due(b) => Due(b)'
      BY <2>1, DueStays DEF Doing
    <2>7. \A b \in Momentary : b = client[c].button \/ level'[b] = level[b]
      BY <1>1, <1>5 DEF Press
    <2>8. UNCHANGED <<pulse, at, released, slipped>>
      BY <1>5 DEF Press
    <2>. QED  BY <1>1, <2>5, <2>6, <2>7, <2>8 DEF ButtonInv
  <1>6. ASSUME NEW c \in Clients, Pulse(c) PROVE ButtonInv'
    <2>1. \A b : Due(b) => Due(b)' \/ b \in pulse'
      <3> SUFFICES ASSUME NEW b, Due(b) PROVE Due(b)' \/ b \in pulse'
        OBVIOUS
      <3>1. PICK d \in Clients : client[d].button = b /\ Doing(d, "pulse")
        BY DEF Due
      <3>2. CASE d = c
        BY <1>6, <3>1, <3>2 DEF Pulse
      <3>3. CASE d # c
        <4>1. client'[d] = client[d]
          BY <1>1, <1>6, <3>3 DEF Pulse, Advance
        <4>. QED  BY <3>1, <4>1 DEF Due, Doing
      <3>. QED  BY <3>2, <3>3
    <2>2. /\ pulse \subseteq pulse' /\ UNCHANGED <<level, at, released>>
          /\ slipped' = (slipped \/ at \in {"loop", "clear"})
      BY <1>6 DEF Pulse
    <2>. QED  BY <2>1, <2>2 DEF ButtonInv
  <1>7. ASSUME NEW c \in Clients,
               \/ Latch(c) \/ Unlatch(c) \/ Look(c) \/ Filter(c) \/ Replace(c) \/ SpawnJam(c)
               \/ Place(c) \/ Mark(c) \/ StickIt(c)
        PROVE  ButtonInv'
    <2>1. PICK x : client' = [client EXCEPT ![c] = x]
      BY <1>7 DEF Latch, Unlatch, Look, Filter, Replace, SpawnJam, Place, Mark, StickIt, Advance
    <2>2. ~Doing(c, "pulse") /\ UNCHANGED <<pulse, at, released, slipped>>
      BY <1>7
         DEF Latch, Unlatch, Look, Filter, Replace, SpawnJam, Place, Mark, StickIt, Doing
    <2>3. \A b \in Momentary : level'[b] = level[b]
      BY <1>1, <1>7 DEF Latch, Unlatch, Look, Filter, Replace, SpawnJam, Place, Mark, StickIt,
                       Momentary, Buttons
    <2>. QED  BY <1>3, <2>1, <2>2, <2>3
  <1>8. ASSUME EngineStep PROVE ButtonInv'
    <2>1. \A b : Due(b)' <=> Due(b)
      BY <1>8 DEF EngineStep, Feed, Sense, Copy, ScanOnce, LoopEnds, Move, Label, Route, Assign, BeginRelease,
                  NextRelease, ClearPulses, Due, Doing
    <2>2. CASE \/ Feed \/ Sense \/ ScanOnce \/ LoopEnds \/ Assign
               \/ \E i \in Parcels : Move(i) \/ Label(i) \/ Route(i)
               \/ \E b \in Buttons : Copy(b)
      <3>1. UNCHANGED <<level, pulse, released, slipped>> /\ at' \notin {"loop", "clear"}
        BY <2>2 DEF Feed, Sense, Copy, ScanOnce, LoopEnds, NextLoop, Loops, Move, Label,
                    Route, Visits, Assign, NextOf, Buttons, Momentary
      <3>. QED  BY <2>1, <3>1 DEF ButtonInv
    <2>3. CASE BeginRelease
      <3>1. UNCHANGED <<pulse, slipped>> /\ released = {}
        BY <1>1, <2>3 DEF BeginRelease
      <3>2. CASE pulse = {} /\ at' = "clear" /\ UNCHANGED <<level, released>>
        BY <2>1, <3>1, <3>2 DEF ButtonInv
      <3>3. ASSUME NEW b \in pulse, at' = "loop", Release(b) PROVE ButtonInv'
        BY <1>1, <2>1, <3>1, <3>3 DEF Release, ButtonInv
      <3>. QED  BY <2>3, <3>2, <3>3 DEF BeginRelease
    <2>4. CASE NextRelease
      <3>1. UNCHANGED <<pulse, slipped>> /\ at = "loop"
        BY <2>4 DEF NextRelease
      <3>2. CASE /\ UNCHANGED <<level, released>>
                 /\ \/ at' = "dead"
                    \/ at' = "clear" /\ released = pulse
        BY <2>1, <3>1, <3>2 DEF ButtonInv
      <3>3. ASSUME NEW b \in pulse, at' = at, Release(b) PROVE ButtonInv'
        BY <1>1, <2>1, <3>1, <3>3 DEF Release, ButtonInv
      <3>. QED  BY <2>4, <3>2, <3>3 DEF NextRelease
    <2>5. CASE ClearPulses
      BY <1>1, <2>1, <2>5 DEF ClearPulses, ButtonInv
    <2>. QED  BY <1>8, <2>2, <2>3, <2>4, <2>5 DEF EngineStep
  <1>. QED
    BY <1>2, <1>4, <1>5, <1>6, <1>7, <1>8 DEF Next, ClientStep

(* A momentary button comes back, unless a pulse was once dropped by the   *)
(* race between the loop and clear().                                      *)
THEOREM ButtonsAreReleased == Spec => []ButtonsComeBack
  <1>1. Init => ButtonInv
    BY DEF Init, ButtonInv, Buttons, Momentary
  <1>2. Typed /\ ButtonInv /\ [Next]_vars => ButtonInv'
    BY StepButton
  <1>3. ButtonInv => ButtonsComeBack
    BY DEF ButtonInv, ButtonsComeBack, Due
  <1>. QED  BY <1>1, <1>2, <1>3, TypedInvariance, PTL DEF Spec

-----------------------------------------------------------------------------
(* The line: while no thread has assigned a list built before another's    *)
(* change, the list is what was spawned less the parcels routed and        *)
(* cleared; the loop that routes parts it into the parcels it has still to *)
(* visit and those it keeps; and a client about to assign a list holds     *)
(* this one without some stuck parcels.                                    *)
Waiting == {i \in Parcels : parcel[i].born /\ parcel[i].routed = "no"} \ cleared

HoldsLine(c) ==
  /\ client[c].kept \subseteq list
  /\ \A i \in list \ client[c].kept : parcel[i].stuck

LineInv ==
  /\ cleared \subseteq Spawned
  /\ ~raced =>
       /\ ~EngineHolds => list = Waiting /\ remaining = {}
       /\ EngineHolds => Waiting = visit \cup remaining /\ visit \cap remaining = {}
       /\ at = "assign" => visit = {}
       /\ at = "route" => attached
       /\ \A c \in Clients : Doing(c, "replace") => HoldsLine(c)

(* A client comes to assign a list only by building it. *)
LEMMA HoldersStay ==
  ASSUME Typed, NEW c \in Clients, NEW s, Doing(c, s), s # "filter",
         \/ Advance(c)
         \/ client' = [client EXCEPT ![c] = Idle]
         \/ \E i : client' = [client EXCEPT ![c] = [Advanced(c) EXCEPT !.mine = i]],
         NEW d \in Clients, Doing(d, "replace")'
  PROVE  d # c /\ Doing(d, "replace") /\ client'[d] = client[d]
  <1>1. client \in [Clients -> ClientStates]
    BY DEF Typed, ClientsTyped
  <1>2. Advanced(c) \in ClientStates /\ First(Advanced(c).todo) # "replace"
    BY <1>1, AdvanceEffect DEF Follows
  <1>3. client'[c].todo = Advanced(c).todo \/ client'[c].todo = Idle.todo
    BY <1>1, <1>2 DEF Advance, ClientStates
  <1>4. ~Doing(c, "replace")'
    BY <1>2, <1>3, IdleHolds DEF Doing, First
  <1>5. d # c
    BY <1>4
  <1>6. client'[d] = client[d]
    BY <1>1, <1>5 DEF Advance
  <1>. QED  BY <1>5, <1>6 DEF Doing

(* The invariant speaks of no client but those about to assign. *)
LEMMA LineStays ==
  ASSUME LineInv,
         UNCHANGED <<list, remaining, visit, attached, raced, cleared, at>>,
         \A i \in Parcels : /\ parcel'[i].born = parcel[i].born
                            /\ parcel'[i].routed = parcel[i].routed
                            /\ parcel[i].stuck => parcel'[i].stuck,
         list \subseteq Parcels,
         \A d \in Clients : Doing(d, "replace")' =>
           Doing(d, "replace") /\ client'[d] = client[d]
  PROVE  LineInv'
  <1>1. Waiting' = Waiting /\ Spawned' = Spawned /\ EngineHolds' = EngineHolds
    BY DEF Waiting, Spawned, EngineHolds
  <1>2. \A d \in Clients : Doing(d, "replace") /\ HoldsLine(d) /\ client'[d] = client[d]
                             => HoldsLine(d)'
    BY DEF HoldsLine
  <1>. QED  BY <1>1, <1>2 DEF LineInv

(* A parcel that comes to the line joins what waits. *)
LEMMA LineGrows ==
  ASSUME Typed, LineInv, Unspawned # {}, NEW dest \in {ChuteA, ChuteB},
         parcel' = [parcel EXCEPT ![Min(Unspawned)] = Newcomer(dest)],
         UNCHANGED cleared
  PROVE  /\ Min(Unspawned) \notin Spawned
         /\ Waiting' = Waiting \cup {Min(Unspawned)} /\ cleared' \subseteq Spawned'
  <1> DEFINE i == Min(Unspawned)
  <1>1. SceneTyped
    BY TypedParts
  <1>2. /\ i \in Parcels /\ ~parcel[i].born /\ Spawned' = Spawned \cup {i}
        /\ parcel'[i].routed = "no"
    BY <1>1, NewcomerEffect
  <1>3. \A j \in Parcels : j # i => parcel'[j] = parcel[j]
    BY <1>1 DEF SceneTyped
  <1>4. i \notin Spawned /\ i \in Spawned'
    BY <1>2 DEF Spawned
  <1> HIDE DEF i
  <1>5. parcel'[i].born
    BY <1>4 DEF Spawned
  <1>6. i \notin cleared
    BY <1>4 DEF LineInv
  <1>7. Waiting' = Waiting \cup {i}
    BY <1>2, <1>3, <1>5, <1>6 DEF Waiting
  <1>8. cleared' \subseteq Spawned'
    BY <1>2 DEF LineInv
  <1>. QED  BY <1>4, <1>7, <1>8 DEF i

LEMMA StepLine ==
  ASSUME Typed, LineInv, [Next]_vars
  PROVE  LineInv'
  <1> USE DEF scene, engine, history, lines
  <1>1. /\ client \in [Clients -> ClientStates] /\ list \subseteq Parcels
        /\ list \subseteq Spawned /\ visit \subseteq Spawned /\ remaining \subseteq Spawned
        /\ raced \in BOOLEAN /\ next \in {ChuteA, ChuteB}
        /\ parcel \in [Parcels -> ParcelStates]
    BY TypedParts DEF ClientsTyped, SceneTyped, RestTyped, Spawned
  <1>2. CASE UNCHANGED vars
    BY <1>1, <1>2, LineStays DEF vars, Doing
  <1>3. ASSUME NEW c \in Clients, NEW cmd \in Commands, Command(c, cmd) PROVE LineInv'
    <2>1. First(Program[cmd]) # "replace"
      BY TwinAssumption DEF Program, First
    <2>2. client'[c].todo = Program[cmd] /\ \A d \in Clients \ {c} : client'[d] = client[d]
      BY <1>1, <1>3 DEF Command, ClientStates
    <2>3. \A d \in Clients : Doing(d, "replace")' =>
            Doing(d, "replace") /\ client'[d] = client[d]
      BY <2>1, <2>2 DEF Doing, First
    <2>. QED  BY <1>1, <1>3, <2>3, LineStays DEF Command
  <1>4. ASSUME NEW c \in Clients,
               \/ Press(c) \/ Pulse(c) \/ Latch(c) \/ Unlatch(c) \/ Look(c)
               \/ Place(c) \/ Mark(c) \/ StickIt(c)
        PROVE  LineInv'
    <2>1. \E s : /\ Doing(c, s) /\ s # "filter"
                 /\ Advance(c) \/ client' = [client EXCEPT ![c] = Idle]
      BY <1>4 DEF Press, Pulse, Latch, Unlatch, Look, Place, Mark, StickIt
    <2>2. \A d \in Clients : Doing(d, "replace")' =>
            Doing(d, "replace") /\ client'[d] = client[d]
      BY <2>1, HoldersStay
    <2>3. UNCHANGED <<list, remaining, visit, attached, raced, cleared, at>>
      BY <1>4 DEF Press, Pulse, Latch, Unlatch, Look, Place, Mark, StickIt
    <2>4. \A i \in Parcels : /\ parcel'[i].born = parcel[i].born
                             /\ parcel'[i].routed = parcel[i].routed
                             /\ parcel[i].stuck => parcel'[i].stuck
      BY <1>1, <1>4
         DEF Press, Pulse, Latch, Unlatch, Look, Place, Mark, StickIt, ParcelStates
    <2>. QED  BY <1>1, <2>2, <2>3, <2>4, LineStays
  <1>5. ASSUME NEW c \in Clients, Filter(c) PROVE LineInv'
    <2> DEFINE kept == {i \in list : ~parcel[i].stuck}
    <2>1. /\ Doing(c, "filter") /\ client' = [client EXCEPT ![c] = [Advanced(c) EXCEPT !.kept = kept]]
          /\ UNCHANGED <<parcel, list, remaining, visit, attached, raced, cleared, at>>
      BY <1>5 DEF Filter
    <2>2. Advanced(c) \in ClientStates
      BY <1>1, <2>1, AdvanceEffect
    <2>3. client'[c].kept = kept /\ \A d \in Clients \ {c} : client'[d] = client[d]
      BY <1>1, <2>1, <2>2 DEF ClientStates
    <2>4. HoldsLine(c)'
      BY <1>1, <2>1, <2>3 DEF HoldsLine, ParcelStates
    <2>5. \A d \in Clients \ {c} :
            (Doing(d, "replace")' => Doing(d, "replace")) /\ (HoldsLine(d) => HoldsLine(d)')
      BY <2>1, <2>3 DEF Doing, HoldsLine
    <2>6. Waiting' = Waiting /\ Spawned' = Spawned /\ EngineHolds' = EngineHolds
      BY <2>1 DEF Waiting, Spawned, EngineHolds
    <2>. QED  BY <2>1, <2>4, <2>5, <2>6 DEF LineInv
  <1>6. ASSUME NEW c \in Clients, Replace(c) PROVE LineInv'
    <2>1. /\ Doing(c, "replace") /\ list' = client[c].kept /\ Advance(c)
          /\ raced' = (raced \/ EngineHolds \/ OtherHolds(c))
          /\ cleared' = cleared \cup {i \in list \ client[c].kept : parcel[i].stuck}
          /\ UNCHANGED <<parcel, remaining, visit, at>>
      BY <1>6 DEF Replace
    <2>2. Spawned' = Spawned /\ EngineHolds' = EngineHolds /\ cleared' \subseteq Spawned'
      BY <1>1, <2>1 DEF Spawned, EngineHolds, LineInv
    <2>3. CASE ~raced'
      <3>1. ~raced /\ ~EngineHolds /\ ~OtherHolds(c)
        BY <1>1, <2>1, <2>3
      <3>2. list = Waiting /\ remaining = {} /\ HoldsLine(c)
        BY <2>1, <3>1 DEF LineInv
      <3>3. list' = Waiting'
        BY <2>1, <3>2 DEF Waiting, HoldsLine
      <3>4. \A d \in Clients : ~Doing(d, "replace")'
        BY <2>1, <3>1, HoldersStay DEF OtherHolds
      <3>. QED
        BY <2>1, <2>2, <3>1, <3>2, <3>3, <3>4 DEF LineInv, EngineHolds
    <2>. QED  BY <2>2, <2>3 DEF LineInv
  <1>7. ASSUME NEW c \in Clients, SpawnJam(c) PROVE LineInv'
    <2> DEFINE i == Min(Unspawned)
    <2>1. /\ Doing(c, "spawn") /\ list' = list \cup {i} /\ visit' = Joins(i)
          /\ client' = [client EXCEPT ![c] = [Advanced(c) EXCEPT !.mine = i]]
          /\ raced' = (raced \/ at = "assign" \/ OtherHolds(c))
          /\ UNCHANGED <<remaining, attached, at, cleared>>
      BY <1>7 DEF SpawnJam
    <2>2. i \notin Spawned /\ Waiting' = Waiting \cup {i} /\ cleared' \subseteq Spawned'
      BY <1>7, LineGrows, TwinAssumption DEF SpawnJam
    <2> HIDE DEF i
    <2>3. CASE ~raced'
      <3>1. ~raced /\ at # "assign" /\ ~OtherHolds(c)
        BY <1>1, <2>1, <2>3
      <3>2. at = "route" => visit' = visit \cup {i} /\ i \notin remaining
        BY <1>1, <2>1, <2>2, <3>1 DEF Joins, Loops, LineInv
      <3>3. \A d \in Clients : ~Doing(d, "replace")'
        BY <2>1, <3>1, HoldersStay DEF OtherHolds
      <3>. QED  BY <2>1, <2>2, <3>1, <3>2, <3>3 DEF LineInv, EngineHolds
    <2>. QED  BY <2>2, <2>3 DEF LineInv
  <1>8. ASSUME UNCHANGED client PROVE \A d \in Clients : Doing(d, "replace")' => Doing(d, "replace")
    BY <1>8 DEF Doing
  <1>9. CASE Feed
    <2>1. CASE UNCHANGED <<parcel, list>>
      <3>1. /\ at = "feed" /\ at' = "sense" /\ raced' = raced
            /\ UNCHANGED <<remaining, cleared, client>>
        BY <1>1, <1>9, <2>1 DEF Feed
      <3>. QED
        BY <1>8, <2>1, <3>1 DEF LineInv, EngineHolds, Waiting, Spawned, HoldsLine
    <2>2. CASE /\ Unspawned # {}
               /\ parcel' = [parcel EXCEPT ![Min(Unspawned)] = Newcomer(next)]
               /\ list' = list \cup {Min(Unspawned)}
      <3> DEFINE i == Min(Unspawned)
      <3>1. /\ at = "feed" /\ at' = "sense"
            /\ raced' = (raced \/ (list' # list /\ \E c \in Clients : Doing(c, "replace")))
            /\ UNCHANGED <<remaining, cleared, client>>
        BY <1>9 DEF Feed
      <3>2. /\ i \notin Spawned /\ Waiting' = Waiting \cup {i} /\ list' = list \cup {i}
            /\ cleared' \subseteq Spawned'
        BY <1>1, <2>2, <3>1, LineGrows
      <3> HIDE DEF i
      <3>3. list' # list
        BY <1>1, <3>2
      <3>. QED  BY <1>1, <1>8, <3>1, <3>2, <3>3 DEF LineInv, EngineHolds
    <2>. QED  BY <1>9, <2>1, <2>2 DEF Feed
  <1>10. CASE \/ Sense \/ ScanOnce \/ BeginRelease \/ NextRelease \/ ClearPulses
              \/ \E b \in Buttons : Copy(b)
    <2>1. /\ UNCHANGED <<parcel, list, remaining, raced, cleared, client>>
          /\ ~EngineHolds /\ ~EngineHolds'
      BY <1>10 DEF Sense, ScanOnce, BeginRelease, NextRelease, ClearPulses, Copy, NextOf,
                   EngineHolds, Buttons, Momentary
    <2>. QED  BY <1>8, <2>1 DEF LineInv, EngineHolds, Waiting, Spawned, HoldsLine
  <1>11. CASE LoopEnds
    <2>1. /\ UNCHANGED <<parcel, list, remaining, raced, cleared, client>>
          /\ visit = {} /\ attached' = TRUE
          /\ visit' = IF at = "route" THEN {} ELSE list
          /\ \/ at = "move" /\ at' = "label"
             \/ at = "label" /\ at' = "route"
             \/ at = "route" /\ at' = "assign"
      BY <1>11 DEF LoopEnds, Loops, NextLoop
    <2>2. Waiting' = Waiting /\ Spawned' = Spawned
      BY <2>1 DEF Waiting, Spawned
    <2>3. \A c \in Clients : HoldsLine(c) => HoldsLine(c)'
      BY <2>1 DEF HoldsLine
    <2>. QED  BY <1>8, <2>1, <2>2, <2>3 DEF LineInv, EngineHolds
  <1>12. ASSUME NEW i \in Parcels, Move(i) \/ Label(i) PROVE LineInv'
    <2>1. /\ \A j \in Parcels : /\ parcel'[j].born = parcel[j].born
                                /\ parcel'[j].routed = parcel[j].routed
                                /\ parcel'[j].stuck = parcel[j].stuck
          /\ ~EngineHolds /\ ~EngineHolds'
          /\ UNCHANGED <<list, remaining, raced, cleared, client>>
      BY <1>1, <1>12 DEF Move, Label, Visits, EngineHolds, ParcelStates
    <2>2. Waiting' = Waiting /\ Spawned' = Spawned
      BY <2>1 DEF Waiting, Spawned
    <2>3. \A c \in Clients : HoldsLine(c) => HoldsLine(c)'
      BY <1>1, <2>1 DEF HoldsLine
    <2>. QED  BY <1>8, <2>1, <2>2, <2>3 DEF LineInv, EngineHolds
  <1>13. ASSUME NEW i \in Parcels, Route(i) PROVE LineInv'
    <2>1. /\ i \in visit /\ visit' = visit \ {i}
          /\ UNCHANGED <<list, attached, client>>
          /\ \A j \in Parcels \ {i} : parcel'[j] = parcel[j]
          /\ parcel'[i].born = parcel[i].born /\ parcel'[i].stuck = parcel[i].stuck
      BY <1>13, VisitEffect
    <2>2. at = "route" /\ at' = "route" /\ UNCHANGED <<raced, cleared>>
      BY <1>13 DEF Route, Visits
    <2>3. Spawned' = Spawned /\ EngineHolds /\ EngineHolds'
      BY <2>1, <2>2 DEF Spawned, EngineHolds
    <2>4. \A c \in Clients : HoldsLine(c) => HoldsLine(c)'
      BY <1>1, <2>1 DEF HoldsLine
    <2>5. \/ remaining' = remaining \cup {i} /\ Waiting' = Waiting
          \/ remaining' = remaining /\ Waiting' = Waiting \ {i}
      <3>1. CASE Routes(i)
        <4>1. remaining' = remaining /\ parcel'[i].routed # "no"
          BY <1>1, <1>13, <3>1 DEF Route, ParcelStates
        <4>. QED  BY <2>1, <2>2, <4>1 DEF Waiting
      <3>2. CASE ~Routes(i)
        BY <1>13, <2>2, <3>2 DEF Route, Waiting
      <3>. QED  BY <3>1, <3>2
    <2>. QED  BY <1>8, <2>1, <2>2, <2>3, <2>4, <2>5 DEF LineInv
  <1>14. CASE Assign
    <2>1. /\ at = "assign" /\ at' = "pulses" /\ list' = remaining /\ remaining' = {}
          /\ raced' = (raced \/ (remaining # list /\ \E c \in Clients : Doing(c, "replace")))
          /\ UNCHANGED <<parcel, cleared, client>>
      BY <1>14 DEF Assign
    <2>2. Waiting' = Waiting /\ Spawned' = Spawned /\ EngineHolds /\ ~EngineHolds'
      BY <2>1 DEF Waiting, Spawned, EngineHolds
    <2>3. list' = list => \A c \in Clients : HoldsLine(c) => HoldsLine(c)'
      BY <2>1 DEF HoldsLine
    <2>. QED  BY <1>1, <1>8, <2>1, <2>2, <2>3 DEF LineInv
  <1>. QED
    BY <1>2, <1>3, <1>4, <1>5, <1>6, <1>7, <1>9, <1>10, <1>11, <1>12, <1>13, <1>14
       DEF Next, ClientStep, EngineStep

(* Between two steps the line holds what was spawned, less what was routed *)
(* and cleared, unless a thread assigned a list built before another's     *)
(* change: no other interleaving of commands and ticks loses a parcel.     *)
THEOREM LineIsAccountedFor == Spec => []LineIsKept
  <1>1. Init => LineInv
    BY DEF Init, LineInv, EngineHolds, Waiting, Nobody, Idle, Doing
  <1>2. Typed /\ LineInv /\ [Next]_vars => LineInv'
    BY StepLine
  <1>3. LineInv => LineIsKept
    BY DEF LineInv, LineIsKept, Waiting
  <1>. QED  BY <1>1, <1>2, <1>3, TypedInvariance, PTL DEF Spec
=============================================================================
