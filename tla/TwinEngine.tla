----------------------------- MODULE TwinEngine -----------------------------
(***************************************************************************)
(* The live twin of scripts/hmi_server.py.  One engine thread repeats      *)
(* TwinEngine.tick; every connected browser has a client thread that calls *)
(* TwinEngine.command.  No lock protects what the two share: the button    *)
(* levels, the set of pulses to release, and the scene with its list of    *)
(* parcels.  A step here is a statement (or a few that touch nothing       *)
(* shared), or one round of a loop that writes, since the interpreter may  *)
(* switch threads between them; a loop that only reads is one step.        *)
(*                                                                         *)
(* The scene is that of scene_model.py, with SceneModel's geometry, but    *)
(* the list is kept apart from the parcels: two threads may replace it by  *)
(* two different lists.  The automatic feed comes when it likes (its timer *)
(* is left out); parcel ids are taken to be distinct; the broadcast frame  *)
(* is a copy for display and is left out.                                  *)
(***************************************************************************)
EXTENDS SortScan, SceneModel, Sequences

CONSTANTS
  Clients,                     \* the client threads
  Commands,                    \* what they may send
  MaxCommands                  \* bound: commands ever sent

ASSUME TwinAssumption ==
  /\ Commands \subseteq {"start", "stop", "reset", "estop", "jam"}
  /\ MaxCommands \in Nat
  /\ {0, ChuteA, ChuteB} \subseteq Destinations

Far == Divert + Length       \* bound: beyond it a parcel blocks no eye

Momentary == {"start", "stop", "reset"}
Buttons == Momentary \cup {"estop"}

VARIABLES
  level,      \* TwinEngine.inputs
  pulse,      \* TwinEngine._pulse
  parcel,     \* the parcels ever spawned
  list,       \* SceneModel.parcels
  published,  \* SceneModel.published_destination
  next,       \* TwinEngine._next
  plc, out,   \* SoftPlc.state and the outputs
  at,         \* where the engine thread is in tick
  read,       \* the inputs this tick has written to the image so far
  visit,      \* the parcels the loop of step under way has still to visit
  attached,   \* whether the list it visits is still SceneModel.parcels
  remaining,  \* step's new list, not yet assigned
  released,   \* the pulses this tick's loop has released
  size,       \* the size of the set when the loop began
  client,     \* the client threads: what is left of their command
  sent,       \* the number of commands sent, for the bound
  fresh,      \* history: a Start was pressed after the last one scanned
  estopped,   \* history: an E-stop command not yet followed by a reset's
  obeyed,     \* history: a tick has begun since then
  slipped,    \* history: a pulse was added between the loop's start and clear()
  raced,      \* history: a list was changed while another thread held a copy
  cleared     \* history: the stuck parcels clear_jam has taken off

engine == <<at, read, visit, attached, remaining, released, size>>
scene == <<parcel, list, published>>
lines == <<raced, cleared>>
history == <<fresh, estopped, obeyed, slipped, lines>>
vars == <<level, pulse, scene, next, plc, out, engine, client, sent, history>>

Nobody == [born |-> FALSE, dest |-> ChuteA, pos |-> 0, scanned |-> FALSE,
           stuck |-> FALSE, routed |-> "no"]
NoRead == [pe2 |-> FALSE, start |-> FALSE, stop |-> FALSE, reset |-> FALSE,
           estop |-> FALSE, dest |-> 0]
Idle == [todo |-> <<>>, button |-> "none", mine |-> 0, kept |-> {}]

Init == /\ level = [b \in Buttons |-> FALSE] /\ pulse = {}
        /\ parcel = [i \in Parcels |-> Nobody] /\ list = {} /\ published = 0
        /\ next = ChuteA
        /\ plc = InitialState /\ out = OutputsOff
        /\ at = "feed" /\ read = NoRead
        /\ visit = {} /\ attached = TRUE
        /\ remaining = {} /\ released = {} /\ size = 0
        /\ client = [c \in Clients |-> Idle] /\ sent = 0
        /\ fresh = FALSE /\ estopped = FALSE /\ obeyed = FALSE /\ slipped = FALSE
        /\ raced = FALSE /\ cleared = {}

-----------------------------------------------------------------------------
Unspawned == {i \in Parcels : ~parcel[i].born}
Newcomer(dest) == [Nobody EXCEPT !.born = TRUE, !.dest = dest]

Blocked == \E i \in list : /\ parcel[i].pos - Length <= Pe2
                           /\ Pe2 <= parcel[i].pos

(* command: its statements, in order.  ProgramWithoutPulse, NeverJoins,    *)
(* NextWithoutEstop and RoutesAgain are mutants of the operators they      *)
(* precede.                                                                *)
ProgramWithoutPulse ==
  [start |-> <<"press", "pulse">>,
   stop  |-> <<"press", "pulse">>,
   reset |-> <<"press", "unlatch", "look", "filter", "replace">>,
   estop |-> <<"latch">>,
   jam   |-> <<"spawn", "place", "mark", "stick">>]

Program ==
  [start |-> <<"press", "pulse">>,
   stop  |-> <<"press", "pulse">>,
   reset |-> <<"press", "pulse", "unlatch", "look", "filter", "replace">>,
   estop |-> <<"latch">>,
   jam   |-> <<"spawn", "place", "mark", "stick">>]

(* A client thread takes the next command.  The bounds: no more than       *)
(* MaxCommands, and a jam only while a parcel is left to spawn.            *)
Command(c, cmd) ==
  /\ client[c].todo = <<>>
  /\ sent < MaxCommands /\ sent' = sent + 1
  /\ cmd = "jam" => Unspawned # {}
  /\ client' = [client EXCEPT ![c].todo = Program[cmd],
                              ![c].button = IF cmd \in Momentary THEN cmd ELSE "none"]
  /\ UNCHANGED <<level, pulse, scene, next, plc, out, engine, history>>

Doing(c, step) == client[c].todo # <<>> /\ Head(client[c].todo) = step
Advanced(c) == IF Len(client[c].todo) = 1 THEN Idle
               ELSE [client[c] EXCEPT !.todo = Tail(@)]
Advance(c) == client' = [client EXCEPT ![c] = Advanced(c)]

Press(c) ==
  /\ Doing(c, "press")
  /\ level' = [level EXCEPT ![client[c].button] = TRUE]
  /\ fresh' = (fresh \/ client[c].button = "start")
  /\ Advance(c)
  /\ UNCHANGED <<sent, pulse, scene, next, plc, out, engine, estopped, obeyed, slipped,
                 lines>>

Pulse(c) ==
  /\ Doing(c, "pulse")
  /\ pulse' = pulse \cup {client[c].button}
  /\ slipped' = (slipped \/ at \in {"loop", "clear"})
  /\ Advance(c)
  /\ UNCHANGED <<sent, level, scene, next, plc, out, engine, fresh, estopped, obeyed,
                 lines>>

Latch(c) ==
  /\ Doing(c, "latch")
  /\ level' = [level EXCEPT !["estop"] = TRUE]
  /\ estopped' = TRUE /\ obeyed' = FALSE
  /\ Advance(c)
  /\ UNCHANGED <<sent, pulse, scene, next, plc, out, engine, fresh, slipped, lines>>

Unlatch(c) ==
  /\ Doing(c, "unlatch")
  /\ level' = [level EXCEPT !["estop"] = FALSE]
  /\ estopped' = FALSE /\ obeyed' = FALSE
  /\ Advance(c)
  /\ UNCHANGED <<sent, pulse, scene, next, plc, out, engine, fresh, slipped, lines>>

(* clear_jam: look for stuck parcels, build the list without them if there *)
(* are any...                                                              *)
Look(c) ==
  /\ Doing(c, "look")
  /\ IF \E i \in list : parcel[i].stuck
     THEN Advance(c) ELSE client' = [client EXCEPT ![c] = Idle]
  /\ UNCHANGED <<sent, level, pulse, scene, next, plc, out, engine, history>>

Filter(c) ==
  /\ Doing(c, "filter")
  /\ client' = [client EXCEPT ![c] =
       [Advanced(c) EXCEPT !.kept = {i \in list : ~parcel[i].stuck}]]
  /\ UNCHANGED <<sent, level, pulse, scene, next, plc, out, engine, history>>

(* ...and assign it.  A loop under way goes on with the list it began.     *)
Loops == {"move", "label", "route"}
OtherHolds(c) == \E d \in Clients \ {c} : Doing(d, "replace")
EngineHolds == at \in {"route", "assign"}

Replace(c) ==
  /\ Doing(c, "replace")
  /\ list' = client[c].kept
  /\ attached' = (attached /\ at \notin Loops)
  /\ raced' = (raced \/ EngineHolds \/ OtherHolds(c))
  /\ cleared' = cleared \cup {i \in list \ client[c].kept : parcel[i].stuck}
  /\ Advance(c)
  /\ UNCHANGED <<sent, level, pulse, parcel, published, next, plc, out, at, read, visit,
                 remaining, released, size, fresh, estopped, obeyed, slipped>>

(* jam: spawn a parcel at the infeed, look it up, and put it on the eye.   *)
(* A loop over the list it is appended to comes to it too.                 *)
NeverJoins(i) == visit
Joins(i) == IF attached /\ at \in Loops THEN visit \cup {i} ELSE visit

SpawnJam(c) ==
  /\ Doing(c, "spawn") /\ Unspawned # {}
  /\ LET i == Min(Unspawned)
     IN  /\ parcel' = [parcel EXCEPT ![i] = Newcomer(ChuteA)]
         /\ list' = list \cup {i}
         /\ visit' = Joins(i)
         /\ client' = [client EXCEPT ![c] = [Advanced(c) EXCEPT !.mine = i]]
  /\ raced' = (raced \/ at = "assign" \/ OtherHolds(c))
  /\ UNCHANGED <<sent, level, pulse, published, next, plc, out, at, read, attached,
                 remaining, released, size, fresh, estopped, obeyed, slipped, cleared>>

(* A parcel no longer in the list is not found, and the command is over. *)
Place(c) ==
  /\ Doing(c, "place")
  /\ IF client[c].mine \in list
     THEN /\ parcel' = [parcel EXCEPT ![client[c].mine].pos = Pe2]
          /\ Advance(c)
     ELSE /\ client' = [client EXCEPT ![c] = Idle]
          /\ UNCHANGED parcel
  /\ UNCHANGED <<sent, level, pulse, list, published, next, plc, out, engine, history>>

Mark(c) ==
  /\ Doing(c, "mark")
  /\ parcel' = [parcel EXCEPT ![client[c].mine].scanned = TRUE]
  /\ Advance(c)
  /\ UNCHANGED <<sent, level, pulse, list, published, next, plc, out, engine, history>>

StickIt(c) ==
  /\ Doing(c, "stick")
  /\ parcel' = [parcel EXCEPT ![client[c].mine].stuck = TRUE]
  /\ Advance(c)
  /\ UNCHANGED <<sent, level, pulse, list, published, next, plc, out, engine, history>>

ClientStep(c) == \/ Press(c) \/ Pulse(c) \/ Latch(c) \/ Unlatch(c)
                 \/ Look(c) \/ Filter(c) \/ Replace(c)
                 \/ SpawnJam(c) \/ Place(c) \/ Mark(c) \/ StickIt(c)

-----------------------------------------------------------------------------
(* tick.  First the automatic feed, alternating the destinations. *)
Feed ==
  /\ at = "feed" /\ at' = "sense"
  /\ \/ UNCHANGED <<parcel, list, next>>
     \/ /\ Unspawned # {}
        /\ parcel' = [parcel EXCEPT ![Min(Unspawned)] = Newcomer(next)]
        /\ list' = list \cup {Min(Unspawned)}
        /\ next' = IF next = ChuteA THEN ChuteB ELSE ChuteA
  /\ obeyed' = estopped
  /\ raced' = (raced \/ (list' # list /\ \E c \in Clients : Doing(c, "replace")))
  /\ UNCHANGED <<sent, level, pulse, published, plc, out, read, visit, attached, remaining,
                 released, size, client, fresh, estopped, slipped, cleared>>

Sense ==
  /\ at = "sense" /\ at' = "start"
  /\ read' = [read EXCEPT !.pe2 = Blocked, !.dest = published]
  /\ UNCHANGED <<sent, level, pulse, scene, next, plc, out, visit, attached, remaining,
                 released, size, client, history>>

(* The levels are copied one by one, in the order of the dictionary. *)
NextWithoutEstop == [start |-> "stop", stop |-> "reset", reset |-> "scan"]
NextOf == [start |-> "stop", stop |-> "reset", reset |-> "estop", estop |-> "scan"]
Copy(b) ==
  /\ at = b /\ at' = NextOf[b]
  /\ read' = [read EXCEPT ![b] = level[b]]
  /\ UNCHANGED <<sent, level, pulse, scene, next, plc, out, visit, attached, remaining,
                 released, size, client, history>>

(* The scan touches nothing shared, so it goes with what follows it: the   *)
(* begin of step, whose first loop runs only with the motor on.            *)
ScanOnce ==
  /\ at = "scan"
  /\ plc' = Scan(plc, read)
  /\ out' = Outputs(plc', read)
  /\ at' = IF out'.motor THEN "move" ELSE "label"
  /\ visit' = list
  /\ read' = NoRead
  /\ fresh' = (fresh /\ ~StartEdge(plc, read))
  /\ UNCHANGED <<sent, level, pulse, scene, next, attached, remaining, released, size,
                 client, estopped, obeyed, slipped, lines>>

(* The loops of step: each visits the parcels of the list in their order,  *)
(* which is that of their numbers, and the next begins with the list as it *)
(* is by then.                                                             *)
NextLoop == [move |-> "label", label |-> "route", route |-> "assign"]
LoopEnds ==
  /\ at \in Loops /\ visit = {}
  /\ at' = NextLoop[at]
  /\ visit' = IF at = "route" THEN {} ELSE list
  /\ attached' = TRUE
  /\ UNCHANGED <<sent, level, pulse, scene, next, plc, out, read, remaining, released, size,
                 client, history>>

Visits(loop, i) == at = loop /\ visit # {} /\ i = Min(visit) /\ visit' = visit \ {i}

Move(i) ==
  /\ Visits("move", i)
  /\ parcel' = [parcel EXCEPT ![i].pos = IF parcel[i].stuck \/ @ = Far THEN @ ELSE @ + 1]
  /\ UNCHANGED <<sent, level, pulse, list, published, next, plc, out, at, read, attached,
                 remaining, released, size, client, history>>

Label(i) ==
  /\ Visits("label", i)
  /\ IF ~parcel[i].scanned /\ parcel[i].pos >= Pe1
     THEN /\ parcel' = [parcel EXCEPT ![i].scanned = TRUE]
          /\ published' = parcel[i].dest
     ELSE UNCHANGED <<parcel, published>>
  /\ UNCHANGED <<sent, level, pulse, list, next, plc, out, at, read, attached, remaining,
                 released, size, client, history>>

(* A parcel routed once is not routed again, wherever it turns up. *)
RoutesAgain(i) == parcel[i].pos >= Divert
Routes(i) == parcel[i].routed = "no" /\ parcel[i].pos >= Divert

Route(i) ==
  /\ Visits("route", i)
  /\ IF Routes(i)
     THEN /\ parcel' = [parcel EXCEPT ![i].routed = IF out.divert THEN "A" ELSE "B"]
          /\ UNCHANGED remaining
     ELSE /\ remaining' = remaining \cup {i}
          /\ UNCHANGED parcel
  /\ UNCHANGED <<sent, level, pulse, list, published, next, plc, out, at, read, attached,
                 released, size, client, history>>

Assign ==
  /\ at = "assign" /\ at' = "pulses"
  /\ list' = remaining
  /\ remaining' = {}
  /\ raced' = (raced \/ (remaining # list /\ \E c \in Clients : Doing(c, "replace")))
  /\ UNCHANGED <<sent, level, pulse, parcel, published, next, plc, out, read, visit, attached,
                 released, size, client, fresh, estopped, obeyed, slipped, cleared>>

(* for b in _pulse: inputs[b] = False.  The iterator of a set that has     *)
(* grown raises RuntimeError, which nothing on the engine thread catches.  *)
Release(b) == /\ level' = [level EXCEPT ![b] = FALSE]
              /\ released' = released \cup {b}

BeginRelease ==
  /\ at = "pulses"
  /\ size' = Cardinality(pulse)
  /\ \/ pulse = {} /\ at' = "clear" /\ UNCHANGED <<level, released>>
     \/ at' = "loop" /\ \E b \in pulse : Release(b)
  /\ UNCHANGED <<sent, pulse, scene, next, plc, out, read, visit, attached, remaining,
                 client, history>>

NextRelease ==
  /\ at = "loop"
  /\ \/ /\ Cardinality(pulse) # size
        /\ at' = "dead" /\ UNCHANGED <<level, released>>
     \/ /\ Cardinality(pulse) = size /\ released = pulse
        /\ at' = "clear" /\ UNCHANGED <<level, released>>
     \/ /\ Cardinality(pulse) = size /\ UNCHANGED at
        /\ \E b \in pulse \ released : Release(b)
  /\ UNCHANGED <<sent, pulse, scene, next, plc, out, read, visit, attached, remaining, size,
                 client, history>>

ClearPulses ==
  /\ at = "clear" /\ at' = "feed"
  /\ pulse' = {}
  /\ released' = {} /\ size' = 0
  /\ UNCHANGED <<sent, level, scene, next, plc, out, read, visit, attached, remaining,
                 client, history>>

EngineStep == \/ Feed \/ Sense \/ ScanOnce \/ LoopEnds \/ Assign
              \/ \E i \in Parcels : Move(i) \/ Label(i) \/ Route(i)
              \/ BeginRelease \/ NextRelease \/ ClearPulses
              \/ \E b \in Buttons : Copy(b)

Next == \/ EngineStep
        \/ \E c \in Clients : \/ ClientStep(c)
                              \/ \E cmd \in Commands : Command(c, cmd)

Spec == Init /\ [][Next]_vars

-----------------------------------------------------------------------------
EngineSteps == {"feed", "sense", "scan", "assign", "pulses", "loop",
                "clear", "dead"} \cup Buttons \cup Loops

TypeOK ==
  /\ level \in [Buttons -> BOOLEAN] /\ pulse \subseteq Momentary
  /\ parcel \in [Parcels -> [born : BOOLEAN, dest : {ChuteA, ChuteB}, pos : 0 .. Far,
                             scanned : BOOLEAN, stuck : BOOLEAN,
                             routed : {"no", "A", "B"}]]
  /\ list \subseteq {i \in Parcels : parcel[i].born}
  /\ published \in {0, ChuteA, ChuteB} /\ next \in {ChuteA, ChuteB}
  /\ plc \in ControlState /\ out \in OutputStates
  /\ at \in EngineSteps /\ read \in ScanInputs
  /\ visit \subseteq Parcels /\ attached \in BOOLEAN
  /\ remaining \subseteq Parcels /\ released \subseteq pulse /\ size \in 0 .. 3
  /\ \A c \in Clients : client[c].button \in Momentary \cup {"none"}
  /\ sent \in 0 .. MaxCommands
  /\ {fresh, estopped, obeyed, slipped, raced} \subseteq BOOLEAN
  /\ cleared \subseteq Parcels

(* An E-stop command is obeyed by the first tick that begins after it, and *)
(* from then on, whatever other commands run between the statements of a   *)
(* tick, until a reset releases it.                                        *)
EstopHolds ==
  obeyed /\ at \notin {"sense", "scan"} \cup Buttons => ~out.motor

(* The motor never comes on without a Start pressed since the last one     *)
(* that was scanned: no race makes one press act twice.                    *)
StartsNeedPresses == [][out'.motor /\ ~out.motor => fresh]_vars

(* A parcel is routed once: whichever list survives a race, a parcel that  *)
(* turns up again after the diverter is not routed a second time.          *)
RoutedForGood ==
  [][\A i \in Parcels : parcel[i].routed # "no"
       => parcel'[i].routed = parcel[i].routed]_vars

(* Between two steps the line holds what was spawned, but for the parcels  *)
(* routed and the stuck ones an operator cleared: none is lost and none    *)
(* comes back, unless a thread assigned a list it had built while another  *)
(* changed it (scene_model.py:84, :119-131).  A parcel that joins while    *)
(* step visits the list is not lost: step comes to it.                     *)
LineIsKept ==
  ~raced /\ ~EngineHolds =>
    list = {i \in Parcels : parcel[i].born /\ parcel[i].routed = "no"} \ cleared

(* A momentary button comes back: while it is down its release is due, or  *)
(* its command is still at work, unless a pulse was once added between the *)
(* start of the loop and clear(), which drops it.                          *)
ButtonsComeBack ==
  ~slipped =>
    \A b \in Momentary : level[b] =>
      b \in pulse \/ \E c \in Clients : client[c].button = b /\ Doing(c, "pulse")

(* "stream stopped after a command" (tests/test_hmi_server.py:32): no      *)
(* command ends the engine thread.                                         *)
EngineAlive == at # "dead"
=============================================================================
