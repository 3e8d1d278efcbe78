------------------------------ MODULE HmiLive -------------------------------
(***************************************************************************)
(* The live HMI: the WebSocket server of scripts/hmi_server.py (the engine *)
(* loop, and one reader thread for each client), and the page of           *)
(* web/hmi/hmi.js that shows its frames.  A session is one WebSocket, from *)
(* "Go live" to its end; the page forgets everything when it opens one.    *)
(*                                                                         *)
(* A frame is [t, jam] here, t counting ticks modulo Ticks; what the twin  *)
(* computes is in TwinEngine.  A frame is sent in one piece if the send    *)
(* buffer has room for it, and otherwise in two, for sendall waits in      *)
(* between and holds no lock: a pong of the reader thread may come there.  *)
(* A page that is sent such a mixture fails, and leaves.                   *)
(*                                                                         *)
(* SkipsBusyClients, LoopDies, KeepsClient and NeverReturns are mutants of *)
(* the operators they precede.                                             *)
(***************************************************************************)
EXTENDS Naturals, Sequences, SequencesExt

CONSTANTS
  Sessions,
  Script,      \* the WebSocket frames each client sends
  Room,        \* pieces a socket's send buffer holds
  Ticks        \* modulus of the tick count

ASSUME LiveAssumption ==
  /\ Room \in Nat /\ Room >= 2
  /\ Ticks \in Nat /\ Ticks > 1

ASSUME ScriptAssumption ==
  /\ DOMAIN Script = Sessions
  /\ \A s \in Sessions :
       Script[s] \in Seq([op : {"text", "continuation", "ping", "close"},
                          fin : BOOLEAN, part : STRING])

VARIABLES
  engine,     \* where _engine_loop is; "raised" if a tick has ended it
  jam,        \* what the twin's next frame says of the jam
  data,       \* the frame being sent
  cs,         \* the clients it is still to be sent to
  sending,    \* the client whose first half was sent, or none
  dead,       \* the clients whose send raised
  clients,    \* HmiServer.clients
  thread,     \* where _client is
  closed,     \* the server's sockets that are closed
  inbox,      \* the frames a client has sent
  message,    \* ws_recv: the frames of an unfinished message
  buffer,     \* the pieces sent to a page and not yet read
  page,       \* the page's side: away, opening, live or left
  half,       \* the pieces of a frame the page has, fewer than all
  prevLive,   \* the frame shown
  alarm,      \* the page lists an active jam alarm
  joinedJam,  \* history: the first frame shown had the jam
  inStep      \* history: the frames shown were consecutive

loop == <<engine, data, cs, sending, dead>>
server == <<thread, closed, inbox, message>>
view == <<half, prevLive, alarm, joinedJam, inStep>>
vars == <<loop, jam, clients, server, buffer, page, view>>

NoOne == {}
NoFrame == <<>>

Init ==
  /\ engine = "tick" /\ jam = FALSE
  /\ data = [t |-> 0, jam |-> FALSE]
  /\ cs = {} /\ sending = NoOne /\ dead = {} /\ clients = {}
  /\ thread = [s \in Sessions |-> "none"]
  /\ closed = {}
  /\ inbox = Script
  /\ message = [s \in Sessions |-> <<>>]
  /\ buffer = [s \in Sessions |-> <<>>]
  /\ page = [s \in Sessions |-> "away"]
  /\ half = [s \in Sessions |-> <<>>]
  /\ prevLive = [s \in Sessions |-> NoFrame]
  /\ alarm = [s \in Sessions |-> FALSE]
  /\ joinedJam = [s \in Sessions |-> FALSE]
  /\ inStep = [s \in Sessions |-> TRUE]

-----------------------------------------------------------------------------
(* The engine loop: one tick, a copy of the client set (a client added     *)
(* between the two might as well have been there before), a send to each   *)
(* of them, and the removal of those whose send raised.                    *)
Tick ==
  /\ engine = "tick"
  /\ data' = [t |-> (data.t + 1) % Ticks, jam |-> jam]
  /\ cs' = clients
  /\ engine' = "send"
  /\ UNCHANGED <<sending, dead, jam, clients, server, buffer, page, view>>

Piece(i) == [kind |-> "data", part |-> i, frame |-> data]
Pong == [kind |-> "pong", part |-> 0, frame |-> <<>>]
Broken(s) == s \in closed \/ page[s] = "left"
Free(s) == Room - Len(buffer[s])

(* ws_send waits for room; the loop waits with it. *)
SkipsBusyClients(s) ==
  /\ IF Free(s) >= 2 THEN buffer' = [buffer EXCEPT ![s] = @ \o <<Piece(1), Piece(2)>>]
                     ELSE UNCHANGED buffer
  /\ sending' = NoOne /\ cs' = cs \ {s}
Sends(s) ==
  \/ /\ sending = NoOne /\ Free(s) >= 2
     /\ buffer' = [buffer EXCEPT ![s] = @ \o <<Piece(1), Piece(2)>>]
     /\ cs' = cs \ {s} /\ UNCHANGED sending
  \/ /\ sending = NoOne /\ Free(s) = 1
     /\ buffer' = [buffer EXCEPT ![s] = Append(@, Piece(1))]
     /\ sending' = {s} /\ UNCHANGED cs
  \/ /\ sending = {s} /\ Free(s) >= 1
     /\ buffer' = [buffer EXCEPT ![s] = Append(@, Piece(2))]
     /\ sending' = NoOne /\ cs' = cs \ {s}

Send(s) ==
  /\ engine = "send" /\ s \in cs /\ sending \in {NoOne, {s}}
  /\ ~Broken(s) /\ Sends(s)
  /\ UNCHANGED <<engine, data, dead, jam, clients, server, page, view>>

(* A send to a socket closed on this side raises; if only the page left,   *)
(* it may also be lost without an error.                                   *)
LoopDies == "dead"
AfterError == "send"

SendToGone(s) ==
  /\ engine = "send" /\ s \in cs /\ sending \in {NoOne, {s}}
  /\ Broken(s)
  /\ cs' = cs \ {s} /\ sending' = NoOne
  /\ \/ dead' = dead \cup {s} /\ engine' = AfterError
     \/ s \notin closed /\ UNCHANGED <<dead, engine>>
  /\ UNCHANGED <<data, jam, clients, server, buffer, page, view>>

Reap ==
  /\ engine = "send" /\ cs = {}
  /\ clients' = clients \ dead
  /\ closed' = closed \cup dead
  /\ dead' = {}
  /\ engine' = "tick"
  /\ UNCHANGED <<data, cs, sending, jam, thread, inbox, message, buffer, page, view>>

Loop == Tick \/ Reap \/ \E s \in Sessions : Send(s) \/ SendToGone(s)

-----------------------------------------------------------------------------
(* The reader thread of a client: the handshake, which may fail, then the  *)
(* client is added to the set...                                           *)
Handshake(s) ==
  /\ thread[s] = "handshake"
  /\ \/ /\ page[s] = "opening"
        /\ page' = [page EXCEPT ![s] = "live"]
        /\ thread' = [thread EXCEPT ![s] = "add"]
     \/ /\ page' = [page EXCEPT ![s] = "left"]
        /\ thread' = [thread EXCEPT ![s] = "close"]
  /\ UNCHANGED <<loop, jam, clients, closed, inbox, message, buffer, view>>

AddClient(s) ==
  /\ thread[s] = "add"
  /\ clients' = clients \cup {s}
  /\ thread' = [thread EXCEPT ![s] = "read"]
  /\ UNCHANGED <<loop, jam, closed, inbox, message, buffer, page, view>>

(* ...its messages are taken one by one...                                 *)
Reading(s) == thread[s] = "read" /\ s \notin closed
Next1(s) == Head(inbox[s])
Takes(s) == inbox' = [inbox EXCEPT ![s] = Tail(@)]

(* A data frame: a message ends with the frame that has FIN set, and has   *)
(* the kind of its first.  A text may be a command, which changes the twin *)
(* (TwinEngine); all else is ignored.                                      *)
Text(m) == IF m[1].op = "text" THEN [i \in DOMAIN m |-> m[i].part] ELSE <<>>
Obeyed(m) == CASE Text(m) = <<"jam">>       -> TRUE
               [] Text(m) = <<"re", "set">> -> FALSE
               [] OTHER                     -> jam

(* A button pressed while the tick releases the pulses makes it raise, and *)
(* nothing catches that (TwinEngine.NextRelease).                          *)
AfterPress(m) ==
  IF engine = "tick" /\ Text(m) = <<"re", "set">> THEN {"tick", "raised"} ELSE {engine}

ReadData(s) ==
  /\ Reading(s) /\ inbox[s] # <<>> /\ Next1(s).op \in {"text", "continuation"}
  /\ LET m == Append(message[s], Next1(s))
     IN  \/ /\ Next1(s).fin
            /\ message' = [message EXCEPT ![s] = <<>>]
            /\ jam' = Obeyed(m) /\ engine' \in AfterPress(m)
         \/ /\ ~Next1(s).fin
            /\ message' = [message EXCEPT ![s] = m]
            /\ UNCHANGED <<jam, engine>>
  /\ Takes(s)
  /\ UNCHANGED <<data, cs, sending, dead, clients, thread, closed, buffer, page, view>>

(* A ping is answered, but not between two fragments. *)
ReadPing(s) ==
  /\ Reading(s) /\ inbox[s] # <<>> /\ Next1(s).op = "ping"
  /\ \/ /\ message[s] # <<>> /\ UNCHANGED <<buffer, thread>>
     \/ /\ message[s] = <<>> /\ ~Broken(s) /\ Free(s) >= 1
        /\ buffer' = [buffer EXCEPT ![s] = Append(@, Pong)]
        /\ UNCHANGED thread
     \/ /\ message[s] = <<>> /\ Broken(s)
        /\ thread' = [thread EXCEPT ![s] = "close"]
        /\ UNCHANGED buffer
  /\ Takes(s)
  /\ UNCHANGED <<loop, jam, clients, closed, message, page, view>>

(* ...until it closes, or its end or a closed socket is read... *)
ReadEnd(s) ==
  /\ thread[s] = "read"
  /\ \/ s \in closed
     \/ page[s] = "left"
     \/ inbox[s] # <<>> /\ Next1(s).op = "close"
  /\ thread' = [thread EXCEPT ![s] = "close"]
  /\ UNCHANGED <<loop, jam, clients, closed, inbox, message, buffer, page, view>>

(* ...and finally it is removed, and the socket closed; what was not read  *)
(* is lost.                                                                *)
KeepsClient(s) == clients
Others(s) == clients \ {s}

CloseClient(s) ==
  /\ thread[s] = "close"
  /\ clients' = Others(s)
  /\ closed' = closed \cup {s}
  /\ thread' = [thread EXCEPT ![s] = "ended"]
  /\ inbox' = [inbox EXCEPT ![s] = <<>>]
  /\ message' = [message EXCEPT ![s] = <<>>]
  /\ UNCHANGED <<loop, jam, buffer, page, view>>

Reader(s) == \/ Handshake(s) \/ AddClient(s) \/ ReadData(s) \/ ReadPing(s)
             \/ ReadEnd(s) \/ CloseClient(s)

-----------------------------------------------------------------------------
(* The page goes live; _accept_loop starts the client's thread. *)
GoLive(s) ==
  /\ page[s] = "away"
  /\ page' = [page EXCEPT ![s] = "opening"]
  /\ thread' = [thread EXCEPT ![s] = "handshake"]
  /\ UNCHANGED <<loop, jam, clients, closed, inbox, message, buffer, view>>

(* liveFrame: alarms on the changes between two frames.                    *)
NeverReturns(s, f) == prevLive[s] # NoFrame /\ (f.jam \/ alarm[s])
ListsAlarm(s, f) ==
  IF prevLive[s] = NoFrame THEN FALSE
  ELSE IF f.jam # prevLive[s].jam THEN f.jam ELSE alarm[s]

Show(s, f) ==
  /\ alarm' = [alarm EXCEPT ![s] = ListsAlarm(s, f)]
  /\ prevLive' = [prevLive EXCEPT ![s] = f]
  /\ joinedJam' = [joinedJam EXCEPT ![s] = IF prevLive[s] = NoFrame THEN f.jam ELSE @]
  /\ inStep' = [inStep EXCEPT ![s] =
       @ /\ (prevLive[s] # NoFrame => f.t = (prevLive[s].t + 1) % Ticks)]

ReadPiece(s) ==
  /\ page[s] = "live" /\ buffer[s] # <<>>
  /\ buffer' = [buffer EXCEPT ![s] = Tail(@)]
  /\ LET p == Head(buffer[s])
     IN  \/ /\ p.part = 1
            /\ half' = [half EXCEPT ![s] = <<p.frame>>]
            /\ UNCHANGED <<page, prevLive, alarm, joinedJam, inStep>>
         \/ /\ p.part = 2
            /\ Show(s, p.frame)
            /\ half' = [half EXCEPT ![s] = <<>>]
            /\ UNCHANGED page
         \/ /\ p.kind = "pong"
            /\ page' = [page EXCEPT ![s] = IF half[s] = <<>> THEN @ ELSE "left"]
            /\ half' = [half EXCEPT ![s] = <<>>]
            /\ UNCHANGED <<prevLive, alarm, joinedJam, inStep>>
  /\ UNCHANGED <<loop, jam, clients, server>>

(* The operator stops live mode, or the page sees the server close: what   *)
(* it has not read is lost, and what it shows goes with the session (the   *)
(* page clears it when it opens the next).                                 *)
Leave(s) ==
  /\ page[s] = "live"
  /\ page' = [page EXCEPT ![s] = "left"]
  /\ buffer' = [buffer EXCEPT ![s] = <<>>]
  /\ half' = [half EXCEPT ![s] = <<>>]
  /\ prevLive' = [prevLive EXCEPT ![s] = NoFrame]
  /\ alarm' = [alarm EXCEPT ![s] = FALSE]
  /\ joinedJam' = [joinedJam EXCEPT ![s] = FALSE]
  /\ UNCHANGED <<loop, jam, clients, server, inStep>>

Next == \/ Loop
        \/ \E s \in Sessions : Reader(s) \/ GoLive(s) \/ ReadPiece(s) \/ Leave(s)

(* The server's threads go on, and so do the pages: a page that stays open *)
(* reads what it is sent.                                                  *)
Spec == /\ Init /\ [][Next]_vars
        /\ WF_vars(Loop)
        /\ \A s \in Sessions : WF_vars(Reader(s)) /\ WF_vars(ReadPiece(s))

-----------------------------------------------------------------------------
TypeOK ==
  /\ engine \in {"tick", "send", "raised"}
  /\ jam \in BOOLEAN /\ data \in [t : 0 .. Ticks - 1, jam : BOOLEAN]
  /\ cs \subseteq Sessions /\ dead \subseteq Sessions /\ clients \subseteq Sessions
  /\ sending \subseteq cs
  /\ \A s \in Sessions :
       /\ thread[s] \in {"none", "handshake", "add", "read", "close", "ended"}
       /\ thread[s] = "ended" => s \in closed /\ s \notin clients
       /\ page[s] \in {"away", "opening", "live", "left"}
       /\ Len(buffer[s]) <= Room
       /\ Len(message[s]) + Len(inbox[s]) <= Len(Script[s])

(* A page is shown every frame since its first, in order and once: none is *)
(* dropped for a client that is slow, and clients that come and go while a *)
(* frame is being sent do not disturb the others.  The page's throughput   *)
(* alarms compare a frame with the one before (hmi_server.py:299-305,      *)
(* hmi.js:345-346).                                                        *)
FramesInOrder == \A s \in Sessions : inStep[s]

(* A page lists an active jam alarm exactly while the frame it shows has   *)
(* the jam, but for a page that went live during the jam: it compares with *)
(* no earlier frame, and lists none until the next jam (hmi.js:344-348).   *)
AlarmMatchesFrame ==
  \A s \in Sessions : prevLive[s] # NoFrame =>
    IF alarm[s] THEN prevLive[s].jam
    ELSE prevLive[s].jam => joinedJam[s]

(* The twin keeps ticking while clients come, send, and leave without      *)
(* notice, between any two steps of the loop: only a tick that raises      *)
(* itself (TwinEngine's EngineAlive) ends the loop, never a client.  Every *)
(* page that stays open must read, for one that does not holds the loop in *)
(* ws_send (hmi_server.py:301-305; adr/0009:46).                           *)
TwinKeepsTicking == []<>(engine \in {"tick", "raised"})
=============================================================================
