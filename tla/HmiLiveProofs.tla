---------------------------- MODULE HmiLiveProofs ----------------------------
(***************************************************************************)
(* Theorems about HmiLive, for any number of sessions, whatever their      *)
(* clients send, with any send buffer of two pieces or more.               *)
(***************************************************************************)
EXTENDS HmiLive, SequenceTheorems, TLAPS

Frames == [t : 0 .. Ticks - 1, jam : BOOLEAN]
Pieces == [kind : {"data"}, part : {1, 2}, frame : Frames] \cup {Pong}
Messages == [op : {"text", "continuation", "ping", "close"}, fin : BOOLEAN, part : STRING]

(* Before its client is added to the set. *)
Early == {"none", "handshake", "add"}

SessionTyped(s) ==
  /\ thread[s] \in {"none", "handshake", "add", "read", "close", "ended"}
  /\ thread[s] = "ended" => s \in closed /\ s \notin clients
  /\ page[s] \in {"away", "opening", "live", "left"}
  /\ buffer[s] \in Seq(Pieces) /\ Len(buffer[s]) <= Room
  /\ inbox[s] \in Seq(Messages) /\ message[s] \in Seq(Messages)
  /\ Len(message[s]) + Len(inbox[s]) <= Len(Script[s])
  /\ prevLive[s] \in Frames \cup {NoFrame}
  /\ alarm[s] \in BOOLEAN /\ joinedJam[s] \in BOOLEAN /\ inStep[s] \in BOOLEAN

Domains ==
  /\ DOMAIN thread = Sessions /\ DOMAIN inbox = Sessions /\ DOMAIN message = Sessions
  /\ DOMAIN buffer = Sessions /\ DOMAIN page = Sessions /\ DOMAIN half = Sessions
  /\ DOMAIN prevLive = Sessions /\ DOMAIN alarm = Sessions
  /\ DOMAIN joinedJam = Sessions /\ DOMAIN inStep = Sessions

LoopTyped ==
  /\ engine \in {"tick", "send", "raised"}
  /\ engine # "send" => cs = {}
  /\ jam \in BOOLEAN /\ data \in Frames
  /\ cs \subseteq Sessions /\ dead \subseteq Sessions /\ clients \subseteq Sessions
  /\ sending \subseteq cs

Typed == LoopTyped /\ Domains /\ \A s \in Sessions : SessionTyped(s)

-----------------------------------------------------------------------------
(* A step is about one session, or the loop's own; it leaves every other   *)
(* session as it is.                                                       *)
Kept(s) ==
  /\ thread'[s] = thread[s] /\ inbox'[s] = inbox[s] /\ message'[s] = message[s]
  /\ buffer'[s] = buffer[s] /\ page'[s] = page[s] /\ prevLive'[s] = prevLive[s]
  /\ alarm'[s] = alarm[s] /\ joinedJam'[s] = joinedJam[s] /\ inStep'[s] = inStep[s]

Untouched(s) ==
  /\ Kept(s) /\ data' = data
  /\ s \in cs' <=> s \in cs
  /\ s \in dead' <=> s \in dead
  /\ s \in clients' <=> s \in clients
  /\ s \in closed' <=> s \in closed

Own(s) == \/ Send(s) \/ SendToGone(s) \/ Reader(s)
          \/ GoLive(s) \/ ReadPiece(s) \/ Leave(s)

LEMMA OthersUntouched ==
  ASSUME Domains, NEW r \in Sessions, Own(r)
  PROVE  Domains' /\ \A s \in Sessions : s # r => Untouched(s)
  <1> USE DEF loop, server, view, Domains, Untouched, Kept
  <1>1. CASE Send(r)
    BY <1>1 DEF Send, Sends
  <1>2. CASE SendToGone(r)
    BY <1>2 DEF SendToGone
  <1>3. CASE Handshake(r)
    BY <1>3 DEF Handshake
  <1>4. CASE AddClient(r)
    BY <1>4 DEF AddClient
  <1>5. CASE ReadData(r)
    BY <1>5 DEF ReadData, Takes
  <1>6. CASE ReadPing(r)
    BY <1>6 DEF ReadPing, Takes
  <1>7. CASE ReadEnd(r)
    BY <1>7 DEF ReadEnd
  <1>8. CASE CloseClient(r)
    BY <1>8 DEF CloseClient, Others
  <1>9. CASE GoLive(r)
    BY <1>9 DEF GoLive
  <1>10. CASE ReadPiece(r)
    <2>1. /\ UNCHANGED <<loop, jam, clients, server>>
          /\ buffer' = [buffer EXCEPT ![r] = Tail(@)]
      BY <1>10 DEF ReadPiece
    <2>2. CASE /\ \E h : half' = [half EXCEPT ![r] = h]
               /\ UNCHANGED <<page, prevLive, alarm, joinedJam, inStep>>
      BY <2>1, <2>2
    <2>3. CASE /\ \E f : Show(r, f)
               /\ half' = [half EXCEPT ![r] = <<>>]
               /\ UNCHANGED page
      BY <2>1, <2>3 DEF Show
    <2>4. CASE /\ \E p : page' = [page EXCEPT ![r] = p]
               /\ half' = [half EXCEPT ![r] = <<>>]
               /\ UNCHANGED <<prevLive, alarm, joinedJam, inStep>>
      BY <2>1, <2>4
    <2>. QED  BY <1>10, <2>2, <2>3, <2>4 DEF ReadPiece
  <1>11. CASE Leave(r)
    BY <1>11 DEF Leave
  <1>. QED
    BY <1>1, <1>2, <1>3, <1>4, <1>5, <1>6, <1>7, <1>8, <1>9, <1>10, <1>11 DEF Own, Reader

LEMMA StepEffect ==
  ASSUME Typed, [Next]_vars
  PROVE  /\ Domains'
         /\ \A s \in Sessions : Tick \/ Reap \/ Own(s) \/ Untouched(s)
  <1>1. Domains
    BY DEF Typed
  <1>2. CASE UNCHANGED vars
    BY <1>1, <1>2 DEF vars, loop, server, view, Domains, Untouched, Kept
  <1>3. CASE Tick \/ Reap
    BY <1>1, <1>3 DEF Tick, Reap, server, view, Domains
  <1>4. ASSUME NEW r \in Sessions, Own(r)
        PROVE  Domains' /\ \A s \in Sessions : Own(s) \/ Untouched(s)
    BY <1>1, <1>4, OthersUntouched
  <1>. QED  BY <1>2, <1>3, <1>4 DEF Next, Loop, Own

-----------------------------------------------------------------------------
LEMMA LoopTypedStep ==
  ASSUME Typed, [Next]_vars
  PROVE  LoopTyped'
  <1> USE DEF LoopTyped
  <1>1. LoopTyped /\ \A s \in Sessions : SessionTyped(s)
    BY DEF Typed
  <1>2. CASE UNCHANGED vars
    BY <1>1, <1>2 DEF vars, loop
  <1>3. CASE Tick
    <2>1. data' \in Frames
      <3>1. (data.t + 1) % Ticks \in 0 .. Ticks - 1
        BY <1>1, LiveAssumption DEF Frames
      <3>. QED  BY <1>1, <1>3, <3>1 DEF Tick, Frames
    <2>. QED  BY <1>1, <1>3, <2>1 DEF Tick
  <1>4. CASE Reap
    BY <1>1, <1>4 DEF Reap, NoOne
  <1>5. ASSUME NEW s \in Sessions, Send(s) PROVE LoopTyped'
    BY <1>1, <1>5 DEF Send, Sends, NoOne
  <1>6. ASSUME NEW s \in Sessions, SendToGone(s) PROVE LoopTyped'
    BY <1>1, <1>6 DEF SendToGone, NoOne, AfterError
  <1>7. ASSUME NEW s \in Sessions, Handshake(s) \/ ReadPing(s) \/ ReadEnd(s) \/ GoLive(s)
               \/ ReadPiece(s) \/ Leave(s)
        PROVE  LoopTyped'
    BY <1>1, <1>7 DEF Handshake, ReadPing, ReadEnd, GoLive, ReadPiece, Leave, loop
  <1>8. ASSUME NEW s \in Sessions, AddClient(s) \/ CloseClient(s)
        PROVE  LoopTyped'
    BY <1>1, <1>8 DEF AddClient, CloseClient, Others, loop
  <1>9. ASSUME NEW s \in Sessions, ReadData(s) PROVE LoopTyped'
    BY <1>1, <1>9 DEF ReadData, Obeyed, AfterPress
  <1>. QED
    BY <1>2, <1>3, <1>4, <1>5, <1>6, <1>7, <1>8, <1>9 DEF Next, Loop, Reader

(* The pieces that a step puts into a send buffer. *)
LEMMA SendPieces ==
  ASSUME LoopTyped, NEW b \in Seq(Pieces)
  PROVE  /\ Piece(1) \in Pieces /\ Piece(2) \in Pieces /\ Pong \in Pieces
         /\ Append(b, Piece(1)) \in Seq(Pieces)
         /\ Append(b, Piece(2)) \in Seq(Pieces) /\ Append(b, Pong) \in Seq(Pieces)
         /\ Len(Append(b, Piece(1))) = Len(b) + 1
         /\ Len(Append(b, Piece(2))) = Len(b) + 1 /\ Len(Append(b, Pong)) = Len(b) + 1
         /\ b \o <<Piece(1), Piece(2)>> = Append(Append(b, Piece(1)), Piece(2))
         /\ b \o <<Piece(1), Piece(2)>> \in Seq(Pieces)
         /\ Len(b \o <<Piece(1), Piece(2)>>) = Len(b) + 2
  <1>1. Piece(1) \in Pieces /\ Piece(2) \in Pieces /\ Pong \in Pieces
    BY DEF LoopTyped, Piece, Pieces
  <1>2. ASSUME NEW p \in Pieces, NEW q \in Pieces
        PROVE  /\ Append(b, p) \in Seq(Pieces) /\ Len(Append(b, p)) = Len(b) + 1
               /\ b \o <<p, q>> = Append(Append(b, p), q)
               /\ b \o <<p, q>> \in Seq(Pieces) /\ Len(b \o <<p, q>>) = Len(b) + 2
    <2>1. /\ Append(b, p) \in Seq(Pieces) /\ Len(b) \in Nat
          /\ Len(Append(b, p)) = Len(b) + 1
          /\ \A i \in 1 .. Len(b) : Append(b, p)[i] = b[i]
          /\ Append(b, p)[Len(b) + 1] = p
      BY AppendProperties, LenProperties
    <2> DEFINE c == Append(Append(b, p), q)
               d == b \o <<p, q>>
    <2>2. /\ c \in Seq(Pieces) /\ Len(c) = Len(b) + 2
          /\ \A i \in 1 .. Len(b) + 1 : c[i] = Append(b, p)[i]
          /\ c[Len(b) + 2] = q
      <3> HIDE DEF c
      <3> DEFINE a == Append(b, p)
      <3>1. a \in Seq(Pieces) /\ Len(a) = Len(b) + 1
        BY <2>1
      <3> HIDE DEF a
      <3>2. c = Append(a, q)
        BY DEF a, c
      <3>3. /\ c \in Seq(Pieces) /\ Len(c) = Len(a) + 1
            /\ \A i \in 1 .. Len(a) : c[i] = a[i]
            /\ c[Len(a) + 1] = q
        BY <3>1, <3>2, AppendProperties
      <3>4. Len(a) + 1 = Len(b) + 2
        BY <2>1, <3>1
      <3>. QED  BY <3>1, <3>3, <3>4 DEF a
    <2>3. /\ <<p, q>> \in Seq(Pieces) /\ Len(<<p, q>>) = 2
          /\ <<p, q>>[1] = p /\ <<p, q>>[2] = q
      OBVIOUS
    <2>4. /\ d \in Seq(Pieces) /\ Len(d) = Len(b) + 2
          /\ \A i \in 1 .. Len(b) + 2 :
               d[i] = IF i <= Len(b) THEN b[i] ELSE <<p, q>>[i - Len(b)]
      BY <2>3, ConcatProperties
    <2> HIDE DEF c, d
    <2>5. ASSUME NEW i \in 1 .. Len(b) + 2 PROVE c[i] = d[i]
      <3>1. CASE i \in 1 .. Len(b)
        BY <2>1, <2>2, <2>4, <3>1
      <3>2. CASE i = Len(b) + 1
        <4>1. d[i] = <<p, q>>[1] /\ c[i] = p
          BY <2>1, <2>2, <2>4, <3>2
        <4>. QED  BY <2>3, <4>1
      <3>3. CASE i = Len(b) + 2
        <4>1. d[i] = <<p, q>>[2] /\ c[i] = q
          BY <2>1, <2>2, <2>4, <3>3
        <4>. QED  BY <2>3, <4>1
      <3>. QED  BY <2>1, <3>1, <3>2, <3>3
    <2>6. c = d
      BY <2>2, <2>4, <2>5, SeqEqual
    <2>. QED  BY <2>1, <2>4, <2>6 DEF c, d
  <1>. QED  BY <1>1, <1>2

LEMMA SessionTypedStep ==
  ASSUME Typed, [Next]_vars, NEW s \in Sessions
  PROVE  SessionTyped(s)'
  <1>1. /\ LoopTyped /\ Domains /\ SessionTyped(s)
        /\ buffer[s] \in Seq(Pieces) /\ Len(buffer[s]) \in Nat /\ Len(buffer[s]) <= Room
        /\ message[s] \in Seq(Messages) /\ Len(message[s]) \in Nat
        /\ inbox[s] \in Seq(Messages) /\ Len(inbox[s]) \in Nat
        /\ Len(message[s]) + Len(inbox[s]) <= Len(Script[s])
        /\ Room \in Nat /\ Len(Script[s]) \in Nat
    <2>1. LoopTyped /\ Domains /\ SessionTyped(s)
      BY DEF Typed
    <2>2. Room \in Nat /\ Len(Script[s]) \in Nat
      BY LiveAssumption, ScriptAssumption, LenProperties
    <2>. QED  BY <2>1, <2>2, LenProperties DEF SessionTyped
  <1> DEFINE bl == Len(buffer[s])
             ml == Len(message[s])
             il == Len(inbox[s])
             sl == Len(Script[s])
  <1>0. /\ bl \in Nat /\ ml \in Nat /\ il \in Nat /\ sl \in Nat /\ Room \in Nat
        /\ bl <= Room /\ ml + il <= sl
    BY <1>1
  <1> HIDE DEF bl, ml, il, sl
  <1>2. CASE Untouched(s)
    BY <1>1, <1>2 DEF Untouched, Kept, SessionTyped
  <1>3. CASE Tick
    BY <1>1, <1>3 DEF Tick, server, view, SessionTyped
  <1>4. CASE Reap
    BY <1>1, <1>4 DEF Reap, view, SessionTyped
  <1>5. CASE Send(s)
    <2>1. buffer'[s] \in Seq(Pieces) /\ Len(buffer'[s]) <= Room
      <3> DEFINE b == buffer[s]
      <3>1. b \in Seq(Pieces) /\ Len(b) \in Nat
        BY <1>1
      <3>2. \/ Room - Len(b) >= 2 /\ buffer'[s] = b \o <<Piece(1), Piece(2)>>
            \/ Room - Len(b) = 1 /\ buffer'[s] = Append(b, Piece(1))
            \/ Room - Len(b) >= 1 /\ buffer'[s] = Append(b, Piece(2))
        BY <1>1, <1>5 DEF Send, Sends, Free, Domains
      <3>3. /\ b \o <<Piece(1), Piece(2)>> \in Seq(Pieces)
            /\ Append(b, Piece(1)) \in Seq(Pieces) /\ Append(b, Piece(2)) \in Seq(Pieces)
            /\ Len(b \o <<Piece(1), Piece(2)>>) = Len(b) + 2
            /\ Len(Append(b, Piece(1))) = Len(b) + 1
            /\ Len(Append(b, Piece(2))) = Len(b) + 1
        BY <1>1, <3>1, SendPieces
      <3>4. bl = Len(b)
        BY DEF bl
      <3> HIDE DEF b
      <3>5. CASE Room - Len(b) >= 2 /\ buffer'[s] = b \o <<Piece(1), Piece(2)>>
        <4>1. Len(buffer'[s]) = bl + 2 /\ Room - bl >= 2 /\ buffer'[s] \in Seq(Pieces)
          BY <3>3, <3>4, <3>5
        <4>2. bl + 2 <= Room
          BY <1>0, <4>1
        <4>. QED  BY <4>1, <4>2
      <3>6. ASSUME NEW q \in {Piece(1), Piece(2)},
                   Room - Len(b) >= 1, buffer'[s] = Append(b, q)
            PROVE  buffer'[s] \in Seq(Pieces) /\ Len(buffer'[s]) <= Room
        <4>1. Len(buffer'[s]) = bl + 1 /\ Room - bl >= 1 /\ buffer'[s] \in Seq(Pieces)
          BY <3>3, <3>4, <3>6
        <4>2. bl + 1 <= Room
          BY <1>0, <4>1
        <4>. QED  BY <4>1, <4>2
      <3>7. Room - Len(b) = 1 => Room - Len(b) >= 1
        BY <1>0, <3>4
      <3>. QED  BY <3>2, <3>5, <3>6, <3>7
    <2>. QED  BY <1>1, <1>5, <2>1 DEF Send, server, view, SessionTyped
  <1>6. CASE SendToGone(s)
    BY <1>1, <1>6 DEF SendToGone, server, view, SessionTyped
  <1>7. CASE Handshake(s)
    BY <1>1, <1>7 DEF Handshake, Domains, view, SessionTyped
  <1>8. CASE AddClient(s)
    BY <1>1, <1>8 DEF AddClient, Domains, view, SessionTyped
  <1>9. CASE ReadData(s)
    <2> DEFINE m == Append(message[s], Next1(s))
    <2>1. /\ inbox'[s] = Tail(inbox[s]) /\ inbox[s] # <<>>
          /\ message'[s] = <<>> \/ message'[s] = m
      BY <1>1, <1>9 DEF ReadData, Takes, Domains
    <2>2. /\ Tail(inbox[s]) \in Seq(Messages) /\ Len(Tail(inbox[s])) = Len(inbox[s]) - 1
          /\ Next1(s) \in Messages
      BY <1>1, <2>1, HeadTailProperties DEF Next1
    <2>4. m \in Seq(Messages) /\ Len(m) = Len(message[s]) + 1
      BY <1>1, <2>2, AppendProperties
    <2>5. <<>> \in Seq(Messages) /\ Len(<<>>) = 0
      BY EmptySeq
    <2> HIDE DEF m
    <2>6. /\ message'[s] \in Seq(Messages) /\ inbox'[s] \in Seq(Messages)
          /\ Len(message'[s]) + Len(inbox'[s]) <= Len(Script[s])
      <3>1. message'[s] \in Seq(Messages) /\ inbox'[s] \in Seq(Messages)
        BY <2>1, <2>2, <2>4, <2>5
      <3>2. Len(message'[s]) \in {0, ml + 1} /\ Len(inbox'[s]) = il - 1
        BY <2>1, <2>2, <2>4, <2>5 DEF ml, il
      <3>3. Len(message'[s]) + Len(inbox'[s]) <= sl
        BY <1>0, <3>2
      <3>. QED  BY <3>1, <3>3 DEF sl
    <2>. QED  BY <1>1, <1>9, <2>6 DEF ReadData, view, SessionTyped
  <1>10. CASE ReadPing(s)
    <2>1. inbox'[s] = Tail(inbox[s]) /\ inbox[s] # <<>>
      BY <1>1, <1>10 DEF ReadPing, Takes, Domains
    <2>2. Tail(inbox[s]) \in Seq(Messages) /\ Len(Tail(inbox[s])) = Len(inbox[s]) - 1
      BY <1>1, <2>1, HeadTailProperties
    <2>3. buffer'[s] \in Seq(Pieces) /\ Len(buffer'[s]) <= Room
      <3> DEFINE b == buffer[s]
      <3>1. b \in Seq(Pieces) /\ Len(b) \in Nat
        BY <1>1
      <3>2. \/ buffer'[s] = b
            \/ Room - Len(b) >= 1 /\ buffer'[s] = Append(b, Pong)
        BY <1>1, <1>10 DEF ReadPing, Free, Domains
      <3>3. Len(b) <= Room
        BY <1>1
      <3>4. Append(b, Pong) \in Seq(Pieces) /\ Len(Append(b, Pong)) = Len(b) + 1
        BY <1>1, <3>1, SendPieces
      <3>5. bl = Len(b)
        BY DEF bl
      <3> HIDE DEF b
      <3>6. CASE buffer'[s] = b
        BY <3>1, <3>3, <3>6
      <3>7. CASE Room - Len(b) >= 1 /\ buffer'[s] = Append(b, Pong)
        <4>1. Len(buffer'[s]) = bl + 1 /\ Room - bl >= 1 /\ buffer'[s] \in Seq(Pieces)
          BY <3>4, <3>5, <3>7
        <4>2. bl + 1 <= Room
          BY <1>0, <4>1
        <4>. QED  BY <4>1, <4>2
      <3>. QED  BY <3>2, <3>6, <3>7
    <2>4. thread'[s] \in {thread[s], "close"}
      BY <1>1, <1>10 DEF ReadPing, Domains
    <2>5. message'[s] = message[s]
      BY <1>10 DEF ReadPing
    <2>6. /\ inbox'[s] \in Seq(Messages)
          /\ Len(message'[s]) + Len(inbox'[s]) <= Len(Script[s])
      <3>1. inbox'[s] \in Seq(Messages)
        BY <2>1, <2>2
      <3>2. Len(message'[s]) = ml /\ Len(inbox'[s]) = il - 1
        BY <2>1, <2>2, <2>5 DEF ml, il
      <3>3. Len(message'[s]) + Len(inbox'[s]) <= sl
        BY <1>0, <3>2
      <3>. QED  BY <3>1, <3>3 DEF sl
    <2>. QED  BY <1>1, <1>10, <2>3, <2>4, <2>5, <2>6 DEF ReadPing, view, SessionTyped
  <1>11. CASE ReadEnd(s)
    BY <1>1, <1>11 DEF ReadEnd, Domains, view, SessionTyped
  <1>12. CASE CloseClient(s)
    <2>1. message'[s] = <<>> /\ inbox'[s] = <<>>
      BY <1>1, <1>12 DEF CloseClient, Domains
    <2>2. <<>> \in Seq(Messages) /\ Len(<<>>) = 0
      BY EmptySeq
    <2>3. /\ message'[s] \in Seq(Messages) /\ inbox'[s] \in Seq(Messages)
          /\ Len(message'[s]) + Len(inbox'[s]) <= Len(Script[s])
      BY <1>1, <2>1, <2>2
    <2>4. thread'[s] = "ended" /\ s \in closed' /\ s \notin clients'
      BY <1>1, <1>12 DEF CloseClient, Others, Domains
    <2>. QED  BY <1>1, <1>12, <2>3, <2>4 DEF CloseClient, view, SessionTyped
  <1>13. CASE GoLive(s)
    BY <1>1, <1>13 DEF GoLive, Domains, view, SessionTyped
  <1>14. CASE ReadPiece(s)
    <2>1. /\ buffer'[s] = Tail(buffer[s]) /\ buffer[s] # <<>>
          /\ UNCHANGED <<loop, jam, clients, server>>
      BY <1>1, <1>14 DEF ReadPiece, Domains
    <2>2. /\ Tail(buffer[s]) \in Seq(Pieces) /\ Len(Tail(buffer[s])) = Len(buffer[s]) - 1
          /\ Head(buffer[s]) \in Pieces
      BY <1>1, <2>1, HeadTailProperties
    <2>3. Head(buffer[s]).part = 2 => Head(buffer[s]).frame \in Frames
      BY <2>2 DEF Pieces, Pong
    <2>4. /\ page'[s] \in {page[s], "left"}
          /\ prevLive'[s] \in Frames \cup {NoFrame}
          /\ alarm'[s] \in BOOLEAN /\ joinedJam'[s] \in BOOLEAN /\ inStep'[s] \in BOOLEAN
      <3> DEFINE p == Head(buffer[s])
      <3>1. CASE p.part = 1 /\ UNCHANGED <<page, prevLive, alarm, joinedJam, inStep>>
        BY <1>1, <3>1 DEF SessionTyped
      <3>2. CASE p.part = 2 /\ Show(s, p.frame) /\ UNCHANGED page
        <4>1. p.frame \in Frames
          BY <2>3, <3>2
        <4> HIDE DEF p
        <4>2. p.frame.jam \in BOOLEAN /\ ListsAlarm(s, p.frame) \in BOOLEAN
          BY <1>1, <4>1 DEF Frames, ListsAlarm, SessionTyped
        <4>. QED  BY <1>1, <3>2, <4>1, <4>2 DEF Show, Domains, SessionTyped
      <3>3. CASE /\ page' = [page EXCEPT ![s] = IF half[s] = <<>> THEN @ ELSE "left"]
                 /\ UNCHANGED <<prevLive, alarm, joinedJam, inStep>>
        BY <1>1, <3>3 DEF Domains, SessionTyped
      <3>. QED  BY <1>14, <3>1, <3>2, <3>3 DEF ReadPiece
    <2>5. buffer'[s] \in Seq(Pieces) /\ Len(buffer'[s]) <= Room
      BY <1>1, <2>1, <2>2
    <2>. QED  BY <1>1, <2>1, <2>4, <2>5 DEF server, SessionTyped
  <1>15. CASE Leave(s)
    <2>1. buffer'[s] = <<>> /\ page'[s] = "left" /\ prevLive'[s] = NoFrame
          /\ alarm'[s] = FALSE /\ joinedJam'[s] = FALSE /\ inStep'[s] = inStep[s]
      BY <1>1, <1>15 DEF Leave, Domains
    <2>2. <<>> \in Seq(Pieces) /\ Len(<<>>) = 0
      BY EmptySeq
    <2>3. /\ thread'[s] = thread[s] /\ inbox'[s] = inbox[s] /\ message'[s] = message[s]
          /\ closed' = closed /\ clients' = clients
      BY <1>15 DEF Leave, server
    <2>4. Len(buffer'[s]) <= Room /\ buffer'[s] \in Seq(Pieces)
      BY <1>0, <2>1, <2>2
    <2>. QED  BY <1>1, <2>1, <2>3, <2>4 DEF SessionTyped
  <1>. QED
    BY <1>2, <1>3, <1>4, <1>5, <1>6, <1>7, <1>8, <1>9, <1>10, <1>11, <1>12, <1>13, <1>14,
       <1>15, StepEffect DEF Own, Reader

LEMMA InitTyped == Init => Typed
  <1> SUFFICES ASSUME Init PROVE Typed
    OBVIOUS
  <1>1. LoopTyped
    <2>1. 0 \in 0 .. Ticks - 1
      BY LiveAssumption
    <2>2. /\ engine = "tick" /\ jam = FALSE /\ data = [t |-> 0, jam |-> FALSE]
          /\ cs = {} /\ sending = {} /\ dead = {} /\ clients = {}
      BY DEF Init, NoOne
    <2>. QED  BY <2>1, <2>2 DEF LoopTyped, Frames
  <1>2. Domains
    BY ScriptAssumption DEF Init, Domains
  <1>3. ASSUME NEW s \in Sessions PROVE SessionTyped(s)
    <2>1. <<>> \in Seq(Pieces) /\ <<>> \in Seq(Messages) /\ Len(<<>>) = 0
      BY EmptySeq
    <2>2. Script[s] \in Seq(Messages) /\ Len(Script[s]) \in Nat
      BY ScriptAssumption, LenProperties DEF Messages
    <2>. QED  BY <2>1, <2>2, LiveAssumption DEF Init, SessionTyped
  <1>. QED  BY <1>1, <1>2, <1>3 DEF Typed

LEMMA TypedInvariance == Spec => []Typed
  <1>1. Typed /\ [Next]_vars => Typed'
    BY StepEffect, LoopTypedStep, SessionTypedStep DEF Typed
  <1>. QED  BY <1>1, InitTyped, PTL DEF Spec

(* A client's thread that has ended has closed its socket and is in the    *)
(* client set no more, no buffer holds more than it has room for, and what *)
(* is put together of a message never exceeds what was sent.               *)
THEOREM TypeCorrect == Spec => []TypeOK
  <1>1. Typed => TypeOK
    BY DEF Typed, TypeOK, LoopTyped, SessionTyped, Frames
  <1>. QED  BY <1>1, TypedInvariance, PTL

-----------------------------------------------------------------------------
(* The frames of a session that the page has still to show, by the place   *)
(* of their second halves in the buffer, after the frame it shows, which   *)
(* has place 0; and whether they are consecutive.                          *)
Whole(f, b) == {i \in 0 .. Len(b) : IF i = 0 THEN f # NoFrame ELSE b[i].part = 2}
Time(f, b, i) == IF i = 0 THEN f.t ELSE b[i].frame.t
Newest(f, b, i) == i \in Whole(f, b) /\ \A h \in Whole(f, b) : h <= i

Consecutive(f, b) ==
  \A i, j \in Whole(f, b) :
    i < j /\ (\A h \in Whole(f, b) : h <= i \/ j <= h)
      => Time(f, b, j) = (Time(f, b, i) + 1) % Ticks

LEMMA FramesAreFrames == \A f \in Frames : f # NoFrame
  <1> SUFFICES ASSUME NEW f \in Frames PROVE f # NoFrame
    OBVIOUS
  <1>1. "t" \in DOMAIN f
    BY DEF Frames
  <1>2. DOMAIN NoFrame = {}
    BY DEF NoFrame
  <1>. QED  BY <1>1, <1>2

(* A piece other than a second half changes nothing... *)
LEMMA OtherSent ==
  ASSUME NEW f, NEW b \in Seq(Pieces), NEW e \in Pieces, e.part # 2, Consecutive(f, b)
  PROVE  /\ Consecutive(f, Append(b, e))
         /\ \A i : Newest(f, Append(b, e), i) =>
              Newest(f, b, i) /\ Time(f, b, i) = Time(f, Append(b, e), i)
  <1> DEFINE c == Append(b, e)
  <1>1. /\ Len(b) \in Nat /\ Len(c) = Len(b) + 1 /\ c[Len(b) + 1] = e
        /\ \A i \in 1 .. Len(b) : c[i] = b[i]
    BY AppendProperties, LenProperties
  <1> HIDE DEF c
  <1>2. Whole(f, c) = Whole(f, b)
    BY <1>1 DEF Whole
  <1>3. \A i \in Whole(f, b) : Time(f, c, i) = Time(f, b, i)
    BY <1>1 DEF Whole, Time
  <1>4. Consecutive(f, c)
    BY <1>2, <1>3 DEF Consecutive
  <1>5. \A i : Newest(f, c, i) => Newest(f, b, i) /\ Time(f, b, i) = Time(f, c, i)
    BY <1>2, <1>3 DEF Newest
  <1>. QED  BY <1>4, <1>5 DEF c

(* ...and a second half is the newest of all. *)
LEMMA WholeSent ==
  ASSUME NEW f, NEW b \in Seq(Pieces), NEW e \in Pieces, e.part = 2, Consecutive(f, b),
         \A i : Newest(f, b, i) => e.frame.t = (Time(f, b, i) + 1) % Ticks
  PROVE  /\ Consecutive(f, Append(b, e))
         /\ \A i : Newest(f, Append(b, e), i) => Time(f, Append(b, e), i) = e.frame.t
  <1> DEFINE c == Append(b, e)
  <1>1. /\ Len(b) \in Nat /\ Len(c) = Len(b) + 1 /\ c[Len(b) + 1] = e
        /\ \A i \in 1 .. Len(b) : c[i] = b[i]
    BY AppendProperties, LenProperties
  <1> HIDE DEF c
  <1> DEFINE n == Len(b) + 1
  <1>2. n \in Nat /\ n > 0 /\ \A i \in Whole(f, b) : i \in Nat /\ i < n
    BY <1>1 DEF Whole
  <1>3. Whole(f, c) = Whole(f, b) \cup {n}
    BY <1>1 DEF Whole
  <1>4. \A i \in Whole(f, b) : Time(f, c, i) = Time(f, b, i)
    BY <1>1 DEF Whole, Time
  <1>5. Time(f, c, n) = e.frame.t
    BY <1>1, <1>2 DEF Time
  <1> HIDE DEF n
  <1>6. ASSUME NEW i \in Whole(f, c), NEW j \in Whole(f, c), i < j,
               \A h \in Whole(f, c) : h <= i \/ j <= h
        PROVE  Time(f, c, j) = (Time(f, c, i) + 1) % Ticks
    <2>1. i \in Whole(f, b) /\ Time(f, c, i) = Time(f, b, i)
      BY <1>2, <1>3, <1>4, <1>6
    <2>2. CASE j \in Whole(f, b)
      BY <1>3, <1>4, <1>6, <2>1, <2>2 DEF Consecutive
    <2>3. CASE j = n
      <3>1. \A h \in Whole(f, b) : h <= i
        BY <1>2, <1>3, <1>6, <2>3
      <3>. QED  BY <1>5, <2>1, <2>3, <3>1 DEF Newest
    <2>. QED  BY <1>3, <2>2, <2>3
  <1>7. Consecutive(f, c)
    BY <1>6 DEF Consecutive
  <1>8. \A i : Newest(f, c, i) => i = n
    BY <1>2, <1>3 DEF Newest
  <1>. QED  BY <1>5, <1>7, <1>8 DEF c

(* Reading a piece: what was shown is forgotten for a whole frame. *)
LEMMA PieceRead ==
  ASSUME NEW f \in Frames \cup {NoFrame}, NEW b \in Seq(Pieces), b # <<>>,
         Consecutive(f, b), NEW g, g = IF b[1].part = 2 THEN b[1].frame ELSE f
  PROVE  /\ Consecutive(g, Tail(b))
         /\ \A i : Newest(g, Tail(b), i) =>
              \E k : Newest(f, b, k) /\ Time(f, b, k) = Time(g, Tail(b), i)
         /\ b[1].part = 2 /\ f # NoFrame => b[1].frame.t = (f.t + 1) % Ticks
  <1> DEFINE c == Tail(b)
  <1>1. /\ Len(b) \in Nat \ {0} /\ Len(c) = Len(b) - 1
        /\ \A i \in 1 .. Len(c) : c[i] = b[i + 1]
        /\ b[1] \in Pieces
    BY HeadTailProperties, EmptySeq, ElementOfSeq
  <1> HIDE DEF c
  <1>2. b[1].part = 2 => b[1].frame \in Frames
    BY <1>1 DEF Pieces, Pong
  <1>3. g # NoFrame <=> b[1].part = 2 \/ f # NoFrame
    BY <1>2, FramesAreFrames
  <1> DEFINE Old(k) == IF k = 0 /\ b[1].part # 2 THEN 0 ELSE k + 1
  <1>4. \A k \in Whole(g, c) : /\ k \in Nat /\ Old(k) \in Whole(f, b)
                               /\ Time(g, c, k) = Time(f, b, Old(k))
    <2> SUFFICES ASSUME NEW k \in Whole(g, c)
                 PROVE  k \in Nat /\ Old(k) \in Whole(f, b)
                        /\ Time(g, c, k) = Time(f, b, Old(k))
      OBVIOUS
    <2>1. k \in 0 .. Len(c) /\ k \in Nat
      BY <1>1 DEF Whole
    <2>2. CASE k = 0 /\ b[1].part = 2
      BY <1>1, <2>2 DEF Whole, Time
    <2>3. CASE k = 0 /\ b[1].part # 2
      BY <1>1, <1>3, <2>3 DEF Whole, Time
    <2>4. CASE k > 0
      <3>1. k \in 1 .. Len(c) /\ k + 1 \in 1 .. Len(b) /\ c[k] = b[k + 1] /\ k + 1 # 0
        BY <1>1, <2>1, <2>4
      <3>2. c[k].part = 2
        BY <2>4 DEF Whole
      <3>. QED  BY <2>1, <2>4, <3>1, <3>2 DEF Whole, Time
    <2>. QED  BY <2>1, <2>2, <2>3, <2>4
  <1>5. ASSUME NEW h \in Whole(f, b), h > 0 \/ b[1].part # 2
        PROVE  \E k \in Whole(g, c) : Old(k) = h
    <2>1. h \in 0 .. Len(b)
      BY DEF Whole
    <2>2. CASE h = 0
      <3>1. 0 \in Whole(g, c) /\ Old(0) = 0
        BY <1>1, <1>3, <1>5, <2>2 DEF Whole
      <3>. QED  BY <2>2, <3>1
    <2>3. CASE h = 1
      <3>1. b[1].part = 2
        BY <2>3 DEF Whole
      <3>2. 0 \in Whole(g, c) /\ Old(0) = 1
        BY <1>1, <1>3, <3>1 DEF Whole
      <3>. QED  BY <2>3, <3>2
    <2>4. CASE h > 1
      <3>1. h - 1 \in 1 .. Len(c) /\ c[h - 1] = b[h] /\ b[h].part = 2
        BY <1>1, <2>1, <2>4 DEF Whole
      <3>2. h - 1 \in Whole(g, c) /\ Old(h - 1) = h
        BY <1>1, <2>1, <2>4, <3>1 DEF Whole
      <3>. QED  BY <3>2
    <2>. QED  BY <2>1, <2>2, <2>3, <2>4
  <1>6. \A i, j \in Whole(g, c) : i < j <=> Old(i) < Old(j)
    BY <1>4
  <1>7. \A h \in Whole(f, b) : h \in Nat
    BY <1>1 DEF Whole
  <1>8. \A k \in Whole(g, c) : Old(k) > 0 \/ b[1].part # 2
    BY <1>4
  <1> HIDE DEF Old
  <1>9. ASSUME NEW i \in Whole(g, c), NEW j \in Whole(g, c), i < j,
               \A h \in Whole(g, c) : h <= i \/ j <= h
        PROVE  Time(g, c, j) = (Time(g, c, i) + 1) % Ticks
    <2>1. Old(i) < Old(j) /\ Old(i) \in Whole(f, b) /\ Old(j) \in Whole(f, b)
      BY <1>4, <1>6, <1>9
    <2>2. ASSUME NEW h \in Whole(f, b) PROVE h <= Old(i) \/ Old(j) <= h
      <3>1. CASE h > 0 \/ b[1].part # 2
        <4>1. PICK k \in Whole(g, c) : Old(k) = h
          BY <1>5, <3>1
        <4>2. ~(i < k) \/ ~(k < j)
          BY <1>4, <1>9
        <4>3. ~(Old(i) < h) \/ ~(h < Old(j))
          BY <1>6, <4>1, <4>2
        <4>. QED  BY <1>7, <2>1, <4>3
      <3>2. CASE ~(h > 0 \/ b[1].part # 2)
        BY <1>7, <2>1, <3>2
      <3>. QED  BY <3>1, <3>2
    <2>3. Time(f, b, Old(j)) = (Time(f, b, Old(i)) + 1) % Ticks
      BY <2>1, <2>2 DEF Consecutive
    <2>. QED  BY <1>4, <2>3
  <1>10. Consecutive(g, c)
    BY <1>9 DEF Consecutive
  <1>11. ASSUME NEW i, Newest(g, c, i)
         PROVE  \E k : Newest(f, b, k) /\ Time(f, b, k) = Time(g, c, i)
    <2>1. i \in Whole(g, c) /\ \A h \in Whole(g, c) : h <= i
      BY <1>11 DEF Newest
    <2>2. ASSUME NEW h \in Whole(f, b) PROVE h <= Old(i)
      <3>1. CASE h > 0 \/ b[1].part # 2
        <4>1. PICK k \in Whole(g, c) : Old(k) = h
          BY <1>5, <3>1
        <4>2. ~(i < k)
          BY <1>4, <2>1
        <4>3. ~(Old(i) < h)
          BY <1>6, <2>1, <4>1, <4>2
        <4>. QED  BY <1>4, <1>7, <2>1, <4>3
      <3>2. CASE ~(h > 0 \/ b[1].part # 2)
        BY <1>4, <1>7, <2>1, <3>2
      <3>. QED  BY <3>1, <3>2
    <2>3. Newest(f, b, Old(i)) /\ Time(f, b, Old(i)) = Time(g, c, i)
      BY <1>4, <2>1, <2>2 DEF Newest
    <2>. QED  BY <2>3
  <1>12. ASSUME b[1].part = 2, f # NoFrame PROVE b[1].frame.t = (f.t + 1) % Ticks
    <2>1. 0 \in Whole(f, b) /\ 1 \in Whole(f, b)
      BY <1>1, <1>12 DEF Whole
    <2>2. \A h \in Whole(f, b) : h <= 0 \/ 1 <= h
      BY <1>7
    <2>3. Time(f, b, 1) = (Time(f, b, 0) + 1) % Ticks
      BY <2>1, <2>2 DEF Consecutive
    <2>. QED  BY <2>3 DEF Time
  <1>. QED  BY <1>10, <1>11, <1>12 DEF c

-----------------------------------------------------------------------------
(* A page that waits for its first frame has been sent none; one that is   *)
(* served is in the client set, or cut off.                                *)
JoinInv(s) ==
  /\ page[s] = "away" => thread[s] = "none"
  /\ thread[s] \in Early =>
       /\ s \notin clients /\ s \notin cs /\ s \notin dead
       /\ buffer[s] = <<>> /\ prevLive[s] = NoFrame
  /\ thread[s] \notin Early => s \in clients \/ s \in closed \/ page[s] = "left"

(* The frames of an open page are consecutive, and the newest one is the   *)
(* loop's, or the one before while the loop's is still to be sent to it.   *)
UpToDate(s) ==
  \A i : Newest(prevLive[s], buffer[s], i) =>
    /\ s \in cs => data.t = (Time(prevLive[s], buffer[s], i) + 1) % Ticks
    /\ s \notin cs => Time(prevLive[s], buffer[s], i) = data.t

StreamInv(s) ==
  page[s] = "live" =>
    /\ Consecutive(prevLive[s], buffer[s])
    /\ s \notin closed => UpToDate(s)

AlarmInv(s) ==
  prevLive[s] # NoFrame =>
    /\ alarm[s] => prevLive[s].jam
    /\ ~alarm[s] /\ prevLive[s].jam => joinedJam[s]

SessionInv(s) == JoinInv(s) /\ StreamInv(s) /\ inStep[s] /\ AlarmInv(s)

LiveInv == Typed /\ \A s \in Sessions : SessionInv(s)

LEMMA JoinInvStep ==
  ASSUME LiveInv, [Next]_vars, NEW s \in Sessions
  PROVE  JoinInv(s)'
  <1>1. /\ LoopTyped /\ Domains /\ JoinInv(s) /\ Typed
        /\ thread[s] \in {"none", "handshake", "add", "read", "close", "ended"}
    BY DEF LiveInv, SessionInv, Typed, SessionTyped
  <1> USE DEF JoinInv, Early
  <1>2. CASE Untouched(s)
    BY <1>1, <1>2 DEF Untouched, Kept
  <1>3. CASE Tick
    BY <1>1, <1>3 DEF Tick, server, view
  <1>4. CASE Reap
    BY <1>1, <1>4 DEF Reap, view
  <1>5. CASE Send(s)
    BY <1>1, <1>5 DEF Send, Sends, server, view, NoOne
  <1>6. CASE SendToGone(s)
    BY <1>1, <1>6 DEF SendToGone, server, view
  <1>7. CASE Handshake(s)
    BY <1>1, <1>7 DEF Handshake, Domains, loop, view
  <1>8. CASE AddClient(s)
    BY <1>1, <1>8 DEF AddClient, Domains, loop, view
  <1>9. CASE ReadData(s)
    BY <1>1, <1>9 DEF ReadData, loop, view
  <1>10. CASE ReadPing(s)
    <2>1. thread[s] = "read" /\ thread'[s] \in {"read", "close"}
      BY <1>1, <1>10 DEF ReadPing, Reading, Domains
    <2>. QED  BY <1>1, <1>10, <2>1 DEF ReadPing
  <1>11. CASE ReadEnd(s)
    BY <1>1, <1>11 DEF ReadEnd, Domains, loop, view
  <1>12. CASE CloseClient(s)
    BY <1>1, <1>12 DEF CloseClient, Others, Domains, loop, view
  <1>13. CASE GoLive(s)
    BY <1>1, <1>13 DEF GoLive, Domains, loop, view
  <1>14. CASE ReadPiece(s)
    <2>1. /\ buffer[s] # <<>> /\ page[s] = "live" /\ page'[s] \in {"live", "left"}
          /\ UNCHANGED <<loop, clients, server>>
      BY <1>1, <1>14 DEF ReadPiece, Show, Domains
    <2>. QED  BY <1>1, <2>1 DEF loop, server
  <1>15. CASE Leave(s)
    BY <1>1, <1>15 DEF Leave, Domains, loop, server
  <1>. QED
    BY <1>1, <1>2, <1>3, <1>4, <1>5, <1>6, <1>7, <1>8, <1>9, <1>10, <1>11, <1>12, <1>13,
       <1>14, <1>15, StepEffect DEF Own, Reader

(* A page that was sent nothing is up to date. *)
LEMMA NothingSent ==
  ASSUME NEW s \in Sessions, prevLive[s] = NoFrame, buffer[s] = <<>>
  PROVE  Consecutive(prevLive[s], buffer[s]) /\ UpToDate(s)
  <1>1. Len(<<>>) = 0
    BY EmptySeq
  <1>2. Whole(NoFrame, <<>>) = {}
    BY <1>1 DEF Whole
  <1>. QED  BY <1>2 DEF Consecutive, UpToDate, Newest

LEMMA StreamInvSend ==
  ASSUME LiveInv, NEW s \in Sessions, Send(s)
  PROVE  StreamInv(s)'
  <1>1. /\ LoopTyped /\ Domains /\ StreamInv(s) /\ buffer[s] \in Seq(Pieces)
    BY DEF LiveInv, SessionInv, Typed, SessionTyped
  <1> SUFFICES ASSUME page[s] = "live"
               PROVE  /\ Consecutive(prevLive[s], buffer'[s])
                      /\ UpToDate(s)'
    BY DEF Send, server, view, StreamInv
  <1>2. /\ s \in cs /\ s \notin closed /\ data' = data /\ prevLive' = prevLive
    BY DEF Send, Broken, view
  <1> DEFINE f == prevLive[s]
             b == buffer[s]
  <1>3. /\ Consecutive(f, b)
        /\ \A i : Newest(f, b, i) => data.t = (Time(f, b, i) + 1) % Ticks
    BY <1>1, <1>2 DEF StreamInv, UpToDate
  <1>4. /\ Piece(1) \in Pieces /\ Piece(2) \in Pieces
        /\ Append(b, Piece(1)) \in Seq(Pieces)
        /\ b \o <<Piece(1), Piece(2)>> = Append(Append(b, Piece(1)), Piece(2))
    BY <1>1, SendPieces
  <1>5. Piece(1).part = 1 /\ Piece(2).part = 2 /\ Piece(2).frame = data
    BY DEF Piece
  <1>6. /\ Consecutive(f, Append(b, Piece(1)))
        /\ \A i : Newest(f, Append(b, Piece(1)), i) =>
             data.t = (Time(f, Append(b, Piece(1)), i) + 1) % Ticks
    <2>1. /\ Consecutive(f, Append(b, Piece(1)))
          /\ \A i : Newest(f, Append(b, Piece(1)), i) =>
               Newest(f, b, i) /\ Time(f, b, i) = Time(f, Append(b, Piece(1)), i)
      <3>1. Piece(1).part # 2
        BY <1>5
      <3>. QED  BY <1>1, <1>3, <1>4, <3>1, OtherSent
    <2>. QED  BY <1>3, <2>1
  <1>7. ASSUME NEW c \in Seq(Pieces), Consecutive(f, c),
               \A i : Newest(f, c, i) => data.t = (Time(f, c, i) + 1) % Ticks
        PROVE  /\ Consecutive(f, Append(c, Piece(2)))
               /\ \A i : Newest(f, Append(c, Piece(2)), i) =>
                    Time(f, Append(c, Piece(2)), i) = data.t
    BY <1>4, <1>5, <1>7, WholeSent
  <1>8. CASE /\ buffer'[s] = b \o <<Piece(1), Piece(2)>>
             /\ s \notin cs'
    BY <1>2, <1>4, <1>6, <1>7, <1>8 DEF UpToDate
  <1>9. CASE buffer'[s] = Append(b, Piece(1)) /\ s \in cs'
    BY <1>2, <1>6, <1>9 DEF UpToDate
  <1>10. CASE buffer'[s] = Append(b, Piece(2)) /\ s \notin cs'
    BY <1>1, <1>2, <1>3, <1>7, <1>10 DEF UpToDate
  <1>11. \/ buffer'[s] = b \o <<Piece(1), Piece(2)>> /\ s \notin cs'
         \/ buffer'[s] = Append(b, Piece(1)) /\ s \in cs'
         \/ buffer'[s] = Append(b, Piece(2)) /\ s \notin cs'
    BY <1>1, <1>2 DEF Send, Sends, Domains
  <1>. QED  BY <1>8, <1>9, <1>10, <1>11

LEMMA StreamInvRead ==
  ASSUME LiveInv, NEW s \in Sessions, ReadPiece(s)
  PROVE  StreamInv(s)' /\ inStep'[s] /\ AlarmInv(s)'
  <1>1. /\ LoopTyped /\ Domains /\ SessionInv(s) /\ SessionTyped(s)
        /\ buffer[s] \in Seq(Pieces) /\ prevLive[s] \in Frames \cup {NoFrame}
    BY DEF LiveInv, Typed, SessionTyped
  <1>2. /\ page[s] = "live" /\ buffer[s] # <<>> /\ buffer'[s] = Tail(buffer[s])
        /\ UNCHANGED <<data, cs, closed>>
    BY <1>1 DEF ReadPiece, Domains, loop, server
  <1> DEFINE f == prevLive[s]
             b == buffer[s]
             g == prevLive'[s]
  <1>3. b[1] = Head(b) /\ b[1] \in Pieces
    BY <1>1, <1>2, HeadTailProperties, ElementOfSeq, LenProperties, EmptySeq
  <1>4. /\ b[1].part = 2 => b[1].kind = "data" /\ b[1].frame \in Frames
        /\ b[1].kind = "pong" => b[1].part = 0
    BY <1>3 DEF Pieces, Pong
  <1>5. Consecutive(f, b) /\ (s \notin closed => UpToDate(s))
    BY <1>1, <1>2 DEF SessionInv, StreamInv
  <1>6. \/ b[1].part = 2 /\ Show(s, b[1].frame)
        \/ b[1].part # 2 /\ UNCHANGED <<prevLive, alarm, joinedJam, inStep>>
    <2>1. b[1].kind = "pong" => b[1].part # 2
      BY <1>4
    <2>2. b[1].part = 1 => b[1].part # 2
      OBVIOUS
    <2>. QED  BY <1>3, <2>1, <2>2 DEF ReadPiece
  <1>7. g = IF b[1].part = 2 THEN b[1].frame ELSE f
    BY <1>1, <1>6 DEF Show, Domains
  <1>8. /\ Consecutive(g, Tail(b))
        /\ \A i : Newest(g, Tail(b), i) =>
             \E k : Newest(f, b, k) /\ Time(f, b, k) = Time(g, Tail(b), i)
        /\ b[1].part = 2 /\ f # NoFrame => b[1].frame.t = (f.t + 1) % Ticks
    BY <1>1, <1>2, <1>5, <1>7, PieceRead
  <1>9. StreamInv(s)'
    <2>1. s \notin closed' => UpToDate(s)'
      <3> SUFFICES ASSUME s \notin closed PROVE UpToDate(s)'
        BY <1>2
      <3>1. UpToDate(s)
        BY <1>5
      <3>. QED  BY <1>2, <1>8, <3>1 DEF UpToDate
    <2>. QED  BY <1>2, <1>8, <2>1 DEF StreamInv
  <1>10. inStep'[s] /\ AlarmInv(s)'
    <2>1. inStep[s] /\ AlarmInv(s) /\ inStep[s] \in BOOLEAN
      BY <1>1 DEF SessionInv, SessionTyped
    <2>2. CASE b[1].part # 2 /\ UNCHANGED <<prevLive, alarm, joinedJam, inStep>>
      BY <2>1, <2>2 DEF AlarmInv
    <2>3. CASE b[1].part = 2 /\ Show(s, b[1].frame)
      <3> DEFINE e == b[1].frame
      <3>1. /\ alarm'[s] = ListsAlarm(s, e) /\ prevLive'[s] = e
            /\ joinedJam'[s] = IF f = NoFrame THEN e.jam ELSE joinedJam[s]
            /\ inStep'[s] = (inStep[s] /\ (f # NoFrame => e.t = (f.t + 1) % Ticks))
        BY <1>1, <2>3 DEF Show, Domains
      <3>2. e.jam \in BOOLEAN /\ alarm[s] \in BOOLEAN /\ joinedJam[s] \in BOOLEAN
        BY <1>1, <1>4, <2>3 DEF Frames, SessionTyped
      <3>3. inStep'[s]
        BY <1>8, <2>1, <2>3, <3>1
      <3>4. CASE f = NoFrame
        BY <3>1, <3>3, <3>4 DEF AlarmInv, ListsAlarm
      <3>5. CASE f # NoFrame
        <4>1. f.jam \in BOOLEAN
          BY <1>1, <3>5 DEF Frames
        <4>2. CASE e.jam # f.jam
          BY <3>1, <3>2, <3>3, <3>5, <4>1, <4>2 DEF AlarmInv, ListsAlarm
        <4>3. CASE e.jam = f.jam
          BY <2>1, <3>1, <3>2, <3>3, <3>5, <4>1, <4>3 DEF AlarmInv, ListsAlarm
        <4>. QED  BY <4>2, <4>3
      <3>. QED  BY <3>4, <3>5
    <2>. QED  BY <1>6, <2>2, <2>3
  <1>. QED  BY <1>9, <1>10

LEMMA SessionInvStep ==
  ASSUME LiveInv, [Next]_vars, NEW s \in Sessions
  PROVE  StreamInv(s)' /\ inStep'[s] /\ AlarmInv(s)'
  <1>1. /\ LoopTyped /\ Domains /\ JoinInv(s) /\ Typed
        /\ StreamInv(s) /\ inStep[s] /\ AlarmInv(s)
        /\ thread[s] \in {"none", "handshake", "add", "read", "close", "ended"}
    BY DEF LiveInv, SessionInv, Typed, SessionTyped
  <1> DEFINE Shown == /\ prevLive'[s] = prevLive[s] /\ alarm'[s] = alarm[s]
                      /\ joinedJam'[s] = joinedJam[s] /\ inStep'[s] = inStep[s]
             Same == /\ Shown /\ buffer'[s] = buffer[s] /\ data' = data
                     /\ s \in cs' <=> s \in cs
                     /\ s \in closed => s \in closed'
                     /\ page'[s] \in {page[s], "left"}
  <1>2. Shown => inStep'[s] /\ AlarmInv(s)'
    BY <1>1 DEF AlarmInv
  <1>3. ASSUME Same PROVE StreamInv(s)' /\ inStep'[s] /\ AlarmInv(s)'
    BY <1>1, <1>2, <1>3 DEF StreamInv, UpToDate
  <1>4. CASE Untouched(s)
    BY <1>3, <1>4 DEF Untouched, Kept
  <1>5. CASE Tick
    <2>1. Shown /\ buffer'[s] = buffer[s] /\ closed' = closed /\ page'[s] = page[s]
      BY <1>5 DEF Tick, view, server
    <2>2. /\ s \notin cs /\ data'.t = (data.t + 1) % Ticks
          /\ s \in cs' <=> s \in clients
      BY <1>1, <1>5 DEF Tick, LoopTyped
    <2>3. CASE thread[s] \in Early
      <3>1. prevLive[s] = NoFrame /\ buffer[s] = <<>>
        BY <1>1, <2>3 DEF JoinInv
      <3>2. Whole(NoFrame, <<>>) = {}
        <4>1. Len(<<>>) = 0
          BY EmptySeq
        <4>. QED  BY <4>1 DEF Whole
      <3>. QED  BY <1>2, <2>1, <3>1, <3>2 DEF StreamInv, Consecutive, UpToDate, Newest
    <2>4. CASE thread[s] \notin Early
      <3>1. s \in clients \/ s \in closed \/ page[s] = "left"
        BY <1>1, <2>4 DEF JoinInv
      <3>. QED  BY <1>1, <1>2, <2>1, <2>2, <3>1 DEF StreamInv, UpToDate
    <2>. QED  BY <2>3, <2>4
  <1>6. CASE Reap
    BY <1>3, <1>6 DEF Reap, view
  <1>7. CASE Send(s)
    BY <1>2, <1>7, StreamInvSend DEF Send, view
  <1>8. CASE SendToGone(s)
    <2>1. s \in closed \/ page[s] = "left"
      BY <1>8 DEF SendToGone, Broken
    <2>2. Shown /\ buffer'[s] = buffer[s] /\ closed' = closed /\ page'[s] = page[s]
      BY <1>8 DEF SendToGone, view, server
    <2>. QED  BY <1>1, <1>2, <2>1, <2>2 DEF StreamInv
  <1>9. CASE Handshake(s)
    <2>1. prevLive[s] = NoFrame /\ buffer[s] = <<>>
      BY <1>1, <1>9 DEF Handshake, JoinInv, Early
    <2>2. Consecutive(prevLive[s], buffer[s]) /\ UpToDate(s)
      BY <2>1, NothingSent
    <2>3. /\ Shown /\ buffer' = buffer /\ prevLive' = prevLive /\ data' = data /\ cs' = cs
      BY <1>9 DEF Handshake, view, loop
    <2>. QED  BY <1>2, <2>2, <2>3 DEF StreamInv, UpToDate
  <1>10. CASE AddClient(s) \/ ReadData(s) \/ ReadEnd(s)
    BY <1>3, <1>10 DEF AddClient, ReadData, ReadEnd, loop, view
  <1>11. CASE ReadPing(s)
    <2>1. Shown /\ data' = data /\ cs' = cs /\ closed' = closed /\ page' = page
      BY <1>11 DEF ReadPing, loop, view
    <2>2. CASE buffer'[s] = buffer[s]
      BY <1>3, <2>1, <2>2
    <2>3. CASE buffer'[s] = Append(buffer[s], Pong)
      <3>1. Pong \in Pieces /\ buffer[s] \in Seq(Pieces) /\ Pong.part # 2
        <4>1. Pong \in Pieces
          BY DEF Pieces
        <4>2. Pong.part # 2
          BY DEF Pong
        <4>3. buffer[s] \in Seq(Pieces)
          BY <1>1 DEF Typed, SessionTyped
        <4>. QED  BY <4>1, <4>2, <4>3
      <3>2. ASSUME Consecutive(prevLive[s], buffer[s])
            PROVE  /\ Consecutive(prevLive[s], buffer'[s])
                   /\ \A i : Newest(prevLive[s], buffer'[s], i) =>
                        /\ Newest(prevLive[s], buffer[s], i)
                        /\ Time(prevLive[s], buffer[s], i) = Time(prevLive[s], buffer'[s], i)
        BY <2>3, <3>1, <3>2, OtherSent
      <3>. QED  BY <1>1, <1>2, <2>1, <3>2 DEF StreamInv, UpToDate
    <2>. QED  BY <1>1, <1>11, <2>2, <2>3 DEF ReadPing, Domains
  <1>12. CASE CloseClient(s)
    BY <1>3, <1>12 DEF CloseClient, loop, view
  <1>13. CASE GoLive(s)
    <2>1. page'[s] = "opening" /\ Shown
      BY <1>1, <1>13 DEF GoLive, Domains, view
    <2>. QED  BY <1>2, <2>1 DEF StreamInv
  <1>14. CASE ReadPiece(s)
    BY <1>14, StreamInvRead
  <1>15. CASE Leave(s)
    <2>1. page'[s] = "left" /\ inStep'[s] = inStep[s] /\ prevLive'[s] = NoFrame
      BY <1>1, <1>15 DEF Leave, Domains
    <2>. QED  BY <1>1, <2>1 DEF StreamInv, AlarmInv
  <1>. QED
    BY <1>1, <1>4, <1>5, <1>6, <1>7, <1>8, <1>9, <1>10, <1>11, <1>12, <1>13, <1>14, <1>15,
       StepEffect DEF Own, Reader

LEMMA LiveInvariance == Spec => []LiveInv
  <1>1. Init => LiveInv
    <2> SUFFICES ASSUME Init PROVE LiveInv
      OBVIOUS
    <2>1. ASSUME NEW s \in Sessions PROVE SessionInv(s)
      <3>1. /\ page[s] = "away" /\ thread[s] = "none" /\ prevLive[s] = NoFrame
            /\ buffer[s] = <<>> /\ inStep[s] = TRUE
            /\ s \notin clients /\ s \notin cs /\ s \notin dead
        BY <2>1 DEF Init
      <3>. QED  BY <3>1 DEF SessionInv, JoinInv, StreamInv, AlarmInv, Early
    <2>. QED  BY <2>1, InitTyped DEF LiveInv
  <1>2. LiveInv /\ [Next]_vars => LiveInv'
    <2> SUFFICES ASSUME LiveInv, [Next]_vars PROVE Typed' /\ \A s \in Sessions : SessionInv(s)'
      BY DEF LiveInv
    <2>1. Typed'
      BY StepEffect, LoopTypedStep, SessionTypedStep DEF LiveInv, Typed
    <2>. QED  BY <2>1, JoinInvStep, SessionInvStep DEF SessionInv
  <1>. QED  BY <1>1, <1>2, PTL DEF Spec

(* A page is shown every frame since its first, in order and once, however *)
(* slow it is, whoever else comes and goes, and whatever the reader thread *)
(* writes to the same socket between the loop's pieces.                    *)
THEOREM FramesAreShownInOrder == Spec => []FramesInOrder
  <1>1. LiveInv => FramesInOrder
    BY DEF LiveInv, SessionInv, FramesInOrder
  <1>. QED  BY <1>1, LiveInvariance, PTL

(* An alarm is listed only while the frame shown has the jam, and a jam    *)
(* shown without one was already there when the page went live.            *)
THEOREM AlarmsAreTrue == Spec => []AlarmMatchesFrame
  <1>1. LiveInv => AlarmMatchesFrame
    <2> SUFFICES ASSUME LiveInv, NEW s \in Sessions, prevLive[s] # NoFrame
                 PROVE  IF alarm[s] THEN prevLive[s].jam
                        ELSE prevLive[s].jam => joinedJam[s]
      BY DEF AlarmMatchesFrame
    <2>. QED  BY DEF LiveInv, SessionInv, AlarmInv
  <1>. QED  BY <1>1, LiveInvariance, PTL
=============================================================================
