-------------------------- MODULE ModbusLinkProofs --------------------------
(***************************************************************************)
(* Theorems about ModbusLink, for any number of masters, any requests and  *)
(* any number of calls: what a client and the server promise each other    *)
(* across timeouts, dropped connections, retries and restarts.             *)
(***************************************************************************)
EXTENDS ModbusLink, FiniteSetTheorems, SequenceTheorems, TLAPS

AllRequests == UNION {Requests[m] : m \in Masters}
Bodies == {Answer(s, p) : s \in Stores, p \in AllRequests}

Asks == [of : Nat, pdu : AllRequests]
Replies == [of : Nat, body : Bodies]
Connections == [state : {"unused", "open", "dropped", "closed"},
                requests : Seq(Asks), replies : Seq(Replies)]

(* The two ends of a queue. *)
LEMMA TailEffect ==
  ASSUME NEW S, NEW s \in Seq(S), s # <<>>
  PROVE  /\ Len(s) \in Nat \ {0} /\ DOMAIN s = 1 .. Len(s)
         /\ Head(s) \in S /\ Head(s) = s[1]
         /\ Tail(s) \in Seq(S) /\ Len(Tail(s)) = Len(s) - 1
         /\ DOMAIN Tail(s) = 1 .. Len(s) - 1
         /\ \A i \in 1 .. Len(s) - 1 : Tail(s)[i] = s[i + 1]
  BY HeadTailProperties, LenProperties, EmptySeq

LEMMA AppendEffect ==
  ASSUME NEW S, NEW s \in Seq(S), NEW e \in S
  PROVE  /\ Len(s) \in Nat /\ DOMAIN s = 1 .. Len(s)
         /\ Append(s, e) \in Seq(S) /\ Len(Append(s, e)) = Len(s) + 1
         /\ DOMAIN Append(s, e) = 1 .. Len(s) + 1
         /\ \A i \in 1 .. Len(s) : Append(s, e)[i] = s[i]
         /\ Append(s, e)[Len(s) + 1] = e
  BY AppendProperties, LenProperties

-----------------------------------------------------------------------------
LEMMA EmptyStoreIsStore == EmptyStore \in Stores
  <1>1. 0 \in 0 .. WordModulus - 1
    BY StoreAssumption
  <1>. QED  BY <1>1 DEF EmptyStore, Stores

(* A write that is not refused writes words. *)
LEMMA WrittenIsStore ==
  ASSUME NEW s \in Stores, NEW p \in AllRequests
  PROVE  Written(s, p) \in Stores
  <1>1. CASE IsWrite(p) /\ Refusal(p) = "none"
    <2>1. p.address \in Nat /\ p.count \in Nat /\ p.fc \in {5, 6, 15, 16}
      BY <1>1, LinkAssumption, RequestAssumption DEF AllRequests, IsWrite, WriteTable
    <2>2. \A i \in 1 .. p.count : p.data[i] \in 0 .. WordModulus - 1
      <3>1. CASE p.fc = 6
        <4>1. /\ p.data[1] \in Nat
              /\ p = WriteRegister(p.address, p.data[1])
          BY <3>1, LinkAssumption, RequestAssumption DEF AllRequests
        <4>2. p.count = 1 /\ p.data = <<p.data[1] % WordModulus>>
          BY <4>1 DEF WriteRegister
        <4>3. p.data[1] % WordModulus \in 0 .. WordModulus - 1
          BY <4>1, StoreAssumption
        <4>. QED  BY <4>2, <4>3
      <3>2. CASE p.fc # 6
        BY <2>1, <3>2, LinkAssumption, RequestAssumption DEF AllRequests
      <3>. QED  BY <3>1, <3>2
    <2>3. WriteTable[p.fc] \in Tables
      BY <2>1 DEF WriteTable, Tables
    <2> DEFINE t == WriteTable[p.fc]
               row == [a \in Addresses |-> IF a \in Span(p) THEN p.data[a - p.address + 1]
                                           ELSE s[t][a]]
    <2>4. row \in [Addresses -> 0 .. WordModulus - 1]
      <3> SUFFICES ASSUME NEW a \in Addresses PROVE row[a] \in 0 .. WordModulus - 1
        OBVIOUS
      <3>1. s[t][a] \in 0 .. WordModulus - 1
        BY <2>3 DEF Stores
      <3>2. a \in Span(p) => a - p.address + 1 \in 1 .. p.count
        BY <2>1 DEF Span, Addresses
      <3>. QED  BY <2>2, <3>1, <3>2
    <2>5. Written(s, p) = [s EXCEPT ![t] = row]
      BY <1>1 DEF Written
    <2>. QED  BY <2>3, <2>4, <2>5 DEF Stores
  <1>2. CASE ~(IsWrite(p) /\ Refusal(p) = "none")
    BY <1>2 DEF Written
  <1>. QED  BY <1>1, <1>2

-----------------------------------------------------------------------------
(* The types, one master at a time: its client, and its connections, whose *)
(* requests belong to the calls made so far.                               *)
ClientTyped(m) ==
  /\ sock[m] \in Sockets(m) \cup {None}
  /\ phase[m] \in {"idle", "wait", "reconnect", "retry"}
  /\ phase[m] \in {"wait", "retry"} <=> sock[m] # None /\ phase[m] # "idle"
  /\ again[m] \in BOOLEAN /\ asked[m] \in Requests[m]
  /\ calls[m] \in 0 .. MaxCalls[m]
  /\ phase[m] # "idle" => calls[m] > 0
  /\ done[m].how \in {"none", "ok", "exception", "raised"}
  /\ executed[m] \in [Calls(m) -> Nat]
  /\ tried[m] \in Nat /\ soured[m] \in BOOLEAN /\ calm[m] \in BOOLEAN

OfCalls(m, x, n) ==
  \A i \in DOMAIN x.requests :
    x.requests[i].of \in 1 .. n /\ x.requests[i].pdu \in Requests[m]

WireTyped(m) == /\ wire[m] \in [Sockets(m) -> Connections]
                /\ \A k \in Sockets(m) : OfCalls(m, wire[m][k], calls[m])

MasterTyped(m) == ClientTyped(m) /\ WireTyped(m)

Domains ==
  /\ DOMAIN sock = Masters /\ DOMAIN phase = Masters /\ DOMAIN again = Masters
  /\ DOMAIN asked = Masters /\ DOMAIN calls = Masters /\ DOMAIN wire = Masters
  /\ DOMAIN done = Masters /\ DOMAIN executed = Masters /\ DOMAIN tried = Masters
  /\ DOMAIN soured = Masters /\ DOMAIN calm = Masters /\ DOMAIN wrote = Masters

Typed == store \in Stores /\ Domains /\ \A m \in Masters : MasterTyped(m)

-----------------------------------------------------------------------------
(* What each action does to the master it is about, with the connection it *)
(* changes written out; to the other masters it does nothing.              *)
Same(m) ==
  /\ sock'[m] = sock[m] /\ phase'[m] = phase[m] /\ again'[m] = again[m]
  /\ asked'[m] = asked[m] /\ calls'[m] = calls[m] /\ done'[m] = done[m]
  /\ wire'[m] = wire[m] /\ executed'[m] = executed[m]
  /\ tried'[m] = tried[m] /\ soured'[m] = soured[m] /\ calm'[m] = calm[m]

SetLine(m, k, x) == x \in Connections /\ wire'[m] = [wire[m] EXCEPT ![k] = x]

CallsWithoutSocket(m) ==
  /\ phase[m] = "idle" /\ calls[m] < MaxCalls[m] /\ calls'[m] = calls[m] + 1
  /\ sock[m] = None /\ done'[m] = Raised /\ tried'[m] = 0
  /\ sock'[m] = sock[m] /\ phase'[m] = phase[m] /\ again'[m] = again[m]
  /\ asked'[m] = asked[m] /\ wire'[m] = wire[m] /\ executed'[m] = executed[m]
  /\ soured'[m] = soured[m] /\ calm'[m] = calm[m]

CallsOnSocket(m, p) ==
  /\ phase[m] = "idle" /\ calls[m] < MaxCalls[m] /\ calls'[m] = calls[m] + 1
  /\ sock[m] # None /\ phase'[m] = "wait"
  /\ again'[m] /\ again'[m] \in BOOLEAN
  /\ asked'[m] = p /\ tried'[m] = 1
  /\ SetLine(m, sock[m], Sent(Line(m), calls[m] + 1, p))
  /\ sock'[m] = sock[m] /\ done'[m] = done[m] /\ executed'[m] = executed[m]
  /\ soured'[m] = soured[m] /\ calm'[m] = calm[m]

Receives(m) ==
  /\ phase[m] = "wait" /\ Line(m).replies # <<>> /\ phase'[m] = "idle"
  /\ done'[m].how \in {"ok", "exception"} /\ done'[m].of = Head(Line(m).replies).of
  /\ SetLine(m, sock[m], [Line(m) EXCEPT !.replies = Tail(@)])
  /\ sock'[m] = sock[m] /\ again'[m] = again[m] /\ asked'[m] = asked[m]
  /\ calls'[m] = calls[m] /\ executed'[m] = executed[m] /\ tried'[m] = tried[m]
  /\ soured'[m] = soured[m] /\ calm'[m] = calm[m]

Fails(m) ==
  /\ phase[m] = "wait" /\ again[m] /\ phase'[m] = "reconnect" /\ sock'[m] = None
  /\ SetLine(m, sock[m], [Line(m) EXCEPT !.state = "closed", !.replies = <<>>])
  /\ ~soured'[m] /\ soured'[m] \in BOOLEAN /\ ~calm'[m] /\ calm'[m] \in BOOLEAN
  /\ again'[m] = again[m] /\ asked'[m] = asked[m] /\ calls'[m] = calls[m]
  /\ done'[m] = done[m] /\ executed'[m] = executed[m] /\ tried'[m] = tried[m]

GivesUp(m) ==
  /\ phase[m] = "wait" /\ phase'[m] = "idle" /\ done'[m] = Raised
  /\ soured'[m] /\ soured'[m] \in BOOLEAN
  /\ sock'[m] = sock[m] /\ again'[m] = again[m] /\ asked'[m] = asked[m]
  /\ calls'[m] = calls[m] /\ wire'[m] = wire[m] /\ executed'[m] = executed[m]
  /\ tried'[m] = tried[m] /\ calm'[m] = calm[m]

Connects(m, k) ==
  /\ phase[m] = "reconnect" /\ phase'[m] = "retry"
  /\ k = NewSocket(m) /\ k \in Sockets(m) /\ sock'[m] = k
  /\ SetLine(m, k, [wire[m][k] EXCEPT !.state = "open"])
  /\ again'[m] = again[m] /\ asked'[m] = asked[m] /\ calls'[m] = calls[m]
  /\ done'[m] = done[m] /\ executed'[m] = executed[m] /\ tried'[m] = tried[m]
  /\ soured'[m] = soured[m] /\ calm'[m] = calm[m]

Retries(m) ==
  /\ phase[m] = "retry" /\ phase'[m] = "wait" /\ tried'[m] = tried[m] + 1
  /\ ~again'[m] /\ again'[m] \in BOOLEAN
  /\ SetLine(m, sock[m], Sent(Line(m), calls[m], asked[m]))
  /\ sock'[m] = sock[m] /\ asked'[m] = asked[m] /\ calls'[m] = calls[m]
  /\ done'[m] = done[m] /\ executed'[m] = executed[m]
  /\ soured'[m] = soured[m] /\ calm'[m] = calm[m]

CannotConnect(m) ==
  /\ phase[m] = "reconnect" /\ tried'[m] = tried[m] + 1
  /\ phase'[m] = "idle" /\ done'[m] = Raised
  /\ sock'[m] = sock[m] /\ again'[m] = again[m] /\ asked'[m] = asked[m]
  /\ calls'[m] = calls[m] /\ wire'[m] = wire[m] /\ executed'[m] = executed[m]
  /\ soured'[m] = soured[m] /\ calm'[m] = calm[m]

ClientSame(m) ==
  /\ sock'[m] = sock[m] /\ phase'[m] = phase[m] /\ again'[m] = again[m]
  /\ asked'[m] = asked[m] /\ calls'[m] = calls[m] /\ done'[m] = done[m]
  /\ tried'[m] = tried[m] /\ soured'[m] = soured[m]

Serves(m, k) ==
  LET r == Head(wire[m][k].requests)
  IN  /\ wire[m][k].requests # <<>>
      /\ executed'[m] = [executed[m] EXCEPT ![r.of] = @ + 1]
      /\ \E b \in Bodies :
           SetLine(m, k, [wire[m][k] EXCEPT
             !.requests = Tail(@),
             !.replies = IF wire[m][k].state = "open"
                         THEN Append(@, [of |-> r.of, body |-> b]) ELSE @])
      /\ ClientSame(m) /\ calm'[m] = calm[m]

Drops(m, k) ==
  /\ wire[m][k].state = "open"
  /\ SetLine(m, k, [wire[m][k] EXCEPT !.state = "dropped"])
  /\ executed'[m] = executed[m] /\ ClientSame(m) /\ calm'[m] = calm[m]

Restarts(m) ==
  /\ wire'[m] = [k \in Sockets(m) |->
       [wire[m][k] EXCEPT !.requests = <<>>,
                          !.state = IF @ = "open" THEN "dropped" ELSE @]]
  /\ executed'[m] = executed[m] /\ ClientSame(m)
  /\ ~calm'[m] /\ calm'[m] \in BOOLEAN

MasterSteps(m) ==
  \/ CallsWithoutSocket(m)
  \/ \E p \in Requests[m] : CallsOnSocket(m, p)
  \/ Receives(m) \/ Fails(m) \/ GivesUp(m) \/ CannotConnect(m) \/ Retries(m)
  \/ \E k \in Sockets(m) : Connects(m, k) \/ Serves(m, k) \/ Drops(m, k)
  \/ Restarts(m) \/ Same(m)

(* A request sent on a connection leaves a connection. *)
LEMMA SentEffect ==
  ASSUME NEW x \in Connections, NEW n \in Nat, NEW p \in AllRequests
  PROVE  /\ Sent(x, n, p) \in Connections
         /\ Sent(x, n, p).state = x.state /\ Sent(x, n, p).replies = x.replies
         /\ Sent(x, n, p).requests =
              IF x.state = "open" THEN Append(x.requests, [of |-> n, pdu |-> p])
              ELSE x.requests
  <1>1. Append(x.requests, [of |-> n, pdu |-> p]) \in Seq(Asks)
    BY AppendEffect DEF Connections, Asks
  <1>. QED  BY <1>1 DEF Sent, Connections

LEMMA StepEffect ==
  ASSUME Typed, [Next]_vars
  PROVE  store' \in Stores /\ Domains' /\ \A m \in Masters : MasterSteps(m)
  <1> USE DEF clients, history
  <1>1. Domains /\ store \in Stores /\ \A m \in Masters : MasterTyped(m)
    BY DEF Typed
  <1>2. CASE UNCHANGED vars
    BY <1>1, <1>2 DEF vars, Domains, MasterSteps, Same
  <1>3. ASSUME NEW m \in Masters, NEW p \in Requests[m], Call(m, p)
        PROVE  store' \in Stores /\ Domains' /\ \A n \in Masters : MasterSteps(n)
    <2>1. Domains' /\ store' = store /\ \A n \in Masters \ {m} : Same(n)
      BY <1>1, <1>3 DEF Call, Domains, Same
    <2>2. CASE sock[m] = None
      <3>1. CallsWithoutSocket(m)
        BY <1>1, <1>3, <2>2 DEF Call, Domains, CallsWithoutSocket
      <3>. QED  BY <1>1, <2>1, <3>1 DEF MasterSteps
    <2>3. CASE sock[m] # None
      <3> DEFINE k == sock[m]
                 x == Sent(Line(m), calls[m] + 1, p)
      <3>1. k \in Sockets(m) /\ wire[m] \in [Sockets(m) -> Connections]
            /\ calls[m] \in Nat /\ p \in AllRequests
        BY <1>1, <2>3, LinkAssumption DEF MasterTyped, ClientTyped, WireTyped, AllRequests
      <3>2. x \in Connections
        <4>1. Line(m) \in Connections /\ calls[m] + 1 \in Nat
          BY <3>1 DEF Line
        <4>. QED  BY <3>1, <4>1, SentEffect
      <3>3. wire' = [wire EXCEPT ![m] = [wire[m] EXCEPT ![k] = x]]
        BY <1>1, <1>3, <2>3 DEF Call, Line, Domains
      <3>4. SetLine(m, k, x)
        BY <1>1, <3>2, <3>3 DEF SetLine, Domains
      <3> HIDE DEF x
      <3>5. CallsOnSocket(m, p)
        BY <1>1, <1>3, <2>3, <3>4 DEF Call, Domains, CallsOnSocket, x
      <3>. QED  BY <1>1, <2>1, <3>5 DEF MasterSteps
    <2>. QED  BY <2>2, <2>3
  <1>4. ASSUME NEW m \in Masters, Receive(m)
        PROVE  store' \in Stores /\ Domains' /\ \A n \in Masters : MasterSteps(n)
    <2> DEFINE k == sock[m]
               x == [Line(m) EXCEPT !.replies = Tail(@)]
    <2>1. Domains' /\ store' = store /\ \A n \in Masters \ {m} : Same(n)
      BY <1>1, <1>4 DEF Receive, Domains, Same
    <2>2. k \in Sockets(m) /\ wire[m] \in [Sockets(m) -> Connections]
      BY <1>1, <1>4 DEF MasterTyped, ClientTyped, WireTyped, Receive
    <2>3. x \in Connections
      <3>1. Line(m) \in Connections /\ Line(m).replies # <<>>
        BY <1>4, <2>2 DEF Receive, Line
      <3>2. Tail(Line(m).replies) \in Seq(Replies)
        BY <3>1, TailEffect DEF Connections
      <3>. QED  BY <3>1, <3>2 DEF Connections
    <2>4. wire' = [wire EXCEPT ![m] = [wire[m] EXCEPT ![k] = x]]
      BY <1>1, <1>4 DEF Receive, Line, Domains
    <2>5. SetLine(m, k, x)
      BY <1>1, <2>3, <2>4 DEF SetLine, Domains
    <2>6. Receives(m)
      BY <1>1, <1>4, <2>5 DEF Receive, Domains, Receives
    <2>. QED  BY <1>1, <2>1, <2>6 DEF MasterSteps
  <1>5. ASSUME NEW m \in Masters, Fail(m)
        PROVE  store' \in Stores /\ Domains' /\ \A n \in Masters : MasterSteps(n)
    <2> DEFINE k == sock[m]
               x == [Line(m) EXCEPT !.state = "closed", !.replies = <<>>]
    <2>1. Domains' /\ store' = store /\ \A n \in Masters \ {m} : Same(n)
      BY <1>1, <1>5 DEF Fail, Domains, Same
    <2>2. k \in Sockets(m) /\ wire[m] \in [Sockets(m) -> Connections]
      BY <1>1, <1>5 DEF MasterTyped, ClientTyped, WireTyped, Fail
    <2>3. x \in Connections
      <3>1. <<>> \in Seq(Replies)
        BY EmptySeq
      <3>. QED  BY <2>2, <3>1 DEF Line, Connections
    <2>4. wire' = [wire EXCEPT ![m] = [wire[m] EXCEPT ![k] = x]]
      BY <1>1, <1>5, <2>2 DEF Fail, Closed, Line, Domains
    <2>5. SetLine(m, k, x)
      BY <1>1, <2>3, <2>4 DEF SetLine, Domains
    <2>6. Fails(m)
      BY <1>1, <1>5, <2>5 DEF Fail, MayRetry, Domains, Fails
    <2>. QED  BY <1>1, <2>1, <2>6 DEF MasterSteps
  <1>6. ASSUME NEW m \in Masters, GiveUp(m)
        PROVE  store' \in Stores /\ Domains' /\ \A n \in Masters : MasterSteps(n)
    <2>1. Domains' /\ store' = store /\ \A n \in Masters \ {m} : Same(n)
      BY <1>1, <1>6 DEF GiveUp, Domains, Same
    <2>2. GivesUp(m)
      BY <1>1, <1>6 DEF GiveUp, Domains, GivesUp
    <2>. QED  BY <1>1, <2>1, <2>2 DEF MasterSteps
  <1>7. ASSUME NEW m \in Masters, Connect(m)
        PROVE  store' \in Stores /\ Domains' /\ \A n \in Masters : MasterSteps(n)
    <2>1. Domains' /\ store' = store /\ \A n \in Masters \ {m} : Same(n)
      BY <1>1, <1>7 DEF Connect, Domains, Same
    <2>2. CASE UNCHANGED <<sock, wire>> /\ phase' = [phase EXCEPT ![m] = "idle"]
               /\ done' = [done EXCEPT ![m] = Raised]
               /\ tried' = [tried EXCEPT ![m] = @ + 1]
      <3>1. CannotConnect(m)
        BY <1>1, <1>7, <2>2 DEF Connect, Domains, CannotConnect
      <3>. QED  BY <1>1, <2>1, <3>1 DEF MasterSteps
    <2>3. ASSUME NEW k, k = NewSocket(m), k \in Sockets(m),
                 sock' = [sock EXCEPT ![m] = k],
                 wire' = [wire EXCEPT ![m][k].state = "open"],
                 phase' = [phase EXCEPT ![m] = "retry"], UNCHANGED <<done, tried>>
          PROVE  store' \in Stores /\ Domains' /\ \A n \in Masters : MasterSteps(n)
      <3> DEFINE x == [wire[m][k] EXCEPT !.state = "open"]
      <3>1. wire[m] \in [Sockets(m) -> Connections]
        BY <1>1 DEF MasterTyped, WireTyped
      <3>2. x \in Connections
        BY <2>3, <3>1 DEF Connections
      <3>3. wire' = [wire EXCEPT ![m] = [wire[m] EXCEPT ![k] = x]]
        BY <1>1, <2>3 DEF Domains
      <3>4. SetLine(m, k, x)
        BY <1>1, <3>2, <3>3 DEF SetLine, Domains
      <3> HIDE DEF x
      <3>5. Connects(m, k)
        BY <1>1, <1>7, <2>3, <3>4 DEF Connect, Domains, Connects, x
      <3>. QED  BY <1>1, <2>1, <2>3, <3>5 DEF MasterSteps
    <2>. QED  BY <1>7, <2>2, <2>3 DEF Connect
  <1>11. ASSUME NEW m \in Masters, Retry(m)
         PROVE  store' \in Stores /\ Domains' /\ \A n \in Masters : MasterSteps(n)
    <2> DEFINE k == sock[m]
               x == Sent(Line(m), calls[m], asked[m])
    <2>1. Domains' /\ store' = store /\ \A n \in Masters \ {m} : Same(n)
      BY <1>1, <1>11 DEF Retry, Domains, Same
    <2>2. /\ k \in Sockets(m) /\ wire[m] \in [Sockets(m) -> Connections]
          /\ calls[m] \in Nat /\ asked[m] \in AllRequests
      BY <1>1, <1>11, LinkAssumption
         DEF Retry, MasterTyped, ClientTyped, WireTyped, AllRequests
    <2>3. x \in Connections
      <3>1. Line(m) \in Connections
        BY <2>2 DEF Line
      <3>. QED  BY <2>2, <3>1, SentEffect
    <2>4. wire' = [wire EXCEPT ![m] = [wire[m] EXCEPT ![k] = x]]
      BY <1>1, <1>11 DEF Retry, Line, Domains
    <2>5. SetLine(m, k, x)
      BY <1>1, <2>3, <2>4 DEF SetLine, Domains
    <2> HIDE DEF x
    <2>6. Retries(m)
      BY <1>1, <1>11, <2>5 DEF Retry, Domains, Retries, x
    <2>. QED  BY <1>1, <2>1, <2>6 DEF MasterSteps
  <1>8. ASSUME NEW m \in Masters, NEW k \in Sockets(m), Serve(m, k)
        PROVE  store' \in Stores /\ Domains' /\ \A n \in Masters : MasterSteps(n)
    <2> DEFINE r == Head(wire[m][k].requests)
               b == Answer(store, r.pdu)
               x == [wire[m][k] EXCEPT
                      !.requests = Tail(@),
                      !.replies = IF wire[m][k].state = "open"
                                  THEN Append(@, [of |-> r.of, body |-> b]) ELSE @]
    <2>1. Domains' /\ \A n \in Masters \ {m} : Same(n)
      BY <1>1, <1>8 DEF Serve, Domains, Same
    <2>2. wire[m] \in [Sockets(m) -> Connections] /\ wire[m][k] \in Connections
      BY <1>1 DEF MasterTyped, WireTyped
    <2>3. r \in Asks /\ b \in Bodies
      <3>1. r \in Asks
        BY <1>8, <2>2, TailEffect DEF Serve, Connections
      <3>. QED  BY <1>1, <3>1 DEF Asks, Bodies
    <2>4. x \in Connections
      <3> HIDE DEF r, b
      <3>1. Tail(wire[m][k].requests) \in Seq(Asks)
        BY <1>8, <2>2, TailEffect DEF Serve, Connections
      <3>2. Append(wire[m][k].replies, [of |-> r.of, body |-> b]) \in Seq(Replies)
        BY <2>2, <2>3, AppendEffect DEF Connections, Asks, Replies
      <3>. QED  BY <2>2, <3>1, <3>2 DEF Connections
    <2>5. wire' = [wire EXCEPT ![m] = [wire[m] EXCEPT ![k] = x]]
      BY <1>1, <1>8, <2>2 DEF Serve, Domains
    <2>6. SetLine(m, k, x)
      BY <1>1, <2>4, <2>5 DEF SetLine, Domains
    <2>7. store' \in Stores
      <3>1. store' = Written(store, r.pdu) /\ r.pdu \in AllRequests
        BY <1>8, <2>3 DEF Serve, Effect, Asks
      <3> HIDE DEF r
      <3>. QED  BY <1>1, <3>1, WrittenIsStore
    <2>8. executed'[m] = [executed[m] EXCEPT ![r.of] = @ + 1]
      BY <1>1, <1>8 DEF Serve, Domains
    <2>9. ClientSame(m) /\ calm'[m] = calm[m] /\ wire[m][k].requests # <<>>
      BY <1>8 DEF Serve, ClientSame
    <2>10. Serves(m, k)
      BY <2>3, <2>6, <2>8, <2>9 DEF Serves
    <2>. QED  BY <2>1, <2>7, <2>10 DEF MasterSteps
  <1>9. ASSUME NEW m \in Masters, NEW k \in Sockets(m), Drop(m, k)
        PROVE  store' \in Stores /\ Domains' /\ \A n \in Masters : MasterSteps(n)
    <2> DEFINE x == [wire[m][k] EXCEPT !.state = "dropped"]
    <2>1. Domains' /\ store' = store /\ \A n \in Masters \ {m} : Same(n)
      BY <1>1, <1>9 DEF Drop, Domains, Same
    <2>2. wire[m] \in [Sockets(m) -> Connections]
      BY <1>1 DEF MasterTyped, WireTyped
    <2>3. x \in Connections
      BY <2>2 DEF Connections
    <2>4. wire' = [wire EXCEPT ![m] = [wire[m] EXCEPT ![k] = x]]
      BY <1>1, <1>9 DEF Drop, Domains
    <2>5. SetLine(m, k, x)
      BY <1>1, <2>3, <2>4 DEF SetLine, Domains
    <2>6. Drops(m, k)
      BY <1>9, <2>5 DEF Drop, Drops, ClientSame
    <2>. QED  BY <1>1, <2>1, <2>6 DEF MasterSteps
  <1>10. ASSUME Restart
         PROVE  store' \in Stores /\ Domains' /\ \A n \in Masters : MasterSteps(n)
    <2>1. store' \in Stores
      BY <1>10, EmptyStoreIsStore DEF Restart
    <2>2. Domains' /\ \A n \in Masters : Restarts(n)
      BY <1>1, <1>10 DEF Restart, Domains, Restarts, ClientSame
    <2>. QED  BY <2>1, <2>2 DEF MasterSteps
  <1>. QED
    BY <1>2, <1>3, <1>4, <1>5, <1>6, <1>7, <1>8, <1>9, <1>10, <1>11
       DEF Next, ClientStep, Environment

LEMMA LineEffect ==
  ASSUME NEW m \in Masters, wire[m] \in [Sockets(m) -> Connections],
         NEW k \in Sockets(m), NEW x, SetLine(m, k, x)
  PROVE  /\ wire'[m] \in [Sockets(m) -> Connections]
         /\ wire'[m][k] = x
         /\ \A j \in Sockets(m) : j # k => wire'[m][j] = wire[m][j]
  BY DEF SetLine

-----------------------------------------------------------------------------
LEMMA SentRequests ==
  ASSUME NEW x \in Connections, NEW n \in Nat, NEW p \in AllRequests
  PROVE  LET y == Sent(x, n, p)
         IN  /\ y \in Connections /\ y.state = x.state /\ y.replies = x.replies
             /\ DOMAIN x.requests = 1 .. Len(x.requests) /\ Len(x.requests) \in Nat
             /\ DOMAIN y.requests = 1 .. Len(y.requests)
             /\ Len(y.requests) \in {Len(x.requests), Len(x.requests) + 1}
             /\ \A i \in 1 .. Len(x.requests) : y.requests[i] = x.requests[i]
             /\ Len(y.requests) = Len(x.requests) + 1 =>
                  /\ y.requests[Len(x.requests) + 1].of = n
                  /\ y.requests[Len(x.requests) + 1].pdu = p
  <1> DEFINE r == [of |-> n, pdu |-> p]
             y == Sent(x, n, p)
  <1>1. r \in Asks /\ r.of = n /\ r.pdu = p /\ x.requests \in Seq(Asks)
    BY DEF Asks, Connections
  <1>2. /\ y \in Connections /\ y.state = x.state /\ y.replies = x.replies
        /\ y.requests = IF x.state = "open" THEN Append(x.requests, r) ELSE x.requests
    BY SentEffect
  <1> HIDE DEF r, y
  <1>3. /\ Len(x.requests) \in Nat /\ DOMAIN x.requests = 1 .. Len(x.requests)
        /\ Len(Append(x.requests, r)) = Len(x.requests) + 1
        /\ DOMAIN Append(x.requests, r) = 1 .. Len(x.requests) + 1
        /\ \A i \in 1 .. Len(x.requests) : Append(x.requests, r)[i] = x.requests[i]
        /\ Append(x.requests, r)[Len(x.requests) + 1] = r
    BY <1>1, AppendEffect
  <1>. QED  BY <1>1, <1>2, <1>3 DEF y

LEMMA SentOfCalls ==
  ASSUME NEW m \in Masters, NEW x \in Connections, NEW n \in Nat \ {0},
         NEW p \in Requests[m], OfCalls(m, x, n)
  PROVE  OfCalls(m, Sent(x, n, p), n)
  <1> DEFINE y == Sent(x, n, p)
  <1>1. /\ DOMAIN x.requests = 1 .. Len(x.requests) /\ Len(x.requests) \in Nat
        /\ DOMAIN y.requests = 1 .. Len(y.requests)
        /\ Len(y.requests) \in {Len(x.requests), Len(x.requests) + 1}
        /\ \A i \in 1 .. Len(x.requests) : y.requests[i] = x.requests[i]
        /\ Len(y.requests) = Len(x.requests) + 1 =>
             /\ y.requests[Len(x.requests) + 1].of = n
             /\ y.requests[Len(x.requests) + 1].pdu = p
    BY SentRequests DEF AllRequests
  <1> HIDE DEF y
  <1>2. \A i \in DOMAIN y.requests :
          y.requests[i].of \in 1 .. n /\ y.requests[i].pdu \in Requests[m]
    BY <1>1 DEF OfCalls
  <1>. QED  BY <1>2 DEF OfCalls, y

LEMMA ClientTypedStep ==
  ASSUME NEW m \in Masters, MasterTyped(m), MasterSteps(m)
  PROVE  ClientTyped(m)'
  <1>1. ClientTyped(m) /\ MaxCalls[m] \in Nat /\ calls[m] \in Nat
    BY LinkAssumption DEF MasterTyped, ClientTyped
  <1>2. ASSUME NEW k \in Sockets(m), Serves(m, k) PROVE executed'[m] \in [Calls(m) -> Nat]
    <2>1. ASSUME NEW f \in [Calls(m) -> Nat], NEW n
          PROVE  [f EXCEPT ![n] = @ + 1] \in [Calls(m) -> Nat]
      <3>1. n \in Calls(m) => f[n] + 1 \in Nat
        OBVIOUS
      <3>. QED  BY <3>1
    <2> DEFINE n == Head(wire[m][k].requests).of
    <2>2. executed'[m] = [executed[m] EXCEPT ![n] = @ + 1]
      BY <1>2 DEF Serves
    <2>3. executed[m] \in [Calls(m) -> Nat]
      BY <1>1 DEF ClientTyped
    <2> HIDE DEF n
    <2>. QED  BY <2>1, <2>2, <2>3
  <1>3. CASE CallsWithoutSocket(m)
    BY <1>1, <1>3 DEF ClientTyped, CallsWithoutSocket, Raised, Nothing
  <1>4. ASSUME NEW p \in Requests[m], CallsOnSocket(m, p) PROVE ClientTyped(m)'
    BY <1>1, <1>4 DEF ClientTyped, CallsOnSocket
  <1>5. CASE Receives(m)
    BY <1>1, <1>5 DEF ClientTyped, Receives
  <1>6. CASE Fails(m)
    BY <1>1, <1>6 DEF ClientTyped, Fails
  <1>7. CASE GivesUp(m) \/ CannotConnect(m)
    BY <1>1, <1>7 DEF ClientTyped, GivesUp, CannotConnect, Raised, Nothing
  <1>8. ASSUME NEW k \in Sockets(m), Connects(m, k) PROVE ClientTyped(m)'
    BY <1>1, <1>8, LinkAssumption DEF ClientTyped, Connects, Sockets, None
  <1>9. ASSUME NEW k \in Sockets(m), Serves(m, k) \/ Drops(m, k) PROVE ClientTyped(m)'
    BY <1>1, <1>2, <1>9 DEF ClientTyped, Serves, Drops, ClientSame
  <1>10. CASE Restarts(m) \/ Same(m)
    BY <1>1, <1>10 DEF ClientTyped, Restarts, ClientSame, Same
  <1>11. CASE Retries(m)
    BY <1>1, <1>11 DEF ClientTyped, Retries
  <1>. QED
    BY <1>3, <1>4, <1>5, <1>6, <1>7, <1>8, <1>9, <1>10, <1>11 DEF MasterSteps

LEMMA WireTypedStep ==
  ASSUME NEW m \in Masters, MasterTyped(m), MasterSteps(m)
  PROVE  WireTyped(m)'
  <1>1. /\ wire[m] \in [Sockets(m) -> Connections] /\ calls[m] \in Nat
        /\ \A k \in Sockets(m) : OfCalls(m, wire[m][k], calls[m])
    BY LinkAssumption DEF MasterTyped, WireTyped, ClientTyped
  <1>2. ASSUME wire'[m] = wire[m], calls'[m] \in {calls[m], calls[m] + 1} PROVE WireTyped(m)'
    BY <1>1, <1>2 DEF WireTyped, OfCalls
  <1>3. ASSUME NEW k \in Sockets(m), NEW x, SetLine(m, k, x),
               calls'[m] \in {calls[m], calls[m] + 1}, OfCalls(m, x, calls'[m])
        PROVE  WireTyped(m)'
    <2>1. \A j \in Sockets(m) : OfCalls(m, wire[m][j], calls'[m])
      BY <1>1, <1>3 DEF OfCalls
    <2>. QED  BY <1>1, <1>3, <2>1, LineEffect DEF WireTyped, OfCalls
  <1>4. CASE \/ CallsWithoutSocket(m) \/ GivesUp(m) \/ CannotConnect(m) \/ Same(m)
    BY <1>2, <1>4 DEF CallsWithoutSocket, GivesUp, CannotConnect, Same
  <1>5. ASSUME NEW p \in Requests[m], CallsOnSocket(m, p) PROVE WireTyped(m)'
    <2> DEFINE n == calls[m] + 1
               x == Sent(Line(m), n, p)
    <2>1. sock[m] \in Sockets(m) /\ p \in AllRequests
      BY <1>5, LinkAssumption DEF MasterTyped, ClientTyped, CallsOnSocket, AllRequests
    <2>2. Line(m) \in Connections /\ n \in Nat \ {0} /\ OfCalls(m, Line(m), n)
      BY <1>1, <2>1 DEF Line, OfCalls
    <2>3. OfCalls(m, x, n)
      BY <2>1, <2>2, SentOfCalls
    <2>. QED  BY <1>3, <1>5, <2>1, <2>3 DEF CallsOnSocket
  <1>6. CASE Receives(m)
    <2>1. sock[m] \in Sockets(m)
      BY <1>6 DEF MasterTyped, ClientTyped, Receives
    <2>2. OfCalls(m, [Line(m) EXCEPT !.replies = Tail(@)], calls[m])
      BY <1>1, <2>1 DEF Line, Connections, OfCalls
    <2>. QED  BY <1>3, <1>6, <2>1, <2>2 DEF Receives
  <1>7. CASE Fails(m)
    <2>1. sock[m] \in Sockets(m)
      BY <1>7 DEF MasterTyped, ClientTyped, Fails
    <2>2. OfCalls(m, [Line(m) EXCEPT !.state = "closed", !.replies = <<>>], calls[m])
      BY <1>1, <2>1 DEF Line, Connections, OfCalls
    <2>. QED  BY <1>3, <1>7, <2>1, <2>2 DEF Fails
  <1>8. ASSUME NEW k \in Sockets(m), Connects(m, k) PROVE WireTyped(m)'
    <2>1. OfCalls(m, [wire[m][k] EXCEPT !.state = "open"], calls[m])
      BY <1>1 DEF Connections, OfCalls
    <2>. QED  BY <1>3, <1>8, <2>1 DEF Connects
  <1>12. CASE Retries(m)
    <2> DEFINE x == Sent(Line(m), calls[m], asked[m])
    <2>1. sock[m] \in Sockets(m) /\ asked[m] \in Requests[m] /\ calls[m] > 0
      BY <1>12 DEF MasterTyped, ClientTyped, Retries
    <2>2. Line(m) \in Connections /\ OfCalls(m, Line(m), calls[m])
      BY <1>1, <2>1 DEF Line
    <2>3. OfCalls(m, x, calls[m])
      BY <1>1, <2>1, <2>2, SentOfCalls
    <2>. QED  BY <1>3, <1>12, <2>1, <2>3 DEF Retries
  <1>9. ASSUME NEW k \in Sockets(m), Serves(m, k) PROVE WireTyped(m)'
    <2> DEFINE q == wire[m][k].requests
    <2>1. PICK x : SetLine(m, k, x) /\ x.requests = Tail(q)
      <3>1. wire[m][k] \in Connections
        BY <1>1
      <3>2. PICK b \in Bodies :
              SetLine(m, k, [wire[m][k] EXCEPT
                !.requests = Tail(@),
                !.replies = IF wire[m][k].state = "open"
                            THEN Append(@, [of |-> Head(q).of, body |-> b]) ELSE @])
        BY <1>9 DEF Serves
      <3> DEFINE x == [wire[m][k] EXCEPT
                !.requests = Tail(@),
                !.replies = IF wire[m][k].state = "open"
                            THEN Append(@, [of |-> Head(q).of, body |-> b]) ELSE @]
      <3>3. x.requests = Tail(q)
        BY <3>1 DEF Connections
      <3> HIDE DEF x
      <3>4. SetLine(m, k, x)
        BY <3>2 DEF x
      <3>. QED  BY <3>3, <3>4
    <2>2. q \in Seq(Asks) /\ q # <<>>
      BY <1>1, <1>9 DEF Serves, Connections
    <2>3. \A i \in DOMAIN q : q[i].of \in 1 .. calls[m] /\ q[i].pdu \in Requests[m]
      BY <1>1 DEF OfCalls
    <2> HIDE DEF q
    <2>4. OfCalls(m, x, calls[m])
      BY <2>1, <2>2, <2>3, TailEffect DEF OfCalls
    <2>. QED  BY <1>3, <1>9, <2>1, <2>4 DEF Serves, ClientSame
  <1>10. ASSUME NEW k \in Sockets(m), Drops(m, k) PROVE WireTyped(m)'
    <2>1. OfCalls(m, [wire[m][k] EXCEPT !.state = "dropped"], calls[m])
      BY <1>1 DEF Connections, OfCalls
    <2>. QED  BY <1>3, <1>10, <2>1 DEF Drops, ClientSame
  <1>11. CASE Restarts(m)
    <2>1. ASSUME NEW k \in Sockets(m)
          PROVE  wire'[m][k] \in Connections /\ wire'[m][k].requests = <<>>
      <3>1. <<>> \in Seq(Asks) /\ wire[m][k] \in Connections
        BY <1>1, EmptySeq
      <3>2. wire'[m][k] = [wire[m][k] EXCEPT !.requests = <<>>,
                             !.state = IF @ = "open" THEN "dropped" ELSE @]
        BY <1>11 DEF Restarts
      <3>. QED  BY <3>1, <3>2 DEF Connections
    <2>2. \A k \in Sockets(m) : OfCalls(m, wire'[m][k], calls'[m])
      BY <2>1 DEF OfCalls
    <2>. QED  BY <1>11, <2>1, <2>2 DEF Restarts, WireTyped, OfCalls
  <1>. QED
    BY <1>4, <1>5, <1>6, <1>7, <1>8, <1>9, <1>10, <1>11, <1>12 DEF MasterSteps

LEMMA InitTyped == Init => Typed
  <1> SUFFICES ASSUME Init PROVE Typed
    OBVIOUS
  <1>1. store \in Stores /\ Domains
    BY EmptyStoreIsStore DEF Init, Domains
  <1>2. ASSUME NEW m \in Masters PROVE MasterTyped(m)
    <2>1. MaxCalls[m] \in Nat /\ Requests[m] # {}
      BY LinkAssumption, RequestAssumption
    <2>2. asked[m] \in Requests[m]
      BY <2>1 DEF Init
    <2>3. ClientTyped(m)
      BY <2>1, <2>2 DEF Init, ClientTyped, Sockets, None, Nothing
    <2>4. Opened \in Connections /\ Unused \in Connections
          /\ Opened.requests = <<>> /\ Unused.requests = <<>>
      BY EmptySeq DEF Opened, Unused, Connections
    <2>5. \A n \in Nat : OfCalls(m, Opened, n) /\ OfCalls(m, Unused, n)
      BY <2>4 DEF OfCalls
    <2>6. wire[m] = [k \in Sockets(m) |-> IF k = 1 THEN Opened ELSE Unused] /\ calls[m] = 0
      BY DEF Init
    <2>7. WireTyped(m)
      BY <2>4, <2>5, <2>6 DEF WireTyped
    <2>. QED  BY <2>3, <2>7 DEF MasterTyped
  <1>. QED  BY <1>1, <1>2 DEF Typed

(* An invariant of every master on its own, kept by every step of its own. *)
LEMMA StepTyped ==
  ASSUME Typed, [Next]_vars
  PROVE  Typed'
  BY StepEffect, ClientTypedStep, WireTypedStep DEF Typed, MasterTyped

LEMMA TypedInvariance == Spec => []Typed
  <1>1. Typed /\ [Next]_vars => Typed'
    BY StepTyped
  <1>. QED  BY <1>1, InitTyped, PTL DEF Spec

(* The lock is held for an attempt and for nothing else. *)
LockInv == held = [m \in Masters |-> phase[m] = "wait"]

LEMMA LockStep ==
  ASSUME Typed, LockInv, [Next]_vars
  PROVE  LockInv'
  <1> USE DEF clients
  <1>1. DOMAIN phase = Masters
    BY DEF Typed, Domains
  <1>2. ASSUME NEW m \in Masters, NEW p \in Requests[m], Call(m, p) PROVE LockInv'
    <2>1. CASE sock[m] = None
      BY <1>2, <2>1 DEF Call, LockInv
    <2>2. CASE sock[m] # None
      <3>1. held' = [held EXCEPT ![m] = TRUE] /\ phase' = [phase EXCEPT ![m] = "wait"]
        BY <1>2, <2>2 DEF Call
      <3>. QED  BY <1>1, <3>1 DEF LockInv
    <2>. QED  BY <2>1, <2>2
  <1>3. ASSUME NEW m \in Masters, Receive(m) \/ Fail(m) \/ GiveUp(m) PROVE LockInv'
    <2>1. held' = [held EXCEPT ![m] = FALSE]
      BY <1>3 DEF Receive, Fail, GiveUp, Released
    <2>2. phase' \in {[phase EXCEPT ![m] = "idle"], [phase EXCEPT ![m] = "reconnect"]}
      BY <1>3 DEF Receive, Fail, GiveUp
    <2>. QED  BY <1>1, <2>1, <2>2 DEF LockInv
  <1>4. ASSUME NEW m \in Masters, Connect(m) PROVE LockInv'
    <2>1. held' = held /\ phase[m] = "reconnect"
      BY <1>4 DEF Connect
    <2>2. phase' \in {[phase EXCEPT ![m] = "idle"], [phase EXCEPT ![m] = "retry"]}
      BY <1>4 DEF Connect
    <2>. QED  BY <1>1, <2>1, <2>2 DEF LockInv
  <1>5. ASSUME NEW m \in Masters, Retry(m) PROVE LockInv'
    BY <1>1, <1>5 DEF Retry, LockInv
  <1>6. CASE Environment \/ UNCHANGED vars
    BY <1>6, ZenonT(60) DEF Environment, Restart, Serve, Drop, vars, LockInv
  <1>. QED  BY <1>2, <1>3, <1>4, <1>5, <1>6 DEF Next, ClientStep

LEMMA LockInvariance == Spec => []LockInv
  <1>1. Init => LockInv
    BY DEF Init, LockInv
  <1>2. Typed /\ LockInv /\ [Next]_vars => LockInv'
    BY LockStep
  <1>. QED  BY <1>1, <1>2, TypedInvariance, PTL DEF Spec

(* The store keeps its shape and its width whatever the masters write, and *)
(* a master waits only while it has a socket to wait on, and the lock.     *)
THEOREM TypeCorrect == Spec => []TypeOK
  <1>1. ASSUME Typed, LockInv, NEW m \in Masters PROVE held[m] = (phase[m] = "wait")
    BY <1>1 DEF LockInv
  <1>2. Typed /\ LockInv => TypeOK
    BY <1>1 DEF Typed, TypeOK, MasterTyped, ClientTyped, WireTyped, OfCalls, Stores
  <1>. QED  BY <1>2, TypedInvariance, LockInvariance, PTL

-----------------------------------------------------------------------------
(* What a step does to the requests still unread: it keeps them (or, in a  *)
(* restart, forgets them), sends one, or takes the first of a connection.  *)
Ask(m, k) == wire[m][k].requests

Keeps(m) == /\ executed'[m] = executed[m]
            /\ \A k \in Sockets(m) : Ask(m, k)' \in {Ask(m, k), <<>>}

Adds(m, k, n) ==
  /\ executed'[m] = executed[m]
  /\ \A j \in Sockets(m) : j # k => Ask(m, j)' = Ask(m, j)
  /\ Len(Ask(m, k)) \in Nat /\ DOMAIN Ask(m, k) = 1 .. Len(Ask(m, k))
  /\ DOMAIN Ask(m, k)' = 1 .. Len(Ask(m, k)')
  /\ Len(Ask(m, k)') \in {Len(Ask(m, k)), Len(Ask(m, k)) + 1}
  /\ \A i \in 1 .. Len(Ask(m, k)) : Ask(m, k)'[i] = Ask(m, k)[i]
  /\ Len(Ask(m, k)') = Len(Ask(m, k)) + 1 => Ask(m, k)'[Len(Ask(m, k)) + 1].of = n

Takes(m, k) ==
  /\ Len(Ask(m, k)) \in Nat \ {0} /\ DOMAIN Ask(m, k) = 1 .. Len(Ask(m, k))
  /\ executed'[m] = [executed[m] EXCEPT ![Ask(m, k)[1].of] = @ + 1]
  /\ \A j \in Sockets(m) : j # k => Ask(m, j)' = Ask(m, j)
  /\ DOMAIN Ask(m, k)' = 1 .. Len(Ask(m, k)) - 1
  /\ \A i \in 1 .. Len(Ask(m, k)) - 1 : Ask(m, k)'[i] = Ask(m, k)[i + 1]

(* The steps of a master that send and take nothing. *)
QuietStep(m) ==
  \/ CallsWithoutSocket(m) \/ Receives(m) \/ Fails(m) \/ GivesUp(m) \/ CannotConnect(m)
  \/ \E k \in Sockets(m) : Connects(m, k) \/ Drops(m, k)
  \/ Restarts(m) \/ Same(m)

LEMMA QuietKeeps ==
  ASSUME NEW m \in Masters, MasterTyped(m), QuietStep(m)
  PROVE  Keeps(m)
  <1>1. wire[m] \in [Sockets(m) -> Connections]
    BY DEF MasterTyped, WireTyped
  <1>2. CASE \/ CallsWithoutSocket(m) \/ GivesUp(m) \/ CannotConnect(m) \/ Same(m)
    BY <1>2 DEF CallsWithoutSocket, GivesUp, CannotConnect, Same, Keeps, Ask
  <1>3. ASSUME NEW k \in Sockets(m), NEW x, SetLine(m, k, x), x.requests = Ask(m, k),
               executed'[m] = executed[m]
        PROVE  Keeps(m)
    BY <1>1, <1>3, LineEffect DEF Keeps, Ask
  <1>4. CASE Receives(m)
    <2>1. sock[m] \in Sockets(m)
      BY <1>4 DEF MasterTyped, ClientTyped, Receives
    <2>2. [Line(m) EXCEPT !.replies = Tail(@)].requests = Ask(m, sock[m])
      BY <1>1, <2>1 DEF Line, Connections, Ask
    <2>. QED  BY <1>3, <1>4, <2>1, <2>2 DEF Receives
  <1>5. CASE Fails(m)
    <2>1. sock[m] \in Sockets(m)
      BY <1>5 DEF MasterTyped, ClientTyped, Fails
    <2>2. [Line(m) EXCEPT !.state = "closed", !.replies = <<>>].requests = Ask(m, sock[m])
      BY <1>1, <2>1 DEF Line, Connections, Ask
    <2>. QED  BY <1>3, <1>5, <2>1, <2>2 DEF Fails
  <1>6. ASSUME NEW k \in Sockets(m), Drops(m, k) PROVE Keeps(m)
    <2>1. [wire[m][k] EXCEPT !.state = "dropped"].requests = Ask(m, k)
      BY <1>1 DEF Connections, Ask
    <2>. QED  BY <1>3, <1>6, <2>1 DEF Drops
  <1>7. CASE Restarts(m)
    <2>1. ASSUME NEW k \in Sockets(m) PROVE Ask(m, k)' = <<>>
      <3>1. wire'[m][k] = [wire[m][k] EXCEPT !.requests = <<>>,
                             !.state = IF @ = "open" THEN "dropped" ELSE @]
        BY <1>7 DEF Restarts
      <3>. QED  BY <1>1, <3>1 DEF Connections, Ask
    <2>. QED  BY <1>7, <2>1 DEF Restarts, Keeps
  <1>8. ASSUME NEW k \in Sockets(m), Connects(m, k) PROVE Keeps(m)
    <2>1. [wire[m][k] EXCEPT !.state = "open"].requests = Ask(m, k)
      BY <1>1 DEF Connections, Ask
    <2>. QED  BY <1>3, <1>8, <2>1 DEF Connects
  <1>. QED  BY <1>2, <1>4, <1>5, <1>6, <1>7, <1>8 DEF QuietStep

LEMMA CallAdds ==
  ASSUME NEW m \in Masters, MasterTyped(m), NEW p \in Requests[m], CallsOnSocket(m, p)
  PROVE  sock[m] \in Sockets(m) /\ Adds(m, sock[m], calls[m] + 1)
  <1> DEFINE x == Sent(Line(m), calls[m] + 1, p)
  <1>1. /\ wire[m] \in [Sockets(m) -> Connections] /\ calls[m] + 1 \in Nat
        /\ sock[m] \in Sockets(m) /\ p \in AllRequests
    BY LinkAssumption DEF MasterTyped, WireTyped, ClientTyped, CallsOnSocket, AllRequests
  <1>2. SetLine(m, sock[m], x) /\ executed'[m] = executed[m]
    BY DEF CallsOnSocket
  <1>3. Line(m) \in Connections /\ Line(m).requests = Ask(m, sock[m])
    BY <1>1 DEF Line, Ask
  <1>4. /\ DOMAIN Line(m).requests = 1 .. Len(Line(m).requests)
        /\ Len(Line(m).requests) \in Nat
        /\ DOMAIN x.requests = 1 .. Len(x.requests)
        /\ Len(x.requests) \in {Len(Line(m).requests), Len(Line(m).requests) + 1}
        /\ \A i \in 1 .. Len(Line(m).requests) : x.requests[i] = Line(m).requests[i]
        /\ Len(x.requests) = Len(Line(m).requests) + 1 =>
             x.requests[Len(Line(m).requests) + 1].of = calls[m] + 1
    <2>1. Line(m) \in Connections /\ calls[m] + 1 \in Nat /\ p \in AllRequests
      BY <1>1, <1>3
    <2>. QED  BY <2>1, SentRequests, ZenonT(60)
  <1>5. /\ wire'[m][sock[m]] = x /\ sock'[m] = sock[m]
        /\ \A j \in Sockets(m) : j # sock[m] => wire'[m][j] = wire[m][j]
    BY <1>1, <1>2, LineEffect DEF CallsOnSocket
  <1> HIDE DEF x
  <1>6. ASSUME NEW k \in Sockets(m), k = sock[m] PROVE Adds(m, k, calls[m] + 1)
    BY <1>2, <1>3, <1>4, <1>5, <1>6 DEF Adds, Ask
  <1>. QED  BY <1>1, <1>6

LEMMA ServeTakes ==
  ASSUME NEW m \in Masters, MasterTyped(m), NEW k \in Sockets(m), Serves(m, k)
  PROVE  Takes(m, k)
  <1>1. wire[m][k] \in Connections /\ wire[m] \in [Sockets(m) -> Connections]
    BY DEF MasterTyped, WireTyped
  <1>2. Ask(m, k) \in Seq(Asks) /\ Ask(m, k) # <<>>
    BY <1>1 DEF Ask, Connections, Serves
  <1>3. PICK b \in Bodies :
          SetLine(m, k, [wire[m][k] EXCEPT
            !.requests = Tail(@),
            !.replies = IF wire[m][k].state = "open"
                        THEN Append(@, [of |-> Head(Ask(m, k)).of, body |-> b]) ELSE @])
    BY DEF Serves, Ask
  <1> DEFINE x == [wire[m][k] EXCEPT
            !.requests = Tail(@),
            !.replies = IF wire[m][k].state = "open"
                        THEN Append(@, [of |-> Head(Ask(m, k)).of, body |-> b]) ELSE @]
  <1>4. x.requests = Tail(Ask(m, k))
    BY <1>1 DEF Connections, Ask
  <1> HIDE DEF x
  <1>5. /\ wire'[m][k].requests = Tail(Ask(m, k))
        /\ \A j \in Sockets(m) : j # k => wire'[m][j] = wire[m][j]
    <2>1. SetLine(m, k, x)
      BY <1>3 DEF x
    <2>. QED  BY <1>1, <1>4, <2>1, LineEffect
  <1>6. executed'[m] = [executed[m] EXCEPT ![Head(Ask(m, k)).of] = @ + 1]
    BY DEF Serves, Ask
  <1>. QED  BY <1>2, <1>5, <1>6, TailEffect DEF Takes, Ask

-----------------------------------------------------------------------------
(* The sockets of a master are opened one after the other: it holds the    *)
(* latest or none, the ones to come are blank, and only the one it holds   *)
(* can be open.  Before the retry the one it holds is blank, too.          *)
Latest(m, u) ==
  /\ u \in Sockets(m) /\ sock[m] \in {None, u}
  /\ \A k \in Sockets(m) :
       /\ wire[m][k].state = "unused" <=> k > u
       /\ k > u => wire[m][k].requests = <<>> /\ wire[m][k].replies = <<>>
       /\ wire[m][k].state = "open" => k = sock[m]
       /\ phase[m] = "retry" /\ k = u => wire[m][k].requests = <<>> /\ wire[m][k].replies = <<>>

SocketInv(m) == \E u \in Sockets(m) : Latest(m, u)

LEMMA NewSocketEffect ==
  ASSUME NEW m \in Masters, NEW u, Latest(m, u)
  PROVE  NewSocket(m) = u + 1
  <1>1. u \in 1 .. MaxCalls[m] + 1 /\ MaxCalls[m] \in Nat
    BY LinkAssumption DEF Latest, Sockets
  <1>2. {k \in Sockets(m) : wire[m][k].state # "unused"} = 1 .. u
    BY <1>1 DEF Latest, Sockets
  <1>3. Cardinality(1 .. u) = u
    BY <1>1, FS_Interval
  <1>. QED  BY <1>2, <1>3 DEF NewSocket

LEMMA SocketStep ==
  ASSUME NEW m \in Masters, MasterTyped(m), SocketInv(m), MasterSteps(m)
  PROVE  SocketInv(m)'
  <1>1. PICK u \in Sockets(m) : Latest(m, u)
    BY DEF SocketInv
  <1>2. /\ wire[m] \in [Sockets(m) -> Connections]
        /\ Sockets(m) \subseteq Nat \ {0}
        /\ phase[m] \in {"wait", "retry"} => sock[m] = u
        /\ phase[m] = "reconnect" => sock[m] = None
    BY <1>1, LinkAssumption DEF MasterTyped, ClientTyped, WireTyped, Sockets, Latest
  <1>3. ASSUME wire'[m] = wire[m], sock'[m] = sock[m], phase'[m] \in {phase[m], "idle"}
        PROVE  Latest(m, u)'
    BY <1>1, <1>3 DEF Latest
  <1>4. ASSUME NEW k \in Sockets(m), NEW x, SetLine(m, k, x), k <= u, sock'[m] = sock[m],
               x.state # "unused", x.state = "open" => wire[m][k].state = "open",
               phase'[m] = "retry" => /\ phase[m] = "retry"
                                      /\ k = u => x.requests = <<>> /\ x.replies = <<>>
        PROVE  Latest(m, u)'
    BY <1>1, <1>2, <1>4, LineEffect DEF Latest
  <1>5. CASE CallsWithoutSocket(m) \/ GivesUp(m) \/ CannotConnect(m) \/ Same(m)
    BY <1>3, <1>5 DEF CallsWithoutSocket, GivesUp, CannotConnect, Same, SocketInv
  <1>6. ASSUME NEW p \in Requests[m], CallsOnSocket(m, p) PROVE SocketInv(m)'
    <2>1. sock[m] = u /\ Line(m) \in Connections /\ Line(m).state # "unused"
      BY <1>1, <1>2, <1>6 DEF CallsOnSocket, Latest, Line
    <2>2. calls[m] + 1 \in Nat /\ p \in AllRequests
      BY LinkAssumption DEF MasterTyped, ClientTyped, AllRequests
    <2>3. Sent(Line(m), calls[m] + 1, p).state = Line(m).state
      BY <2>1, <2>2, SentEffect
    <2>. QED  BY <1>2, <1>4, <1>6, <2>1, <2>3 DEF CallsOnSocket, Line, SocketInv
  <1>7. CASE Receives(m)
    <2>1. sock[m] = u /\ Line(m) \in Connections /\ Line(m).state # "unused"
      BY <1>1, <1>2, <1>7 DEF Receives, Latest, Line
    <2> DEFINE x == [Line(m) EXCEPT !.replies = Tail(@)]
    <2>2. x.state = Line(m).state
      BY <2>1 DEF Connections
    <2>3. SetLine(m, u, x) /\ sock'[m] = sock[m] /\ phase'[m] = "idle"
      BY <1>7, <2>1 DEF Receives
    <2> HIDE DEF x
    <2>4. Latest(m, u)'
      BY <1>2, <1>4, <2>1, <2>2, <2>3 DEF Line
    <2>. QED  BY <2>4 DEF SocketInv
  <1>8. CASE Fails(m)
    <2> DEFINE x == [Line(m) EXCEPT !.state = "closed", !.replies = <<>>]
    <2>1. sock[m] = u /\ sock'[m] = None /\ phase'[m] = "reconnect" /\ SetLine(m, u, x)
      BY <1>2, <1>8 DEF Fails
    <2>2. x.state = "closed"
      BY <1>2, <2>1 DEF Connections, Line
    <2> HIDE DEF x
    <2>3. Latest(m, u)'
      BY <1>1, <1>2, <2>1, <2>2, LineEffect DEF Latest
    <2>. QED  BY <2>3 DEF SocketInv
  <1>9. ASSUME NEW k \in Sockets(m), Connects(m, k) PROVE SocketInv(m)'
    <2> DEFINE x == [wire[m][k] EXCEPT !.state = "open"]
    <2>1. k = u + 1 /\ sock[m] = None /\ sock'[m] = k /\ SetLine(m, k, x)
      BY <1>1, <1>2, <1>9, NewSocketEffect DEF Connects
    <2>2. x.state = "open" /\ x.requests = wire[m][k].requests
          /\ x.replies = wire[m][k].replies
      BY <1>2 DEF Connections
    <2> HIDE DEF x
    <2>3. wire'[m][k] = x /\ \A j \in Sockets(m) : j # k => wire'[m][j] = wire[m][j]
      BY <1>2, <2>1, LineEffect
    <2>4. u \in Nat /\ \A j \in Sockets(m) : j \in Nat /\ wire[m][j].state # "open"
      BY <1>1, <1>2, <2>1 DEF Latest, None
    <2>5. x.requests = <<>> /\ x.replies = <<>>
      BY <1>1, <2>1, <2>2, <2>4 DEF Latest
    <2>6. ASSUME NEW v, v = u + 1, v \in Sockets(m) PROVE Latest(m, v)'
      BY <1>1, <1>2, <2>1, <2>2, <2>3, <2>4, <2>5, <2>6 DEF Latest
    <2>. QED  BY <2>1, <2>6 DEF SocketInv
  <1>13. CASE Retries(m)
    <2>1. sock[m] = u /\ Line(m) \in Connections /\ Line(m).state # "unused"
      BY <1>1, <1>2, <1>13 DEF Retries, Latest, Line
    <2>2. calls[m] \in Nat /\ asked[m] \in AllRequests
      BY LinkAssumption DEF MasterTyped, ClientTyped, AllRequests
    <2>3. Sent(Line(m), calls[m], asked[m]).state = Line(m).state
      BY <2>1, <2>2, SentEffect
    <2>. QED  BY <1>2, <1>4, <1>13, <2>1, <2>3 DEF Retries, Line, SocketInv
  <1>10. ASSUME NEW k \in Sockets(m), Serves(m, k) PROVE SocketInv(m)'
    <2>1. k <= u /\ wire[m][k] \in Connections /\ wire[m][k].state # "unused"
      BY <1>1, <1>2, <1>10 DEF Serves, Latest
    <2>2. PICK b \in Bodies :
            SetLine(m, k, [wire[m][k] EXCEPT
              !.requests = Tail(@),
              !.replies = IF wire[m][k].state = "open"
                          THEN Append(@, [of |-> Head(Ask(m, k)).of, body |-> b]) ELSE @])
      BY <1>10 DEF Serves, Ask
    <2> DEFINE x == [wire[m][k] EXCEPT
              !.requests = Tail(@),
              !.replies = IF wire[m][k].state = "open"
                          THEN Append(@, [of |-> Head(Ask(m, k)).of, body |-> b]) ELSE @]
    <2>3. x.state = wire[m][k].state
      BY <2>1 DEF Connections
    <2> HIDE DEF x
    <2>4. SetLine(m, k, x) /\ sock'[m] = sock[m] /\ phase'[m] = phase[m]
      BY <1>10, <2>2 DEF x, Serves, ClientSame
    <2>5. phase[m] = "retry" => k # u
      BY <1>1, <1>10 DEF Serves, Latest
    <2>. QED  BY <1>4, <2>1, <2>3, <2>4, <2>5 DEF SocketInv
  <1>11. ASSUME NEW k \in Sockets(m), Drops(m, k) PROVE SocketInv(m)'
    <2> DEFINE x == [wire[m][k] EXCEPT !.state = "dropped"]
    <2>1. /\ k <= u /\ x.state = "dropped" /\ x.requests = wire[m][k].requests
          /\ x.replies = wire[m][k].replies
      BY <1>1, <1>2, <1>11 DEF Drops, Latest, Connections
    <2>2. SetLine(m, k, x) /\ sock'[m] = sock[m] /\ phase'[m] = phase[m]
      BY <1>11 DEF Drops, ClientSame
    <2> HIDE DEF x
    <2>3. phase[m] = "retry" /\ k = u => x.requests = <<>> /\ x.replies = <<>>
      BY <1>1, <2>1 DEF Latest
    <2>. QED  BY <1>4, <2>1, <2>2, <2>3 DEF SocketInv
  <1>12. CASE Restarts(m)
    <2>1. ASSUME NEW k \in Sockets(m)
          PROVE  /\ wire'[m][k].requests = <<>> /\ wire'[m][k].replies = wire[m][k].replies
                 /\ wire'[m][k].state = IF wire[m][k].state = "open" THEN "dropped"
                                        ELSE wire[m][k].state
      <3>1. wire'[m][k] = [wire[m][k] EXCEPT !.requests = <<>>,
                             !.state = IF @ = "open" THEN "dropped" ELSE @]
        BY <1>12 DEF Restarts
      <3>. QED  BY <1>2, <3>1 DEF Connections
    <2>2. Latest(m, u)'
      BY <1>1, <1>12, <2>1, ZenonT(60) DEF Latest, Restarts, ClientSame
    <2>. QED  BY <2>2 DEF SocketInv
  <1>. QED
    BY <1>5, <1>6, <1>7, <1>8, <1>9, <1>10, <1>11, <1>12, <1>13 DEF MasterSteps

LEMMA ConnectBlank ==
  ASSUME NEW m \in Masters, MasterTyped(m), SocketInv(m), NEW k \in Sockets(m),
         Connects(m, k)
  PROVE  wire'[m][k].requests = <<>> /\ wire'[m][k].replies = <<>>
  <1>1. PICK u \in Sockets(m) : Latest(m, u)
    BY DEF SocketInv
  <1>2. k = u + 1 /\ wire[m] \in [Sockets(m) -> Connections]
    BY <1>1, NewSocketEffect DEF Connects, MasterTyped, WireTyped
  <1>3. wire[m][k].requests = <<>> /\ wire[m][k].replies = <<>>
    BY <1>1, <1>2, LinkAssumption DEF Latest, Sockets
  <1>4. wire'[m][k] = [wire[m][k] EXCEPT !.state = "open"]
    BY <1>2, LineEffect DEF Connects
  <1>. QED  BY <1>2, <1>3, <1>4 DEF Connections

LEMMA RetryAdds ==
  ASSUME NEW m \in Masters, MasterTyped(m), SocketInv(m), Retries(m)
  PROVE  /\ sock[m] \in Sockets(m) /\ Adds(m, sock[m], calls[m])
         /\ Ask(m, sock[m]) = <<>> /\ Line(m).replies = <<>>
  <1> DEFINE x == Sent(Line(m), calls[m], asked[m])
  <1>1. PICK u \in Sockets(m) : Latest(m, u)
    BY DEF SocketInv
  <1>2. /\ wire[m] \in [Sockets(m) -> Connections] /\ calls[m] \in Nat
        /\ sock[m] \in Sockets(m) /\ asked[m] \in AllRequests
    BY LinkAssumption DEF MasterTyped, WireTyped, ClientTyped, Retries, AllRequests
  <1>3. SetLine(m, sock[m], x) /\ executed'[m] = executed[m]
    BY DEF Retries
  <1>4. Line(m) \in Connections /\ Line(m).requests = Ask(m, sock[m])
    BY <1>2 DEF Line, Ask
  <1>5. /\ DOMAIN Line(m).requests = 1 .. Len(Line(m).requests)
        /\ Len(Line(m).requests) \in Nat
        /\ DOMAIN x.requests = 1 .. Len(x.requests)
        /\ Len(x.requests) \in {Len(Line(m).requests), Len(Line(m).requests) + 1}
        /\ \A i \in 1 .. Len(Line(m).requests) : x.requests[i] = Line(m).requests[i]
        /\ Len(x.requests) = Len(Line(m).requests) + 1 =>
             x.requests[Len(Line(m).requests) + 1].of = calls[m]
    BY <1>2, <1>4, SentRequests, ZenonT(60)
  <1>6. /\ wire'[m][sock[m]] = x /\ sock'[m] = sock[m]
        /\ \A j \in Sockets(m) : j # sock[m] => wire'[m][j] = wire[m][j]
    BY <1>2, <1>3, LineEffect DEF Retries
  <1> HIDE DEF x
  <1>7. ASSUME NEW k \in Sockets(m), k = sock[m] PROVE Adds(m, k, calls[m])
    BY <1>3, <1>4, <1>5, <1>6, <1>7 DEF Adds, Ask
  <1>8. sock[m] = u
    BY <1>1, <1>2, LinkAssumption DEF Latest, Sockets, None
  <1>9. Ask(m, sock[m]) = <<>> /\ Line(m).replies = <<>>
    BY <1>1, <1>8 DEF Latest, Retries, Ask, Line
  <1>. QED  BY <1>2, <1>7, <1>9

(* Every step of a master sends nothing and takes nothing, sends a request *)
(* of the call just made or a second one of the call under way, or has one *)
(* taken from a connection.                                                *)
LEMMA RequestEffect ==
  ASSUME NEW m \in Masters, MasterTyped(m), SocketInv(m), MasterSteps(m)
  PROVE  \/ QuietStep(m) /\ Keeps(m)
         \/ /\ \E p \in Requests[m] : CallsOnSocket(m, p)
            /\ sock[m] \in Sockets(m) /\ Adds(m, sock[m], calls[m] + 1)
         \/ /\ Retries(m) /\ sock[m] \in Sockets(m)
            /\ Adds(m, sock[m], calls[m]) /\ Ask(m, sock[m]) = <<>>
         \/ \E k \in Sockets(m) : Serves(m, k) /\ Takes(m, k)
  <1>1. CASE QuietStep(m)
    BY <1>1, QuietKeeps
  <1>2. ASSUME NEW p \in Requests[m], CallsOnSocket(m, p)
        PROVE  sock[m] \in Sockets(m) /\ Adds(m, sock[m], calls[m] + 1)
    BY <1>2, CallAdds
  <1>3. CASE Retries(m)
    BY <1>3, RetryAdds
  <1>4. ASSUME NEW k \in Sockets(m), Serves(m, k) PROVE Takes(m, k)
    BY <1>4, ServeTakes
  <1>. QED  BY <1>1, <1>2, <1>3, <1>4 DEF MasterSteps, QuietStep

-----------------------------------------------------------------------------
(* The requests on a connection are of later and later calls. *)
Increasing(m) ==
  \A k \in Sockets(m) : \A i, j \in DOMAIN Ask(m, k) :
    i < j => Ask(m, k)[i].of < Ask(m, k)[j].of

LEMMA RequestsOfCalls ==
  ASSUME NEW m \in Masters, MasterTyped(m)
  PROVE  /\ calls[m] \in 0 .. MaxCalls[m] /\ MaxCalls[m] \in Nat
         /\ \A k \in Sockets(m) :
              /\ Len(Ask(m, k)) \in Nat /\ DOMAIN Ask(m, k) = 1 .. Len(Ask(m, k))
              /\ \A i \in DOMAIN Ask(m, k) : Ask(m, k)[i].of \in 1 .. calls[m]
  <1>1. calls[m] \in 0 .. MaxCalls[m] /\ MaxCalls[m] \in Nat
    BY LinkAssumption DEF MasterTyped, ClientTyped
  <1>2. ASSUME NEW k \in Sockets(m)
        PROVE  /\ Ask(m, k) \in Seq(Asks)
               /\ \A i \in DOMAIN Ask(m, k) : Ask(m, k)[i].of \in 1 .. calls[m]
    BY DEF MasterTyped, WireTyped, OfCalls, Connections, Ask
  <1>. QED  BY <1>1, <1>2, LenProperties

LEMMA AddsEffect ==
  ASSUME NEW m \in Masters, NEW k \in Sockets(m), NEW n \in Nat, Adds(m, k, n)
  PROVE  \E l \in Nat :
           /\ DOMAIN Ask(m, k) = 1 .. l
           /\ DOMAIN Ask(m, k)' = 1 .. l \/ DOMAIN Ask(m, k)' = 1 .. l + 1
           /\ \A x \in 1 .. l : Ask(m, k)'[x] = Ask(m, k)[x]
           /\ l + 1 \in DOMAIN Ask(m, k)' => Ask(m, k)'[l + 1].of = n
  <1> DEFINE l == Len(Ask(m, k))
             a == Len(Ask(m, k)')
  <1>1. /\ l \in Nat /\ DOMAIN Ask(m, k) = 1 .. l /\ DOMAIN Ask(m, k)' = 1 .. a
        /\ a = l \/ a = l + 1
        /\ \A x \in 1 .. l : Ask(m, k)'[x] = Ask(m, k)[x]
        /\ a = l + 1 => Ask(m, k)'[l + 1].of = n
    BY DEF Adds
  <1> HIDE DEF l, a
  <1>2. l + 1 \in 1 .. a => a = l + 1
    BY <1>1
  <1>. QED  BY <1>1, <1>2

LEMMA IncreasingStep ==
  ASSUME NEW m \in Masters, MasterTyped(m), SocketInv(m), Increasing(m), MasterSteps(m)
  PROVE  Increasing(m)'
  <1>1. CASE Keeps(m)
    <2>1. ASSUME NEW k \in Sockets(m), Ask(m, k)' = <<>> PROVE DOMAIN Ask(m, k)' = {}
      BY <2>1
    <2>. QED  BY <1>1, <2>1 DEF Keeps, Increasing, Ask
  <1>2. ASSUME NEW k \in Sockets(m), NEW n \in Nat, Adds(m, k, n),
               \A i \in DOMAIN Ask(m, k) : Ask(m, k)[i].of \in 1 .. n - 1
        PROVE  Increasing(m)'
    <2> SUFFICES ASSUME NEW h \in Sockets(m), NEW i \in DOMAIN Ask(m, h)',
                        NEW j \in DOMAIN Ask(m, h)', i < j
                 PROVE  Ask(m, h)'[i].of < Ask(m, h)'[j].of
      BY DEF Increasing, Ask
    <2>1. CASE h # k
      BY <1>2, <2>1 DEF Adds, Increasing
    <2>2. CASE h = k
      <3>1. PICK l \in Nat :
              /\ DOMAIN Ask(m, k) = 1 .. l
              /\ DOMAIN Ask(m, k)' = 1 .. l \/ DOMAIN Ask(m, k)' = 1 .. l + 1
              /\ \A x \in 1 .. l : Ask(m, k)'[x] = Ask(m, k)[x]
              /\ l + 1 \in DOMAIN Ask(m, k)' => Ask(m, k)'[l + 1].of = n
        BY <1>2, AddsEffect
      <3>2. i \in 1 .. l /\ j \in 1 .. l + 1 /\ Ask(m, k)[i].of < n
        BY <1>2, <2>2, <3>1
      <3>3. CASE j = l + 1
        BY <2>2, <3>1, <3>2, <3>3
      <3>4. CASE j \in 1 .. l
        BY <2>2, <3>1, <3>2, <3>4 DEF Increasing
      <3>. QED  BY <3>1, <3>2, <3>3, <3>4
    <2>. QED  BY <2>1, <2>2
  <1>3. ASSUME NEW k \in Sockets(m), Takes(m, k) PROVE Increasing(m)'
    <2> SUFFICES ASSUME NEW h \in Sockets(m), NEW i \in DOMAIN Ask(m, h)',
                        NEW j \in DOMAIN Ask(m, h)', i < j
                 PROVE  Ask(m, h)'[i].of < Ask(m, h)'[j].of
      BY DEF Increasing, Ask
    <2>1. CASE h # k
      BY <1>3, <2>1 DEF Takes, Increasing
    <2>2. CASE h = k
      <3>1. /\ Len(Ask(m, k)) \in Nat /\ DOMAIN Ask(m, k) = 1 .. Len(Ask(m, k))
            /\ i \in 1 .. Len(Ask(m, k)) - 1 /\ j \in 1 .. Len(Ask(m, k)) - 1
            /\ Ask(m, k)'[i] = Ask(m, k)[i + 1] /\ Ask(m, k)'[j] = Ask(m, k)[j + 1]
        BY <1>3, <2>2 DEF Takes
      <3>2. i + 1 \in DOMAIN Ask(m, k) /\ j + 1 \in DOMAIN Ask(m, k) /\ i + 1 < j + 1
        BY <3>1
      <3>3. Ask(m, k)[i + 1].of < Ask(m, k)[j + 1].of
        BY <3>2 DEF Increasing
      <3>. QED  BY <2>2, <3>1, <3>3
    <2>. QED  BY <2>1, <2>2
  <1>4. CASE sock[m] \in Sockets(m) /\ Adds(m, sock[m], calls[m] + 1)
    <2>1. calls[m] + 1 \in Nat /\ (calls[m] + 1) - 1 = calls[m]
      BY RequestsOfCalls
    <2>. QED  BY <1>2, <1>4, <2>1, RequestsOfCalls
  <1>5. ASSUME NEW k \in Sockets(m), k = sock[m], Adds(m, k, calls[m]), Ask(m, k) = <<>>
        PROVE  Increasing(m)'
    <2>1. calls[m] \in Nat /\ DOMAIN Ask(m, k) = {}
      BY <1>5, RequestsOfCalls
    <2>. QED  BY <1>2, <1>5, <2>1
  <1>. QED  BY <1>1, <1>3, <1>4, <1>5, RequestEffect

-----------------------------------------------------------------------------
LEMMA CardGrow ==
  ASSUME NEW S, IsFiniteSet(S), NEW k, NEW T \in SUBSET (S \cup {k})
  PROVE  Cardinality(T) <= Cardinality(S) + 1
  <1>1. /\ IsFiniteSet(S \cup {k})
        /\ Cardinality(S \cup {k}) \in {Cardinality(S), Cardinality(S) + 1}
    BY FS_AddElement
  <1>2. Cardinality(T) <= Cardinality(S \cup {k}) /\ IsFiniteSet(T)
    BY <1>1, FS_Subset
  <1>3. Cardinality(S) \in Nat /\ Cardinality(T) \in Nat
    BY <1>2, FS_CardinalityType
  <1>. QED  BY <1>1, <1>2, <1>3

LEMMA CardShrink ==
  ASSUME NEW S, IsFiniteSet(S), NEW k \in S, NEW T \in SUBSET (S \ {k})
  PROVE  Cardinality(T) + 1 <= Cardinality(S)
  <1>1. IsFiniteSet(S \ {k}) /\ Cardinality(S \ {k}) = Cardinality(S) - 1
    BY FS_RemoveElement
  <1>2. Cardinality(T) <= Cardinality(S \ {k}) /\ IsFiniteSet(T)
    BY <1>1, FS_Subset
  <1>3. Cardinality(S) \in Nat /\ Cardinality(T) \in Nat
    BY <1>2, FS_CardinalityType
  <1>. QED  BY <1>1, <1>2, <1>3

(* The connections on which a request of a call is still unread, and how   *)
(* often a call was executed or yet may be.                                *)
Unread(m, n) == {k \in Sockets(m) : \E i \in DOMAIN Ask(m, k) : Ask(m, k)[i].of = n}
Copies(m, n) == executed[m][n] + Cardinality(Unread(m, n))

LEMMA UnreadFinite ==
  ASSUME NEW m \in Masters
  PROVE  /\ \A n : IsFiniteSet(Unread(m, n)) /\ Cardinality(Unread(m, n)) \in Nat
         /\ \A n : IsFiniteSet(Unread(m, n)') /\ Cardinality(Unread(m, n)') \in Nat
  <1>1. IsFiniteSet(Sockets(m))
    <2>1. MaxCalls[m] + 1 \in Nat
      BY LinkAssumption
    <2>. QED  BY <2>1, FS_Interval DEF Sockets
  <1>2. \A n : Unread(m, n) \in SUBSET Sockets(m) /\ Unread(m, n)' \in SUBSET Sockets(m)
    BY DEF Unread
  <1>. QED  BY <1>1, <1>2, FS_Subset, FS_CardinalityType

LEMMA CopiesKept ==
  ASSUME NEW m \in Masters, MasterTyped(m), Keeps(m)
  PROVE  \A n \in Calls(m) : /\ Copies(m, n) \in Nat /\ Copies(m, n)' \in Nat
                             /\ Copies(m, n)' <= Copies(m, n)
  <1> SUFFICES ASSUME NEW n \in Calls(m)
               PROVE  /\ Copies(m, n) \in Nat /\ Copies(m, n)' \in Nat
                      /\ Copies(m, n)' <= Copies(m, n)
    OBVIOUS
  <1>1. executed[m][n] \in Nat /\ executed'[m][n] = executed[m][n]
    BY DEF Keeps, MasterTyped, ClientTyped
  <1>2. Unread(m, n)' \in SUBSET Unread(m, n)
    <2>1. ASSUME NEW k \in Sockets(m), Ask(m, k)' = <<>> PROVE DOMAIN Ask(m, k)' = {}
      BY <2>1
    <2>. QED  BY <2>1 DEF Keeps, Unread, Ask
  <1>3. Cardinality(Unread(m, n)') <= Cardinality(Unread(m, n))
    BY <1>2, UnreadFinite, FS_Subset
  <1>4. Cardinality(Unread(m, n)) \in Nat /\ Cardinality(Unread(m, n)') \in Nat
    BY UnreadFinite
  <1>. QED  BY <1>1, <1>3, <1>4 DEF Copies

LEMMA CopiesAdded ==
  ASSUME NEW m \in Masters, MasterTyped(m), NEW k \in Sockets(m), NEW c \in Nat,
         Adds(m, k, c)
  PROVE  \A n \in Calls(m) : /\ Copies(m, n) \in Nat /\ Copies(m, n)' \in Nat
                             /\ n # c => Copies(m, n)' <= Copies(m, n)
                             /\ Copies(m, n)' <= Copies(m, n) + 1
  <1> SUFFICES ASSUME NEW n \in Calls(m)
               PROVE  /\ Copies(m, n) \in Nat /\ Copies(m, n)' \in Nat
                      /\ n # c => Copies(m, n)' <= Copies(m, n)
                      /\ Copies(m, n)' <= Copies(m, n) + 1
    OBVIOUS
  <1>1. executed[m][n] \in Nat /\ executed'[m][n] = executed[m][n]
    BY DEF Adds, MasterTyped, ClientTyped
  <1>2. Cardinality(Unread(m, n)) \in Nat /\ Cardinality(Unread(m, n)') \in Nat
    BY UnreadFinite
  <1>3. Unread(m, n)' \in SUBSET (Unread(m, n) \cup {k})
    BY DEF Adds, Unread, Ask
  <1>4. Cardinality(Unread(m, n)') <= Cardinality(Unread(m, n)) + 1
    BY <1>3, UnreadFinite, CardGrow
  <1>5. ASSUME n # c PROVE Cardinality(Unread(m, n)') <= Cardinality(Unread(m, n))
    <2>1. ASSUME NEW i \in DOMAIN Ask(m, k)', Ask(m, k)'[i].of = n
          PROVE  i \in DOMAIN Ask(m, k) /\ Ask(m, k)[i].of = n
      <3>1. PICK l \in Nat :
              /\ DOMAIN Ask(m, k) = 1 .. l
              /\ DOMAIN Ask(m, k)' = 1 .. l \/ DOMAIN Ask(m, k)' = 1 .. l + 1
              /\ \A x \in 1 .. l : Ask(m, k)'[x] = Ask(m, k)[x]
              /\ l + 1 \in DOMAIN Ask(m, k)' => Ask(m, k)'[l + 1].of = c
        BY AddsEffect
      <3>. QED  BY <1>5, <2>1, <3>1
    <2>2. Unread(m, n)' \in SUBSET Unread(m, n)
      BY <2>1 DEF Adds, Unread, Ask
    <2>. QED  BY <2>2, UnreadFinite, FS_Subset
  <1>. QED  BY <1>1, <1>2, <1>4, <1>5 DEF Copies

LEMMA CopiesTaken ==
  ASSUME NEW m \in Masters, MasterTyped(m), Increasing(m), NEW k \in Sockets(m),
         Takes(m, k)
  PROVE  \A n \in Calls(m) : /\ Copies(m, n) \in Nat /\ Copies(m, n)' \in Nat
                             /\ Copies(m, n)' <= Copies(m, n)
  <1> SUFFICES ASSUME NEW n \in Calls(m)
               PROVE  /\ Copies(m, n) \in Nat /\ Copies(m, n)' \in Nat
                      /\ Copies(m, n)' <= Copies(m, n)
    OBVIOUS
  <1> DEFINE c == Ask(m, k)[1].of
  <1>1. /\ Len(Ask(m, k)) \in Nat \ {0} /\ 1 \in DOMAIN Ask(m, k)
        /\ DOMAIN Ask(m, k) = 1 .. Len(Ask(m, k))
        /\ c \in Calls(m) /\ executed[m] \in [Calls(m) -> Nat]
    BY RequestsOfCalls DEF Takes, Calls, MasterTyped, ClientTyped
  <1>2. /\ executed'[m][n] = IF n = c THEN executed[m][n] + 1 ELSE executed[m][n]
        /\ executed[m][n] \in Nat
    BY <1>1 DEF Takes
  <1>3. Cardinality(Unread(m, n)) \in Nat /\ Cardinality(Unread(m, n)') \in Nat
    BY UnreadFinite
  <1>4. ASSUME NEW i \in DOMAIN Ask(m, k)'
        PROVE  /\ i + 1 \in DOMAIN Ask(m, k) /\ 1 < i + 1
               /\ Ask(m, k)'[i].of = Ask(m, k)[i + 1].of
    BY <1>1, <1>4 DEF Takes
  <1>5. Unread(m, n)' \in SUBSET Unread(m, n)
    <2>1. ASSUME NEW h \in Sockets(m), NEW i \in DOMAIN Ask(m, h)', Ask(m, h)'[i].of = n
          PROVE  h \in Unread(m, n)
      <3>1. CASE h = k
        <4>1. i + 1 \in DOMAIN Ask(m, h) /\ Ask(m, h)[i + 1].of = n
          BY <1>4, <2>1, <3>1
        <4>. QED  BY <4>1 DEF Unread
      <3>2. CASE h # k
        BY <2>1, <3>2 DEF Takes, Unread
      <3>. QED  BY <3>1, <3>2
    <2>. QED  BY <2>1 DEF Unread
  <1>6. ASSUME n = c
        PROVE  k \in Unread(m, n) /\ Unread(m, n)' \in SUBSET (Unread(m, n) \ {k})
    <2>1. ASSUME NEW i \in DOMAIN Ask(m, k)' PROVE Ask(m, k)'[i].of # c
      <3>1. c < Ask(m, k)[i + 1].of
        BY <1>1, <1>4 DEF Increasing
      <3>. QED  BY <1>1, <1>4, <3>1, RequestsOfCalls
    <2>2. k \notin Unread(m, n)'
      BY <1>6, <2>1 DEF Unread, Ask
    <2>3. k \in Unread(m, n)
      BY <1>1, <1>6 DEF Unread
    <2>. QED  BY <1>5, <2>2, <2>3
  <1>7. CASE n = c
    <2>1. Cardinality(Unread(m, n)') + 1 <= Cardinality(Unread(m, n))
      BY <1>6, <1>7, UnreadFinite, CardShrink
    <2>. QED  BY <1>2, <1>3, <1>7, <2>1 DEF Copies
  <1>8. CASE n # c
    <2>1. Cardinality(Unread(m, n)') <= Cardinality(Unread(m, n))
      BY <1>5, UnreadFinite, FS_Subset
    <2>. QED  BY <1>2, <1>3, <1>8, <2>1 DEF Copies
  <1>. QED  BY <1>7, <1>8

-----------------------------------------------------------------------------
(* How often a call may be sent: never before it is made, as often as it   *)
(* was tried while it is the latest, and in the end twice, or once while   *)
(* no connection was ever lost.                                            *)
Allowed(m) == IF calm[m] THEN 1 ELSE 2
Sends(m, n) == IF n > calls[m] THEN 0 ELSE IF n = calls[m] THEN tried[m] ELSE Allowed(m)

CountInv(m) ==
  /\ \A n \in Calls(m) : Copies(m, n) <= Sends(m, n)
  /\ tried[m] <= Allowed(m)
  /\ phase[m] = "wait" /\ again[m] => tried[m] = 1
  /\ phase[m] \in {"reconnect", "retry"} => tried[m] = 1 /\ ~calm[m]

LEMMA CountStep ==
  ASSUME NEW m \in Masters, MasterTyped(m), SocketInv(m), Increasing(m), CountInv(m),
         MasterSteps(m)
  PROVE  CountInv(m)'
  <1>1. /\ calls[m] \in Nat /\ tried[m] \in Nat /\ calm[m] \in BOOLEAN
        /\ Calls(m) \subseteq Nat
        /\ phase[m] \in {"wait", "retry"} => sock[m] # None
    BY LinkAssumption DEF MasterTyped, ClientTyped, Calls
  <1>2. CASE QuietStep(m) /\ Keeps(m)
    <2>1. \A n \in Calls(m) : /\ Copies(m, n) \in Nat /\ Copies(m, n)' \in Nat
                              /\ Copies(m, n)' <= Copies(m, n)
      BY <1>2, CopiesKept
    <2>2. CASE CallsWithoutSocket(m)
      BY <1>1, <2>1, <2>2 DEF CallsWithoutSocket, CountInv, Sends, Allowed
    <2>3. CASE Receives(m)
      BY <1>1, <2>1, <2>3 DEF Receives, CountInv, Sends, Allowed
    <2>4. CASE Fails(m)
      BY <1>1, <2>1, <2>4 DEF Fails, CountInv, Sends, Allowed
    <2>5. CASE GivesUp(m)
      BY <1>1, <2>1, <2>5 DEF GivesUp, CountInv, Sends, Allowed
    <2>6. CASE CannotConnect(m)
      BY <1>1, <2>1, <2>6 DEF CannotConnect, CountInv, Sends, Allowed
    <2>7. ASSUME NEW k \in Sockets(m), Drops(m, k) PROVE CountInv(m)'
      BY <1>1, <2>1, <2>7 DEF Drops, ClientSame, CountInv, Sends, Allowed
    <2>8. CASE Restarts(m)
      <3>1. /\ calls'[m] = calls[m] /\ tried'[m] = tried[m] /\ phase'[m] = phase[m]
            /\ again'[m] = again[m] /\ ~calm'[m]
        BY <2>8 DEF Restarts, ClientSame
      <3>. QED  BY <1>1, <2>1, <3>1 DEF CountInv, Sends, Allowed
    <2>9. CASE Same(m)
      BY <1>1, <2>1, <2>9 DEF Same, CountInv, Sends, Allowed
    <2>10. ASSUME NEW k \in Sockets(m), Connects(m, k) PROVE CountInv(m)'
      BY <1>1, <2>1, <2>10 DEF Connects, CountInv, Sends, Allowed
    <2>. QED
      BY <1>2, <2>2, <2>3, <2>4, <2>5, <2>6, <2>7, <2>8, <2>9, <2>10 DEF QuietStep
  <1>3. ASSUME NEW p \in Requests[m], CallsOnSocket(m, p), sock[m] \in Sockets(m),
               Adds(m, sock[m], calls[m] + 1)
        PROVE  CountInv(m)'
    <2>1. calls[m] + 1 \in Nat
      BY <1>1
    <2>2. \A n \in Calls(m) : /\ Copies(m, n) \in Nat /\ Copies(m, n)' \in Nat
                              /\ n # calls[m] + 1 => Copies(m, n)' <= Copies(m, n)
                              /\ Copies(m, n)' <= Copies(m, n) + 1
      BY <1>3, <2>1, CopiesAdded
    <2>. QED  BY <1>1, <1>3, <2>2 DEF CallsOnSocket, CountInv, Sends, Allowed
  <1>4. ASSUME Retries(m), sock[m] \in Sockets(m), Adds(m, sock[m], calls[m])
        PROVE  CountInv(m)'
    <2>1. \A n \in Calls(m) : /\ Copies(m, n) \in Nat /\ Copies(m, n)' \in Nat
                              /\ n # calls[m] => Copies(m, n)' <= Copies(m, n)
                              /\ Copies(m, n)' <= Copies(m, n) + 1
      BY <1>1, <1>4, CopiesAdded
    <2>. QED  BY <1>1, <1>4, <2>1 DEF Retries, CountInv, Sends, Allowed
  <1>5. ASSUME NEW k \in Sockets(m), Serves(m, k), Takes(m, k)
        PROVE  CountInv(m)'
    <2>1. \A n \in Calls(m) : /\ Copies(m, n) \in Nat /\ Copies(m, n)' \in Nat
                              /\ Copies(m, n)' <= Copies(m, n)
      BY <1>5, CopiesTaken
    <2>. QED  BY <1>1, <1>5, <2>1 DEF Serves, ClientSame, CountInv, Sends, Allowed
  <1>. QED  BY <1>2, <1>3, <1>4, <1>5, RequestEffect

-----------------------------------------------------------------------------
(* While a request waits on the socket a master holds, no later call was   *)
(* executed, and nothing unread elsewhere is of a later call.              *)
OrderInv(m) ==
  \A s \in Sockets(m) : s = sock[m] =>
    \A j \in DOMAIN Ask(m, s) :
      /\ \A later \in Calls(m) : later > Ask(m, s)[j].of => executed[m][later] = 0
      /\ \A k \in Sockets(m) : k # s =>
           \A i \in DOMAIN Ask(m, k) : Ask(m, k)[i].of <= Ask(m, s)[j].of

LEMMA NotYetExecuted ==
  ASSUME NEW m \in Masters, MasterTyped(m), CountInv(m), NEW n \in Calls(m), n > calls[m]
  PROVE  executed[m][n] = 0
  <1>1. Copies(m, n) <= 0
    BY DEF CountInv, Sends
  <1>2. executed[m][n] \in Nat /\ Cardinality(Unread(m, n)) \in Nat
    BY UnreadFinite DEF MasterTyped, ClientTyped
  <1>. QED  BY <1>1, <1>2 DEF Copies

LEMMA OrderStep ==
  ASSUME NEW m \in Masters, MasterTyped(m), SocketInv(m), Increasing(m), CountInv(m),
         OrderInv(m), MasterSteps(m)
  PROVE  OrderInv(m)'
  <1>1. None \notin Sockets(m) /\ calls[m] \in Nat
    BY LinkAssumption DEF Sockets, None, MasterTyped, ClientTyped
  <1>2. CASE QuietStep(m) /\ Keeps(m)
    <2>1. \/ sock'[m] \in {sock[m], None}
          \/ \E k \in Sockets(m) : sock'[m] = k /\ wire'[m][k].requests = <<>>
      <3>1. ASSUME NEW k \in Sockets(m), Connects(m, k)
            PROVE  sock'[m] = k /\ wire'[m][k].requests = <<>>
        BY <3>1, ConnectBlank DEF Connects
      <3>2. ASSUME NEW k \in Sockets(m), Drops(m, k) PROVE sock'[m] = sock[m]
        BY <3>2 DEF Drops, ClientSame
      <3>3. CASE Fails(m)
        BY <3>3 DEF Fails
      <3>4. CASE \/ CallsWithoutSocket(m) \/ Receives(m) \/ GivesUp(m) \/ CannotConnect(m)
                 \/ Restarts(m) \/ Same(m)
        BY <3>4 DEF CallsWithoutSocket, Receives, GivesUp, CannotConnect, Restarts, Same,
                    ClientSame
      <3>. QED  BY <1>2, <3>1, <3>2, <3>3, <3>4 DEF QuietStep
    <2>2. ASSUME NEW k \in Sockets(m), Ask(m, k)' = <<>> PROVE DOMAIN Ask(m, k)' = {}
      BY <2>2
    <2>3. \A k \in Sockets(m) : Ask(m, k)' = Ask(m, k) \/ DOMAIN Ask(m, k)' = {}
      BY <1>2, <2>2 DEF Keeps
    <2>4. CASE sock'[m] \in {sock[m], None}
      BY <1>1, <1>2, <2>3, <2>4 DEF Keeps, OrderInv, Ask
    <2>5. ASSUME NEW k \in Sockets(m), sock'[m] = k, wire'[m][k].requests = <<>>
          PROVE  OrderInv(m)'
      <3>1. DOMAIN wire'[m][k].requests = {}
        BY <2>5
      <3>. QED  BY <2>5, <3>1 DEF OrderInv, Ask
    <2>. QED  BY <2>1, <2>4, <2>5
  <1>3. ASSUME NEW s \in Sockets(m), NEW n \in Nat, sock'[m] = s, Adds(m, s, n),
               sock[m] = s, n \in {calls[m], calls[m] + 1}
        PROVE  OrderInv(m)'
    <2> SUFFICES ASSUME NEW j \in DOMAIN Ask(m, s)'
                 PROVE  /\ \A later \in Calls(m) :
                             later > Ask(m, s)'[j].of => executed'[m][later] = 0
                        /\ \A k \in Sockets(m) : k # s => \A i \in DOMAIN Ask(m, k)' :
                             Ask(m, k)'[i].of <= Ask(m, s)'[j].of
      BY <1>3 DEF OrderInv, Ask
    <2>1. PICK l \in Nat :
            /\ DOMAIN Ask(m, s) = 1 .. l
            /\ DOMAIN Ask(m, s)' = 1 .. l \/ DOMAIN Ask(m, s)' = 1 .. l + 1
            /\ \A x \in 1 .. l : Ask(m, s)'[x] = Ask(m, s)[x]
            /\ l + 1 \in DOMAIN Ask(m, s)' => Ask(m, s)'[l + 1].of = n
      BY <1>3, AddsEffect
    <2>2. /\ executed'[m] = executed[m]
          /\ \A k \in Sockets(m) : k # s => Ask(m, k)' = Ask(m, k)
      BY <1>3 DEF Adds
    <2>3. CASE j \in 1 .. l
      BY <1>3, <2>1, <2>2, <2>3 DEF OrderInv
    <2>4. CASE j = l + 1
      <3>1. Ask(m, s)'[j].of = n /\ n >= calls[m]
        BY <1>1, <1>3, <2>1, <2>4
      <3>2. ASSUME NEW later \in Calls(m), later > n PROVE executed'[m][later] = 0
        <4>1. later > calls[m]
          BY <1>1, <1>3, <3>1, <3>2, LinkAssumption DEF Calls
        <4>. QED  BY <2>2, <4>1, NotYetExecuted
      <3>3. ASSUME NEW k \in Sockets(m), k # s, NEW i \in DOMAIN Ask(m, k)'
            PROVE  Ask(m, k)'[i].of <= n
        <4>1. i \in DOMAIN Ask(m, k) /\ Ask(m, k)'[i] = Ask(m, k)[i]
          BY <2>2, <3>3
        <4>2. Ask(m, k)[i].of \in 1 .. calls[m]
          BY <4>1, RequestsOfCalls
        <4>. QED  BY <1>1, <3>1, <4>1, <4>2
      <3>. QED  BY <3>1, <3>2, <3>3
    <2>. QED  BY <2>1, <2>3, <2>4
  <1>4. ASSUME NEW h \in Sockets(m), Serves(m, h), Takes(m, h) PROVE OrderInv(m)'
    <2> SUFFICES ASSUME NEW s \in Sockets(m), s = sock'[m], NEW j \in DOMAIN Ask(m, s)'
                 PROVE  /\ \A later \in Calls(m) :
                             later > Ask(m, s)'[j].of => executed'[m][later] = 0
                        /\ \A k \in Sockets(m) : k # s => \A i \in DOMAIN Ask(m, k)' :
                             Ask(m, k)'[i].of <= Ask(m, s)'[j].of
      BY DEF OrderInv, Ask
    <2> DEFINE c == Ask(m, h)[1].of
    <2>1. s = sock[m]
      BY <1>4 DEF Serves, ClientSame
    <2>2. /\ 1 \in DOMAIN Ask(m, h) /\ c \in Calls(m) /\ Calls(m) \subseteq Nat
          /\ \A later \in Calls(m) : later # c => executed'[m][later] = executed[m][later]
      BY <1>4, RequestsOfCalls DEF Takes, Calls, MasterTyped, ClientTyped
    <2>3. ASSUME NEW k \in Sockets(m), NEW i \in DOMAIN Ask(m, k)'
          PROVE  \E x \in DOMAIN Ask(m, k) : /\ Ask(m, k)'[i] = Ask(m, k)[x]
                                             /\ k = h => c < Ask(m, k)[x].of
      <3>1. CASE k # h
        BY <1>4, <2>3, <3>1 DEF Takes
      <3>2. CASE k = h
        <4>1. /\ i + 1 \in DOMAIN Ask(m, k) /\ Ask(m, k)'[i] = Ask(m, k)[i + 1]
              /\ 1 < i + 1
          BY <1>4, <2>3, <3>2 DEF Takes
        <4>2. c < Ask(m, k)[i + 1].of
          BY <2>2, <3>2, <4>1 DEF Increasing
        <4>. QED  BY <4>1, <4>2
      <3>. QED  BY <3>1, <3>2
    <2>4. PICK y \in DOMAIN Ask(m, s) : /\ Ask(m, s)'[j] = Ask(m, s)[y]
                                        /\ s = h => c < Ask(m, s)[y].of
      BY <2>3
    <2>5. c <= Ask(m, s)[y].of
      <3>1. CASE s = h
        BY <2>2, <2>4, <3>1, RequestsOfCalls
      <3>2. CASE s # h
        BY <2>1, <2>2, <2>4, <3>2 DEF OrderInv
      <3>. QED  BY <3>1, <3>2
    <2>6. ASSUME NEW later \in Calls(m), later > Ask(m, s)[y].of
          PROVE  executed'[m][later] = 0
      <3>1. later # c
        BY <2>2, <2>4, <2>5, <2>6, RequestsOfCalls
      <3>. QED  BY <2>1, <2>2, <2>4, <2>6, <3>1 DEF OrderInv
    <2>7. ASSUME NEW k \in Sockets(m), k # s, NEW i \in DOMAIN Ask(m, k)'
          PROVE  Ask(m, k)'[i].of <= Ask(m, s)[y].of
      <3>1. PICK x \in DOMAIN Ask(m, k) : Ask(m, k)'[i] = Ask(m, k)[x]
        BY <2>3
      <3>. QED  BY <2>1, <2>4, <2>7, <3>1 DEF OrderInv
    <2>. QED  BY <2>4, <2>6, <2>7
  <1>5. ASSUME NEW p \in Requests[m], CallsOnSocket(m, p), sock[m] \in Sockets(m),
               Adds(m, sock[m], calls[m] + 1)
        PROVE  OrderInv(m)'
    BY <1>1, <1>3, <1>5 DEF CallsOnSocket
  <1>6. ASSUME Retries(m), sock[m] \in Sockets(m), Adds(m, sock[m], calls[m])
        PROVE  OrderInv(m)'
    BY <1>1, <1>3, <1>6 DEF Retries
  <1>. QED  BY <1>2, <1>4, <1>5, <1>6, RequestEffect

-----------------------------------------------------------------------------
(* On the socket a master holds there is at most one of its requests or    *)
(* one reply, of the call under way, and nothing at all between two calls. *)
Blank(x) == x.requests = <<>> /\ x.replies = <<>>
OneRequest(x, n) == x.replies = <<>> /\ \E r \in Asks : r.of = n /\ x.requests = <<r>>
OneReply(x, n) == x.requests = <<>> /\ \E a \in Replies : a.of = n /\ x.replies = <<a>>

OneAtMost(x, busy, n) == \/ Blank(x)
                         \/ busy /\ (OneRequest(x, n) \/ OneReply(x, n))

AnswerInv(m) ==
  ~soured[m] =>
    /\ \A s \in Sockets(m) : s = sock[m] => OneAtMost(wire[m][s], ~Idle(m), calls[m])
    /\ Answered(m) => done[m].of = calls[m]

LEMMA SendOne ==
  ASSUME NEW x \in Connections, NEW n \in Nat, NEW p \in AllRequests, Blank(x)
  PROVE  OneAtMost(Sent(x, n, p), TRUE, n)
  <1> DEFINE r == [of |-> n, pdu |-> p]
  <1>1. /\ Sent(x, n, p).replies = x.replies
        /\ Sent(x, n, p).requests = IF x.state = "open" THEN Append(x.requests, r)
                                    ELSE x.requests
    BY SentEffect
  <1>2. r \in Asks /\ r.of = n
    BY DEF Asks
  <1> HIDE DEF r
  <1>3. Append(x.requests, r) = <<r>>
    BY DEF Blank
  <1>. QED  BY <1>1, <1>2, <1>3 DEF OneAtMost, Blank, OneRequest

LEMMA ReceiveOne ==
  ASSUME NEW x \in Connections, NEW n \in Nat, OneAtMost(x, TRUE, n), x.replies # <<>>
  PROVE  /\ Head(x.replies).of = n
         /\ OneAtMost([x EXCEPT !.replies = Tail(@)], FALSE, n)
  <1> DEFINE y == [x EXCEPT !.replies = Tail(@)]
  <1>1. y.requests = x.requests /\ y.replies = Tail(x.replies)
    BY DEF Connections
  <1> HIDE DEF y
  <1>2. x.requests = <<>>
    BY DEF OneAtMost, Blank, OneRequest, OneReply
  <1>3. PICK a \in Replies : a.of = n /\ x.replies = <<a>>
    BY DEF OneAtMost, Blank, OneRequest, OneReply
  <1>4. Head(x.replies) = a /\ Tail(x.replies) = <<>>
    BY <1>3
  <1>5. Blank(y)
    BY <1>1, <1>2, <1>4 DEF Blank
  <1>. QED  BY <1>3, <1>4, <1>5 DEF OneAtMost, y

LEMMA ServeOne ==
  ASSUME NEW x \in Connections, NEW y \in Connections, NEW busy, NEW n \in Nat,
         OneAtMost(x, busy, n), x.requests # <<>>, y.requests = Tail(x.requests),
         NEW a \in Replies, a.of = Head(x.requests).of,
         y.replies \in {x.replies, Append(x.replies, a)}
  PROVE  OneAtMost(y, busy, n)
  <1>1. x.replies = <<>> /\ busy
    BY DEF OneAtMost, Blank, OneRequest, OneReply
  <1>2. PICK r \in Asks : r.of = n /\ x.requests = <<r>>
    BY DEF OneAtMost, Blank, OneRequest, OneReply
  <1>3. Head(x.requests) = r /\ Tail(x.requests) = <<>> /\ Append(x.replies, a) = <<a>>
    BY <1>1, <1>2
  <1>4. y.requests = <<>> /\ a.of = n /\ (y.replies = <<>> \/ y.replies = <<a>>)
    BY <1>1, <1>2, <1>3
  <1>. QED  BY <1>1, <1>4 DEF OneAtMost, Blank, OneReply

LEMMA AnswerStep ==
  ASSUME NEW m \in Masters, MasterTyped(m), SocketInv(m), AnswerInv(m), MasterSteps(m)
  PROVE  AnswerInv(m)'
  <1>1. /\ wire[m] \in [Sockets(m) -> Connections] /\ None \notin Sockets(m)
        /\ calls[m] \in Nat /\ calls[m] + 1 \in Nat /\ soured[m] \in BOOLEAN
        /\ \A p \in Requests[m] : p \in AllRequests
        /\ asked[m] \in AllRequests
        /\ phase[m] \in {"wait", "retry"} => sock[m] \in Sockets(m)
        /\ sock[m] \in Sockets(m) \cup {None}
    BY LinkAssumption
       DEF MasterTyped, ClientTyped, WireTyped, Sockets, None, AllRequests
  <1>2. ASSUME soured'[m] = soured[m], sock'[m] = sock[m], calls'[m] = calls[m],
               phase'[m] = phase[m], done'[m] = done[m],
               \A s \in Sockets(m) : \A busy \in BOOLEAN :
                 s = sock[m] /\ OneAtMost(wire[m][s], busy, calls[m])
                   => OneAtMost(wire'[m][s], busy, calls[m])
        PROVE  AnswerInv(m)'
    BY <1>2 DEF AnswerInv, Answered, Idle
  <1>3. CASE CallsWithoutSocket(m)
    BY <1>1, <1>3 DEF CallsWithoutSocket, AnswerInv, Answered, Idle, Raised, Nothing
  <1>4. ASSUME NEW p \in Requests[m], CallsOnSocket(m, p) PROVE AnswerInv(m)'
    <2> SUFFICES ASSUME ~soured'[m], NEW s \in Sockets(m), s = sock'[m]
                 PROVE  OneAtMost(wire'[m][s], TRUE, calls[m] + 1)
      BY <1>4 DEF CallsOnSocket, AnswerInv, Answered, Idle
    <2>1. /\ ~soured[m] /\ s = sock[m] /\ phase[m] = "idle"
          /\ SetLine(m, s, Sent(wire[m][s], calls[m] + 1, p))
      BY <1>4 DEF CallsOnSocket, Line
    <2>2. OneAtMost(wire[m][s], FALSE, calls[m])
      BY <2>1 DEF AnswerInv, Idle
    <2>3. Blank(wire[m][s])
      BY <2>2 DEF OneAtMost
    <2>4. OneAtMost(Sent(wire[m][s], calls[m] + 1, p), TRUE, calls[m] + 1)
      BY <1>1, <2>3, SendOne
    <2>. QED  BY <1>1, <2>1, <2>4, LineEffect
  <1>5. CASE Receives(m)
    <2> SUFFICES ASSUME ~soured'[m]
                 PROVE  /\ \A s \in Sockets(m) : s = sock'[m] =>
                             OneAtMost(wire'[m][s], FALSE, calls'[m])
                        /\ done'[m].of = calls'[m]
      BY <1>5 DEF Receives, AnswerInv, Answered, Idle
    <2>1. PICK s \in Sockets(m) : s = sock[m]
      BY <1>1, <1>5 DEF Receives
    <2> DEFINE x == [wire[m][s] EXCEPT !.replies = Tail(@)]
    <2>2. /\ ~soured[m] /\ phase[m] = "wait" /\ SetLine(m, s, x)
          /\ sock'[m] = s /\ calls'[m] = calls[m]
          /\ wire[m][s].replies # <<>> /\ done'[m].of = Head(wire[m][s].replies).of
      BY <1>5, <2>1 DEF Receives, Line
    <2>3. OneAtMost(wire[m][s], TRUE, calls[m])
      BY <2>1, <2>2 DEF AnswerInv, Idle
    <2>4. Head(wire[m][s].replies).of = calls[m] /\ OneAtMost(x, FALSE, calls[m])
      BY <1>1, <2>2, <2>3, ReceiveOne
    <2> HIDE DEF x
    <2>5. wire'[m][s] = x
      BY <1>1, <2>2, LineEffect
    <2>. QED  BY <2>2, <2>4, <2>5
  <1>6. CASE Fails(m)
    BY <1>1, <1>6 DEF Fails, AnswerInv, Answered, Idle
  <1>7. CASE GivesUp(m)
    BY <1>7 DEF GivesUp, AnswerInv
  <1>8. CASE CannotConnect(m)
    <2>1. sock'[m] = None
      BY <1>8 DEF CannotConnect, MasterTyped, ClientTyped
    <2>. QED  BY <1>1, <1>8, <2>1 DEF CannotConnect, AnswerInv, Answered, Idle, Raised, Nothing
  <1>9. ASSUME NEW k \in Sockets(m), Connects(m, k) PROVE AnswerInv(m)'
    <2>1. OneAtMost(wire'[m][k], TRUE, calls'[m])
      BY <1>9, ConnectBlank DEF OneAtMost, Blank
    <2>. QED  BY <1>9, <2>1 DEF Connects, AnswerInv, Answered, Idle
  <1>14. CASE Retries(m)
    <2>1. PICK s \in Sockets(m) : s = sock[m]
      BY <1>1, <1>14 DEF Retries
    <2>2. wire[m][s] \in Connections /\ Blank(wire[m][s])
      BY <1>1, <1>14, <2>1, RetryAdds DEF Ask, Line, Blank
    <2>3. /\ sock'[m] = s /\ calls'[m] = calls[m] /\ phase'[m] = "wait"
          /\ SetLine(m, s, Sent(wire[m][s], calls[m], asked[m]))
      BY <1>14, <2>1 DEF Retries, Line
    <2>4. OneAtMost(Sent(wire[m][s], calls[m], asked[m]), TRUE, calls[m])
      BY <1>1, <2>2, SendOne
    <2>5. OneAtMost(wire'[m][s], TRUE, calls'[m])
      BY <1>1, <2>3, <2>4, LineEffect
    <2>. QED  BY <2>3, <2>5 DEF AnswerInv, Answered, Idle
  <1>10. ASSUME NEW k \in Sockets(m), Serves(m, k) PROVE AnswerInv(m)'
    <2>1. PICK b \in Bodies :
            SetLine(m, k, [wire[m][k] EXCEPT
              !.requests = Tail(@),
              !.replies = IF wire[m][k].state = "open"
                          THEN Append(@, [of |-> Head(Ask(m, k)).of, body |-> b]) ELSE @])
      BY <1>10 DEF Serves, Ask
    <2> DEFINE a == [of |-> Head(Ask(m, k)).of, body |-> b]
               y == [wire[m][k] EXCEPT
                      !.requests = Tail(@),
                      !.replies = IF wire[m][k].state = "open" THEN Append(@, a) ELSE @]
    <2>2. SetLine(m, k, y) /\ wire[m][k] \in Connections /\ Ask(m, k) # <<>>
      BY <1>1, <1>10, <2>1 DEF Serves, Ask
    <2>3. /\ y.requests = Tail(Ask(m, k))
          /\ y.replies \in {wire[m][k].replies, Append(wire[m][k].replies, a)}
      BY <2>2 DEF Connections, Ask
    <2>4. a \in Replies /\ a.of = Head(Ask(m, k)).of
      <3>1. Head(Ask(m, k)) \in Asks
        BY <2>2, TailEffect DEF Ask, Connections
      <3>. QED  BY <3>1 DEF Asks, Replies
    <2> HIDE DEF a, y
    <2>5. y \in Connections
      BY <2>2 DEF SetLine
    <2>6. ASSUME NEW busy \in BOOLEAN, OneAtMost(wire[m][k], busy, calls[m])
          PROVE  OneAtMost(y, busy, calls[m])
      BY <1>1, <2>2, <2>3, <2>4, <2>5, <2>6, ServeOne DEF Ask
    <2>7. /\ wire'[m][k] = y
          /\ \A j \in Sockets(m) : j # k => wire'[m][j] = wire[m][j]
      BY <1>1, <2>2, LineEffect
    <2>8. \A s \in Sockets(m) : \A busy \in BOOLEAN :
            s = sock[m] /\ OneAtMost(wire[m][s], busy, calls[m])
              => OneAtMost(wire'[m][s], busy, calls[m])
      BY <2>6, <2>7
    <2>. QED  BY <1>2, <1>10, <2>8 DEF Serves, ClientSame
  <1>11. ASSUME NEW k \in Sockets(m), Drops(m, k) PROVE AnswerInv(m)'
    <2> DEFINE y == [wire[m][k] EXCEPT !.state = "dropped"]
    <2>1. y.requests = wire[m][k].requests /\ y.replies = wire[m][k].replies
      BY <1>1 DEF Connections
    <2>2. SetLine(m, k, y)
      BY <1>11 DEF Drops
    <2> HIDE DEF y
    <2>3. /\ wire'[m][k] = y
          /\ \A j \in Sockets(m) : j # k => wire'[m][j] = wire[m][j]
      BY <1>1, <2>2, LineEffect
    <2>4. \A s \in Sockets(m) : \A busy \in BOOLEAN :
            s = sock[m] /\ OneAtMost(wire[m][s], busy, calls[m])
              => OneAtMost(wire'[m][s], busy, calls[m])
      BY <2>1, <2>3 DEF OneAtMost, Blank, OneRequest, OneReply
    <2>. QED  BY <1>2, <1>11, <2>4 DEF Drops, ClientSame
  <1>12. CASE Restarts(m)
    <2>1. ASSUME NEW s \in Sockets(m), NEW busy \in BOOLEAN,
                 OneAtMost(wire[m][s], busy, calls[m])
          PROVE  OneAtMost(wire'[m][s], busy, calls[m])
      <3>1. wire'[m][s] = [wire[m][s] EXCEPT !.requests = <<>>,
                             !.state = IF @ = "open" THEN "dropped" ELSE @]
        BY <1>12 DEF Restarts
      <3>2. wire'[m][s].requests = <<>> /\ wire'[m][s].replies = wire[m][s].replies
        BY <1>1, <3>1 DEF Connections
      <3>. QED  BY <2>1, <3>2 DEF OneAtMost, Blank, OneRequest, OneReply
    <2>. QED  BY <1>2, <1>12, <2>1 DEF Restarts, ClientSame
  <1>13. CASE Same(m)
    BY <1>2, <1>13 DEF Same
  <1>. QED
    BY <1>3, <1>4, <1>5, <1>6, <1>7, <1>8, <1>9, <1>10, <1>11, <1>12, <1>13, <1>14
       DEF MasterSteps

-----------------------------------------------------------------------------
(* The inductive invariant: the types, and what holds of every master. *)
MasterInv(m) == /\ SocketInv(m) /\ Increasing(m) /\ CountInv(m)
                /\ OrderInv(m) /\ AnswerInv(m)

LinkInv == Typed /\ \A m \in Masters : MasterInv(m)

LEMMA InitLinkInv == Init => LinkInv
  <1> SUFFICES ASSUME Init, NEW m \in Masters PROVE MasterInv(m)
    BY InitTyped DEF LinkInv
  <1>1. /\ sock[m] = 1 /\ phase[m] = "idle" /\ calls[m] = 0 /\ tried[m] = 0 /\ calm[m] = TRUE
        /\ done[m] = Nothing /\ executed[m] = [n \in Calls(m) |-> 0]
        /\ wire[m] = [k \in Sockets(m) |-> IF k = 1 THEN Opened ELSE Unused]
    BY DEF Init
  <1>2. MaxCalls[m] \in Nat /\ 1 \in Sockets(m) /\ Sockets(m) \subseteq Nat \ {0}
        /\ Calls(m) \subseteq Nat \ {0}
    BY LinkAssumption DEF Sockets, Calls
  <1>3. /\ wire[m][1].state = "open"
        /\ \A k \in Sockets(m) : /\ wire[m][k].requests = <<>> /\ wire[m][k].replies = <<>>
                                 /\ k # 1 => wire[m][k].state = "unused"
    BY <1>1, <1>2 DEF Opened, Unused
  <1>4. Len(<<>>) = 0 /\ DOMAIN <<>> = {}
    OBVIOUS
  <1>5. Latest(m, 1)
    BY <1>1, <1>2, <1>3 DEF Latest
  <1>6. SocketInv(m)
    BY <1>2, <1>5 DEF SocketInv
  <1>7. \A k \in Sockets(m) : DOMAIN Ask(m, k) = {}
    BY <1>3, <1>4 DEF Ask
  <1>8. Increasing(m) /\ OrderInv(m)
    BY <1>7 DEF Increasing, OrderInv
  <1>9. AnswerInv(m)
    BY <1>1, <1>3 DEF AnswerInv, OneAtMost, Blank, Answered, Idle, Nothing
  <1>10. CountInv(m)
    <2>1. ASSUME NEW n \in Calls(m) PROVE Copies(m, n) = 0
      <3>1. Unread(m, n) = {}
        BY <1>7 DEF Unread
      <3>. QED  BY <1>1, <3>1, FS_EmptySet DEF Copies
    <2>. QED  BY <1>1, <1>2, <2>1 DEF CountInv, Sends, Allowed
  <1>. QED  BY <1>6, <1>8, <1>9, <1>10 DEF MasterInv

LEMMA LinkInvariance == Spec => []LinkInv
  <1>1. ASSUME LinkInv, [Next]_vars PROVE LinkInv'
    <2>1. Typed /\ \A m \in Masters : MasterInv(m)
      BY <1>1 DEF LinkInv
    <2>2. Typed'
      BY <1>1, <2>1, StepTyped
    <2>3. ASSUME NEW m \in Masters PROVE MasterInv(m)'
      <3>1. MasterTyped(m) /\ MasterSteps(m)
        BY <1>1, <2>1, StepEffect DEF Typed
      <3>2. SocketInv(m) /\ Increasing(m) /\ CountInv(m) /\ OrderInv(m) /\ AnswerInv(m)
        BY <2>1 DEF MasterInv
      <3>3. SocketInv(m)'
        BY <3>1, <3>2, SocketStep
      <3>4. Increasing(m)'
        BY <3>1, <3>2, IncreasingStep
      <3>5. CountInv(m)'
        BY <3>1, <3>2, CountStep
      <3>6. OrderInv(m)'
        BY <3>1, <3>2, OrderStep
      <3>7. AnswerInv(m)'
        BY <3>1, <3>2, AnswerStep
      <3>. QED  BY <3>3, <3>4, <3>5, <3>6, <3>7 DEF MasterInv
    <2>. QED  BY <2>2, <2>3 DEF LinkInv
  <1>. QED  BY <1>1, InitLinkInv, PTL DEF Spec

(* A call that returns an answer returns its own, unless a call was given  *)
(* up on the socket it used: the client may ignore the transaction id      *)
(* because it never leaves a reply behind on a socket it goes on using.    *)
THEOREM AnswersAreOwn == Spec => []OwnAnswer
  <1>1. LinkInv => OwnAnswer
    BY DEF LinkInv, MasterInv, AnswerInv, OwnAnswer
  <1>. QED  BY <1>1, LinkInvariance, PTL

(* The server executes a call at most twice, and at most once as long as   *)
(* no connection was lost and the server not restarted.                    *)
THEOREM ExecutedTwiceAtMost == Spec => []TwiceAtMost
  <1>1. ASSUME LinkInv, NEW m \in Masters, NEW n \in Calls(m)
        PROVE  executed[m][n] <= IF calm[m] THEN 1 ELSE 2
    <2>1. MasterTyped(m) /\ CountInv(m)
      BY <1>1 DEF LinkInv, Typed, MasterInv
    <2>2. executed[m][n] \in Nat /\ Cardinality(Unread(m, n)) \in Nat
      BY <2>1, UnreadFinite DEF MasterTyped, ClientTyped
    <2>3. Copies(m, n) <= Sends(m, n) /\ tried[m] <= Allowed(m) /\ tried[m] \in Nat
      BY <2>1 DEF CountInv, MasterTyped, ClientTyped
    <2>4. Copies(m, n) <= Allowed(m)
      BY <2>2, <2>3 DEF Copies, Sends, Allowed
    <2>. QED  BY <2>2, <2>4 DEF Copies, Allowed
  <1>2. LinkInv => TwiceAtMost
    BY <1>1 DEF TwiceAtMost
  <1>. QED  BY <1>2, LinkInvariance, PTL

(* A request still unread on an open connection has been overtaken by no   *)
(* later call: only what a client left unread on a connection it closed or *)
(* lost can be executed after what it asked later.                         *)
THEOREM OpenConnectionsAreInOrder == Spec => []OvertakenOnlyWhenGone
  <1>1. ASSUME LinkInv, NEW m \in Masters, NEW k \in Sockets(m), wire[m][k].state = "open",
               NEW i \in DOMAIN wire[m][k].requests,
               NEW later \in Calls(m), later > wire[m][k].requests[i].of
        PROVE  executed[m][later] = 0
    <2>1. OrderInv(m) /\ k = sock[m]
      BY <1>1 DEF LinkInv, MasterInv, SocketInv, Latest
    <2>. QED  BY <1>1, <2>1 DEF OrderInv, Ask
  <1>2. LinkInv => OvertakenOnlyWhenGone
    BY <1>1 DEF OvertakenOnlyWhenGone
  <1>. QED  BY <1>2, LinkInvariance, PTL

-----------------------------------------------------------------------------
(* Without failures the link is memory: on the registers that a master has *)
(* for itself, the store is what the writes acknowledged to it made of     *)
(* them, or what the call under way will have made of them.                *)
Plain(m) == calm[m] /\ \A p \in Requests[m] : p.fc \in LocalCodes

Agree(m, s, w) ==
  \A t \in Tables : \A a \in Addresses : Private(m, t, a) => s[t][a] = w[t][a]

OwnRead(m, p) == IsRead(p) /\ \A a \in Span(p) : Private(m, ReadTable[p.fc], a)

After(m) == IF Refusal(asked[m]) = "none" /\ asked[m].fc \in {5, 6}
            THEN LocalWritten(wrote[m], asked[m]) ELSE wrote[m]

Right(m, b) ==
  /\ b.refused = Refusal(asked[m])
  /\ OwnRead(m, asked[m]) /\ b.refused = "none" => b.values = LocalRead(wrote[m], asked[m])

MemoryInv(m) ==
  Plain(m) =>
    /\ wrote[m] \in Stores
    /\ sock[m] = 1 /\ phase[m] \notin {"reconnect", "retry"} /\ ~soured[m]
    /\ phase[m] = "wait" => again[m]
    /\ \A k \in Sockets(m) : k # 1 => wire[m][k].requests = <<>>
    /\ Idle(m) =>
         /\ Agree(m, store, wrote[m])
         /\ done[m].how = "ok" /\ OwnRead(m, asked[m]) =>
              done[m].values = LocalRead(wrote[m], asked[m])
    /\ phase[m] = "wait" =>
         /\ wire[m][1].requests # <<>> =>
              Head(wire[m][1].requests).pdu = asked[m] /\ Agree(m, store, wrote[m])
         /\ wire[m][1].replies # <<>> =>
              Right(m, Head(wire[m][1].replies).body) /\ Agree(m, store, After(m))

(* The server and LocalStoreClient write the same word... *)
LEMMA OneWordWritten ==
  ASSUME NEW m \in Masters, NEW p \in Requests[m], p.fc \in {5, 6}, Refusal(p) = "none",
         NEW s \in Stores, NEW w \in Stores
  PROVE  /\ LocalWritten(w, p) \in Stores
         /\ \A t \in Tables : \A a \in Addresses :
              s[t][a] = w[t][a] => Written(s, p)[t][a] = LocalWritten(w, p)[t][a]
  <1> DEFINE u == WriteTable[p.fc]
             v == p.data[1]
  <1>1. /\ u \in Tables /\ IsWrite(p) /\ ~IsRead(p)
    BY DEF WriteTable, Tables, IsWrite, IsRead, ReadTable
  <1>2. /\ p.count = 1 /\ p.address \in Nat /\ v \in 0 .. WordModulus - 1
    <2>1. p.address \in Nat
      BY RequestAssumption
    <2>2. CASE p.fc = 5
      <3>1. p = WriteCoil(p.address, v) /\ \A i \in 1 .. p.count : p.data[i] \in 0 .. WordModulus - 1
        BY <2>2, RequestAssumption
      <3>2. p.count = 1
        BY <3>1 DEF WriteCoil
      <3>. QED  BY <2>1, <3>1, <3>2
    <2>3. CASE p.fc = 6
      <3>1. p.data[1] \in Nat /\ p = WriteRegister(p.address, p.data[1])
        BY <2>3, RequestAssumption
      <3>2. p.count = 1 /\ p.data = <<p.data[1] % WordModulus>>
        BY <3>1 DEF WriteRegister
      <3>3. p.data[1] % WordModulus \in 0 .. WordModulus - 1
        BY <3>1, StoreAssumption
      <3>. QED  BY <2>1, <3>2, <3>3
    <2>. QED  BY <2>2, <2>3
  <1>3. v % WordModulus = v
    BY <1>2, StoreAssumption
  <1>4. p.address \in Addresses /\ Span(p) = {p.address}
    <2>1. ~(p.address + p.count > Size)
      BY <1>1 DEF Refusal
    <2>. QED  BY <1>2, <2>1, StoreAssumption DEF Addresses, Span
  <1> DEFINE row == [a \in Addresses |-> IF a \in Span(p) THEN p.data[a - p.address + 1]
                                         ELSE s[u][a]]
  <1>5. Written(s, p) = [s EXCEPT ![u] = row]
    BY <1>1 DEF Written
  <1>6. LocalWritten(w, p) = [w EXCEPT ![u][p.address] = v]
    BY <1>3 DEF LocalWritten
  <1>7. \A a \in Addresses : row[a] = IF a = p.address THEN v ELSE s[u][a]
    <2>1. p.address - p.address + 1 = 1
      BY <1>2
    <2>. QED  BY <1>4, <2>1
  <1>8. LocalWritten(w, p) \in Stores
    BY <1>1, <1>2, <1>4, <1>6 DEF Stores
  <1> HIDE DEF row, u, v
  <1>9. ASSUME NEW t \in Tables, NEW a \in Addresses, s[t][a] = w[t][a]
        PROVE  Written(s, p)[t][a] = LocalWritten(w, p)[t][a]
    <2>1. Written(s, p)[t][a] = IF t = u THEN row[a] ELSE s[t][a]
      BY <1>5 DEF Stores
    <2>2. LocalWritten(w, p)[t][a] = IF t = u /\ a = p.address THEN v ELSE w[t][a]
      BY <1>4, <1>6 DEF Stores
    <2>. QED  BY <1>7, <1>9, <2>1, <2>2
  <1>. QED  BY <1>8, <1>9

LEMMA AfterWrite ==
  ASSUME NEW m \in Masters, asked[m] \in Requests[m], asked[m].fc \in LocalCodes,
         wrote[m] \in Stores, NEW s \in Stores, Agree(m, s, wrote[m])
  PROVE  After(m) \in Stores /\ Agree(m, Written(s, asked[m]), After(m))
  <1> DEFINE p == asked[m]
  <1>1. CASE Refusal(p) = "none" /\ p.fc \in {5, 6}
    BY <1>1, OneWordWritten DEF After, Agree
  <1>2. CASE ~(Refusal(p) = "none" /\ p.fc \in {5, 6})
    <2>1. IsWrite(p) => p.fc \in {5, 6}
      BY DEF IsWrite, WriteTable, LocalCodes
    <2>2. Written(s, p) = s /\ After(m) = wrote[m]
      BY <1>2, <2>1 DEF Written, After
    <2>. QED  BY <2>2
  <1>. QED  BY <1>1, <1>2

(* ...and read the same words... *)
LEMMA SameWordsRead ==
  ASSUME NEW m \in Masters, NEW p \in Requests[m], OwnRead(m, p), Refusal(p) = "none",
         NEW s \in Stores, NEW w \in Stores, Agree(m, s, w)
  PROVE  Answer(s, p).values = LocalRead(w, p)
  <1> DEFINE t == ReadTable[p.fc]
             n == p.count
             present == {a \in Span(p) : a < Size}
  <1>1. /\ IsRead(p) /\ p.address \in Nat /\ n \in Nat /\ t \in Tables
        /\ \A a \in Span(p) : Private(m, t, a)
    BY RequestAssumption DEF OwnRead, IsRead, ReadTable, Tables
  <1>2. p.address + n <= Size
    <2>1. ~(p.address + p.count > Size)
      BY DEF Refusal
    <2>. QED  BY <1>1, <2>1, StoreAssumption
  <1>3. present = Span(p) /\ Span(p) \subseteq Addresses
    BY <1>1, <1>2, StoreAssumption DEF Span, Addresses
  <1>4. Cardinality(present) = n
    <2>1. \A a, b \in Int : Cardinality(a .. b) = IF a > b THEN 0 ELSE b - a + 1
      BY FS_Interval
    <2> DEFINE last == p.address + n - 1
    <2>2. p.address \in Int /\ last \in Int
      BY <1>1
    <2>3. (IF p.address > last THEN 0 ELSE last - p.address + 1) = n
      BY <1>1
    <2> HIDE DEF last
    <2>4. Cardinality(p.address .. last) = n
      BY <2>1, <2>2, <2>3
    <2>. QED  BY <1>3, <2>4 DEF Span, last
  <1>5. Answer(s, p).values = [i \in 1 .. n |-> s[t][p.address + i - 1]]
    BY <1>1 DEF Answer
  <1>6. LocalRead(w, p) = [i \in 1 .. n |-> w[t][p.address + i - 1]]
    BY <1>4 DEF LocalRead
  <1>7. \A i \in 1 .. n : s[t][p.address + i - 1] = w[t][p.address + i - 1]
    <2>1. \A i \in 1 .. n : p.address + i - 1 \in Span(p)
      BY <1>1 DEF Span
    <2>. QED  BY <1>1, <1>3, <2>1 DEF Agree
  <1>. QED  BY <1>5, <1>6, <1>7

(* ...and the other masters leave what is a master's own alone. *)
LEMMA OthersSpare ==
  ASSUME NEW m \in Masters, NEW o \in Masters \ {m}, NEW q \in Requests[o],
         NEW s \in Stores, NEW w, Agree(m, s, w)
  PROVE  Agree(m, Written(s, q), w)
  <1> SUFFICES ASSUME NEW t \in Tables, NEW a \in Addresses, Private(m, t, a)
               PROVE  Written(s, q)[t][a] = s[t][a]
    BY DEF Agree
  <1>1. CASE IsWrite(q) /\ Refusal(q) = "none"
    <2> DEFINE u == WriteTable[q.fc]
               row == [b \in Addresses |-> IF b \in Span(q) THEN q.data[b - q.address + 1]
                                           ELSE s[u][b]]
    <2>1. Written(s, q) = [s EXCEPT ![u] = row]
      BY <1>1 DEF Written
    <2>2. u = t => a \notin Span(q)
      BY <1>1 DEF Private
    <2>3. u = t => row[a] = s[t][a]
      BY <2>2
    <2> HIDE DEF row
    <2>4. Written(s, q)[t] = IF u = t THEN row ELSE s[t]
      BY <2>1 DEF Stores
    <2>. QED  BY <2>3, <2>4
  <1>2. CASE ~(IsWrite(q) /\ Refusal(q) = "none")
    BY <1>2 DEF Written
  <1>. QED  BY <1>1, <1>2

(* A step that leaves a master alone, and of the image what is its own. *)
Spares(m) ==
  /\ Same(m) /\ wrote'[m] = wrote[m]
  /\ \A w : Agree(m, store, w) => Agree(m, store', w)

LEMMA MemorySpared ==
  ASSUME NEW m \in Masters, MemoryInv(m), Spares(m)
  PROVE  MemoryInv(m)'
  <1>1. /\ sock'[m] = sock[m] /\ phase'[m] = phase[m] /\ again'[m] = again[m]
        /\ asked'[m] = asked[m] /\ done'[m] = done[m] /\ wire'[m] = wire[m]
        /\ soured'[m] = soured[m] /\ calm'[m] = calm[m] /\ wrote'[m] = wrote[m]
    BY DEF Spares, Same
  <1>2. Plain(m)' <=> Plain(m)
    BY <1>1 DEF Plain
  <1>3. After(m)' = After(m) /\ \A b : Right(m, b)' <=> Right(m, b)
    BY <1>1 DEF After, Right
  <1>4. \A w : Agree(m, store, w) => Agree(m, store', w)
    BY DEF Spares
  <1>5. Idle(m)' <=> Idle(m)
    BY <1>1 DEF Idle
  <1> SUFFICES ASSUME Plain(m) PROVE MemoryInv(m)'
    BY <1>2 DEF MemoryInv
  <1>6. Idle(m) => Agree(m, store, wrote[m])'
    BY <1>1, <1>4 DEF MemoryInv
  <1>7. phase[m] = "wait" =>
          /\ wire[m][1].requests # <<>> => Agree(m, store, wrote[m])'
          /\ wire[m][1].replies # <<>> => Agree(m, store, After(m))'
    BY <1>1, <1>3, <1>4 DEF MemoryInv
  <1> HIDE DEF Agree
  <1>8. wire[m][1].replies # <<>> /\ phase[m] = "wait" =>
          Right(m, Head(wire[m][1].replies).body)'
    BY <1>1, <1>3 DEF MemoryInv, Right
  <1>. QED  BY <1>1, <1>2, <1>5, <1>6, <1>7, <1>8 DEF MemoryInv

LEMMA OtherSpares ==
  ASSUME Typed, NEW m \in Masters, NEW o \in Masters \ {m},
         \/ ClientStep(o) \/ \E p \in Requests[o] : Call(o, p)
         \/ \E k \in Sockets(o) : Serve(o, k) \/ Drop(o, k)
  PROVE  Spares(m)
  <1>1. Domains /\ store \in Stores /\ MasterTyped(o)
    BY DEF Typed
  <1>2. ASSUME store' = store PROVE \A w : Agree(m, store, w) => Agree(m, store', w)
    BY <1>2
  <1>3. CASE ClientStep(o)
    BY <1>1, <1>3 DEF ClientStep, Receive, Fail, GiveUp, Connect, Retry, Domains, Spares, Same
  <1>4. ASSUME NEW p \in Requests[o], Call(o, p) PROVE Spares(m)
    BY <1>1, <1>4 DEF Call, Domains, Spares, Same
  <1>5. ASSUME NEW k \in Sockets(o), Drop(o, k) PROVE Spares(m)
    BY <1>1, <1>5 DEF Drop, clients, history, Domains, Spares, Same
  <1>6. ASSUME NEW k \in Sockets(o), Serve(o, k) PROVE Spares(m)
    <2> DEFINE q == Head(wire[o][k].requests).pdu
    <2>1. Same(m) /\ wrote'[m] = wrote[m]
      BY <1>1, <1>6, ZenonT(60) DEF Serve, clients, Domains, Same
    <2>2. store' = Written(store, q)
      BY <1>6 DEF Serve, Effect
    <2>3. q \in Requests[o]
      <3>1. /\ wire[o][k].requests \in Seq(Asks) /\ wire[o][k].requests # <<>>
            /\ OfCalls(o, wire[o][k], calls[o])
        BY <1>1, <1>6 DEF MasterTyped, WireTyped, Connections, Serve
      <3>2. Head(wire[o][k].requests) = wire[o][k].requests[1]
            /\ 1 \in DOMAIN wire[o][k].requests
        BY <3>1, TailEffect
      <3>. QED  BY <3>1, <3>2 DEF OfCalls
    <2> HIDE DEF q
    <2>4. \A w : Agree(m, store, w) => Agree(m, store', w)
      BY <1>1, <2>2, <2>3, OthersSpare
    <2>. QED  BY <2>1, <2>4 DEF Spares
  <1>. QED  BY <1>3, <1>4, <1>5, <1>6

LEMMA CallKeepsMemory ==
  ASSUME Typed, NEW m \in Masters, AnswerInv(m), MemoryInv(m),
         NEW p \in Requests[m], Call(m, p)
  PROVE  MemoryInv(m)'
  <1> SUFFICES ASSUME Plain(m)' PROVE MemoryInv(m)'
    BY DEF MemoryInv
  <1>1. Domains /\ MasterTyped(m) /\ p \in AllRequests
    BY LinkAssumption DEF Typed, AllRequests
  <1>2. Plain(m) /\ UNCHANGED <<store, sock, soured, calm, wrote>> /\ phase[m] = "idle"
    BY DEF Call, Plain
  <1>3. sock[m] = 1 /\ 1 \in Sockets(m) /\ wire[m] \in [Sockets(m) -> Connections]
        /\ calls[m] \in Nat
    BY <1>1, <1>2, LinkAssumption
       DEF MemoryInv, Sockets, MasterTyped, WireTyped, ClientTyped
  <1> DEFINE x == wire[m][1]
             n == calls[m] + 1
             y == Sent(x, n, p)
  <1>4. x \in Connections /\ Blank(x)
    <2>1. OneAtMost(x, FALSE, calls[m])
      BY <1>2, <1>3 DEF AnswerInv, MemoryInv, Idle
    <2>. QED  BY <1>3, <2>1 DEF OneAtMost
  <1>5. phase'[m] = "wait" /\ again'[m] = TRUE /\ asked'[m] = p /\ calls'[m] = n
    BY <1>1, <1>3 DEF Call, Domains, None
  <1>6. wire' = [wire EXCEPT ![m] = [wire[m] EXCEPT ![1] = y]]
    BY <1>1, <1>3, <1>5 DEF Call, Domains, None
  <1>7. y.replies = <<>> /\ y.requests \in {<<>>, <<[of |-> n, pdu |-> p]>>}
    <2>1. n \in Nat
      BY <1>3
    <2>2. /\ y.replies = x.replies
          /\ y.requests = IF x.state = "open" THEN Append(x.requests, [of |-> n, pdu |-> p])
                          ELSE x.requests
      BY <1>1, <1>4, <2>1, SentEffect
    <2>. QED  BY <1>4, <2>2 DEF Blank
  <1> HIDE DEF y
  <1>8. wire'[m][1] = y /\ \A k \in Sockets(m) : k # 1 => wire'[m][k] = wire[m][k]
    BY <1>1, <1>3, <1>6 DEF Domains
  <1>9. y.requests # <<>> => Head(y.requests).pdu = p
    BY <1>7
  <1>10. Agree(m, store, wrote[m])'
    BY <1>2 DEF MemoryInv, Idle
  <1> HIDE DEF Agree
  <1>. QED  BY <1>2, <1>3, <1>5, <1>7, <1>8, <1>9, <1>10 DEF MemoryInv, Idle

LEMMA ReceiveKeepsMemory ==
  ASSUME Typed, NEW m \in Masters, AnswerInv(m), MemoryInv(m), Receive(m)
  PROVE  MemoryInv(m)'
  <1> SUFFICES ASSUME Plain(m)' PROVE MemoryInv(m)'
    BY DEF MemoryInv
  <1>1. Domains /\ MasterTyped(m) /\ store \in Stores
    BY DEF Typed
  <1>2. /\ Plain(m) /\ phase[m] = "wait"
        /\ UNCHANGED <<store, sock, again, asked, soured, calm>>
    BY DEF Receive, Plain
  <1>3. sock[m] = 1 /\ wire[m] \in [Sockets(m) -> Connections] /\ 1 \in Sockets(m)
        /\ asked[m] \in Requests[m]
    BY <1>1, <1>2, LinkAssumption
       DEF MemoryInv, Sockets, MasterTyped, WireTyped, ClientTyped
  <1> DEFINE x == wire[m][1]
             b == Head(x.replies).body
             y == [x EXCEPT !.replies = Tail(@)]
  <1>4. x.replies # <<>>
    BY <1>3 DEF Receive, Line
  <1>5. Right(m, b) /\ Agree(m, store, After(m)) /\ wrote[m] \in Stores
    BY <1>2, <1>4 DEF MemoryInv
  <1>6. /\ phase'[m] = "idle"
        /\ done'[m].how = (IF b.refused = "none" THEN "ok" ELSE "exception")
        /\ done'[m].values = b.values
        /\ wrote'[m] = IF b.refused = "none" /\ asked[m].fc \in {5, 6}
                       THEN LocalWritten(wrote[m], asked[m]) ELSE wrote[m]
    BY <1>1, <1>3 DEF Receive, Line, Domains
  <1>7. wrote'[m] = After(m)
    BY <1>5, <1>6 DEF After, Right
  <1>8. After(m) \in Stores
    BY <1>3, <1>5, OneWordWritten DEF After
  <1>9. OwnRead(m, asked[m]) => After(m) = wrote[m]
    BY DEF OwnRead, IsRead, ReadTable, After
  <1>10. wire' = [wire EXCEPT ![m] = [wire[m] EXCEPT ![1] = y]]
    BY <1>1, <1>3 DEF Receive, Domains
  <1> HIDE DEF y
  <1>11. \A k \in Sockets(m) : k # 1 => wire'[m][k] = wire[m][k]
    BY <1>1, <1>3, <1>10 DEF Domains
  <1>12. done'[m].how = "ok" /\ OwnRead(m, asked[m])' =>
           done'[m].values = LocalRead(wrote[m], asked[m])'
    <2> SUFFICES ASSUME done'[m].how = "ok", OwnRead(m, asked[m])'
                 PROVE  done'[m].values = LocalRead(wrote[m], asked[m])'
      OBVIOUS
    <2>1. OwnRead(m, asked[m]) /\ asked' = asked
      BY <1>2 DEF OwnRead
    <2>2. b.refused = "none"
      BY <1>6
    <2>3. b.values = LocalRead(wrote[m], asked[m]) /\ wrote'[m] = wrote[m]
      BY <1>5, <1>7, <1>9, <2>1, <2>2 DEF Right
    <2>. QED  BY <1>6, <2>1, <2>3
  <1>13. Agree(m, store, wrote[m])'
    BY <1>2, <1>5, <1>7
  <1> HIDE DEF Agree
  <1>. QED  BY <1>2, <1>3, <1>6, <1>7, <1>8, <1>11, <1>12, <1>13 DEF MemoryInv, Idle

LEMMA ServeKeepsMemory ==
  ASSUME Typed, NEW m \in Masters, AnswerInv(m), MemoryInv(m),
         NEW k \in Sockets(m), Serve(m, k)
  PROVE  MemoryInv(m)'
  <1> SUFFICES ASSUME Plain(m)' PROVE MemoryInv(m)'
    BY DEF MemoryInv
  <1>1. Domains /\ MasterTyped(m) /\ store \in Stores
    BY DEF Typed
  <1>2. /\ Plain(m)
        /\ UNCHANGED <<sock, phase, again, asked, calls, done, soured, calm, wrote>>
    BY DEF Serve, Plain, clients
  <1>3. sock[m] = 1 /\ wire[m] \in [Sockets(m) -> Connections] /\ k = 1
        /\ asked[m] \in Requests[m] /\ asked[m].fc \in LocalCodes
    BY <1>1, <1>2 DEF MemoryInv, MasterTyped, WireTyped, ClientTyped, Serve, Plain
  <1> DEFINE x == wire[m][1]
             r == Head(x.requests)
             b == Answer(store, asked[m])
             y == [x EXCEPT !.requests = Tail(@),
                            !.replies = IF x.state = "open"
                                        THEN Append(@, [of |-> r.of, body |-> b]) ELSE @]
  <1>4. x \in Connections /\ x.requests # <<>> /\ OneAtMost(x, ~Idle(m), calls[m])
    BY <1>2, <1>3 DEF Serve, AnswerInv, MemoryInv
  <1> HIDE DEF x
  <1>5. phase[m] = "wait" /\ x.replies = <<>> /\ Tail(x.requests) = <<>>
    <2>1. ~Idle(m) /\ OneRequest(x, calls[m])
      BY <1>4 DEF OneAtMost, Blank, OneReply
    <2>2. PICK u \in Asks : x.requests = <<u>> /\ x.replies = <<>>
      BY <2>1 DEF OneRequest
    <2>3. Tail(x.requests) = <<>>
      BY <2>2
    <2>4. phase[m] \in {"idle", "wait"}
      BY <1>1, <1>2 DEF MemoryInv, MasterTyped, ClientTyped
    <2>. QED  BY <2>1, <2>2, <2>3, <2>4 DEF Idle
  <1> USE DEF x
  <1>6. r.pdu = asked[m] /\ Agree(m, store, wrote[m]) /\ wrote[m] \in Stores
    BY <1>2, <1>4, <1>5 DEF MemoryInv
  <1>7. store' = Written(store, asked[m])
    BY <1>3, <1>6 DEF Serve, Effect
  <1>8. wire' = [wire EXCEPT ![m] = [wire[m] EXCEPT ![1] = y]]
    BY <1>1, <1>3, <1>6 DEF Serve, Domains
  <1>9. /\ y.requests = <<>>
        /\ y.replies \in {<<>>, <<[of |-> r.of, body |-> b]>>}
    BY <1>4, <1>5 DEF Connections
  <1> HIDE DEF y
  <1>10. /\ wire'[m][1] = y /\ \A j \in Sockets(m) : j # 1 => wire'[m][j] = wire[m][j]
    BY <1>1, <1>3, <1>8 DEF Domains
  <1>11. y.replies # <<>> => Head(y.replies).body = b
    BY <1>9
  <1>12. Right(m, b)
    <2>1. b.refused = Refusal(asked[m])
      BY DEF Answer
    <2>2. OwnRead(m, asked[m]) /\ Refusal(asked[m]) = "none"
            => b.values = LocalRead(wrote[m], asked[m])
      BY <1>1, <1>3, <1>6, SameWordsRead
    <2>. QED  BY <2>1, <2>2 DEF Right
  <1>13. y.replies # <<>> => Right(m, Head(wire[m][1].replies).body)'
    <2> SUFFICES ASSUME y.replies # <<>> PROVE Right(m, Head(wire[m][1].replies).body)'
      OBVIOUS
    <2>1. Head(wire'[m][1].replies).body = b
      BY <1>10, <1>11
    <2> HIDE DEF b
    <2>. QED  BY <1>2, <1>12, <2>1 DEF Right
  <1>14. Agree(m, store, After(m))'
    <2>1. Agree(m, store', After(m))
      BY <1>1, <1>3, <1>6, <1>7, AfterWrite
    <2>2. After(m)' = After(m)
      BY <1>2 DEF After
    <2>. QED  BY <2>1, <2>2
  <1> HIDE DEF Agree
  <1>. QED  BY <1>2, <1>3, <1>5, <1>6, <1>9, <1>10, <1>13, <1>14 DEF MemoryInv, Idle

LEMMA DropKeepsMemory ==
  ASSUME Typed, NEW m \in Masters, MemoryInv(m), NEW k \in Sockets(m), Drop(m, k)
  PROVE  MemoryInv(m)'
  <1> SUFFICES ASSUME Plain(m)' PROVE MemoryInv(m)'
    BY DEF MemoryInv
  <1>1. Domains /\ MasterTyped(m)
    BY DEF Typed
  <1>2. Plain(m) /\ UNCHANGED <<store, clients, history>>
    BY DEF Drop, Plain, history
  <1>3. wire[m] \in [Sockets(m) -> Connections] /\ 1 \in Sockets(m)
    BY <1>1, <1>2, LinkAssumption
       DEF MemoryInv, Sockets, MasterTyped, WireTyped
  <1>4. wire'[m] = [wire[m] EXCEPT ![k] = [wire[m][k] EXCEPT !.state = "dropped"]]
    BY <1>1, <1>3 DEF Drop, Domains
  <1>5. \A j \in Sockets(m) : /\ wire'[m][j].requests = wire[m][j].requests
                              /\ wire'[m][j].replies = wire[m][j].replies
    BY <1>3, <1>4 DEF Connections
  <1>6. After(m)' = After(m) /\ \A b : Right(m, b)' <=> Right(m, b)
    BY <1>2 DEF After, Right, clients, history
  <1>7. Idle(m)' <=> Idle(m)
    BY <1>2 DEF Idle, clients
  <1>8. Agree(m, store, wrote[m])' <=> Agree(m, store, wrote[m])
    BY <1>2 DEF history
  <1>9. Agree(m, store, After(m))' <=> Agree(m, store, After(m))
    BY <1>2, <1>6
  <1>10. Right(m, Head(wire[m][1].replies).body)' <=> Right(m, Head(wire[m][1].replies).body)
    BY <1>3, <1>5, <1>6
  <1>11. UNCHANGED <<sock, phase, again, asked, done, soured, wrote>>
    BY <1>2 DEF clients, history
  <1> HIDE DEF Agree, Right, After
  <1>. QED  BY <1>2, <1>3, <1>5, <1>7, <1>8, <1>9, <1>10, <1>11 DEF MemoryInv

(* A call that meets a failure is no longer plain; nothing else is given   *)
(* up, reconnects, retries or is restarted.                                *)
LEMMA FailureKeepsMemory ==
  ASSUME Typed, NEW m \in Masters, MemoryInv(m),
         Fail(m) \/ GiveUp(m) \/ Connect(m) \/ Retry(m) \/ Restart
  PROVE  MemoryInv(m)'
  <1> SUFFICES ASSUME Plain(m)' PROVE FALSE
    BY DEF MemoryInv
  <1>1. Domains
    BY DEF Typed
  <1>2. CASE Fail(m)
    BY <1>1, <1>2 DEF Fail, Domains, Plain
  <1>3. CASE GiveUp(m)
    BY <1>3 DEF GiveUp, MayRetry, MemoryInv, Plain
  <1>4. CASE Connect(m) \/ Retry(m)
    BY <1>4 DEF Connect, Retry, MemoryInv, Plain
  <1>5. CASE Restart
    BY <1>5 DEF Restart, Plain
  <1>. QED  BY <1>2, <1>3, <1>4, <1>5

LEMMA MemoryStep ==
  ASSUME Typed, NEW m \in Masters, AnswerInv(m), MemoryInv(m), [Next]_vars
  PROVE  MemoryInv(m)'
  <1>1. CASE UNCHANGED vars
    <2>1. Spares(m)
      BY <1>1 DEF vars, clients, history, Spares, Same
    <2>. QED  BY <2>1, MemorySpared
  <1>2. CASE Restart
    BY <1>2, FailureKeepsMemory
  <1>3. ASSUME NEW o \in Masters,
               \/ ClientStep(o) \/ \E p \in Requests[o] : Call(o, p)
               \/ \E k \in Sockets(o) : Serve(o, k) \/ Drop(o, k)
        PROVE  MemoryInv(m)'
    <2>1. CASE o # m
      <3>1. Spares(m)
        BY <1>3, <2>1, OtherSpares
      <3>. QED  BY <3>1, MemorySpared
    <2>2. CASE o = m
      <3>1. CASE Receive(m)
        BY <3>1, ReceiveKeepsMemory
      <3>2. CASE Fail(m) \/ GiveUp(m) \/ Connect(m) \/ Retry(m)
        BY <3>2, FailureKeepsMemory
      <3>3. ASSUME NEW p \in Requests[m], Call(m, p) PROVE MemoryInv(m)'
        BY <3>3, CallKeepsMemory
      <3>4. ASSUME NEW k \in Sockets(m), Serve(m, k) PROVE MemoryInv(m)'
        BY <3>4, ServeKeepsMemory
      <3>5. ASSUME NEW k \in Sockets(m), Drop(m, k) PROVE MemoryInv(m)'
        BY <3>5, DropKeepsMemory
      <3>. QED  BY <1>3, <2>2, <3>1, <3>2, <3>3, <3>4, <3>5 DEF ClientStep
    <2>. QED  BY <2>1, <2>2
  <1>4. \/ UNCHANGED vars \/ Restart
        \/ \E o \in Masters : \/ ClientStep(o) \/ \E p \in Requests[o] : Call(o, p)
                              \/ \E k \in Sockets(o) : Serve(o, k) \/ Drop(o, k)
    BY DEF Next, Environment
  <1>. QED  BY <1>1, <1>2, <1>3, <1>4

LEMMA InitMemory ==
  ASSUME Init, NEW m \in Masters
  PROVE  MemoryInv(m)
  <1>1. /\ store = EmptyStore /\ wrote[m] = EmptyStore /\ sock[m] = 1
        /\ phase[m] = "idle" /\ soured[m] = FALSE /\ done[m] = Nothing
        /\ wire[m] = [k \in Sockets(m) |-> IF k = 1 THEN Opened ELSE Unused]
    BY DEF Init
  <1>2. done[m].how = "none"
    BY <1>1 DEF Nothing
  <1>3. \A k \in Sockets(m) : k # 1 => wire[m][k].requests = <<>>
    BY <1>1 DEF Unused
  <1>4. Agree(m, store, wrote[m])
    BY <1>1 DEF Agree
  <1>. QED  BY <1>1, <1>2, <1>3, <1>4, EmptyStoreIsStore DEF MemoryInv, Idle

LEMMA MemoryInvariance == Spec => [](\A m \in Masters : MemoryInv(m))
  <1> DEFINE I == \A m \in Masters : MemoryInv(m)
  <1>1. Init => I
    BY InitMemory
  <1>2. ASSUME LinkInv, I, [Next]_vars PROVE I'
    <2>1. ASSUME NEW m \in Masters PROVE MemoryInv(m)'
      BY <1>2, <2>1, MemoryStep DEF LinkInv, MasterInv
    <2>. QED  BY <2>1
  <1> HIDE DEF I
  <1>3. Spec => []I
    BY <1>1, <1>2, LinkInvariance, PTL DEF Spec
  <1>. QED  BY <1>3 DEF I

(* Without failures the link is memory: a master that alone writes the     *)
(* words it reads, with single writes, reads what its own image would hold *)
(* after its acknowledged writes, whatever the other masters do between.   *)
THEOREM LinkIsMemory == Spec => []ReadsOwnWrites
  <1>1. ASSUME \A m \in Masters : MemoryInv(m), NEW m \in Masters,
               calm[m], Answered(m), done[m].how = "ok", IsRead(asked[m]),
               \A p \in Requests[m] : p.fc \in LocalCodes,
               \A a \in Span(asked[m]) : Private(m, ReadTable[asked[m].fc], a)
        PROVE  done[m].values = LocalRead(wrote[m], asked[m])
    <2>1. Plain(m) /\ Idle(m) /\ OwnRead(m, asked[m]) /\ MemoryInv(m)
      BY <1>1 DEF Plain, Answered, OwnRead
    <2>. QED  BY <1>1, <2>1 DEF MemoryInv
  <1>2. (\A m \in Masters : MemoryInv(m)) => ReadsOwnWrites
    BY <1>1 DEF ReadsOwnWrites
  <1>. QED  BY <1>2, MemoryInvariance, PTL
=============================================================================
