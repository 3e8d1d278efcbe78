----------------------------- MODULE ModbusLink -----------------------------
(***************************************************************************)
(* Modbus TCP masters, their connections and the soft PLC's server, from   *)
(* protocol-gateway/modbus_tcp.py.  Every master is one ModbusTCPClient    *)
(* owned by one thread, which takes the client's lock (not a reentrant     *)
(* one) for an attempt, gives it up before it reconnects, and takes it     *)
(* again for the retry; a connection has a handler thread of its own in    *)
(* the server.  A connection is a byte stream: requests and replies are    *)
(* neither lost nor reordered while it is open, but the peer or the        *)
(* network may drop it, an answer may take longer than the client's        *)
(* timeout, and a handler may come to a request long after the client has  *)
(* closed the connection it came on.                                       *)
(*                                                                         *)
(* The client compares nothing of a reply with its request (the            *)
(* transaction id is read and ignored), so a reply is simply the next one  *)
(* of the stream.  The field "of", the call it answers, is a history.      *)
(*                                                                         *)
(* RetriesAlways, RetriesUnderLock, ForgetsToClose, RetriesOnSameSocket    *)
(* and SkipsLastWord are mutants of the operators they precede.            *)
(***************************************************************************)
EXTENDS ModbusStore

CONSTANTS
  Masters,
  Requests,    \* what each master may ask
  MaxCalls     \* bound: how many calls each master ever makes

ASSUME LinkAssumption ==
  /\ MaxCalls \in [Masters -> Nat]
  /\ DOMAIN Requests = Masters

(* What a master may ask: a coil and a register are written as the client  *)
(* writes them, a register masked to its width, and what any other request *)
(* writes was parsed from the words of its frame.                          *)
ASSUME RequestAssumption ==
  \A m \in Masters :
    /\ Requests[m] # {}
    /\ \A p \in Requests[m] :
         /\ p.address \in Nat /\ p.count \in Nat
         /\ p.fc = 6 => /\ p.data[1] \in Nat
                        /\ p = WriteRegister(p.address, p.data[1])
         /\ p.fc = 5 => p = WriteCoil(p.address, p.data[1])
         /\ p.fc \in {5, 15, 16} =>
              \A i \in 1 .. p.count : p.data[i] \in 0 .. WordModulus - 1

Calls(m) == 1 .. MaxCalls[m]
Sockets(m) == 1 .. MaxCalls[m] + 1    \* a call opens at most one more connection
None == 0

VARIABLES
  store,     \* ModbusTCPServer.store
  sock,      \* ModbusTCPClient._sock
  held,      \* ModbusTCPClient._lock is held
  phase,     \* where a master is in _request
  again,     \* _allow_reconnect of the attempt under way
  asked,     \* the request of the call under way
  calls,     \* the number of calls so far
  wire,      \* the connections of a master
  done,      \* how the last call ended
  executed,  \* history: how often the server executed each call
  tried,     \* history: how often the last call was sent, or failed to connect
  soured,    \* history: the socket was left open when a call was given up
  calm,      \* history: no transport failure seen, and no restart
  wrote      \* history: what the master's registers hold by its own writes

clients == <<sock, held, phase, again, asked, calls, done>>
history == <<executed, tried, soured, calm, wrote>>
vars == <<store, clients, wire, history>>

Unused == [state |-> "unused", requests |-> <<>>, replies |-> <<>>]
Opened == [Unused EXCEPT !.state = "open"]
Nothing == [how |-> "none", of |-> 0, values |-> <<>>]
Raised == [Nothing EXCEPT !.how = "raised"]

Init == /\ store = EmptyStore
        /\ sock = [m \in Masters |-> 1]
        /\ held = [m \in Masters |-> FALSE]
        /\ phase = [m \in Masters |-> "idle"]
        /\ again = [m \in Masters |-> TRUE]
        /\ asked = [m \in Masters |-> CHOOSE p \in Requests[m] : TRUE]
        /\ calls = [m \in Masters |-> 0]
        /\ wire = [m \in Masters |-> [k \in Sockets(m) |-> IF k = 1 THEN Opened ELSE Unused]]
        /\ done = [m \in Masters |-> Nothing]
        /\ executed = [m \in Masters |-> [n \in Calls(m) |-> 0]]
        /\ tried = [m \in Masters |-> 0]
        /\ soured = [m \in Masters |-> FALSE]
        /\ calm = [m \in Masters |-> TRUE]
        /\ wrote = [m \in Masters |-> EmptyStore]

-----------------------------------------------------------------------------
Line(m) == wire[m][sock[m]]

(* A request written to a connection that is no longer open goes nowhere. *)
Sent(connection, n, p) ==
  IF connection.state = "open"
  THEN [connection EXCEPT !.requests = Append(@, [of |-> n, pdu |-> p])]
  ELSE connection

(* A call: _request, up to its first wait.  Without a socket it raises at  *)
(* once, outside the try that would reconnect.                             *)
Call(m, p) ==
  /\ phase[m] = "idle" /\ calls[m] < MaxCalls[m]
  /\ calls' = [calls EXCEPT ![m] = @ + 1]
  /\ IF sock[m] = None
     THEN /\ done' = [done EXCEPT ![m] = Raised]
          /\ tried' = [tried EXCEPT ![m] = 0]
          /\ UNCHANGED <<held, phase, again, asked, wire>>
     ELSE /\ ~held[m]
          /\ held' = [held EXCEPT ![m] = TRUE]
          /\ phase' = [phase EXCEPT ![m] = "wait"]
          /\ again' = [again EXCEPT ![m] = TRUE]
          /\ asked' = [asked EXCEPT ![m] = p]
          /\ wire' = [wire EXCEPT ![m][sock[m]] = Sent(@, calls'[m], p)]
          /\ tried' = [tried EXCEPT ![m] = 1]
          /\ UNCHANGED done
  /\ UNCHANGED <<store, sock, executed, soured, calm, wrote>>

(* The next reply of the stream ends the call, an exception reply too. *)
Receive(m) ==
  /\ phase[m] = "wait" /\ Line(m).replies # <<>>
  /\ LET reply == Head(Line(m).replies)
         ok == reply.body.refused = "none"
     IN  /\ done' = [done EXCEPT ![m] =
              [how |-> IF ok THEN "ok" ELSE "exception",
               of |-> reply.of, values |-> reply.body.values]]
         /\ wrote' = [wrote EXCEPT ![m] =
              IF ok /\ asked[m].fc \in {5, 6} THEN LocalWritten(@, asked[m]) ELSE @]
  /\ wire' = [wire EXCEPT ![m][sock[m]].replies = Tail(@)]
  /\ held' = [held EXCEPT ![m] = FALSE]
  /\ phase' = [phase EXCEPT ![m] = "idle"]
  /\ UNCHANGED <<store, sock, again, asked, calls, executed, tried, soured, calm>>

(* OSError or ConnectionError: no reply within the timeout, or the         *)
(* connection dropped.                                                     *)
Lost(m) == Line(m).replies = <<>> \/ Line(m).state = "dropped"

RetriesAlways(m) == TRUE
MayRetry(m) == again[m]

(* The error leaves the lock's block before it is caught. *)
RetriesUnderLock(m) == held
Released(m) == [held EXCEPT ![m] = FALSE]

ForgetsToClose(m) == wire[m]
Closed(m) == [wire[m] EXCEPT ![sock[m]].state = "closed", ![sock[m]].replies = <<>>]

(* The first time the socket is closed, to reconnect... *)
Fail(m) ==
  /\ phase[m] = "wait" /\ Lost(m) /\ MayRetry(m)
  /\ held' = Released(m)
  /\ phase' = [phase EXCEPT ![m] = "reconnect"]
  /\ wire' = [wire EXCEPT ![m] = Closed(m)]
  /\ sock' = [sock EXCEPT ![m] = None]
  /\ soured' = [soured EXCEPT ![m] = FALSE]
  /\ calm' = [calm EXCEPT ![m] = FALSE]
  /\ UNCHANGED <<store, again, asked, calls, done, executed, tried, wrote>>

(* ...the second time the error is raised and the socket left as it is. *)
GiveUp(m) ==
  /\ phase[m] = "wait" /\ Lost(m) /\ ~MayRetry(m)
  /\ held' = Released(m)
  /\ phase' = [phase EXCEPT ![m] = "idle"]
  /\ done' = [done EXCEPT ![m] = Raised]
  /\ soured' = [soured EXCEPT ![m] = TRUE]
  /\ UNCHANGED <<store, sock, again, asked, calls, wire, executed, tried, calm, wrote>>

(* connect; or it raises, and no socket is left. *)
RetriesOnSameSocket(m) == 1
NewSocket(m) == Cardinality({k \in Sockets(m) : wire[m][k].state # "unused"}) + 1

Connect(m) ==
  /\ phase[m] = "reconnect"
  /\ \/ LET k == NewSocket(m)
        IN  /\ k \in Sockets(m)
            /\ sock' = [sock EXCEPT ![m] = k]
            /\ wire' = [wire EXCEPT ![m][k].state = "open"]
            /\ phase' = [phase EXCEPT ![m] = "retry"]
            /\ UNCHANGED <<done, tried>>
     \/ /\ phase' = [phase EXCEPT ![m] = "idle"]
        /\ done' = [done EXCEPT ![m] = Raised]
        /\ tried' = [tried EXCEPT ![m] = @ + 1]
        /\ UNCHANGED <<sock, wire>>
  /\ UNCHANGED <<store, held, again, asked, calls, executed, soured, calm, wrote>>

(* The one retry, on the new connection, once the lock is free. *)
Retry(m) ==
  /\ phase[m] = "retry" /\ ~held[m]
  /\ held' = [held EXCEPT ![m] = TRUE]
  /\ phase' = [phase EXCEPT ![m] = "wait"]
  /\ again' = [again EXCEPT ![m] = FALSE]
  /\ tried' = [tried EXCEPT ![m] = @ + 1]
  /\ wire' = [wire EXCEPT ![m][sock[m]] = Sent(@, calls[m], asked[m])]
  /\ UNCHANGED <<store, sock, asked, calls, done, executed, soured, calm, wrote>>

-----------------------------------------------------------------------------
(* The handler of a connection takes its next request. *)
SkipsLastWord(p) == Written(store, [p EXCEPT !.count = @ - 1])
Effect(p) == Written(store, p)

Serve(m, k) ==
  /\ wire[m][k].requests # <<>>
  /\ LET r == Head(wire[m][k].requests)
     IN  /\ store' = Effect(r.pdu)
         /\ executed' = [executed EXCEPT ![m][r.of] = @ + 1]
         /\ wire' = [wire EXCEPT
              ![m][k].requests = Tail(@),
              ![m][k].replies =
                IF wire[m][k].state = "open"
                THEN Append(@, [of |-> r.of, body |-> Answer(store, r.pdu)])
                ELSE @]
  /\ UNCHANGED <<clients, tried, soured, calm, wrote>>

(* The network drops a connection. *)
Drop(m, k) ==
  /\ wire[m][k].state = "open"
  /\ wire' = [wire EXCEPT ![m][k].state = "dropped"]
  /\ UNCHANGED <<store, clients, history>>

(* The soft PLC is started anew, with an empty image. *)
Restart ==
  /\ store' = EmptyStore
  /\ wire' = [m \in Masters |-> [k \in Sockets(m) |->
       [wire[m][k] EXCEPT !.requests = <<>>,
                          !.state = IF @ = "open" THEN "dropped" ELSE @]]]
  /\ calm' = [m \in Masters |-> FALSE]
  /\ UNCHANGED <<clients, executed, tried, soured, wrote>>

Environment == \/ Restart
               \/ \E m \in Masters : \E k \in Sockets(m) : Serve(m, k) \/ Drop(m, k)

ClientStep(m) == Receive(m) \/ Fail(m) \/ GiveUp(m) \/ Connect(m) \/ Retry(m)

Next == \/ Environment
        \/ \E m \in Masters : \/ ClientStep(m)
                              \/ \E p \in Requests[m] : Call(m, p)

(* The client's thread goes on; its socket has a timeout. *)
Spec == Init /\ [][Next]_vars /\ \A m \in Masters : WF_vars(ClientStep(m))

-----------------------------------------------------------------------------
TypeOK ==
  /\ store \in [Tables -> [Addresses -> 0 .. WordModulus - 1]]
  /\ \A m \in Masters :
       /\ sock[m] \in Sockets(m) \cup {None}
       /\ phase[m] \in {"idle", "wait", "reconnect", "retry"}
       /\ phase[m] \in {"wait", "retry"} <=> sock[m] # None /\ phase[m] # "idle"
       /\ held[m] = (phase[m] = "wait")
       /\ again[m] \in BOOLEAN /\ asked[m] \in Requests[m]
       /\ calls[m] \in 0 .. MaxCalls[m]
       /\ done[m].how \in {"none", "ok", "exception", "raised"}
       /\ \A k \in Sockets(m) : \A i \in DOMAIN wire[m][k].requests :
            wire[m][k].requests[i].of \in 1 .. calls[m]

Idle(m) == phase[m] = "idle"
Answered(m) == Idle(m) /\ done[m].how \in {"ok", "exception"}

(* The answer a call returns is the answer to that call, although nothing  *)
(* compares them: a timeout, a late reply or a dropped connection cannot   *)
(* put a client out of step with its server, but for a socket left open    *)
(* when a call was given up (modbus_tcp.py:305, :310-311).                 *)
OwnAnswer ==
  \A m \in Masters : Answered(m) /\ ~soured[m] => done[m].of = calls[m]

(* The server executes a call twice at most, and once as long as the       *)
(* client has met no transport failure and the server no restart           *)
(* (adr/0008:14-16: "retries the request exactly once", "bounded (one      *)
(* attempt)").                                                             *)
TwiceAtMost ==
  \A m \in Masters : \A n \in Calls(m) :
    executed[m][n] <= IF calm[m] THEN 1 ELSE 2

(* A write may be overtaken by later ones of the same client and then undo *)
(* them, but only one still unread on a connection that is gone: on its    *)
(* present connection a client's calls take effect in order.               *)
OvertakenOnlyWhenGone ==
  \A m \in Masters : \A k \in Sockets(m) : \A i \in DOMAIN wire[m][k].requests :
    wire[m][k].state = "open" =>
      \A later \in Calls(m) : later > wire[m][k].requests[i].of => executed[m][later] = 0

(* No other master writes the register. *)
Private(m, t, a) ==
  \A o \in Masters \ {m} : \A p \in Requests[o] :
    IsWrite(p) /\ WriteTable[p.fc] = t => a \notin Span(p)

(* Without failures the link is plain memory: a master that alone writes   *)
(* its registers reads what LocalStoreClient would return after the writes *)
(* that were acknowledged (modbus_tcp.py:350-355, "same interface"), where *)
(* the server refuses nothing.                                             *)
ReadsOwnWrites ==
  \A m \in Masters :
    calm[m] /\ Answered(m) /\ done[m].how = "ok" /\ IsRead(asked[m])
    /\ (\A p \in Requests[m] : p.fc \in LocalCodes)
    /\ (\A a \in Span(asked[m]) : Private(m, ReadTable[asked[m].fc], a))
      => done[m].values = LocalRead(wrote[m], asked[m])

(* Every call ends, with an answer or an error: neither a silent peer nor  *)
(* the lock, which the retry takes a second time, holds a master for ever  *)
(* (adr/0008:24, "no deadlock").                                           *)
CallsEnd == \A m \in Masters : ~Idle(m) ~> Idle(m)

(* "_request catches OSError/ConnectionError, reconnects, and retries the  *)
(* request exactly once" (adr/0008:13-14): a call raises only after that.  *)
RaisesOnlyAfterRetry ==
  \A m \in Masters : Idle(m) /\ done[m].how = "raised" => tried[m] = 2
=============================================================================
