---------------------------- MODULE StratumClient ----------------------------
(***************************************************************************)
(* The stratum (mining pool) client: class client of                       *)
(* src/include/fingera/stratum/client.hpp, src/src/stratum/client.cpp.     *)
(*                                                                         *)
(* The client is a set of callbacks run by one thread in                   *)
(* io_service.run().  An asynchronous operation is first pending in        *)
(* Boost.Asio, then completes, and its completion waits in the FIFO queue  *)
(* "ready" until run() calls its handler.  One action models one whole     *)
(* handler, or one event of the network or of the timer.                   *)
(***************************************************************************)
EXTENDS Naturals, Sequences, StratumMessage

CONSTANTS
  Messages,   \* the lines a pool may send
  MaxLines,   \* bound: lines that one TCP segment completes
  MaxLogins,  \* bound: calls of the public login(); 1 is the intended use
  MaxPings    \* bound: calls of _do_ping() by a subclass; the class has none

ASSUME MessagesAssumption == Messages \subseteq MessageType
ASSUME BoundsAssumption ==
  /\ MaxLines \in Nat \ {0}
  /\ MaxLogins \in Nat \ {0}
  /\ MaxPings \in Nat

VARIABLES
  \* members of the client
  is_reconnecting,  \* _is_reconnecting, which the constructor leaves unset
  write_queue,      \* _write_queue
  sequence,         \* _sequence
  rpc_id,           \* _rpc_id
  response,         \* _response: line starts buffered without a newline, 0..2
  \* Boost.Asio
  socket,           \* _socket
  pending,          \* operations started and not completed, per kind
  ready,            \* completions whose handler has not run, oldest first
  \* surroundings
  mid_line,         \* the pool has sent the start of a line but not its end
  logins, pings,    \* calls made so far
  job,              \* the last job passed to _on_job
  write_failed,     \* the handler of some write has been given an error
  crashed           \* an exception left io_service.run()

client  == <<is_reconnecting, write_queue, sequence, rpc_id, response>>
asio    == <<socket, pending, ready>>
outcome == <<job, write_failed, crashed>>
history == <<logins, pings, outcome>>
vars    == <<client, asio, mid_line, history>>

-----------------------------------------------------------------------------
(* Boost.Asio, as far as the client uses it.                               *)

Ops == {"connect", "write", "read", "timer"}

(* What one read hands over: lines ended by a newline, whether the data    *)
(* starts inside a line (cont) and ends inside one (open), and whether a   *)
(* second read into the same buffer has spoiled it (garbled).              *)
Chunks == [cont : BOOLEAN, lines : Seq(Messages), open : BOOLEAN,
           garbled : BOOLEAN]

NoData == [cont |-> FALSE, lines |-> << >>, open |-> FALSE, garbled |-> FALSE]

Completions == [op : Ops, ok : BOOLEAN, data : Chunks]

Done(op, ok) == [op |-> op, ok |-> ok, data |-> NoData]

In(op, queue) == \E i \in 1..Len(queue) : queue[i].op = op

InFlight(op) == pending[op] > 0 \/ In(op, ready)

Failures(op, n) == [i \in 1..n |-> Done(op, FALSE)]

(* Closing a socket completes its pending operations with an error.        *)
Aborted == Failures("read", pending["read"])
             \o Failures("connect", pending["connect"])
             \o Failures("write", pending["write"])

(* async_write / async_read_until, for the operations ops in this order;   *)
(* on a closed socket each completes at once with an error.                *)
Start(ops, rest) ==
  /\ IF socket = "closed"
     THEN /\ ready' = rest \o [i \in 1..Len(ops) |-> Done(ops[i], FALSE)]
          /\ UNCHANGED pending
     ELSE /\ ready' = rest
          /\ pending' = [o \in Ops |->
               IF \E i \in 1..Len(ops) : ops[i] = o THEN pending[o] + 1
                                                    ELSE pending[o]]
  /\ UNCHANGED socket

-----------------------------------------------------------------------------
(* The member functions.  "rest" is the ready queue they add to.           *)

(* Mutated form of delay_connect: without the early return.                *)
delay_connect_unguarded(rest) ==
  /\ is_reconnecting' = TRUE
  /\ socket' = "closed"
  /\ pending' = [o \in Ops |-> IF o = "timer" THEN 1 ELSE 0]
  /\ ready' = rest \o Aborted \o Failures("timer", pending["timer"])

(* close() and expires_after(): the latter completes a wait that is still  *)
(* pending with an error, which the bound handler does not look at.        *)
delay_connect(rest) ==
  IF is_reconnecting
  THEN ready' = rest /\ UNCHANGED <<is_reconnecting, socket, pending>>
  ELSE /\ is_reconnecting' = TRUE
       /\ socket' = "closed"
       /\ pending' = [o \in Ops |-> IF o = "timer" THEN 1 ELSE 0]
       /\ ready' = rest \o Aborted \o Failures("timer", pending["timer"])

(* Mutated form of do_connect: the flag is not reset.                      *)
do_connect_no_reset(rest) ==
  /\ socket' = "connecting"
  /\ pending' = [o \in Ops |-> IF o = "timer" THEN pending[o]
                               ELSE IF o = "connect" THEN 1 ELSE 0]
  /\ ready' = rest \o Aborted
  /\ UNCHANGED is_reconnecting

(* async_connect closes the socket before it opens it again.               *)
do_connect(rest) ==
  /\ is_reconnecting' = FALSE
  /\ socket' = "connecting"
  /\ pending' = [o \in Ops |-> IF o = "timer" THEN pending[o]
                               ELSE IF o = "connect" THEN 1 ELSE 0]
  /\ ready' = rest \o Aborted

(* Mutated form of write: every request starts a write of its own.         *)
write_at_once(request, rest) ==
  /\ write_queue' = Append(write_queue, request)
  /\ Start(<<"write">>, rest)

(* _write: only the first request of the queue starts a write.             *)
write(request, rest) ==
  /\ write_queue' = Append(write_queue, request)
  /\ IF write_queue = << >>
     THEN Start(<<"write">>, rest)
     ELSE ready' = rest /\ UNCHANGED <<socket, pending>>

(* Mutated form of do_login: listens without having logged in.             *)
do_login_skipped(rest) ==
  Start(<<"read">>, rest) /\ UNCHANGED <<write_queue, sequence>>

do_login(rest) ==
  /\ write([method |-> "login", id |-> 1], rest)
  /\ sequence' = 1

(* Called by a subclass to keep a session alive; needs the session id.     *)
do_ping ==
  /\ ~crashed /\ pings < MaxPings /\ rpc_id # NoId
  /\ pings' = pings + 1
  /\ write([method |-> "keepalived", id |-> sequence], ready)
  /\ sequence' = sequence + 1
  /\ UNCHANGED <<is_reconnecting, rpc_id, response, mid_line, logins, outcome>>

login ==
  /\ ~crashed /\ logins < MaxLogins
  /\ logins' = logins + 1
  /\ do_connect(ready)
  /\ UNCHANGED <<write_queue, sequence, rpc_id, response, mid_line, pings,
                 outcome>>

-----------------------------------------------------------------------------
(* The handlers, run by io_service.run() in the order of the ready queue.  *)

Handles(op) == ~crashed /\ ready # << >> /\ Head(ready).op = op

(* A connect whose socket was closed meanwhile reports operation_aborted.  *)
on_connect ==
  /\ Handles("connect")
  /\ IF Head(ready).ok /\ socket # "closed"
     THEN do_login(Tail(ready)) /\ UNCHANGED is_reconnecting
     ELSE delay_connect(Tail(ready)) /\ UNCHANGED <<write_queue, sequence>>
  /\ UNCHANGED <<rpc_id, response, mid_line, history>>

(* Mutated forms of AfterWrite: the next request is never written; a write *)
(* is started even for an empty queue.                                     *)
AfterWrite_no_next == <<"read">>
AfterWrite_always == <<"write", "read">>

AfterWrite == IF Len(write_queue) > 1 THEN <<"write", "read">> ELSE <<"read">>

(* Success drops the request, goes on with the next one and starts a read; *)
(* an error leaves the request in the queue.                               *)
on_write ==
  /\ Handles("write")
  /\ IF Head(ready).ok
     THEN /\ write_queue' = Tail(write_queue)
          /\ Start(AfterWrite, Tail(ready))
          /\ UNCHANGED <<is_reconnecting, write_failed>>
     ELSE /\ delay_connect(Tail(ready))
          /\ write_failed' = TRUE
          /\ UNCHANGED write_queue
  /\ UNCHANGED <<sequence, rpc_id, response, mid_line, logins, pings, job,
                 crashed>>

(* The handler of the timer is _do_connect, whatever the wait's result.    *)
on_timer ==
  /\ Handles("timer")
  /\ do_connect(Tail(ready))
  /\ UNCHANGED <<write_queue, sequence, rpc_id, response, mid_line, history>>

(* _on_message drains the whole buffer and parses it as one JSON document, *)
(* which succeeds when it holds exactly one line.                          *)
OneLine(data) ==
  /\ ~data.garbled /\ ~data.open /\ Len(data.lines) = 1
  /\ response = IF data.cont THEN 1 ELSE 0

HasNewline(data) == data.lines # << >>

(* async_read_until found no newline yet: the data stays buffered and the  *)
(* socket is read again.  Two line starts stand for two or more.           *)
read_more ==
  LET data == Head(ready).data IN
  /\ Handles("read") /\ Head(ready).ok /\ ~HasNewline(data)
  /\ response' = IF data.garbled \/ (~data.cont /\ response > 0) THEN 2
                 ELSE IF data.cont THEN response ELSE 1
  /\ Start(<<"read">>, Tail(ready))
  /\ UNCHANGED <<is_reconnecting, write_queue, sequence, rpc_id, mid_line,
                 history>>

(* Mutated form of read_failed: the error ends the handler.                *)
read_failed_no_reconnect ==
  /\ Handles("read") /\ ~Head(ready).ok
  /\ ready' = Tail(ready)
  /\ UNCHANGED <<client, socket, pending, mid_line, history>>

read_failed ==
  /\ Handles("read") /\ ~Head(ready).ok
  /\ delay_connect(Tail(ready))
  /\ UNCHANGED <<write_queue, sequence, rpc_id, response, mid_line, history>>

bad_message ==
  LET data == Head(ready).data IN
  /\ Handles("read") /\ Head(ready).ok /\ HasNewline(data)
  /\ ~OneLine(data) \/ Throws(data.lines[1])
  /\ crashed' = TRUE
  /\ response' = 0
  /\ ready' = Tail(ready)
  /\ UNCHANGED <<is_reconnecting, write_queue, sequence, rpc_id, socket,
                 pending, mid_line, logins, pings, job, write_failed>>

good_message ==
  LET data == Head(ready).data
      m    == data.lines[1]
  IN
  /\ Handles("read") /\ Head(ready).ok /\ HasNewline(data)
  /\ OneLine(data) /\ ~Throws(m)
  /\ response' = 0
  /\ rpc_id' = IF LoginAccepted(m) THEN m.rpcId ELSE rpc_id
  /\ job' = IF JobReported(m) THEN m.job ELSE job
  /\ IF Reconnects(m)
     THEN delay_connect(Tail(ready))
     ELSE Start(<<"read">>, Tail(ready)) /\ UNCHANGED is_reconnecting
  /\ UNCHANGED <<write_queue, sequence, mid_line, logins, pings,
                 write_failed, crashed>>

on_message == read_failed \/ bad_message \/ good_message

Handler == on_connect \/ on_write \/ on_timer \/ read_more \/ on_message

-----------------------------------------------------------------------------
(* The network, the pool and the clock.                                    *)

Complete(op, completion) ==
  /\ ~crashed /\ pending[op] > 0
  /\ pending' = [pending EXCEPT ![op] = @ - 1]
  /\ ready' = Append(ready, completion)

ConnectDone ==
  /\ \E ok \in BOOLEAN :
       /\ Complete("connect", Done("connect", ok))
       /\ socket' = IF ok THEN "connected" ELSE "broken"
  /\ mid_line' = FALSE
  /\ UNCHANGED <<client, history>>

(* A write on a lost connection may still succeed: the kernel buffers it.  *)
WriteDone ==
  /\ \E ok \in BOOLEAN :
       /\ Complete("write", Done("write", ok))
       /\ socket = "broken" \/ (ok /\ socket = "connected")
  /\ UNCHANGED <<client, socket, mid_line, history>>

(* The segments the pool may send next.  With two reads on one buffer the  *)
(* outcome is undefined: the data may arrive spoiled.                      *)
Segments ==
  { data \in [ cont    : {mid_line},
               lines   : UNION {[1..n -> Messages] : n \in 0..MaxLines},
               open    : BOOLEAN,
               garbled : IF pending["read"] > 1 \/ In("read", ready)
                         THEN BOOLEAN ELSE {FALSE} ] :
      data.open \/ HasNewline(data) }

Receive ==
  /\ socket = "connected"
  /\ \E data \in Segments :
       /\ Complete("read", [op |-> "read", ok |-> TRUE, data |-> data])
       /\ mid_line' = data.open
  /\ UNCHANGED <<client, socket, history>>

ReadFail ==
  /\ socket = "broken"
  /\ Complete("read", Done("read", FALSE))
  /\ UNCHANGED <<client, socket, mid_line, history>>

ConnectionLost ==
  /\ ~crashed /\ socket = "connected"
  /\ socket' = "broken"
  /\ UNCHANGED <<client, pending, ready, mid_line, history>>

TimerExpire ==
  /\ Complete("timer", Done("timer", TRUE))
  /\ UNCHANGED <<client, socket, mid_line, history>>

Network == ConnectDone \/ WriteDone \/ Receive \/ ReadFail \/ ConnectionLost

-----------------------------------------------------------------------------
Init ==
  /\ is_reconnecting \in BOOLEAN
  /\ write_queue = << >> /\ sequence = 0 /\ rpc_id = NoId /\ response = 0
  /\ socket = "closed" /\ pending = [o \in Ops |-> 0] /\ ready = << >>
  /\ mid_line = FALSE
  /\ logins = 0 /\ pings = 0 /\ job = NoJob
  /\ write_failed = FALSE /\ crashed = FALSE

Next == login \/ do_ping \/ Handler \/ Network \/ TimerExpire

(* run() calls every queued handler, the timer expires, connects and       *)
(* writes end, and a read on a dead connection fails.  Nothing obliges a   *)
(* pool to send, a connection to break or a user to call.                  *)
Fairness ==
  /\ WF_vars(Handler)
  /\ WF_vars(TimerExpire)
  /\ WF_vars(ConnectDone)
  /\ WF_vars(WriteDone)
  /\ WF_vars(ReadFail)

Spec == Init /\ [][Next]_vars
FairSpec == Spec /\ Fairness

-----------------------------------------------------------------------------
(* Properties.                                                             *)

Requests == [method : {"login", "keepalived"}, id : Nat]

(* Every variable has its type; the buffer abstraction stays within 0..2.  *)
TypeOK ==
  /\ is_reconnecting \in BOOLEAN
  /\ write_queue \in Seq(Requests)
  /\ sequence \in Nat
  /\ rpc_id \in RpcIds \cup {NoId}
  /\ response \in 0..2
  /\ socket \in {"closed", "connecting", "connected", "broken"}
  /\ pending \in [Ops -> Nat]
  /\ ready \in Seq(Completions)
  /\ mid_line \in BOOLEAN
  /\ logins \in Nat
  /\ pings \in Nat
  /\ job \in Jobs \cup {NoJob}
  /\ write_failed \in BOOLEAN
  /\ crashed \in BOOLEAN

Started == logins > 0

(* A request is queued and nothing will ever write it: _write starts a     *)
(* write only for the first request of an empty queue, and only a          *)
(* successful write takes a request out.  This happens after a failed      *)
(* write and in no other way.                                              *)
OrphanedOnlyByFailure ==
  write_queue # << >> /\ ~InFlight("write") => write_failed

(* Whatever happens on the network, a client that has been started always  *)
(* has an operation in flight, so run() does not return and the client     *)
(* still reacts; the exceptions are a failed write and a crash.            *)
NeverIdle ==
  Started /\ ~crashed /\ ~write_failed => \E op \in Ops : InFlight(op)

AtMostOne(op, queue) ==
  \A i, j \in 1..Len(queue) : queue[i].op = op /\ queue[j].op = op => i = j

Exclusive(op, n, queue) ==
  n <= 1 /\ (n = 1 => ~In(op, queue)) /\ AtMostOne(op, queue)

(* At most one async_write at a time, counting the completions not handled *)
(* yet, and its buffer is the front of a queue that is not empty.          *)
WriteExclusive ==
  /\ Exclusive("write", pending["write"], ready)
  /\ InFlight("write") => write_queue # << >>

(* While _is_reconnecting makes _delay_connect return early, the wait that *)
(* will reset it is in flight and the old socket is closed: the early      *)
(* return never swallows the last chance to reconnect.  With a single      *)
(* login() that wait is the only one and no other situation has one.       *)
ReconnectGuard ==
  /\ Started /\ is_reconnecting => InFlight("timer") /\ socket = "closed"
  /\ MaxLogins = 1 =>
       /\ Exclusive("timer", pending["timer"], ready)
       /\ InFlight("timer") => Started /\ is_reconnecting

TimersExpired(queue) ==
  \A i \in 1..Len(queue) : queue[i].op = "timer" => queue[i].ok

(* expires_after never cancels a pending wait, whose handler ignores the   *)
(* error and would connect at once: the 5 second delay is always kept.     *)
NoEarlyReconnect == MaxLogins = 1 => TimersExpired(ready)

(* Without keep-alive requests and with a single login() the callbacks     *)
(* form one chain: no two operations, and so no two reads on the one       *)
(* streambuf, are ever in flight together.                                 *)
SingleChain ==
  MaxPings = 0 /\ MaxLogins = 1 =>
    pending["connect"] + pending["write"] + pending["read"]
      + pending["timer"] + Len(ready) <= 1

(* A lost connection is always followed by a new attempt to connect,       *)
(* unless the client has crashed or a write has failed.                    *)
Recovers ==
  socket = "broken" ~> (socket = "connecting" \/ crashed \/ write_failed)

(* Every queued request leaves the queue, unless a write failed.           *)
QueueDrains ==
  write_queue # << >> ~> (write_queue = << >> \/ crashed \/ write_failed)

(* What _do_login is for: a connection that has been established gets its  *)
(* login written, or it is lost again, or the client crashes.              *)
LoginIsSent ==
  In("connect", ready) /\ socket = "connected" ~>
    (pending["write"] > 0 \/ socket # "connected" \/ crashed)

(* A pool that only sends lines the client understands never makes         *)
(* io_service.run() throw.                                                 *)
NoUncaughtException == crashed = FALSE

-----------------------------------------------------------------------------
(* The client implements StratumSession.                                   *)

SessionPhase ==
  IF crashed THEN "dead"
  ELSE IF logins = 0 THEN "idle"
  ELSE IF InFlight("timer") THEN "waiting"
  ELSE IF InFlight("connect") /\ ~InFlight("write") THEN "connecting"
  ELSE IF InFlight("write") THEN "logging in"
  ELSE IF InFlight("read") THEN "listening"
  ELSE "stuck"

Session == INSTANCE StratumSession WITH
             phase <- SessionPhase, lost <- write_failed, rpc_id <- rpc_id

(* The operational client, with its queue, timer and completions, behaves  *)
(* like the phases of StratumSession, progress included.                   *)
ImplementsSession == Session!Spec
=============================================================================
