------------------------ MODULE StratumClientProofs ------------------------
(***************************************************************************)
(* Theorems about StratumClient, for any set of lines the pool may send,   *)
(* any segmentation, any number of login() calls and of keep-alives.       *)
(***************************************************************************)
EXTENDS StratumClient, SequenceTheorems, TLAPS

-----------------------------------------------------------------------------
(* What the operators on completions return.                               *)

LEMMA NoDataType == NoData \in Chunks
BY DEF NoData, Chunks

(* A completion without data is a completion.                              *)
LEMMA DoneType ==
  ASSUME NEW op \in Ops, NEW ok \in BOOLEAN
  PROVE  /\ Done(op, ok) \in Completions
         /\ Done(op, ok).op = op
         /\ Done(op, ok).ok = ok
BY NoDataType DEF Done, Completions

(* Failures is a queue of n failed completions of one kind.                *)
LEMMA FailuresQueue ==
  ASSUME NEW op \in Ops, NEW n \in Nat
  PROVE  /\ Failures(op, n) \in Seq(Completions)
         /\ \A o : In(o, Failures(op, n)) <=> o = op /\ n > 0
         /\ \A o : n <= 1 \/ o # op => AtMostOne(o, Failures(op, n))
         /\ op # "timer" \/ n = 0 => TimersExpired(Failures(op, n))
<1>1. \A i \in 1..n : Done(op, FALSE) \in Completions
  BY DoneType
<1>2. Failures(op, n) \in [1..n -> Completions]
  BY <1>1 DEF Failures
<1>3. Failures(op, n) \in Seq(Completions) /\ Len(Failures(op, n)) = n
  BY <1>2
<1>4. \A i \in 1..n : Failures(op, n)[i].op = op
  BY DoneType DEF Failures
<1>5. \A o : In(o, Failures(op, n)) <=> o = op /\ n > 0
  BY <1>3, <1>4 DEF In
<1>6. \A o : n <= 1 \/ o # op => AtMostOne(o, Failures(op, n))
  BY <1>3, <1>4 DEF AtMostOne
<1>7. op # "timer" \/ n = 0 => TimersExpired(Failures(op, n))
  BY <1>3, <1>4 DEF TimersExpired
<1>. QED
  BY <1>3, <1>5, <1>6, <1>7

(* Concatenation adds nothing to two queues and loses nothing of them.     *)
LEMMA ConcatQueue ==
  ASSUME NEW s \in Seq(Completions), NEW t \in Seq(Completions)
  PROVE  /\ s \o t \in Seq(Completions)
         /\ \A o : In(o, s \o t) <=> In(o, s) \/ In(o, t)
         /\ \A o : AtMostOne(o, s) /\ AtMostOne(o, t)
                     /\ ~(In(o, s) /\ In(o, t)) => AtMostOne(o, s \o t)
         /\ TimersExpired(s) /\ TimersExpired(t) => TimersExpired(s \o t)
<1> DEFINE st == s \o t
<1>1. /\ st \in Seq(Completions)
      /\ Len(st) = Len(s) + Len(t)
      /\ Len(s) \in Nat /\ Len(t) \in Nat
      /\ \A i \in 1..Len(s) : st[i] = s[i]
      /\ \A i \in 1..Len(t) : st[Len(s) + i] = t[i]
  OBVIOUS
<1> HIDE DEF st
<1>2. \A i \in 1..Len(st) : \/ (i \in 1..Len(s) /\ st[i] = s[i])
                            \/ (/\ i - Len(s) \in 1..Len(t)
                                /\ st[i] = t[i - Len(s)])
  <2> TAKE i \in 1..Len(st)
  <2>1. CASE i <= Len(s)
    BY <1>1, <2>1
  <2>2. CASE ~(i <= Len(s))
    <3> DEFINE k == i - Len(s)
    <3>1. k \in 1..Len(t) /\ i = Len(s) + k
      BY <1>1, <2>2
    <3>. QED
      BY <1>1, <3>1
  <2>. QED
    BY <2>1, <2>2
<1>3. ASSUME NEW o
      PROVE  In(o, st) <=> In(o, s) \/ In(o, t)
  <2>1. In(o, st) => In(o, s) \/ In(o, t)
    BY <1>2 DEF In
  <2>2. In(o, s) => In(o, st)
    BY <1>1 DEF In
  <2>3. ASSUME In(o, t) PROVE In(o, st)
    <3>1. PICK i \in 1..Len(t) : t[i].op = o
      BY <2>3 DEF In
    <3>2. Len(s) + i \in 1..Len(st) /\ st[Len(s) + i] = t[i]
      BY <1>1
    <3>. QED
      BY <3>1, <3>2 DEF In
  <2>. QED
    BY <2>1, <2>2, <2>3
<1>4. ASSUME NEW o, AtMostOne(o, s), AtMostOne(o, t), ~(In(o, s) /\ In(o, t))
      PROVE  AtMostOne(o, st)
  <2> SUFFICES ASSUME NEW i \in 1..Len(st), NEW j \in 1..Len(st),
                      st[i].op = o, st[j].op = o
               PROVE  i = j
    BY DEF AtMostOne
  <2>1. CASE i \in 1..Len(s) /\ st[i] = s[i] /\ j \in 1..Len(s) /\ st[j] = s[j]
    BY <1>4, <2>1 DEF AtMostOne
  <2>2. CASE /\ i - Len(s) \in 1..Len(t) /\ st[i] = t[i - Len(s)]
             /\ j - Len(s) \in 1..Len(t) /\ st[j] = t[j - Len(s)]
    <3>1. i - Len(s) = j - Len(s)
      BY <1>4, <2>2 DEF AtMostOne
    <3>. QED
      BY <3>1, <1>1
  <2>3. ~(In(o, s) /\ In(o, t))
    BY <1>4
  <2>4. QED
    BY <1>2, <2>1, <2>2, <2>3 DEF In
<1>5. TimersExpired(s) /\ TimersExpired(t) => TimersExpired(st)
  BY <1>2 DEF TimersExpired
<1>. QED
  BY <1>1, <1>3, <1>4, <1>5 DEF st

(* Taking the first completion off a queue.                                *)
LEMMA TailQueue ==
  ASSUME NEW q \in Seq(Completions), q # << >>
  PROVE  /\ Tail(q) \in Seq(Completions)
         /\ Head(q) \in Completions
         /\ \A o : In(o, q) <=> In(o, Tail(q)) \/ Head(q).op = o
         /\ \A o : AtMostOne(o, q) => /\ AtMostOne(o, Tail(q))
                                      /\ Head(q).op = o => ~In(o, Tail(q))
         /\ TimersExpired(q) => TimersExpired(Tail(q))
<1> DEFINE t == Tail(q)
<1>1. /\ t \in Seq(Completions) /\ Head(q) = q[1] /\ Head(q) \in Completions
      /\ Len(q) \in Nat \ {0} /\ Len(t) = Len(q) - 1
      /\ \A i \in 1..Len(t) : t[i] = q[i + 1]
  OBVIOUS
<1> HIDE DEF t
<1>2. ASSUME NEW o PROVE In(o, q) => In(o, t) \/ Head(q).op = o
  <2> SUFFICES ASSUME NEW i \in 1..Len(q), q[i].op = o, i # 1
               PROVE  In(o, t)
    BY <1>1 DEF In
  <2> DEFINE k == i - 1
  <2>1. k \in 1..Len(t) /\ i = k + 1
    BY <1>1
  <2>. QED
    BY <1>1, <2>1 DEF In
<1>3. ASSUME NEW o PROVE In(o, t) \/ Head(q).op = o => In(o, q)
  BY <1>1 DEF In
<1>4. ASSUME NEW o, AtMostOne(o, q)
      PROVE  AtMostOne(o, t) /\ (Head(q).op = o => ~In(o, t))
  <2>1. \A i \in 1..Len(t) : i + 1 \in 1..Len(q) /\ t[i] = q[i + 1]
    BY <1>1
  <2>2. AtMostOne(o, t)
    BY <1>4, <2>1 DEF AtMostOne
  <2>3. ASSUME Head(q).op = o, NEW i \in 1..Len(t), t[i].op = o
        PROVE  FALSE
    BY <1>1, <1>4, <2>1, <2>3 DEF AtMostOne
  <2>. QED
    BY <2>2, <2>3 DEF In
<1>5. TimersExpired(q) => TimersExpired(t)
  <2>1. \A i \in 1..Len(t) : i + 1 \in 1..Len(q) /\ t[i] = q[i + 1]
    BY <1>1
  <2>. QED
    BY <2>1 DEF TimersExpired
<1>. QED
  BY <1>1, <1>2, <1>3, <1>4, <1>5 DEF t

(* Adding one completion at the end.                                       *)
LEMMA AppendQueue ==
  ASSUME NEW q \in Seq(Completions), NEW c \in Completions
  PROVE  /\ Append(q, c) \in Seq(Completions)
         /\ \A o : In(o, Append(q, c)) <=> In(o, q) \/ c.op = o
         /\ \A o : AtMostOne(o, q) /\ (c.op = o => ~In(o, q)) =>
                  AtMostOne(o, Append(q, c))
         /\ TimersExpired(q) /\ (c.op = "timer" => c.ok) =>
              TimersExpired(Append(q, c))
<1>1. Append(q, c) = q \o << c >> /\ << c >> \in Seq(Completions)
  OBVIOUS
<1>2. \A o : /\ In(o, << c >>) <=> c.op = o
             /\ AtMostOne(o, << c >>)
  BY DEF In, AtMostOne
<1>3. (c.op = "timer" => c.ok) => TimersExpired(<< c >>)
  BY DEF TimersExpired
<1>. QED
  BY <1>1, <1>2, <1>3, ConcatQueue

(* Closing the socket fails what is pending on it: reads, the connect and  *)
(* the write, never the timer.                                             *)
LEMMA AbortedQueue ==
  ASSUME pending \in [Ops -> Nat]
  PROVE  /\ Aborted \in Seq(Completions)
         /\ \A o \in Ops : In(o, Aborted) <=> o # "timer" /\ pending[o] > 0
         /\ pending["write"] <= 1 => AtMostOne("write", Aborted)
         /\ AtMostOne("timer", Aborted)
         /\ TimersExpired(Aborted)
<1> DEFINE R == Failures("read", pending["read"])
           C == Failures("connect", pending["connect"])
           W == Failures("write", pending["write"])
<1>1. /\ "read" \in Ops /\ "connect" \in Ops /\ "write" \in Ops
      /\ \A o \in Ops : pending[o] \in Nat
      /\ Ops = {"connect", "write", "read", "timer"}
  BY DEF Ops
<1>2. /\ R \in Seq(Completions)
      /\ \A o : In(o, R) <=> o = "read" /\ pending["read"] > 0
      /\ AtMostOne("write", R) /\ AtMostOne("timer", R) /\ TimersExpired(R)
  BY <1>1, FailuresQueue
<1>3. /\ C \in Seq(Completions)
      /\ \A o : In(o, C) <=> o = "connect" /\ pending["connect"] > 0
      /\ AtMostOne("write", C) /\ AtMostOne("timer", C) /\ TimersExpired(C)
  BY <1>1, FailuresQueue
<1>4. /\ W \in Seq(Completions)
      /\ \A o : In(o, W) <=> o = "write" /\ pending["write"] > 0
      /\ pending["write"] <= 1 => AtMostOne("write", W)
      /\ AtMostOne("timer", W) /\ TimersExpired(W)
  BY <1>1, FailuresQueue
<1>5. Aborted = (R \o C) \o W
  BY DEF Aborted
<1> HIDE DEF R, C, W
<1> DEFINE RC == R \o C
<1>6. /\ RC \in Seq(Completions)
      /\ \A o : In(o, RC) <=> In(o, R) \/ In(o, C)
      /\ AtMostOne("write", RC) /\ AtMostOne("timer", RC) /\ TimersExpired(RC)
  BY <1>2, <1>3, ConcatQueue
<1>7. Aborted = RC \o W
  BY <1>5
<1> HIDE DEF RC
<1>8. /\ Aborted \in Seq(Completions)
      /\ \A o : In(o, Aborted) <=> In(o, RC) \/ In(o, W)
      /\ pending["write"] <= 1 => AtMostOne("write", Aborted)
      /\ AtMostOne("timer", Aborted) /\ TimersExpired(Aborted)
  BY <1>2, <1>3, <1>4, <1>6, <1>7, ConcatQueue
<1>. QED
  BY <1>1, <1>2, <1>3, <1>4, <1>6, <1>8

-----------------------------------------------------------------------------
(* What the member functions do to the operations in flight.               *)

Flight(op, p, queue) == p[op] > 0 \/ In(op, queue)

(* On a closed socket nothing is pending.                                  *)
AsioType ==
  /\ socket \in {"closed", "connecting", "connected", "broken"}
  /\ pending \in [Ops -> Nat]
  /\ ready \in Seq(Completions)
  /\ socket = "closed" => \A op \in Ops : op # "timer" => pending[op] = 0

(* The sequences of operations that the client starts together.            *)
Batches == {<<"read">>, <<"write">>, <<"write", "read">>}

LEMMA BatchFacts ==
  ASSUME NEW ops \in Batches
  PROVE  LET F == [i \in 1..Len(ops) |-> Done(ops[i], FALSE)]
             Has(o) == \E i \in 1..Len(ops) : ops[i] = o IN
         /\ F \in Seq(Completions)
         /\ \A o : In(o, F) <=> Has(o)
         /\ \A o : AtMostOne(o, F)
         /\ TimersExpired(F)
         /\ ~Has("timer") /\ ~Has("connect")
         /\ Has("write") <=> ops # <<"read">>
         /\ Has("read") <=> ops # <<"write">>
<1> DEFINE F == [i \in 1..Len(ops) |-> Done(ops[i], FALSE)]
           Has(o) == \E i \in 1..Len(ops) : ops[i] = o
<1>1. /\ Len(ops) \in Nat
      /\ \A i \in 1..Len(ops) : ops[i] \in Ops
  <2>1. CASE ops = <<"read">>
    BY <2>1 DEF Ops
  <2>2. CASE ops = <<"write">>
    BY <2>2 DEF Ops
  <2>3. CASE ops = <<"write", "read">>
    BY <2>3 DEF Ops
  <2>. QED
    BY <2>1, <2>2, <2>3 DEF Batches
<1>2. /\ \A i, j \in 1..Len(ops) : ops[i] = ops[j] => i = j
      /\ \A i \in 1..Len(ops) : ops[i] \in {"read", "write"}
  BY DEF Batches
<1>3. /\ ~Has("timer") /\ ~Has("connect")
      /\ Has("write") <=> ops # <<"read">>
      /\ Has("read") <=> ops # <<"write">>
  BY DEF Batches
<1>4. \A i \in 1..Len(ops) : Done(ops[i], FALSE) \in Completions
  BY <1>1, DoneType
<1>5. F \in Seq(Completions) /\ Len(F) = Len(ops)
  <2>1. F \in [1..Len(ops) -> Completions]
    BY <1>4
  <2> HIDE DEF F
  <2>. QED
    BY <1>1, <2>1
<1>6. \A i \in 1..Len(ops) : F[i].op = ops[i]
  BY <1>1, DoneType
<1> HIDE DEF F
<1>7. \A o : In(o, F) <=> Has(o)
  BY <1>5, <1>6 DEF In
<1>8. \A o : AtMostOne(o, F)
  BY <1>2, <1>5, <1>6 DEF AtMostOne
<1>9. TimersExpired(F)
  BY <1>2, <1>5, <1>6 DEF TimersExpired
<1> HIDE DEF Has
<1>. QED
  BY <1>3, <1>5, <1>7, <1>8, <1>9 DEF F, Has

(* Starting reads and writes keeps every operation in flight and adds the  *)
(* new ones, whether they are pending or have failed on a closed socket.   *)
LEMMA StartEffect ==
  ASSUME AsioType, NEW rest \in Seq(Completions), NEW ops \in Batches,
         Start(ops, rest)
  PROVE  /\ AsioType'
         /\ socket' = socket
         /\ Flight("timer", pending', ready') <=> Flight("timer", pending, rest)
         /\ Exclusive("timer", pending["timer"], rest) =>
              Exclusive("timer", pending'["timer"], ready')
         /\ TimersExpired(rest) => TimersExpired(ready')
         /\ Flight("write", pending', ready') <=>
              Flight("write", pending, rest) \/ ops # <<"read">>
         /\ Exclusive("write", pending["write"], rest)
              /\ (ops # <<"read">> => ~Flight("write", pending, rest)) =>
                Exclusive("write", pending'["write"], ready')
         /\ \E op \in Ops : Flight(op, pending', ready')
<1> DEFINE F == [i \in 1..Len(ops) |-> Done(ops[i], FALSE)]
           Has(o) == \E i \in 1..Len(ops) : ops[i] = o
<1>1. /\ F \in Seq(Completions)
      /\ \A o : In(o, F) <=> Has(o)
      /\ \A o : AtMostOne(o, F)
      /\ TimersExpired(F)
      /\ ~Has("timer") /\ ~Has("connect")
      /\ Has("write") <=> ops # <<"read">>
      /\ Has("read") <=> ops # <<"write">>
  BY BatchFacts
<1>2. \/ /\ socket = "closed" /\ ready' = rest \o F /\ pending' = pending
      \/ /\ socket # "closed"
         /\ ready' = rest
         /\ pending' = [o \in Ops |-> IF Has(o) THEN pending[o] + 1
                                                ELSE pending[o]]
  BY DEF Start
<1>3. socket' = socket
  BY DEF Start
<1>4. <<"read">> # <<"write">>
  OBVIOUS
<1>5. "read" \in Ops /\ "write" \in Ops /\ "timer" \in Ops
  BY DEF Ops
<1>6. \A o \in Ops : pending[o] \in Nat
  BY DEF AsioType
<1> HIDE DEF F, Has
<1>7. CASE socket = "closed" /\ ready' = rest \o F /\ pending' = pending
  <2>1. /\ ready' \in Seq(Completions)
        /\ \A o : In(o, ready') <=> In(o, rest) \/ In(o, F)
        /\ \A o : AtMostOne(o, rest) /\ AtMostOne(o, F)
                    /\ ~(In(o, rest) /\ In(o, F)) => AtMostOne(o, ready')
        /\ TimersExpired(rest) /\ TimersExpired(F) => TimersExpired(ready')
    BY <1>1, <1>7, ConcatQueue
  <2>2. AsioType'
    BY <1>3, <1>7, <2>1 DEF AsioType
  <2>3. \E op \in Ops : Flight(op, pending', ready')
    BY <1>1, <1>4, <1>5, <2>1 DEF Flight
  <2>. QED
    BY <1>1, <1>3, <1>6, <1>7, <2>1, <2>2, <2>3 DEF Flight, Exclusive
<1>8. CASE /\ socket # "closed"
           /\ ready' = rest
           /\ pending' = [o \in Ops |-> IF Has(o) THEN pending[o] + 1
                                                  ELSE pending[o]]
  <2>1. /\ pending' \in [Ops -> Nat]
        /\ \A o \in Ops : pending'[o] = IF Has(o) THEN pending[o] + 1
                                                   ELSE pending[o]
    BY <1>6, <1>8
  <2>2. AsioType'
    BY <1>3, <1>8, <2>1 DEF AsioType
  <2>3. \E op \in Ops : Flight(op, pending', ready')
    BY <1>1, <1>4, <1>5, <1>6, <2>1 DEF Flight
  <2>4. pending'["timer"] = pending["timer"]
    BY <1>1, <1>5, <2>1
  <2>5. pending'["write"] = IF ops # <<"read">> THEN pending["write"] + 1
                                               ELSE pending["write"]
    BY <1>1, <1>5, <2>1
  <2>. QED
    BY <1>3, <1>5, <1>6, <1>8, <2>2, <2>3, <2>4, <2>5 DEF Flight, Exclusive
<1>. QED
  BY <1>2, <1>7, <1>8

(* Giving a connection up, or returning because that has been done.        *)
LEMMA DelayEffect ==
  ASSUME AsioType, is_reconnecting \in BOOLEAN,
         NEW rest \in Seq(Completions), delay_connect(rest)
  PROVE  /\ AsioType'
         /\ is_reconnecting' = TRUE
         /\ Flight("write", pending', ready') <=> Flight("write", pending, rest)
         /\ Exclusive("write", pending["write"], rest) =>
              Exclusive("write", pending'["write"], ready')
         /\ (is_reconnecting =>
                Flight("timer", pending, rest) /\ socket = "closed") =>
              Flight("timer", pending', ready') /\ socket' = "closed"
         /\ (~is_reconnecting => ~Flight("timer", pending, rest)) =>
              /\ Exclusive("timer", pending["timer"], rest) =>
                   Exclusive("timer", pending'["timer"], ready')
              /\ TimersExpired(rest) => TimersExpired(ready')
<1>1. /\ "read" \in Ops /\ "write" \in Ops /\ "timer" \in Ops
      /\ pending \in [Ops -> Nat]
      /\ \A o \in Ops : pending[o] \in Nat
  BY DEF AsioType, Ops
<1>2. CASE is_reconnecting
  BY <1>2 DEF delay_connect, AsioType
<1>3. CASE ~is_reconnecting
  <2> DEFINE T == Failures("timer", pending["timer"])
             RA == rest \o Aborted
  <2>1. /\ is_reconnecting' = TRUE /\ socket' = "closed"
        /\ pending' = [o \in Ops |-> IF o = "timer" THEN 1 ELSE 0]
        /\ ready' = RA \o T
    BY <1>3 DEF delay_connect
  <2>2. /\ T \in Seq(Completions)
        /\ \A o : In(o, T) <=> o = "timer" /\ pending["timer"] > 0
        /\ AtMostOne("write", T)
        /\ pending["timer"] = 0 => AtMostOne("timer", T) /\ TimersExpired(T)
    <3>1. pending["timer"] \in Nat
      BY <1>1
    <3>2. /\ T \in Seq(Completions)
          /\ \A o : In(o, T) <=> o = "timer" /\ pending["timer"] > 0
          /\ \A o : pending["timer"] <= 1 \/ o # "timer" => AtMostOne(o, T)
          /\ pending["timer"] = 0 => TimersExpired(T)
      BY <1>1, <3>1, FailuresQueue
    <3>. QED
      BY <3>1, <3>2
  <2>3. /\ RA \in Seq(Completions)
        /\ \A o : In(o, RA) <=> In(o, rest) \/ In(o, Aborted)
        /\ \A o : AtMostOne(o, rest) /\ AtMostOne(o, Aborted)
                    /\ ~(In(o, rest) /\ In(o, Aborted)) => AtMostOne(o, RA)
        /\ TimersExpired(rest) => TimersExpired(RA)
    BY <1>1, AbortedQueue, ConcatQueue
  <2> HIDE DEF T, RA
  <2>4. /\ ready' \in Seq(Completions)
        /\ \A o : In(o, ready') <=> In(o, RA) \/ In(o, T)
        /\ \A o : AtMostOne(o, RA) /\ AtMostOne(o, T)
                    /\ ~(In(o, RA) /\ In(o, T)) => AtMostOne(o, ready')
        /\ TimersExpired(RA) /\ TimersExpired(T) => TimersExpired(ready')
    BY <2>1, <2>2, <2>3, ConcatQueue
  <2>5. pending' \in [Ops -> Nat] /\ pending'["timer"] = 1
          /\ pending'["write"] = 0
    BY <2>1, <1>1
  <2>6. AsioType'
    BY <2>1, <2>4, <2>5 DEF AsioType
  <2>7. /\ In("write", Aborted) <=> pending["write"] > 0
        /\ ~In("timer", Aborted)
        /\ pending["write"] <= 1 => AtMostOne("write", Aborted)
        /\ AtMostOne("timer", Aborted)
    BY <1>1, AbortedQueue
  <2>8. /\ In("write", ready') <=> In("write", rest) \/ pending["write"] > 0
        /\ In("timer", ready') <=> In("timer", rest) \/ pending["timer"] > 0
    BY <2>2, <2>3, <2>4, <2>7
  <2>9. Exclusive("write", pending["write"], rest) =>
          Exclusive("write", pending'["write"], ready')
    BY <1>1, <2>2, <2>3, <2>4, <2>5, <2>7 DEF Exclusive
  <2>10. ~Flight("timer", pending, rest) =>
           /\ Exclusive("timer", pending["timer"], rest) =>
                Exclusive("timer", pending'["timer"], ready')
           /\ TimersExpired(rest) => TimersExpired(ready')
    BY <1>1, <2>2, <2>3, <2>4, <2>5, <2>7, <2>8 DEF Exclusive, Flight
  <2>. QED
    BY <1>1, <1>3, <2>1, <2>5, <2>6, <2>8, <2>9, <2>10 DEF Flight
<1>. QED
  BY <1>2, <1>3

(* A new connection aborts what was pending on the socket.                 *)
LEMMA ConnectEffect ==
  ASSUME AsioType, NEW rest \in Seq(Completions), do_connect(rest)
  PROVE  /\ AsioType'
         /\ is_reconnecting' = FALSE
         /\ Flight("connect", pending', ready')
         /\ Flight("write", pending', ready') <=> Flight("write", pending, rest)
         /\ Exclusive("write", pending["write"], rest) =>
              Exclusive("write", pending'["write"], ready')
         /\ Flight("timer", pending', ready') <=> Flight("timer", pending, rest)
         /\ Exclusive("timer", pending["timer"], rest) =>
              Exclusive("timer", pending'["timer"], ready')
         /\ TimersExpired(rest) => TimersExpired(ready')
<1>1. /\ "connect" \in Ops /\ "write" \in Ops /\ "timer" \in Ops
      /\ pending \in [Ops -> Nat]
      /\ \A o \in Ops : pending[o] \in Nat
  BY DEF AsioType, Ops
<1>2. /\ socket' = "connecting" /\ is_reconnecting' = FALSE
      /\ ready' = rest \o Aborted
  BY DEF do_connect
<1>3. /\ pending' \in [Ops -> Nat]
      /\ pending'["connect"] = 1
      /\ pending'["write"] = 0
      /\ pending'["timer"] = pending["timer"]
  BY <1>1 DEF do_connect
<1>4. /\ Aborted \in Seq(Completions)
      /\ In("write", Aborted) <=> pending["write"] > 0
      /\ ~In("timer", Aborted)
      /\ pending["write"] <= 1 => AtMostOne("write", Aborted)
      /\ AtMostOne("timer", Aborted)
      /\ TimersExpired(Aborted)
  BY <1>1, AbortedQueue
<1>5. /\ ready' \in Seq(Completions)
      /\ \A o : In(o, ready') <=> In(o, rest) \/ In(o, Aborted)
      /\ \A o : AtMostOne(o, rest) /\ AtMostOne(o, Aborted)
                  /\ ~(In(o, rest) /\ In(o, Aborted)) => AtMostOne(o, ready')
      /\ TimersExpired(rest) => TimersExpired(ready')
  BY <1>2, <1>4, ConcatQueue
<1>6. AsioType'
  BY <1>2, <1>3, <1>5 DEF AsioType
<1>7. Exclusive("write", pending["write"], rest) =>
        Exclusive("write", pending'["write"], ready')
  BY <1>1, <1>3, <1>4, <1>5 DEF Exclusive
<1>8. Exclusive("timer", pending["timer"], rest) =>
        Exclusive("timer", pending'["timer"], ready')
  BY <1>1, <1>3, <1>4, <1>5 DEF Exclusive
<1>. QED
  BY <1>1, <1>2, <1>3, <1>4, <1>5, <1>6, <1>7, <1>8 DEF Flight

(* A completion moves an operation from pending to ready.                  *)
LEMMA CompleteEffect ==
  ASSUME pending \in [Ops -> Nat], ready \in Seq(Completions),
         NEW op \in Ops, NEW c \in Completions, c.op = op, Complete(op, c)
  PROVE  /\ pending' \in [Ops -> Nat]
         /\ ready' \in Seq(Completions)
         /\ \A o \in Ops : pending'[o] <= pending[o]
         /\ \A o \in Ops : Flight(o, pending', ready') <=> InFlight(o)
         /\ \A o \in Ops : Exclusive(o, pending[o], ready) =>
                           Exclusive(o, pending'[o], ready')
         /\ TimersExpired(ready) /\ (op = "timer" => c.ok) =>
              TimersExpired(ready')
         /\ pending[op] > 0
<1>1. /\ pending[op] > 0
      /\ pending' = [pending EXCEPT ![op] = @ - 1]
      /\ ready' = Append(ready, c)
  BY DEF Complete
<1>2. /\ ready' \in Seq(Completions)
      /\ \A o : In(o, ready') <=> In(o, ready) \/ op = o
      /\ \A o : AtMostOne(o, ready) /\ (op = o => ~In(o, ready)) =>
                AtMostOne(o, ready')
      /\ TimersExpired(ready) /\ (op = "timer" => c.ok) =>
           TimersExpired(ready')
  BY <1>1, AppendQueue
<1>3. /\ pending' \in [Ops -> Nat]
      /\ pending'[op] = pending[op] - 1
      /\ \A o \in Ops : pending[o] \in Nat /\ pending'[o] \in Nat
      /\ \A o \in Ops : o # op => pending'[o] = pending[o]
  BY <1>1
<1>4. \A o \in Ops : pending'[o] <= pending[o]
  BY <1>3
<1>5. ASSUME NEW o \in Ops
      PROVE  Flight(o, pending', ready') <=> InFlight(o)
  BY <1>1, <1>2, <1>3 DEF Flight, InFlight
<1>6. ASSUME NEW o \in Ops, Exclusive(o, pending[o], ready)
      PROVE  Exclusive(o, pending'[o], ready')
  <2>1. CASE o = op
    BY <1>1, <1>2, <1>3, <1>6, <2>1 DEF Exclusive
  <2>2. CASE o # op
    BY <1>2, <1>3, <1>6, <2>2 DEF Exclusive
  <2>. QED
    BY <2>1, <2>2
<1>. QED
  BY <1>1, <1>2, <1>3, <1>4, <1>5, <1>6

(* The queue a handler starts from: its own completion is gone, and with   *)
(* it the only one of its kind where there can be but one.                 *)
LEMMA HandlesEffect ==
  ASSUME ready \in Seq(Completions), pending \in [Ops -> Nat],
         NEW op \in Ops, Handles(op)
  PROVE  /\ Tail(ready) \in Seq(Completions)
         /\ Head(ready) \in Completions
         /\ Head(ready).op = op
         /\ \A o \in Ops : o # op =>
              (Flight(o, pending, Tail(ready)) <=> InFlight(o))
         /\ InFlight(op)
         /\ \A o \in Ops : Exclusive(o, pending[o], ready) =>
              /\ Exclusive(o, pending[o], Tail(ready))
              /\ o = op => ~Flight(o, pending, Tail(ready))
         /\ TimersExpired(ready) => TimersExpired(Tail(ready))
<1>1. ready # << >> /\ Head(ready).op = op
  BY DEF Handles
<1>2. /\ Tail(ready) \in Seq(Completions)
      /\ Head(ready) \in Completions
      /\ \A o : In(o, ready) <=> In(o, Tail(ready)) \/ Head(ready).op = o
      /\ \A o : AtMostOne(o, ready) =>
             /\ AtMostOne(o, Tail(ready))
             /\ Head(ready).op = o => ~In(o, Tail(ready))
      /\ TimersExpired(ready) => TimersExpired(Tail(ready))
  BY <1>1, TailQueue
<1>3. \A o \in Ops : pending[o] \in Nat
  OBVIOUS
<1>4. ASSUME NEW o \in Ops, Exclusive(o, pending[o], ready)
      PROVE  /\ Exclusive(o, pending[o], Tail(ready))
             /\ o = op => ~Flight(o, pending, Tail(ready))
  BY <1>1, <1>2, <1>3, <1>4 DEF Exclusive, Flight
<1>. QED
  BY <1>1, <1>2, <1>4 DEF Flight, InFlight

-----------------------------------------------------------------------------
(* The inductive invariant: the type invariant and the invariants about    *)
(* operations in flight depend on each other.  A write completion may pop  *)
(* the queue because the queue is not empty; the early return of           *)
(* _delay_connect leaves something in flight because a wait is; _write may *)
(* leave the writing to others because a write is in flight.               *)

ClientType ==
  /\ is_reconnecting \in BOOLEAN
  /\ write_queue \in Seq(Requests)
  /\ sequence \in Nat
  /\ rpc_id \in RpcIds \cup {NoId}
  /\ response \in 0..2
  /\ mid_line \in BOOLEAN
  /\ logins \in Nat
  /\ pings \in Nat
  /\ job \in Jobs \cup {NoJob}
  /\ write_failed \in BOOLEAN
  /\ crashed \in BOOLEAN

WriteInv ==
  /\ Exclusive("write", pending["write"], ready)
  /\ Flight("write", pending, ready) => write_queue # << >>
  /\ write_queue # << >> => Flight("write", pending, ready) \/ write_failed

TimerInv ==
  /\ Started /\ is_reconnecting =>
       Flight("timer", pending, ready) /\ socket = "closed"
  /\ MaxLogins = 1 =>
       /\ Exclusive("timer", pending["timer"], ready)
       /\ Flight("timer", pending, ready) => Started /\ is_reconnecting
       /\ TimersExpired(ready)

BusyInv ==
  Started /\ ~crashed /\ ~write_failed =>
    \E op \in Ops : Flight(op, pending, ready)

(* Before the first login() nothing happens.                               *)
StartInv ==
  ~Started => rpc_id = NoId /\ \A op \in Ops : ~Flight(op, pending, ready)

IInv == ClientType /\ AsioType /\ WriteInv /\ TimerInv /\ BusyInv /\ StartInv

(* The inductive invariant is the conjunction of the checked ones.         *)
LEMMA IInvImplies ==
  IInv => TypeOK /\ WriteExclusive /\ OrphanedOnlyByFailure /\ NeverIdle
            /\ ReconnectGuard /\ NoEarlyReconnect
<1> USE DEF IInv
<1>1. \A op : InFlight(op) <=> Flight(op, pending, ready)
  BY DEF InFlight, Flight
<1>2. IInv => TypeOK
  BY DEF ClientType, AsioType, TypeOK
<1>3. IInv => WriteExclusive /\ OrphanedOnlyByFailure
  BY <1>1 DEF WriteInv, WriteExclusive, OrphanedOnlyByFailure
<1>4. IInv => NeverIdle
  BY <1>1 DEF BusyInv, NeverIdle
<1>5. IInv => ReconnectGuard /\ NoEarlyReconnect
  BY <1>1 DEF TimerInv, ReconnectGuard, NoEarlyReconnect
<1>. QED
  BY <1>2, <1>3, <1>4, <1>5

LEMMA InitIInv == Init => IInv
<1> SUFFICES ASSUME Init PROVE IInv
  OBVIOUS
<1>1. /\ ready = << >> /\ ready \in Seq(Completions) /\ Len(ready) = 0
      /\ pending = [o \in Ops |-> 0] /\ pending \in [Ops -> Nat]
      /\ logins = 0 /\ write_queue = << >> /\ write_queue \in Seq(Requests)
  BY DEF Init
<1>2. \A o \in Ops : ~Flight(o, pending, ready) /\ pending[o] = 0
  BY <1>1 DEF Flight, In
<1>3. \A o \in Ops : Exclusive(o, pending[o], ready)
  BY <1>1, <1>2 DEF Exclusive, AtMostOne
<1>4. TimersExpired(ready)
  BY <1>1 DEF TimersExpired
<1>5. "write" \in Ops /\ "timer" \in Ops
  BY DEF Ops
<1>6. AsioType
  BY <1>1, <1>2 DEF Init, AsioType
<1>8. ClientType
  <2>1. response \in 0..2 /\ sequence \in Nat /\ logins \in Nat /\ pings \in Nat
    BY DEF Init
  <2>2. /\ is_reconnecting \in BOOLEAN /\ mid_line \in BOOLEAN
        /\ write_failed \in BOOLEAN /\ crashed \in BOOLEAN
        /\ rpc_id \in RpcIds \cup {NoId} /\ job \in Jobs \cup {NoJob}
    BY Zenon DEF Init
  <2>. QED
    BY <1>1, <2>1, <2>2 DEF ClientType
<1>7. WriteInv /\ TimerInv /\ BusyInv
  BY <1>1, <1>2, <1>3, <1>4, <1>5 DEF WriteInv, TimerInv, BusyInv, Started
<1>9. StartInv
  BY <1>2 DEF StartInv, Init
<1>. QED
  BY <1>6, <1>7, <1>8, <1>9 DEF IInv

(* _write: the queue is not empty afterwards, and its write is in flight   *)
(* unless an earlier one has failed.                                       *)
LEMMA WriteEffect ==
  ASSUME AsioType, write_queue \in Seq(Requests), write_failed \in BOOLEAN,
         NEW rest \in Seq(Completions), NEW request \in Requests,
         Exclusive("write", pending["write"], rest),
         Flight("write", pending, rest) => write_queue # << >>,
         write_queue # << >> => Flight("write", pending, rest) \/ write_failed,
         write(request, rest)
  PROVE  /\ AsioType'
         /\ socket' = socket
         /\ write_queue' \in Seq(Requests) /\ write_queue' # << >>
         /\ Exclusive("write", pending'["write"], ready')
         /\ Flight("write", pending', ready') \/ write_failed
         /\ Flight("timer", pending', ready') <=> Flight("timer", pending, rest)
         /\ Exclusive("timer", pending["timer"], rest) =>
              Exclusive("timer", pending'["timer"], ready')
         /\ TimersExpired(rest) => TimersExpired(ready')
<1>1. write_queue' \in Seq(Requests) /\ write_queue' # << >>
  BY DEF write
<1>2. CASE write_queue = << >>
  <2>1. Start(<<"write">>, rest) /\ <<"write">> \in Batches
    BY <1>2 DEF write, Batches
  <2>2. <<"write">> # <<"read">>
    OBVIOUS
  <2>. QED
    BY <1>1, <1>2, <2>1, <2>2, StartEffect
<1>3. CASE write_queue # << >>
  <2>1. ready' = rest /\ socket' = socket /\ pending' = pending
    BY <1>3 DEF write
  <2>. QED
    BY <1>1, <1>3, <2>1 DEF AsioType
<1>. QED
  BY <1>2, <1>3

-----------------------------------------------------------------------------
(* Every action preserves the invariant.                                   *)

LEMMA OpsFacts ==
  "connect" \in Ops /\ "write" \in Ops /\ "read" \in Ops /\ "timer" \in Ops
BY DEF Ops

(* No handler runs before the first login().                               *)
LEMMA HandlesStarted ==
  ASSUME IInv, NEW op \in Ops, Handles(op)
  PROVE  Started
<1>1. ready \in Seq(Completions) /\ pending \in [Ops -> Nat]
  BY DEF IInv, AsioType
<1>2. InFlight(op)
  BY <1>1, HandlesEffect
<1>. QED
  BY <1>2 DEF IInv, StartInv, InFlight, Flight

(* A handler that gives the connection up and changes no client variable   *)
(* but the flag keeps the invariants about timer and activity.             *)
LEMMA DelayTimer ==
  ASSUME IInv, NEW op \in Ops, op # "timer", Handles(op),
         delay_connect(Tail(ready)), logins' = logins
  PROVE  AsioType' /\ TimerInv' /\ StartInv' /\ is_reconnecting' \in BOOLEAN
           /\ \E o \in Ops : Flight(o, pending', ready')
<1>1. AsioType /\ ClientType /\ TimerInv
  BY DEF IInv
<1>2. ready \in Seq(Completions) /\ pending \in [Ops -> Nat]
        /\ is_reconnecting \in BOOLEAN
  BY <1>1 DEF AsioType, ClientType
<1>3. /\ Tail(ready) \in Seq(Completions)
      /\ Flight("timer", pending, Tail(ready)) <=> InFlight("timer")
      /\ Exclusive("timer", pending["timer"], ready) =>
           Exclusive("timer", pending["timer"], Tail(ready))
      /\ TimersExpired(ready) => TimersExpired(Tail(ready))
  BY <1>2, HandlesEffect, OpsFacts
<1>4. InFlight("timer") <=> Flight("timer", pending, ready)
  BY DEF InFlight, Flight
<1>0. Started
  BY <1>2, HandlesStarted
<1>5. is_reconnecting =>
        Flight("timer", pending, Tail(ready)) /\ socket = "closed"
  BY <1>0, <1>1, <1>3, <1>4 DEF TimerInv
<1>6. /\ AsioType' /\ is_reconnecting' = TRUE
      /\ Flight("timer", pending', ready') /\ socket' = "closed"
      /\ (~is_reconnecting => ~Flight("timer", pending, Tail(ready))) =>
              /\ Exclusive("timer", pending["timer"], Tail(ready)) =>
                   Exclusive("timer", pending'["timer"], ready')
              /\ TimersExpired(Tail(ready)) => TimersExpired(ready')
  BY <1>1, <1>2, <1>3, <1>5, DelayEffect
<1>7. MaxLogins = 1 => (~is_reconnecting => ~Flight("timer", pending, Tail(ready)))
  BY <1>1, <1>3, <1>4 DEF TimerInv
<1>8. Started'
  BY <1>0 DEF Started
<1>9. TimerInv'
  BY <1>1, <1>3, <1>6, <1>7, <1>8 DEF TimerInv
<1>. QED
  BY <1>6, <1>8, <1>9, OpsFacts DEF StartInv

(* A handler that starts reads and writes keeps the timer's invariant.     *)
LEMMA StartTimer ==
  ASSUME IInv, NEW op \in Ops, op # "timer", Handles(op),
         NEW ops \in Batches, Start(ops, Tail(ready)),
         UNCHANGED <<logins, is_reconnecting>>
  PROVE  AsioType' /\ TimerInv' /\ StartInv'
           /\ \E o \in Ops : Flight(o, pending', ready')
<1>1. AsioType /\ TimerInv
  BY DEF IInv
<1>2. ready \in Seq(Completions) /\ pending \in [Ops -> Nat]
  BY <1>1 DEF AsioType
<1>3. /\ Tail(ready) \in Seq(Completions)
      /\ Flight("timer", pending, Tail(ready)) <=> InFlight("timer")
      /\ Exclusive("timer", pending["timer"], ready) =>
           Exclusive("timer", pending["timer"], Tail(ready))
      /\ TimersExpired(ready) => TimersExpired(Tail(ready))
  BY <1>2, HandlesEffect, OpsFacts
<1>4. InFlight("timer") <=> Flight("timer", pending, ready)
  BY DEF InFlight, Flight
<1>5. /\ AsioType' /\ socket' = socket
      /\ Flight("timer", pending', ready') <=>
           Flight("timer", pending, Tail(ready))
      /\ Exclusive("timer", pending["timer"], Tail(ready)) =>
              Exclusive("timer", pending'["timer"], ready')
      /\ TimersExpired(Tail(ready)) => TimersExpired(ready')
      /\ \E o \in Ops : Flight(o, pending', ready')
  BY <1>1, <1>3, StartEffect
<1>6. Started' = Started /\ is_reconnecting' = is_reconnecting
  BY DEF Started
<1>7. TimerInv'
  BY <1>1, <1>3, <1>4, <1>5, <1>6 DEF TimerInv
<1>8. StartInv'
  BY <1>2, <1>6, HandlesStarted DEF StartInv
<1>. QED
  BY <1>5, <1>7, <1>8

LEMMA IInvFacts ==
  ASSUME IInv
  PROVE  /\ ready \in Seq(Completions) /\ pending \in [Ops -> Nat]
         /\ \A o : InFlight(o) <=> Flight(o, pending, ready)
         /\ Exclusive("write", pending["write"], ready)
BY DEF IInv, AsioType, InFlight, Flight, WriteInv

(* A handler that gives the connection up keeps the invariant: it leaves   *)
(* the requests queued, and a failed write is on record.                   *)
LEMMA DelayIInv ==
  ASSUME IInv, NEW op \in Ops, op # "timer", Handles(op),
         delay_connect(Tail(ready)), ClientType',
         UNCHANGED <<logins, write_queue>>,
         IF op = "write" THEN write_failed' = TRUE
                         ELSE write_failed' = write_failed
  PROVE  IInv'
<1>1. AsioType' /\ TimerInv' /\ StartInv'
           /\ \E o \in Ops : Flight(o, pending', ready')
  BY DelayTimer
<1>2. AsioType /\ is_reconnecting \in BOOLEAN
  BY DEF IInv, ClientType
<1>3. /\ Tail(ready) \in Seq(Completions)
      /\ op # "write" => (Flight("write", pending, Tail(ready))
                            <=> Flight("write", pending, ready))
      /\ op = "write" => ~Flight("write", pending, Tail(ready))
      /\ Exclusive("write", pending["write"], Tail(ready))
  BY IInvFacts, HandlesEffect, OpsFacts
<1>4. /\ Flight("write", pending', ready') <=>
           Flight("write", pending, Tail(ready))
      /\ Exclusive("write", pending'["write"], ready')
  BY <1>2, <1>3, DelayEffect
<1>5. WriteInv'
  <2>1. CASE op = "write"
    BY <1>3, <1>4, <2>1 DEF WriteInv
  <2>2. CASE op # "write"
    BY <1>3, <1>4, <2>2 DEF IInv, WriteInv
  <2>. QED
    BY <2>1, <2>2
<1>6. BusyInv'
  BY <1>1 DEF BusyInv
<1>. QED
  BY <1>1, <1>5, <1>6 DEF IInv

(* So does a handler of a read that reads again.                           *)
LEMMA ReadIInv ==
  ASSUME IInv, Handles("read"), Start(<<"read">>, Tail(ready)), ClientType',
         UNCHANGED <<logins, is_reconnecting, write_queue, write_failed>>
  PROVE  IInv'
<1>0. <<"read">> \in Batches
  BY DEF Batches
<1>1. AsioType' /\ TimerInv' /\ StartInv'
           /\ \E o \in Ops : Flight(o, pending', ready')
  BY <1>0, StartTimer, OpsFacts
<1>2. AsioType
  BY DEF IInv
<1>3. /\ Tail(ready) \in Seq(Completions)
      /\ Flight("write", pending, Tail(ready)) <=> Flight("write", pending, ready)
      /\ Exclusive("write", pending["write"], Tail(ready))
  BY IInvFacts, HandlesEffect, OpsFacts
<1>4. /\ Flight("write", pending', ready') <=>
           Flight("write", pending, Tail(ready))
      /\ Exclusive("write", pending'["write"], ready')
  BY <1>0, <1>2, <1>3, StartEffect
<1>5. WriteInv'
  BY <1>3, <1>4 DEF IInv, WriteInv
<1>6. BusyInv'
  BY <1>1 DEF BusyInv
<1>. QED
  BY <1>1, <1>5, <1>6 DEF IInv

(* A line that a read handed over is one of the pool's lines.              *)
LEMMA LineType ==
  ASSUME IInv, Handles("read"), Len(Head(ready).data.lines) = 1
  PROVE  Head(ready).data.lines[1] \in MessageType
<1>1. Head(ready) \in Completions
  BY IInvFacts, HandlesEffect, OpsFacts
<1>2. Head(ready).data.lines \in Seq(Messages)
  BY <1>1 DEF Completions, Chunks
<1>3. Head(ready).data.lines[1] \in Messages
  BY <1>2
<1>. QED
  BY <1>3, MessagesAssumption

LEMMA on_connect_IInv ==
  ASSUME IInv, on_connect
  PROVE  IInv'
<1>1. Handles("connect") /\ UNCHANGED <<rpc_id, response, mid_line, history>>
  BY DEF on_connect
<1>2. /\ Tail(ready) \in Seq(Completions)
      /\ Flight("write", pending, Tail(ready)) <=> Flight("write", pending, ready)
      /\ Flight("timer", pending, Tail(ready)) <=> Flight("timer", pending, ready)
      /\ Exclusive("write", pending["write"], Tail(ready))
      /\ Exclusive("timer", pending["timer"], ready) =>
           Exclusive("timer", pending["timer"], Tail(ready))
      /\ TimersExpired(ready) => TimersExpired(Tail(ready))
  BY <1>1, IInvFacts, HandlesEffect, OpsFacts
<1>3. Started /\ Started'
  BY <1>1, HandlesStarted, OpsFacts DEF Started, history
<1>4. CASE Head(ready).ok /\ socket # "closed"
  <2> DEFINE request == [method |-> "login", id |-> 1]
  <2>1. write(request, Tail(ready)) /\ sequence' = 1 /\ UNCHANGED is_reconnecting
    BY <1>4 DEF on_connect, do_login
  <2>2. request \in Requests
    BY DEF Requests
  <2> HIDE DEF request
  <2>3. /\ AsioType /\ write_queue \in Seq(Requests)
        /\ write_failed \in BOOLEAN
        /\ Flight("write", pending, Tail(ready)) => write_queue # << >>
        /\ write_queue # << >> =>
             Flight("write", pending, Tail(ready)) \/ write_failed
    BY <1>2 DEF IInv, ClientType, WriteInv
  <2>4. /\ AsioType'
        /\ socket' = socket
        /\ write_queue' \in Seq(Requests) /\ write_queue' # << >>
        /\ Exclusive("write", pending'["write"], ready')
        /\ Flight("write", pending', ready') \/ write_failed
        /\ Flight("timer", pending', ready') <=>
             Flight("timer", pending, Tail(ready))
        /\ Exclusive("timer", pending["timer"], Tail(ready)) =>
              Exclusive("timer", pending'["timer"], ready')
        /\ TimersExpired(Tail(ready)) => TimersExpired(ready')
    BY <1>2, <2>1, <2>2, <2>3, WriteEffect
  <2>5. ClientType'
    BY <1>1, <2>1, <2>4 DEF IInv, ClientType, history, outcome
  <2>6. WriteInv'
    BY <1>1, <2>4 DEF WriteInv, history, outcome
  <2>7. TimerInv'
    BY <1>1, <1>2, <1>3, <2>1, <2>4 DEF IInv, TimerInv
  <2>8. BusyInv' /\ StartInv'
    BY <1>1, <1>3, <2>4, OpsFacts DEF BusyInv, StartInv, history, outcome
  <2>. QED
    BY <2>4, <2>5, <2>6, <2>7, <2>8 DEF IInv
<1>5. CASE ~(Head(ready).ok /\ socket # "closed")
  <2>1. delay_connect(Tail(ready)) /\ UNCHANGED <<write_queue, sequence>>
    BY <1>5 DEF on_connect
  <2>2. is_reconnecting' \in BOOLEAN
    BY <1>1, <2>1, DelayTimer, OpsFacts DEF history
  <2>3. ClientType'
    BY <1>1, <2>1, <2>2 DEF IInv, ClientType, history, outcome
  <2>. QED
    BY <1>1, <2>1, <2>3, DelayIInv, OpsFacts DEF history, outcome
<1>. QED
  BY <1>4, <1>5

LEMMA on_write_IInv ==
  ASSUME IInv, on_write
  PROVE  IInv'
<1>1. Handles("write") /\ UNCHANGED <<sequence, rpc_id, response, mid_line,
                                      logins, pings, job, crashed>>
  BY DEF on_write
<1>2. /\ Tail(ready) \in Seq(Completions)
      /\ InFlight("write")
      /\ ~Flight("write", pending, Tail(ready))
      /\ Exclusive("write", pending["write"], Tail(ready))
  BY <1>1, IInvFacts, HandlesEffect, OpsFacts
<1>3. write_queue \in Seq(Requests) /\ write_queue # << >>
  BY <1>2, IInvFacts DEF IInv, ClientType, WriteInv
<1>4. CASE Head(ready).ok
  <2>1. /\ write_queue' = Tail(write_queue)
        /\ Start(AfterWrite, Tail(ready))
        /\ UNCHANGED <<is_reconnecting, write_failed>>
    BY <1>4 DEF on_write
  <2>2. /\ AfterWrite \in Batches
        /\ AfterWrite # <<"read">> <=> Len(write_queue) > 1
    BY DEF AfterWrite, Batches
  <2>3. /\ write_queue' \in Seq(Requests)
        /\ write_queue' # << >> <=> Len(write_queue) > 1
    BY <1>3, <2>1
  <2>4. AsioType' /\ TimerInv' /\ StartInv'
           /\ \E o \in Ops : Flight(o, pending', ready')
    BY <1>1, <2>1, <2>2, StartTimer, OpsFacts
  <2>5. AsioType
    BY DEF IInv
  <2>6. /\ Flight("write", pending', ready') <=> Len(write_queue) > 1
        /\ Exclusive("write", pending'["write"], ready')
    BY <1>2, <2>1, <2>2, <2>5, StartEffect
  <2>7. ClientType'
    BY <1>1, <2>1, <2>3 DEF IInv, ClientType
  <2>8. WriteInv'
    BY <2>3, <2>6 DEF WriteInv
  <2>9. BusyInv'
    BY <2>4 DEF BusyInv
  <2>. QED
    BY <2>4, <2>7, <2>8, <2>9 DEF IInv
<1>5. CASE ~Head(ready).ok
  <2>1. delay_connect(Tail(ready)) /\ write_failed' = TRUE
          /\ UNCHANGED write_queue
    BY <1>5 DEF on_write
  <2>2. is_reconnecting' \in BOOLEAN
    BY <1>1, <2>1, DelayTimer, OpsFacts
  <2>3. ClientType'
    BY <1>1, <2>1, <2>2 DEF IInv, ClientType
  <2>. QED
    BY <1>1, <2>1, <2>3, DelayIInv, OpsFacts
<1>. QED
  BY <1>4, <1>5

LEMMA on_message_IInv ==
  ASSUME IInv, read_more \/ on_message
  PROVE  IInv'
<1>1. CASE read_more
  <2>1. /\ Handles("read") /\ Start(<<"read">>, Tail(ready))
        /\ UNCHANGED <<is_reconnecting, write_queue, sequence, rpc_id, mid_line,
                       history>>
    BY <1>1 DEF read_more
  <2>2. response' \in 0..2
    BY <1>1 DEF read_more, IInv, ClientType
  <2>3. ClientType'
    BY <2>1, <2>2 DEF IInv, ClientType, history, outcome
  <2>. QED
    BY <2>1, <2>3, ReadIInv DEF history, outcome
<1>2. CASE read_failed
  <2>1. /\ Handles("read") /\ delay_connect(Tail(ready))
        /\ UNCHANGED <<write_queue, sequence, rpc_id, response, mid_line,
                       history>>
    BY <1>2 DEF read_failed
  <2>2. is_reconnecting' \in BOOLEAN
    BY <2>1, DelayTimer, OpsFacts DEF history
  <2>3. ClientType'
    BY <2>1, <2>2 DEF IInv, ClientType, history, outcome
  <2>. QED
    BY <2>1, <2>3, DelayIInv, OpsFacts DEF history, outcome
<1>3. CASE bad_message
  <2>1. /\ Handles("read") /\ crashed' = TRUE /\ response' = 0
        /\ ready' = Tail(ready)
        /\ UNCHANGED <<is_reconnecting, write_queue, sequence, rpc_id, socket,
                       pending, mid_line, logins, pings, job, write_failed>>
    BY <1>3 DEF bad_message
  <2>2. /\ Tail(ready) \in Seq(Completions)
        /\ Flight("write", pending, Tail(ready)) <=>
             Flight("write", pending, ready)
        /\ Flight("timer", pending, Tail(ready)) <=>
             Flight("timer", pending, ready)
        /\ Exclusive("write", pending["write"], Tail(ready))
        /\ Exclusive("timer", pending["timer"], ready) =>
             Exclusive("timer", pending["timer"], Tail(ready))
        /\ TimersExpired(ready) => TimersExpired(Tail(ready))
    BY <2>1, IInvFacts, HandlesEffect, OpsFacts
  <2>3. Started /\ Started'
    BY <2>1, HandlesStarted, OpsFacts DEF Started
  <2>4. ClientType'
    BY <2>1 DEF IInv, ClientType
  <2>5. AsioType' /\ WriteInv'
    BY <2>1, <2>2 DEF IInv, AsioType, WriteInv
  <2>6. TimerInv'
    BY <2>1, <2>2, <2>3 DEF IInv, TimerInv
  <2>7. BusyInv' /\ StartInv'
    BY <2>1, <2>3 DEF BusyInv, StartInv
  <2>. QED
    BY <2>4, <2>5, <2>6, <2>7 DEF IInv
<1>4. CASE good_message
  <2> DEFINE m == Head(ready).data.lines[1]
  <2>1. /\ Handles("read") /\ Len(Head(ready).data.lines) = 1 /\ response' = 0
        /\ rpc_id' = IF LoginAccepted(m) THEN m.rpcId ELSE rpc_id
        /\ job' = IF JobReported(m) THEN m.job ELSE job
        /\ UNCHANGED <<write_queue, sequence, mid_line, logins, pings,
                       write_failed, crashed>>
    BY <1>4 DEF good_message, OneLine
  <2>2. \/ delay_connect(Tail(ready))
        \/ Start(<<"read">>, Tail(ready)) /\ UNCHANGED is_reconnecting
    BY <1>4 DEF good_message
  <2>3. m \in MessageType
    BY <2>1, LineType
  <2> HIDE DEF m
  <2>4. rpc_id' \in RpcIds \cup {NoId} /\ job' \in Jobs \cup {NoJob}
    BY <2>1, <2>3 DEF IInv, ClientType, MessageType, JobReported
  <2>5. is_reconnecting' \in BOOLEAN
    BY <2>1, <2>2, DelayTimer, OpsFacts DEF IInv, ClientType
  <2>6. ClientType'
    BY <2>1, <2>4, <2>5 DEF IInv, ClientType
  <2>. QED
    BY <2>1, <2>2, <2>6, DelayIInv, ReadIInv, OpsFacts
<1>. QED
  BY <1>1, <1>2, <1>3, <1>4 DEF on_message

(* A new connection is made by login() and when the wait is over.          *)
LEMMA connect_IInv ==
  ASSUME IInv, login \/ on_timer
  PROVE  IInv'
<1>0. AsioType /\ ready \in Seq(Completions) /\ pending \in [Ops -> Nat]
  BY DEF IInv, AsioType
<1>1. PICK rest \in Seq(Completions) :
        /\ do_connect(rest)
        /\ Flight("write", pending, rest) <=> Flight("write", pending, ready)
        /\ Exclusive("write", pending["write"], rest)
        /\ MaxLogins = 1 => /\ ~Flight("timer", pending, rest)
                            /\ Exclusive("timer", pending["timer"], rest)
                            /\ TimersExpired(rest)
  <2>1. CASE login
    <3>1. MaxLogins = 1 => ~Started
      BY <2>1, BoundsAssumption DEF login, Started, IInv, ClientType
    <3>2. /\ Exclusive("write", pending["write"], ready)
          /\ MaxLogins = 1 => /\ ~Flight("timer", pending, ready)
                              /\ Exclusive("timer", pending["timer"], ready)
                              /\ TimersExpired(ready)
      BY <3>1 DEF IInv, WriteInv, TimerInv
    <3>. QED
      BY <1>0, <2>1, <3>2 DEF login
  <2>2. CASE on_timer
    <3>1. Handles("timer") /\ do_connect(Tail(ready))
      BY <2>2 DEF on_timer
    <3>2. /\ Tail(ready) \in Seq(Completions)
          /\ Flight("write", pending, Tail(ready)) <=>
               Flight("write", pending, ready)
          /\ Exclusive("write", pending["write"], Tail(ready))
          /\ Exclusive("timer", pending["timer"], ready) =>
               /\ Exclusive("timer", pending["timer"], Tail(ready))
               /\ ~Flight("timer", pending, Tail(ready))
          /\ TimersExpired(ready) => TimersExpired(Tail(ready))
      BY <3>1, IInvFacts, HandlesEffect, OpsFacts
    <3>. QED
      BY <3>1, <3>2 DEF IInv, TimerInv
  <2>. QED
    BY <2>1, <2>2
<1>2. /\ AsioType'
      /\ is_reconnecting' = FALSE
      /\ Flight("connect", pending', ready')
      /\ Flight("write", pending', ready') <=> Flight("write", pending, rest)
      /\ Exclusive("write", pending'["write"], ready')
      /\ Flight("timer", pending', ready') <=> Flight("timer", pending, rest)
      /\ Exclusive("timer", pending["timer"], rest) =>
           Exclusive("timer", pending'["timer"], ready')
      /\ TimersExpired(rest) => TimersExpired(ready')
  BY <1>0, <1>1, ConnectEffect
<1>3. /\ UNCHANGED <<write_queue, sequence, rpc_id, response, mid_line, pings,
                     job, write_failed, crashed>>
      /\ logins' = logins + 1 \/ logins' = logins
  BY DEF login, on_timer, history, outcome
<1>4. Started'
  <2>1. CASE login
    BY <2>1 DEF login, Started, IInv, ClientType
  <2>2. CASE on_timer
    BY <2>2, HandlesStarted, OpsFacts DEF on_timer, history, Started
  <2>. QED
    BY <2>1, <2>2
<1>5. ClientType'
  <2>1. is_reconnecting' \in BOOLEAN
    BY <1>2
  <2>. QED
    BY <1>3, <2>1 DEF IInv, ClientType
<1>6. WriteInv'
  BY <1>1, <1>2, <1>3 DEF IInv, WriteInv
<1>7. TimerInv'
  BY <1>1, <1>2 DEF TimerInv
<1>8. BusyInv' /\ StartInv'
  BY <1>2, <1>4, OpsFacts DEF BusyInv, StartInv
<1>. QED
  BY <1>2, <1>5, <1>6, <1>7, <1>8 DEF IInv

LEMMA do_ping_IInv ==
  ASSUME IInv, do_ping
  PROVE  IInv'
<1>1. /\ write([method |-> "keepalived", id |-> sequence], ready)
      /\ sequence' = sequence + 1 /\ pings' = pings + 1 /\ rpc_id # NoId
      /\ UNCHANGED <<is_reconnecting, rpc_id, response, mid_line, logins, job,
                     write_failed, crashed>>
  BY DEF do_ping, outcome
<1>2. [method |-> "keepalived", id |-> sequence] \in Requests
  BY DEF IInv, ClientType, Requests
<1>3. /\ AsioType /\ write_queue \in Seq(Requests) /\ write_failed \in BOOLEAN
      /\ ready \in Seq(Completions)
      /\ Exclusive("write", pending["write"], ready)
      /\ Flight("write", pending, ready) => write_queue # << >>
      /\ write_queue # << >> => Flight("write", pending, ready) \/ write_failed
  BY DEF IInv, ClientType, WriteInv, AsioType
<1>4. /\ AsioType'
      /\ socket' = socket
      /\ write_queue' \in Seq(Requests) /\ write_queue' # << >>
      /\ Exclusive("write", pending'["write"], ready')
      /\ Flight("write", pending', ready') \/ write_failed
      /\ Flight("timer", pending', ready') <=> Flight("timer", pending, ready)
      /\ Exclusive("timer", pending["timer"], ready) =>
           Exclusive("timer", pending'["timer"], ready')
      /\ TimersExpired(ready) => TimersExpired(ready')
  BY <1>1, <1>2, <1>3, WriteEffect
<1>5. Started /\ Started'
  BY <1>1 DEF IInv, StartInv, Started
<1>6. ClientType'
  BY <1>1, <1>4 DEF IInv, ClientType
<1>7. WriteInv'
  BY <1>1, <1>4 DEF WriteInv
<1>8. TimerInv'
  BY <1>1, <1>4, <1>5 DEF IInv, TimerInv
<1>9. BusyInv' /\ StartInv'
  BY <1>1, <1>4, <1>5, OpsFacts DEF BusyInv, StartInv
<1>. QED
  BY <1>4, <1>6, <1>7, <1>8, <1>9 DEF IInv

(* A completion only moves an operation; it may change the socket's state  *)
(* of an open socket, and where the pool is in its line.                   *)
LEMMA CompleteIInv ==
  ASSUME IInv, NEW op \in Ops, NEW c \in Completions, c.op = op,
         op = "timer" => c.ok, Complete(op, c),
         socket' \in {"closed", "connecting", "connected", "broken"},
         socket # "closed" => socket' # "closed",
         op = "timer" => socket' = socket,
         mid_line' \in BOOLEAN, UNCHANGED <<client, history>>
  PROVE  IInv'
<1>1. /\ pending' \in [Ops -> Nat]
      /\ ready' \in Seq(Completions)
      /\ \A o \in Ops : pending'[o] <= pending[o]
      /\ \A o \in Ops : Flight(o, pending', ready') <=> Flight(o, pending, ready)
      /\ \A o \in Ops : Exclusive(o, pending[o], ready) =>
                        Exclusive(o, pending'[o], ready')
      /\ TimersExpired(ready) => TimersExpired(ready')
      /\ pending[op] > 0
  BY CompleteEffect, IInvFacts
<1>2. UNCHANGED <<is_reconnecting, write_queue, sequence, rpc_id, response,
                  logins, pings, job, write_failed, crashed>>
  BY DEF client, history, outcome
<1>3. socket' = "closed" => socket = "closed"
  OBVIOUS
<1>4. op # "timer" => socket # "closed"
  BY <1>1 DEF IInv, AsioType
<1>5. socket = "closed" => socket' = "closed"
  BY <1>4
<1>6. AsioType'
  <2>1. \A o \in Ops : pending[o] \in Nat /\ pending'[o] \in Nat
    BY <1>1, IInvFacts
  <2>2. socket' = "closed" => \A o \in Ops : o # "timer" => pending'[o] = 0
    BY <1>1, <1>3, <2>1 DEF IInv, AsioType
  <2>. QED
    BY <1>1, <2>2 DEF AsioType
<1>7. Started' = Started
  BY <1>2 DEF Started
<1>8. ClientType'
  BY <1>2 DEF IInv, ClientType
<1>9. WriteInv'
  BY <1>1, <1>2, OpsFacts DEF IInv, WriteInv
<1>10. TimerInv'
  BY <1>1, <1>2, <1>5, <1>7, OpsFacts DEF IInv, TimerInv
<1>11. BusyInv' /\ StartInv'
  BY <1>1, <1>2, <1>7 DEF IInv, BusyInv, StartInv
<1>. QED
  BY <1>6, <1>8, <1>9, <1>10, <1>11 DEF IInv

(* A segment that arrives makes a completion.                              *)
LEMMA SegmentType ==
  ASSUME mid_line \in BOOLEAN, NEW data \in Segments
  PROVE  [op |-> "read", ok |-> TRUE, data |-> data] \in Completions
<1>1. /\ data = [cont |-> data.cont, lines |-> data.lines,
                 open |-> data.open, garbled |-> data.garbled]
      /\ data.cont \in BOOLEAN /\ data.open \in BOOLEAN
      /\ data.garbled \in BOOLEAN
  BY DEF Segments
<1>2. data.lines \in Seq(Messages)
  <2>1. PICK n \in 0..MaxLines : data.lines \in [1..n -> Messages]
    BY DEF Segments
  <2>2. n \in Nat
    BY <2>1, BoundsAssumption
  <2>. QED
    BY <2>1, <2>2
<1>3. data \in Chunks
  BY <1>1, <1>2 DEF Chunks
<1>. QED
  BY <1>3, OpsFacts DEF Completions

LEMMA network_IInv ==
  ASSUME IInv, Network \/ TimerExpire
  PROVE  IInv'
<1>1. /\ socket \in {"closed", "connecting", "connected", "broken"}
      /\ mid_line \in BOOLEAN
  BY DEF IInv, AsioType, ClientType
<1>2. CASE ConnectDone
  <2>1. PICK ok \in BOOLEAN :
          /\ Complete("connect", Done("connect", ok))
          /\ socket' = IF ok THEN "connected" ELSE "broken"
    BY <1>2 DEF ConnectDone
  <2>2. mid_line' \in BOOLEAN /\ UNCHANGED <<client, history>>
    BY <1>2 DEF ConnectDone
  <2>. QED
    BY <2>1, <2>2, CompleteIInv, DoneType, OpsFacts
<1>3. CASE WriteDone
  <2>1. PICK ok \in BOOLEAN : Complete("write", Done("write", ok))
    BY <1>3 DEF WriteDone
  <2>2. UNCHANGED <<socket, mid_line>> /\ UNCHANGED <<client, history>>
    BY <1>3 DEF WriteDone
  <2>. QED
    BY <1>1, <2>1, <2>2, CompleteIInv, DoneType, OpsFacts
<1>4. CASE Receive
  <2>1. PICK data \in Segments :
          /\ Complete("read", [op |-> "read", ok |-> TRUE, data |-> data])
          /\ mid_line' = data.open
    BY <1>4 DEF Receive
  <2>2. data.open \in BOOLEAN
    BY <2>1 DEF Segments
  <2>3. [op |-> "read", ok |-> TRUE, data |-> data] \in Completions
    BY <1>1, <2>1, SegmentType
  <2>4. socket' = socket /\ UNCHANGED <<client, history>>
    BY <1>4 DEF Receive
  <2>. QED
    BY <1>1, <2>1, <2>2, <2>3, <2>4, CompleteIInv, OpsFacts
<1>5. CASE ReadFail
  <2>1. /\ Complete("read", Done("read", FALSE))
        /\ UNCHANGED <<socket, mid_line>> /\ UNCHANGED <<client, history>>
    BY <1>5 DEF ReadFail
  <2>. QED
    BY <1>1, <2>1, CompleteIInv, DoneType, OpsFacts
<1>6. CASE TimerExpire
  <2>1. /\ Complete("timer", Done("timer", TRUE))
        /\ UNCHANGED <<socket, mid_line>> /\ UNCHANGED <<client, history>>
    BY <1>6 DEF TimerExpire
  <2>. QED
    BY <1>1, <2>1, CompleteIInv, DoneType, OpsFacts
<1>7. CASE ConnectionLost
  <2>1. /\ socket = "connected" /\ socket' = "broken"
        /\ UNCHANGED <<is_reconnecting, write_queue, sequence, rpc_id, response,
                       pending, ready, mid_line, logins, pings, job,
                       write_failed, crashed>>
    BY <1>7 DEF ConnectionLost, client, history, outcome
  <2>2. Started' = Started
    BY <2>1 DEF Started
  <2>3. ClientType' /\ AsioType' /\ WriteInv'
    BY <2>1 DEF IInv, ClientType, AsioType, WriteInv
  <2>4. TimerInv'
    BY <2>1, <2>2 DEF IInv, TimerInv
  <2>5. BusyInv' /\ StartInv'
    BY <2>1, <2>2 DEF IInv, BusyInv, StartInv
  <2>. QED
    BY <2>3, <2>4, <2>5 DEF IInv
<1>. QED
  BY <1>2, <1>3, <1>4, <1>5, <1>6, <1>7 DEF Network

LEMMA NextIInv == IInv /\ [Next]_vars => IInv'
<1> SUFFICES ASSUME IInv, [Next]_vars PROVE IInv'
  OBVIOUS
<1>1. CASE login \/ on_timer
  BY <1>1, connect_IInv
<1>2. CASE do_ping
  BY <1>2, do_ping_IInv
<1>3. CASE on_connect
  BY <1>3, on_connect_IInv
<1>4. CASE on_write
  BY <1>4, on_write_IInv
<1>5. CASE read_more \/ on_message
  BY <1>5, on_message_IInv
<1>6. CASE Network \/ TimerExpire
  BY <1>6, network_IInv
<1>7. CASE UNCHANGED vars
  <2>1. UNCHANGED <<is_reconnecting, write_queue, sequence, rpc_id, response,
                    socket, pending, ready, mid_line, logins, pings, job,
                    write_failed, crashed>>
    BY <1>7 DEF vars, client, asio, history, outcome
  <2>2. Started' = Started
    BY <2>1 DEF Started
  <2>3. ClientType' /\ AsioType' /\ WriteInv'
    BY <2>1 DEF IInv, ClientType, AsioType, WriteInv
  <2>4. TimerInv' /\ BusyInv' /\ StartInv'
    BY <2>1, <2>2 DEF IInv, TimerInv, BusyInv, StartInv
  <2>. QED
    BY <2>3, <2>4 DEF IInv
<1>. QED
  BY <1>1, <1>2, <1>3, <1>4, <1>5, <1>6, <1>7 DEF Next, Handler

LEMMA Invariance == Spec => []IInv
BY InitIInv, NextIInv, PTL DEF Spec

(* Every variable of the client and of its surroundings keeps its type.    *)
THEOREM TypeCorrect == Spec => []TypeOK
<1>1. IInv => TypeOK
  BY IInvImplies
<1>. QED
  BY <1>1, Invariance, PTL

(* For every pool, every number of keep-alives and of login() calls: no    *)
(* two async_writes overlap, and the buffer of the one in flight is in the *)
(* queue.                                                                  *)
THEOREM WritesAreExclusive == Spec => []WriteExclusive
<1>1. IInv => WriteExclusive
  BY IInvImplies
<1>. QED
  BY <1>1, Invariance, PTL

(* A request is stranded in the queue only after a write has failed.       *)
THEOREM OnlyFailureOrphans == Spec => []OrphanedOnlyByFailure
<1>1. IInv => OrphanedOnlyByFailure
  BY IInvImplies
<1>. QED
  BY <1>1, Invariance, PTL

(* A started client always has an operation in flight, unless it crashed   *)
(* or a write has failed.                                                  *)
THEOREM ClientNeverIdle == Spec => []NeverIdle
<1>1. IInv => NeverIdle
  BY IInvImplies
<1>. QED
  BY <1>1, Invariance, PTL

(* The reconnect flag is always backed by a wait in flight, and with one   *)
(* login() call that wait is never cancelled.                              *)
THEOREM ReconnectGuarded == Spec => [](ReconnectGuard /\ NoEarlyReconnect)
<1>1. IInv => ReconnectGuard /\ NoEarlyReconnect
  BY IInvImplies
<1>. QED
  BY <1>1, Invariance, PTL

-----------------------------------------------------------------------------
(* With a single login() and no keep-alive the callbacks form one chain,   *)
(* whose states are the phases of StratumSession.                          *)

Pends(op) == \A o \in Ops : pending[o] = IF o = op THEN 1 ELSE 0

Nothing == Pends("none") /\ ready = << >>

(* The operation op, and no other, is in flight.                           *)
Only(op) == \/ Pends(op) /\ ready = << >>
            \/ Pends("none") /\ Len(ready) = 1 /\ ready[1].op = op

(* A login that was lost stays at the front of the queue for ever.         *)
LoginQueued == (write_queue # << >>) <=> write_failed

Open == ~is_reconnecting /\ socket # "closed"

InIdle       == logins = 0 /\ Nothing /\ LoginQueued
InWaiting    == logins # 0 /\ Only("timer") /\ is_reconnecting /\ LoginQueued
InConnecting == logins # 0 /\ Only("connect") /\ Open /\ LoginQueued
InLoggingIn  == /\ logins # 0 /\ Only("write") /\ Open
                /\ Len(write_queue) = 1 /\ ~write_failed
InListening  == logins # 0 /\ Only("read") /\ Open /\ LoginQueued
InStuck      == logins # 0 /\ Nothing /\ write_failed

ChainInv ==
  \/ crashed /\ Nothing
  \/ ~crashed /\ (\/ InIdle \/ InWaiting \/ InConnecting \/ InLoggingIn
                  \/ InListening \/ InStuck)

(* What is in flight along the chain.                                      *)
LEMMA ChainFlight ==
  /\ Nothing => \A o \in Ops : ~InFlight(o)
  /\ \A op \in Ops : Only(op) => \A o \in Ops : InFlight(o) <=> o = op
<1>1. Nothing => \A o \in Ops : ~InFlight(o)
  BY DEF Nothing, Pends, InFlight, In, Ops
<1>2. ASSUME NEW op \in Ops, Only(op), NEW o \in Ops
      PROVE  InFlight(o) <=> o = op
  <2>1. CASE Pends(op) /\ ready = << >>
    BY <2>1 DEF Pends, InFlight, In
  <2>2. CASE Pends("none") /\ Len(ready) = 1 /\ ready[1].op = op
    <3>1. In(o, ready) <=> o = op
      BY <2>2 DEF In
    <3>2. ~(pending[o] > 0)
      BY <2>2 DEF Pends, Ops
    <3>. QED
      BY <3>1, <3>2 DEF InFlight
  <2>. QED
    BY <1>2, <2>1, <2>2 DEF Only
<1>. QED
  BY <1>1, <1>2

LEMMA PhaseOf ==
  /\ crashed => SessionPhase = "dead"
  /\ ~crashed /\ InIdle => SessionPhase = "idle"
  /\ ~crashed /\ InWaiting => SessionPhase = "waiting"
  /\ ~crashed /\ InConnecting => SessionPhase = "connecting"
  /\ ~crashed /\ InLoggingIn => SessionPhase = "logging in"
  /\ ~crashed /\ InListening => SessionPhase = "listening"
  /\ ~crashed /\ InStuck => SessionPhase = "stuck"
BY ChainFlight, OpsFacts, Zenon
   DEF SessionPhase, InIdle, InWaiting, InConnecting, InLoggingIn, InListening,
       InStuck

LEMMA PhaseOfNext ==
  ( /\ crashed => SessionPhase = "dead"
    /\ ~crashed /\ InIdle => SessionPhase = "idle"
    /\ ~crashed /\ InWaiting => SessionPhase = "waiting"
    /\ ~crashed /\ InConnecting => SessionPhase = "connecting"
    /\ ~crashed /\ InLoggingIn => SessionPhase = "logging in"
    /\ ~crashed /\ InListening => SessionPhase = "listening"
    /\ ~crashed /\ InStuck => SessionPhase = "stuck" )'
BY PhaseOf, PTL

LEMMA NoFailures ==
  ASSUME NEW op \in Ops
  PROVE  Failures(op, 0) = << >>
BY DEF Failures

(* Nothing is aborted when nothing is pending.                             *)
LEMMA NothingAborted ==
  ASSUME Pends("none")
  PROVE  Aborted = << >> /\ Failures("timer", pending["timer"]) = << >>
<1>1. \A o \in Ops : pending[o] = 0
  BY DEF Pends, Ops
<1>2. << >> \o << >> = << >>
  OBVIOUS
<1>. QED
  BY <1>1, <1>2, NoFailures, OpsFacts, Zenon DEF Aborted

(* A handler along the chain finds its own completion and no other.        *)
LEMMA ChainHandles ==
  ASSUME AsioType, ChainInv, NEW op \in Ops, Handles(op)
  PROVE  /\ ~crashed /\ Only(op) /\ Pends("none") /\ Tail(ready) = << >>
         /\ op = "timer" => InWaiting
         /\ op = "connect" => InConnecting
         /\ op = "write" => InLoggingIn
         /\ op = "read" => InListening
<1>1. ready # << >> /\ Head(ready).op = op /\ ~crashed
  BY DEF Handles
<1>2. PICK x \in Ops : /\ Only(x)
                       /\ x = "timer" => InWaiting
                       /\ x = "connect" => InConnecting
                       /\ x = "write" => InLoggingIn
                       /\ x = "read" => InListening
  BY <1>1, OpsFacts, Zenon DEF ChainInv, Nothing, InIdle, InWaiting, InConnecting,
     InLoggingIn, InListening, InStuck
<1>3. Pends("none") /\ Len(ready) = 1 /\ ready[1].op = x
  BY <1>1, <1>2 DEF Only
<1>4. Head(ready) = ready[1] /\ Tail(ready) = << >>
  <2>1. ready \in Seq(Completions)
    BY DEF AsioType
  <2>2. Head(ready) = ready[1] /\ Tail(ready) \in Seq(Completions) /\ Len(Tail(ready)) = 0
    BY <1>1, <1>3, <2>1
  <2>. QED
    BY <2>2, EmptySeq
<1>. QED
  BY <1>1, <1>2, <1>3, <1>4

LEMMA ChainConnect ==
  ASSUME Pends("none"), do_connect(<< >>)
  PROVE  Only("connect")' /\ Open'
<1>1. /\ is_reconnecting' = FALSE /\ socket' = "connecting"
      /\ pending' = [o \in Ops |-> IF o = "timer" THEN pending[o]
                                   ELSE IF o = "connect" THEN 1 ELSE 0]
      /\ ready' = << >> \o << >>
  BY NothingAborted DEF do_connect
<1>2. ready' = << >>
  BY <1>1
<1>3. Pends("connect")'
  BY <1>1 DEF Pends, Ops
<1>. QED
  BY <1>1, <1>2, <1>3 DEF Only, Open

LEMMA ChainDelay ==
  ASSUME Pends("none"), ~is_reconnecting, delay_connect(<< >>)
  PROVE  Only("timer")' /\ is_reconnecting'
<1>1. /\ is_reconnecting' = TRUE
      /\ pending' = [o \in Ops |-> IF o = "timer" THEN 1 ELSE 0]
      /\ ready' = (<< >> \o << >>) \o << >>
  BY NothingAborted DEF delay_connect
<1>2. ready' = << >>
  BY <1>1
<1>3. Pends("timer")'
  BY <1>1 DEF Pends
<1>. QED
  BY <1>1, <1>2, <1>3 DEF Only

LEMMA ChainStart ==
  ASSUME Pends("none"), socket # "closed", NEW op \in {"read", "write"},
         Start(<<op>>, << >>)
  PROVE  Only(op)' /\ socket' = socket
<1>1. /\ socket' = socket /\ ready' = << >>
      /\ pending' = [o \in Ops |-> IF \E i \in 1..Len(<<op>>) : <<op>>[i] = o
                                   THEN pending[o] + 1 ELSE pending[o]]
  BY DEF Start
<1>2. \A o : (\E i \in 1..Len(<<op>>) : <<op>>[i] = o) <=> o = op
  OBVIOUS
<1>3. \A o \in Ops : pending'[o] = IF o = op THEN pending[o] + 1 ELSE pending[o]
  BY <1>1, <1>2
<1>4. Pends(op)'
  BY <1>3 DEF Pends, Ops
<1>. QED
  BY <1>1, <1>4 DEF Only

(* A completion leaves the chain where it is.                              *)
LEMMA ChainComplete ==
  ASSUME pending \in [Ops -> Nat],
         NEW op \in Ops, NEW c \in Completions, c.op = op, Complete(op, c)
  PROVE  /\ ~Nothing
         /\ \A x \in Ops : Only(x) => x = op /\ Only(x)'
<1>1. /\ pending[op] > 0
      /\ pending' = [pending EXCEPT ![op] = @ - 1]
      /\ ready' = Append(ready, c)
  BY DEF Complete
<1>2. ~Pends("none")
  BY <1>1 DEF Pends, Ops
<1>3. ASSUME NEW x \in Ops, Only(x)
      PROVE  x = op /\ Only(x)'
  <2>1. Pends(x) /\ ready = << >>
    BY <1>2, <1>3 DEF Only
  <2>2. x = op
    BY <1>1, <2>1 DEF Pends
  <2>3. ready' = Append(<< >>, c)
    BY <1>1, <2>1
  <2>4. Len(ready') = 1 /\ ready'[1] = c
    <3>1. << >> \in Seq(Completions) /\ Len(<< >>) = 0
      OBVIOUS
    <3>. QED
      BY <2>3, <3>1
  <2>5. Pends("none")'
    BY <1>1, <2>1, <2>2 DEF Pends, Ops
  <2>. QED
    BY <2>2, <2>4, <2>5 DEF Only
<1>. QED
  BY <1>2, <1>3 DEF Nothing

-----------------------------------------------------------------------------
(* Every step is a step of the session, or none.                           *)

Moves(from, to) == SessionPhase = from /\ SessionPhase' = to

SessionStep ==
  \/ Session!Next
  \/ UNCHANGED <<SessionPhase, write_failed, rpc_id>>

LEMMA SessionMoves ==
  /\ \/ Moves("idle", "connecting") \/ Moves("waiting", "connecting")
     \/ Moves("connecting", IF write_failed THEN "stuck" ELSE "logging in")
     \/ Moves("connecting", "waiting") \/ Moves("logging in", "listening")
     \/ Moves("listening", "waiting") \/ Moves("listening", "dead")
  /\ UNCHANGED <<write_failed, rpc_id>>
  => SessionStep
BY DEF Moves, SessionStep, Session!Next, Session!Connect, Session!Connected,
       Session!ConnectFailed, Session!LoginSent, Session!Disconnect,
       Session!Fail, Session!Go

LEMMA chain_connect ==
  ASSUME MaxLogins = 1, IInv, ChainInv, login \/ on_timer
  PROVE  ChainInv' /\ SessionStep
<1>1. AsioType /\ logins \in Nat
  BY DEF IInv, ClientType
<1>2. /\ Pends("none") /\ do_connect(<< >>) /\ ~crashed /\ LoginQueued
      /\ InIdle \/ InWaiting
      /\ logins' # 0
      /\ UNCHANGED <<write_queue, write_failed, crashed, rpc_id>>
  <2>1. CASE login
    <3>1. /\ ~crashed /\ logins = 0 /\ do_connect(ready) /\ logins' = logins + 1
          /\ UNCHANGED <<write_queue, write_failed, crashed, rpc_id>>
      BY <1>1, <2>1 DEF login, outcome
    <3>2. InIdle
      BY <3>1 DEF ChainInv, InIdle, InWaiting, InConnecting, InLoggingIn,
                  InListening, InStuck
    <3>. QED
      BY <3>1, <3>2 DEF InIdle, Nothing
  <2>2. CASE on_timer
    <3>1. /\ Handles("timer") /\ do_connect(Tail(ready))
          /\ UNCHANGED <<write_queue, write_failed, crashed, rpc_id, logins>>
      BY <2>2 DEF on_timer, history, outcome
    <3>2. ~crashed /\ Pends("none") /\ Tail(ready) = << >> /\ InWaiting
      BY <1>1, <3>1, ChainHandles, OpsFacts
    <3>. QED
      BY <3>1, <3>2 DEF InWaiting
  <2>. QED
    BY <2>1, <2>2
<1>3. Only("connect")' /\ Open'
  BY <1>2, ChainConnect
<1>4. ~crashed' /\ InConnecting'
  BY <1>2, <1>3 DEF InConnecting, LoginQueued
<1>5. Moves("idle", "connecting") \/ Moves("waiting", "connecting")
  BY <1>2, <1>4, PhaseOf, PhaseOfNext DEF Moves
<1>. QED
  BY <1>2, <1>4, <1>5, SessionMoves DEF ChainInv

LEMMA chain_on_connect ==
  ASSUME IInv, ChainInv, on_connect
  PROVE  ChainInv' /\ SessionStep
<1>1. /\ AsioType /\ write_queue \in Seq(Requests)
      /\ write_failed \in BOOLEAN
  BY DEF IInv, ClientType
<1>2. Handles("connect") /\ UNCHANGED <<rpc_id, logins, write_failed, crashed>>
  BY DEF on_connect, history, outcome
<1>3. ~crashed /\ Pends("none") /\ Tail(ready) = << >> /\ InConnecting
  BY <1>1, <1>2, ChainHandles, OpsFacts
<1>4. logins # 0 /\ ~is_reconnecting /\ socket # "closed" /\ LoginQueued
  BY <1>3 DEF InConnecting, Open
<1>5. SessionPhase = "connecting"
  BY <1>3, PhaseOf
<1>6. CASE do_login(<< >>) /\ UNCHANGED is_reconnecting
  <2> DEFINE request == [method |-> "login", id |-> 1]
  <2>1. request \in Requests
    BY DEF Requests
  <2>2. write_queue' = Append(write_queue, request)
    BY <1>6 DEF do_login, write
  <2>3. CASE write_queue = << >>
    <3>1. Start(<<"write">>, << >>)
      BY <1>6, <2>3 DEF do_login, write
    <3>2. Only("write")' /\ socket' = socket
      BY <1>3, <1>4, <3>1, ChainStart
    <3>3. Len(write_queue') = 1
      BY <1>1, <2>1, <2>2, <2>3
    <3>4. ~write_failed
      BY <1>4, <2>3 DEF LoginQueued
    <3>5. ~crashed' /\ InLoggingIn'
      BY <1>2, <1>3, <1>4, <1>6, <3>2, <3>3, <3>4 DEF InLoggingIn, Open
    <3>6. Moves("connecting", IF write_failed THEN "stuck" ELSE "logging in")
      BY <1>5, <3>4, <3>5, PhaseOfNext DEF Moves
    <3>. QED
      BY <1>2, <3>5, <3>6, SessionMoves DEF ChainInv
  <2>4. CASE write_queue # << >>
    <3>1. ready' = << >> /\ UNCHANGED pending
      BY <1>6, <2>4 DEF do_login, write
    <3>2. Nothing'
      BY <1>3, <3>1 DEF Nothing, Pends
    <3>3. write_failed
      BY <1>4, <2>4 DEF LoginQueued
    <3>4. ~crashed' /\ InStuck'
      BY <1>2, <1>3, <1>4, <3>2, <3>3 DEF InStuck
    <3>5. Moves("connecting", IF write_failed THEN "stuck" ELSE "logging in")
      BY <1>5, <3>3, <3>4, PhaseOfNext DEF Moves
    <3>. QED
      BY <1>2, <3>4, <3>5, SessionMoves DEF ChainInv
  <2>. QED
    BY <2>3, <2>4
<1>7. CASE delay_connect(<< >>) /\ UNCHANGED write_queue
  <2>1. Only("timer")' /\ is_reconnecting'
    BY <1>3, <1>4, <1>7, ChainDelay
  <2>2. ~crashed' /\ InWaiting'
    BY <1>2, <1>3, <1>4, <1>7, <2>1 DEF InWaiting, LoginQueued
  <2>3. Moves("connecting", "waiting")
    BY <1>5, <2>2, PhaseOfNext DEF Moves
  <2>. QED
    BY <1>2, <2>2, <2>3, SessionMoves DEF ChainInv
<1>. QED
  BY <1>3, <1>6, <1>7 DEF on_connect

LEMMA chain_on_write ==
  ASSUME IInv, ChainInv, on_write
  PROVE  ChainInv' /\ SessionStep
<1>1. AsioType /\ write_queue \in Seq(Requests)
  BY DEF IInv, ClientType
<1>2. Handles("write") /\ UNCHANGED <<rpc_id, logins, crashed>>
  BY DEF on_write
<1>3. ~crashed /\ Pends("none") /\ Tail(ready) = << >> /\ InLoggingIn
  BY <1>1, <1>2, ChainHandles, OpsFacts
<1>4. /\ logins # 0 /\ ~is_reconnecting /\ socket # "closed" /\ ~write_failed
      /\ Len(write_queue) = 1
  BY <1>3 DEF InLoggingIn, Open
<1>5. SessionPhase = "logging in"
  BY <1>3, PhaseOf
<1>6. CASE /\ write_queue' = Tail(write_queue)
           /\ Start(AfterWrite, << >>)
           /\ UNCHANGED <<is_reconnecting, write_failed>>
  <2>1. AfterWrite = <<"read">>
    BY <1>4 DEF AfterWrite
  <2>2. Only("read")' /\ socket' = socket
    BY <1>3, <1>4, <1>6, <2>1, ChainStart
  <2>3. write_queue' = << >>
    <3>1. Tail(write_queue) \in Seq(Requests) /\ Len(Tail(write_queue)) = 0
      BY <1>1, <1>4
    <3>. QED
      BY <1>6, <3>1, EmptySeq
  <2>4. ~crashed' /\ InListening'
    BY <1>2, <1>3, <1>4, <1>6, <2>2, <2>3 DEF InListening, Open, LoginQueued
  <2>5. Moves("logging in", "listening")
    BY <1>5, <2>4, PhaseOfNext DEF Moves
  <2>. QED
    BY <1>2, <1>6, <2>4, <2>5, SessionMoves DEF ChainInv
<1>7. CASE /\ delay_connect(<< >>)
           /\ write_failed' = TRUE
           /\ UNCHANGED write_queue
  <2>1. Only("timer")' /\ is_reconnecting'
    BY <1>3, <1>4, <1>7, ChainDelay
  <2>2. write_queue # << >>
    BY <1>4
  <2>3. ~crashed' /\ InWaiting'
    BY <1>2, <1>3, <1>4, <1>7, <2>1, <2>2 DEF InWaiting, LoginQueued
  <2>4. SessionPhase' = "waiting"
    BY <2>3, PhaseOfNext
  <2>5. Session!LoginLost
    BY <1>2, <1>5, <1>7, <2>4 DEF Session!LoginLost, Session!Go
  <2>. QED
    BY <2>3, <2>5 DEF ChainInv, SessionStep, Session!Next
<1>. QED
  BY <1>3, <1>6, <1>7 DEF on_write

(* An accepted login brings a session id, and the connection is kept.      *)
LEMMA AcceptedKeeps ==
  ASSUME NEW m \in MessageType, LoginAccepted(m)
  PROVE  ~Reconnects(m) /\ m.rpcId \in RpcIds
BY DEF LoginAccepted, Reconnects, IsLoginReply, MessageType

LEMMA chain_on_message ==
  ASSUME IInv, ChainInv, read_more \/ on_message
  PROVE  ChainInv' /\ SessionStep
<1>1. AsioType
  BY DEF IInv
<1>2. Handles("read") /\ UNCHANGED <<logins, write_failed, write_queue>>
  BY DEF read_more, on_message, read_failed, bad_message, good_message, history,
         outcome
<1>3. ~crashed /\ Pends("none") /\ Tail(ready) = << >> /\ InListening
  BY <1>1, <1>2, ChainHandles, OpsFacts
<1>4. logins # 0 /\ ~is_reconnecting /\ socket # "closed" /\ LoginQueued
  BY <1>3 DEF InListening, Open
<1>5. SessionPhase = "listening"
  BY <1>3, PhaseOf
<1>6. ASSUME Start(<<"read">>, << >>), UNCHANGED <<is_reconnecting, crashed>>
      PROVE  ~crashed' /\ InListening' /\ SessionPhase' = "listening"
  <2>1. Only("read")' /\ socket' = socket
    BY <1>3, <1>4, <1>6, ChainStart
  <2>2. ~crashed' /\ InListening'
    BY <1>2, <1>3, <1>4, <1>6, <2>1 DEF InListening, Open, LoginQueued
  <2>. QED
    BY <2>2, PhaseOfNext
<1>7. ASSUME delay_connect(<< >>), UNCHANGED <<crashed, rpc_id>>
      PROVE  ChainInv' /\ SessionStep
  <2>1. Only("timer")' /\ is_reconnecting'
    BY <1>3, <1>4, <1>7, ChainDelay
  <2>2. ~crashed' /\ InWaiting'
    BY <1>2, <1>3, <1>4, <1>7, <2>1 DEF InWaiting, LoginQueued
  <2>3. Moves("listening", "waiting")
    BY <1>5, <2>2, PhaseOfNext DEF Moves
  <2>. QED
    BY <1>2, <1>7, <2>2, <2>3, SessionMoves DEF ChainInv
<1>8. CASE read_more
  <2>1. Start(<<"read">>, << >>) /\ UNCHANGED <<is_reconnecting, crashed, rpc_id>>
    BY <1>3, <1>8 DEF read_more, history, outcome
  <2>. QED
    BY <1>2, <1>5, <1>6, <2>1 DEF ChainInv, SessionStep
<1>9. CASE read_failed
  <2>1. delay_connect(<< >>) /\ UNCHANGED <<crashed, rpc_id>>
    BY <1>3, <1>9 DEF read_failed, history, outcome
  <2>. QED
    BY <1>7, <2>1
<1>10. CASE bad_message
  <2>1. crashed' = TRUE /\ ready' = << >> /\ UNCHANGED <<pending, rpc_id>>
    BY <1>3, <1>10 DEF bad_message
  <2>2. crashed' /\ Nothing'
    BY <1>3, <2>1 DEF Nothing, Pends
  <2>3. Moves("listening", "dead")
    BY <1>5, <2>2, PhaseOfNext DEF Moves
  <2>. QED
    BY <1>2, <2>1, <2>2, <2>3, SessionMoves DEF ChainInv
<1>11. CASE good_message
  <2> DEFINE m == Head(ready).data.lines[1]
  <2>1. /\ Len(Head(ready).data.lines) = 1
        /\ rpc_id' = IF LoginAccepted(m) THEN m.rpcId ELSE rpc_id
        /\ UNCHANGED crashed
        /\ IF Reconnects(m) THEN delay_connect(<< >>)
           ELSE Start(<<"read">>, << >>) /\ UNCHANGED is_reconnecting
    BY <1>3, <1>11 DEF good_message, OneLine
  <2>2. m \in MessageType
    BY <1>2, <2>1, LineType
  <2> HIDE DEF m
  <2>3. CASE Reconnects(m)
    <3>1. ~LoginAccepted(m)
      BY <2>2, <2>3, AcceptedKeeps
    <3>. QED
      BY <1>7, <2>1, <2>3, <3>1
  <2>4. CASE ~Reconnects(m)
    <3>1. ~crashed' /\ InListening' /\ SessionPhase' = "listening"
      BY <1>6, <2>1, <2>4
    <3>2. SessionStep
      <4>1. CASE LoginAccepted(m)
        <5>1. rpc_id' \in RpcIds
          BY <2>1, <2>2, <4>1, AcceptedKeeps
        <5>2. Session!Listen
          BY <1>2, <1>5, <3>1, <5>1 DEF Session!Listen, Session!Go
        <5>. QED
          BY <5>2 DEF SessionStep, Session!Next
      <4>2. CASE ~LoginAccepted(m)
        BY <1>2, <1>5, <2>1, <3>1, <4>2 DEF SessionStep
      <4>. QED
        BY <4>1, <4>2
    <3>. QED
      BY <3>1, <3>2 DEF ChainInv
  <2>. QED
    BY <2>3, <2>4
<1>. QED
  BY <1>8, <1>9, <1>10, <1>11 DEF on_message

(* The network and the clock only move a completion along.                 *)
LEMMA chain_complete ==
  ASSUME IInv, ChainInv, NEW op \in Ops, NEW c \in Completions, c.op = op,
         Complete(op, c), socket # "closed" => socket' # "closed",
         UNCHANGED <<client, history>>
  PROVE  ChainInv' /\ SessionStep
<1>1. UNCHANGED <<is_reconnecting, write_queue, rpc_id, logins, write_failed,
                  crashed>>
  BY DEF client, history, outcome
<1>2. ~crashed /\ ~crashed'
  BY <1>1 DEF Complete
<1>3. /\ ~Nothing
      /\ \A x \in Ops : Only(x) => x = op /\ Only(x)'
  BY ChainComplete DEF IInv, AsioType
<1>4. \/ InWaiting /\ InWaiting'
      \/ InConnecting /\ InConnecting'
      \/ InLoggingIn /\ InLoggingIn'
      \/ InListening /\ InListening'
  <2>1. CASE InWaiting
    BY <1>1, <1>3, <2>1, OpsFacts DEF InWaiting, LoginQueued
  <2>2. CASE InConnecting
    BY <1>1, <1>3, <2>2, OpsFacts DEF InConnecting, LoginQueued, Open
  <2>3. CASE InLoggingIn
    BY <1>1, <1>3, <2>3, OpsFacts DEF InLoggingIn, Open
  <2>4. CASE InListening
    BY <1>1, <1>3, <2>4, OpsFacts DEF InListening, LoginQueued, Open
  <2>. QED
    BY <1>2, <1>3, <2>1, <2>2, <2>3, <2>4 DEF ChainInv, InIdle, InStuck
<1>5. SessionPhase' = SessionPhase
  <2>1. PICK phase \in {"waiting", "connecting", "logging in", "listening"} :
          SessionPhase = phase /\ SessionPhase' = phase
    BY <1>2, <1>4, PhaseOf, PhaseOfNext
  <2>. QED
    BY <2>1
<1>. QED
  BY <1>1, <1>2, <1>4, <1>5 DEF ChainInv, SessionStep

LEMMA chain_network ==
  ASSUME IInv, ChainInv, Network \/ TimerExpire
  PROVE  ChainInv' /\ SessionStep
<1>1. CASE ConnectDone
  <2>1. PICK ok \in BOOLEAN : /\ Complete("connect", Done("connect", ok))
                              /\ socket' = IF ok THEN "connected" ELSE "broken"
    BY <1>1 DEF ConnectDone
  <2>2. UNCHANGED <<client, history>>
    BY <1>1 DEF ConnectDone
  <2>. QED
    BY <2>1, <2>2, chain_complete, DoneType, OpsFacts
<1>2. CASE WriteDone
  <2>1. PICK ok \in BOOLEAN : Complete("write", Done("write", ok))
    BY <1>2 DEF WriteDone
  <2>2. socket' = socket /\ UNCHANGED <<client, history>>
    BY <1>2 DEF WriteDone
  <2>. QED
    BY <2>1, <2>2, chain_complete, DoneType, OpsFacts
<1>3. CASE Receive
  <2>1. PICK data \in Segments :
          Complete("read", [op |-> "read", ok |-> TRUE, data |-> data])
    BY <1>3 DEF Receive
  <2>2. socket' = socket /\ UNCHANGED <<client, history>>
    BY <1>3 DEF Receive
  <2>3. [op |-> "read", ok |-> TRUE, data |-> data] \in Completions
    BY <2>1, SegmentType DEF IInv, ClientType
  <2>. QED
    BY <2>1, <2>2, <2>3, chain_complete, OpsFacts
<1>4. CASE ReadFail
  <2>1. /\ Complete("read", Done("read", FALSE))
        /\ socket' = socket /\ UNCHANGED <<client, history>>
    BY <1>4 DEF ReadFail
  <2>. QED
    BY <2>1, chain_complete, DoneType, OpsFacts
<1>5. CASE TimerExpire
  <2>1. /\ Complete("timer", Done("timer", TRUE))
        /\ socket' = socket /\ UNCHANGED <<client, history>>
    BY <1>5 DEF TimerExpire
  <2>. QED
    BY <2>1, chain_complete, DoneType, OpsFacts
<1>6. CASE ConnectionLost
  <2>1. /\ socket' = "broken"
        /\ UNCHANGED <<is_reconnecting, write_queue, rpc_id, pending, ready,
                       logins, write_failed, crashed>>
    BY <1>6 DEF ConnectionLost, client, history, outcome
  <2>2. Nothing' = Nothing /\ \A x \in Ops : Only(x)' = Only(x)
    BY <2>1 DEF Nothing, Only, Pends
  <2>3. ChainInv'
    BY <2>1, <2>2, OpsFacts DEF ChainInv, InIdle, InWaiting, InConnecting,
       InLoggingIn, InListening, InStuck, LoginQueued, Open
  <2>4. SessionPhase' = SessionPhase
    BY <2>1 DEF SessionPhase, InFlight
  <2>. QED
    BY <2>1, <2>3, <2>4 DEF SessionStep
<1>. QED
  BY <1>1, <1>2, <1>3, <1>4, <1>5, <1>6 DEF Network

LEMMA ChainInit == Init => ChainInv
<1> SUFFICES ASSUME Init PROVE ChainInv
  OBVIOUS
<1>1. Nothing
  BY DEF Init, Nothing, Pends, Ops
<1>. QED
  BY <1>1 DEF Init, ChainInv, InIdle, LoginQueued

LEMMA ChainNext ==
  ASSUME MaxPings = 0, MaxLogins = 1
  PROVE  IInv /\ ChainInv /\ [Next]_vars => ChainInv' /\ SessionStep
<1> SUFFICES ASSUME IInv, ChainInv, [Next]_vars
             PROVE  ChainInv' /\ SessionStep
  OBVIOUS
<1>1. CASE login \/ on_timer
  BY <1>1, chain_connect
<1>2. CASE do_ping
  BY <1>2 DEF do_ping, IInv, ClientType
<1>3. CASE on_connect
  BY <1>3, chain_on_connect
<1>4. CASE on_write
  BY <1>4, chain_on_write
<1>5. CASE read_more \/ on_message
  BY <1>5, chain_on_message
<1>6. CASE Network \/ TimerExpire
  BY <1>6, chain_network
<1>7. CASE UNCHANGED vars
  <2>1. UNCHANGED <<is_reconnecting, write_queue, rpc_id, socket, pending, ready,
                    logins, write_failed, crashed>>
    BY <1>7 DEF vars, client, asio, history, outcome
  <2>2. Nothing' = Nothing /\ \A x \in Ops : Only(x)' = Only(x)
    BY <2>1 DEF Nothing, Only, Pends
  <2>3. ChainInv'
    BY <2>1, <2>2, OpsFacts DEF ChainInv, InIdle, InWaiting, InConnecting,
       InLoggingIn, InListening, InStuck, LoginQueued, Open
  <2>4. SessionPhase' = SessionPhase
    BY <2>1 DEF SessionPhase, InFlight
  <2>. QED
    BY <2>1, <2>3, <2>4 DEF SessionStep
<1>. QED
  BY <1>1, <1>2, <1>3, <1>4, <1>5, <1>6, <1>7 DEF Next, Handler

(* With one login() call no wait is ever cancelled, so that the client     *)
(* never reconnects before its delay is over.                              *)
THEOREM DelayIsKept == Spec => []NoEarlyReconnect
<1>1. IInv => NoEarlyReconnect
  BY IInvImplies
<1>. QED
  BY <1>1, Invariance, PTL

(* With one login() call and no keep-alive, no two operations are ever in  *)
(* flight together, whatever the pool sends and the network does: no two   *)
(* reads share the streambuf.                                              *)
THEOREM CallbacksFormOneChain == Spec => []SingleChain
<1>1. CASE MaxPings = 0 /\ MaxLogins = 1
  <2>1. IInv /\ ChainInv /\ [Next]_vars => ChainInv'
    BY <1>1, ChainNext
  <2>2. ChainInv => SingleChain
    <3> SUFFICES ASSUME ChainInv PROVE SingleChain
      OBVIOUS
    <3>1. Nothing \/ \E x \in Ops : Only(x)
      BY OpsFacts DEF ChainInv, InIdle, InWaiting, InConnecting, InLoggingIn,
         InListening, InStuck
    <3>2. Len(<< >>) = 0
      OBVIOUS
    <3>3. CASE Nothing
      BY <3>2, <3>3 DEF SingleChain, Nothing, Pends, Ops
    <3>4. ASSUME NEW x \in Ops, Only(x)
          PROVE  SingleChain
      <4>1. CASE Pends(x) /\ ready = << >>
        BY <3>2, <4>1 DEF SingleChain, Pends, Ops
      <4>2. CASE Pends("none") /\ Len(ready) = 1
        BY <4>2 DEF SingleChain, Pends, Ops
      <4>. QED
        BY <3>4, <4>1, <4>2 DEF Only
    <3>. QED
      BY <3>1, <3>3, <3>4
  <2>. QED
    BY <2>1, <2>2, ChainInit, Invariance, PTL DEF Spec
<1>2. CASE ~(MaxPings = 0 /\ MaxLogins = 1)
  <2>1. SingleChain
    BY <1>2 DEF SingleChain
  <2>. QED
    BY <2>1, PTL
<1>. QED
  BY <1>1, <1>2

(* The client, used as its class is meant to be used, takes only steps of  *)
(* StratumSession: it logs in before it listens, it waits before every new *)
(* connection, it is always in one phase, and once a login is lost the     *)
(* next connection is never logged in.                                     *)
THEOREM ClientIsASession ==
  ASSUME MaxPings = 0, MaxLogins = 1
  PROVE  Spec => Session!Init /\ [][Session!Next]_(Session!vars)
<1>1. Init => Session!Init
  <2> SUFFICES ASSUME Init PROVE Session!Init
    OBVIOUS
  <2>1. SessionPhase = "idle" /\ write_failed = FALSE /\ rpc_id = NoId
    BY DEF Init, SessionPhase
  <2>. QED
    BY <2>1 DEF Session!Init
<1>2. IInv /\ ChainInv /\ [Next]_vars => ChainInv' /\ [Session!Next]_(Session!vars)
  BY ChainNext DEF SessionStep, Session!vars
<1>. QED
  BY <1>1, <1>2, ChainInit, Invariance, PTL DEF Spec
=============================================================================
