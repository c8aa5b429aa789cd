------------------------- MODULE HsmsProtocol_proofs -------------------------
(***************************************************************************)
(* Theorems about HsmsProtocol for any number of connect threads and any   *)
(* bounds, active or passive, with or without timers: one connect thread   *)
(* at a time, no session and no listener that outlives the thread that     *)
(* serves it, SELECTED only on a connection that agreed to it, and the     *)
(* type of the variables.                                                  *)
(***************************************************************************)
EXTENDS HsmsProtocol, TLAPS

\* The types ThreadInv rests on.
ThreadTypes ==
  /\ nconn \in Nat
  /\ ct \in [Threads -> CtPcs]
  /\ conn \in [Threads -> 0..nconn]
  /\ sess \in 0..nconn
  /\ open \subseteq 1..nconn

\* Positions in which a connect thread has no connection.
Unconnected == {"off", "loop", "dial", "failed", "listen", "publish", "accept",
                "accepted", "stopping", "exit"}

\* A thread without a connection records none, hsmsConnection does not yet
\* point to the session a thread is about to set, and a thread that has left
\* the receiver has released its session.
Released ==
  \A t \in Threads :
    /\ ct[t] \in Unconnected => conn[t] = 0
    /\ ct[t] \in {"session", "served"} => sess = 0 \/ sess # conn[t]
    /\ ct[t] = "served" => conn[t] \notin open

ThreadInv == ThreadTypes /\ OneConnectThread /\ SessionIsServed /\ Released

\* NewHsmsProtocol starts no connect thread and has no session.
LEMMA ThreadInit == Init => ThreadInv
BY DEF Init, ThreadInv, ThreadTypes, CtPcs, OneConnectThread, SessionIsServed,
   Released, Unconnected

-----------------------------------------------------------------------------
(* Steps that share a shape.                                               *)

\* No connect thread moves; sessions may close, and the pointer may be cleared.
LEMMA NoMove ==
  ASSUME ThreadInv, UNCHANGED <<running, ct, conn, nconn>>,
         sess' \in {sess, 0}, open' \subseteq open
  PROVE  ThreadInv'
<1>1. ThreadTypes' /\ OneConnectThread'
  BY DEF ThreadInv, ThreadTypes, OneConnectThread
<1>2. SessionIsServed' /\ Released'
  BY DEF ThreadInv, SessionIsServed, Released
<1> QED
  BY <1>1, <1>2 DEF ThreadInv

\* A thread moves without changing its connection.
LEMMA OneMove ==
  ASSUME ThreadInv, NEW t \in Threads, NEW there \in CtPcs \ {"off"},
         ct[t] # "off", Move(t, there),
         UNCHANGED <<running, conn, nconn, sess>>, open' \subseteq open,
         there \in Unconnected \cup {"served"} => ct[t] \in Unconnected,
         there # "session"
  PROVE  ThreadInv'
<1>1. ct' = [ct EXCEPT ![t] = there]
  BY DEF Move
<1>2. ThreadTypes'
  BY <1>1 DEF ThreadInv, ThreadTypes
<1>3. OneConnectThread'
  BY <1>1 DEF ThreadInv, ThreadTypes, OneConnectThread
<1>4. SessionIsServed'
  BY DEF ThreadInv, SessionIsServed
<1>5. Released'
  BY <1>1 DEF ThreadInv, ThreadTypes, Released
<1> QED
  BY <1>2, <1>3, <1>4, <1>5 DEF ThreadInv

\* A connect thread starts when none runs.
LEMMA OneSpawn ==
  ASSUME ThreadInv, ~running, SpawnConnectThread,
         UNCHANGED <<conn, nconn, sess, open>>
  PROVE  ThreadInv'
<1>1. PICK t \in Threads : ct[t] = "off" /\ ct' = [ct EXCEPT ![t] = "loop"]
  BY DEF SpawnConnectThread
<1>2. ThreadTypes'
  BY <1>1 DEF ThreadInv, ThreadTypes, CtPcs
<1>3. OneConnectThread'
  BY <1>1 DEF ThreadInv, ThreadTypes, OneConnectThread, SpawnConnectThread
<1>4. SessionIsServed' /\ Released'
  BY <1>1 DEF ThreadInv, ThreadTypes, SessionIsServed, Released, Unconnected
<1> QED
  BY <1>2, <1>3, <1>4 DEF ThreadInv

\* A thread gets a connection.
LEMMA OneConnection ==
  ASSUME ThreadInv, NEW t \in Threads, NEW opened \in BOOLEAN,
         ct[t] \in {"dial", "accepted"}, NewConnection(t, opened),
         Move(t, "session"), UNCHANGED <<running, sess>>
  PROVE  ThreadInv'
<1>1. /\ ct' = [ct EXCEPT ![t] = "session"]
      /\ conn' = [conn EXCEPT ![t] = nconn + 1]
      /\ nconn' = nconn + 1
      /\ open' \subseteq open \cup {nconn + 1}
      /\ conn[t] = 0
  BY DEF Move, NewConnection, ThreadInv, Released, Unconnected
<1>2. ThreadTypes'
  BY <1>1 DEF ThreadInv, ThreadTypes, CtPcs
<1>3. OneConnectThread'
  BY <1>1 DEF ThreadInv, ThreadTypes, OneConnectThread
<1>4. SessionIsServed'
  BY <1>1 DEF ThreadInv, ThreadTypes, SessionIsServed
<1>5. Released'
  BY <1>1 DEF ThreadInv, ThreadTypes, Released, OneConnectThread, Unconnected
<1> QED
  BY <1>2, <1>3, <1>4, <1>5 DEF ThreadInv

\* A thread publishes its session, or (passive) closes it.
LEMMA SessionTaken ==
  ASSUME ThreadInv, NEW t \in Threads, TakeSession(t)
  PROVE  ThreadInv'
<1>1. ct[t] = "session" /\ UNCHANGED <<running, conn, nconn>>
  BY DEF TakeSession, Ready
<1>2. CASE ~Active /\ sess \in open
  <2>1. /\ ct' = [ct EXCEPT ![t] = "served"] /\ sess' = sess
        /\ open' = open \ {conn[t]}
    BY <1>2 DEF TakeSession, Move
  <2>2. ThreadTypes' /\ OneConnectThread'
    BY <1>1, <2>1 DEF ThreadInv, ThreadTypes, OneConnectThread, CtPcs
  <2>3. SessionIsServed' /\ Released'
    BY <1>1, <2>1 DEF ThreadInv, ThreadTypes, SessionIsServed, Released,
       Unconnected
  <2> QED
    BY <2>2, <2>3 DEF ThreadInv
<1>3. CASE ~(~Active /\ sess \in open)
  <2>1. /\ ct' = [ct EXCEPT ![t] = "established"] /\ sess' = conn[t]
        /\ open' = open
    BY <1>3 DEF TakeSession, Move
  <2>2. ThreadTypes' /\ OneConnectThread'
    BY <1>1, <2>1 DEF ThreadInv, ThreadTypes, OneConnectThread, CtPcs
  <2>3. SessionIsServed' /\ Released'
    BY <1>1, <2>1 DEF ThreadInv, ThreadTypes, SessionIsServed, Released,
       OneConnectThread, Unconnected
  <2> QED
    BY <2>2, <2>3 DEF ThreadInv
<1> QED
  BY <1>2, <1>3

\* The deferred clean-up releases the session of the thread.
LEMMA SessionUnlinked ==
  ASSUME ThreadInv, NEW t \in Threads, Unlink(t)
  PROVE  ThreadInv'
<1>1. /\ ct[t] = "unlink" /\ ct' = [ct EXCEPT ![t] = "served"]
      /\ open' = open \ {conn[t]} /\ UNCHANGED <<running, conn, nconn>>
      /\ sess' = IF sess = conn[t] THEN 0 ELSE sess
  BY DEF Unlink, UnlinkTo, Ready, Move
<1>2. ThreadTypes'
  <2>1. sess' \in 0..nconn
    BY <1>1 DEF ThreadInv, ThreadTypes
  <2>2. ct' \in [Threads -> CtPcs]
    BY <1>1 DEF ThreadInv, ThreadTypes, CtPcs
  <2> QED
    BY <1>1, <2>1, <2>2 DEF ThreadInv, ThreadTypes
<1>3. OneConnectThread'
  BY <1>1 DEF ThreadInv, ThreadTypes, OneConnectThread
<1>4. SessionIsServed' /\ Released'
  BY <1>1 DEF ThreadInv, ThreadTypes, SessionIsServed, Released, Unconnected
<1> QED
  BY <1>2, <1>3, <1>4 DEF ThreadInv

\* A thread forgets the session it has released.
LEMMA ThreadServed ==
  ASSUME ThreadInv, NEW t \in Threads, Served(t)
  PROVE  ThreadInv'
<1>1. /\ ct[t] = "served" /\ ct' = [ct EXCEPT ![t] = IF Active THEN "loop" ELSE "stopping"]
      /\ conn' = [conn EXCEPT ![t] = 0]
      /\ UNCHANGED <<running, sess, open, nconn>>
  BY DEF Served, ServedTo, Ready, Move, connVars
<1>2. ThreadTypes' /\ OneConnectThread'
  BY <1>1 DEF ThreadInv, ThreadTypes, OneConnectThread, CtPcs
<1>3. SessionIsServed' /\ Released'
  BY <1>1 DEF ThreadInv, ThreadTypes, SessionIsServed, Released, Unconnected
<1> QED
  BY <1>2, <1>3 DEF ThreadInv

\* A thread ends, and with it connectThreadRunning.
LEMMA ThreadExits ==
  ASSUME ThreadInv, NEW t \in Threads, Exit(t)
  PROVE  ThreadInv'
<1>1. /\ ct[t] = "exit" /\ ct' = [ct EXCEPT ![t] = "off"] /\ running' = FALSE
      /\ UNCHANGED <<conn, sess, open, nconn>>
  BY DEF Exit, Ready, Move, connVars
<1>2. ThreadTypes' /\ OneConnectThread'
  BY <1>1 DEF ThreadInv, ThreadTypes, OneConnectThread, CtPcs
<1>3. SessionIsServed' /\ Released'
  BY <1>1 DEF ThreadInv, ThreadTypes, SessionIsServed, Released, Unconnected
<1> QED
  BY <1>2, <1>3 DEF ThreadInv

-----------------------------------------------------------------------------
(* Every step.                                                             *)

\* A queued operation of any process (handlers, callbacks, Disable) keeps it.
LEMMA OperationStep ==
  ASSUME ThreadInv, NEW p \in Procs, Operation(p)
  PROVE  ThreadInv'
<1>1. CASE SetConnected(p) \/ SetT7(p) \/ SetFlag(p) \/ AnswerApp(p)
  BY <1>1, NoMove DEF SetConnected, SetT7, SetFlag, AnswerApp, ctVars, connVars
<1>2. CASE Event(p)
  BY <1>2, NoMove DEF Event, ctVars, connVars
<1>3. CASE OnDisconnect(p)
  <2>1. CASE enabled /\ ~running
    BY <1>3, <2>1, OneSpawn DEF OnDisconnect, OnDisconnectIf, connVars
  <2>2. CASE ~(enabled /\ ~running)
    BY <1>3, <2>2, NoMove DEF OnDisconnect, OnDisconnectIf, connVars
  <2> QED
    BY <2>1, <2>2
<1>4. CASE Send(p)
  BY <1>4, NoMove
     DEF Send, NilSession, Written, WriteFailed, ctVars, connVars
<1>5. CASE CheckSession(p) \/ CloseNow(p) \/ ClearSession(p)
  BY <1>5, NoMove
     DEF CheckSession, CloseNow, ClearSession, NilSession, ctVars, connVars
<1> QED
  BY <1>1, <1>2, <1>3, <1>4, <1>5 DEF Operation

\* A step of a connect thread (startConnectThread and the receiver) keeps it.
LEMMA ThreadsStep ==
  ASSUME ThreadInv, NEW t \in Threads, ThreadStep(t)
  PROVE  ThreadInv'
<1> USE DEF Ready, CtPcs, Unconnected
<1>1. CASE Operation(t)
  BY <1>1, OperationStep DEF Procs
<1>2. CASE Loop(t)
  BY <1>2, OneMove DEF Loop, Steps, connVars
<1>3. CASE ConnectFails(t)
  BY <1>3, OneMove DEF ConnectFails, Steps, connVars
<1>4. CASE Retry(t)
  BY <1>4, OneMove DEF Retry, RetryIf, Steps, connVars
<1>5. CASE Dial(t)
  BY <1>5, OneConnection DEF Dial
<1>6. CASE Listen(t) \/ Publish(t) \/ StopServed(t)
  BY <1>6, OneMove DEF Listen, Publish, StopServed, StopServedIf, connVars
<1>7. CASE Accept(t)
  BY <1>7, OneMove DEF Accept, Steps, connVars
<1>8. CASE Register(t)
  <2>1. CASE listening
    BY <1>8, <2>1, OneConnection DEF Register, NewConnection
  <2>2. CASE ~listening
    BY <1>8, <2>2, OneConnection DEF Register, NewConnection
  <2> QED
    BY <2>1, <2>2
<1>9. CASE TakeSession(t)
  BY <1>9, SessionTaken
<1>10. CASE ReceiveLoop(t)
  BY <1>10, OneMove DEF ReceiveLoop, Steps, connVars
<1>11. CASE ReceiveError(t)
  BY <1>11, OneMove DEF ReceiveError, ReceiveFails
<1>12. CASE ReceiveMessage(t)
  BY <1>12, OneMove, NoMove DEF ReceiveMessage
<1>13. CASE Unlink(t)
  BY <1>13, SessionUnlinked
<1>14. CASE Served(t)
  BY <1>14, ThreadServed
<1>15. CASE Exit(t)
  BY <1>15, ThreadExits
<1> QED
  BY <1>1, <1>2, <1>3, <1>4, <1>5, <1>6, <1>7, <1>8, <1>9, <1>10, <1>11,
     <1>12, <1>13, <1>14, <1>15 DEF ThreadStep

\* A step of a select/linktest goroutine, of T7, Disable or the peer keeps it.
LEMMA OthersStep ==
  ASSUME ThreadInv,
         \/ \E g \in Conns : LinktestStep(g)
         \/ FireT7 \/ Disable \/ AppStep \/ Peer
  PROVE  ThreadInv'
<1>1. ASSUME NEW g \in Conns, LinktestStep(g) PROVE ThreadInv'
  BY <1>1, NoMove
     DEF LinktestStep, SendSelect, SelectTimeout, LinktestStart, SendLinktest,
         Tick, LinktestStop, NilSession, Written, WriteFailed, ctVars, connVars
<1>2. CASE FireT7 \/ Disable \/ Farewell \/ DeselectTimeout \/ Return
  BY <1>2, NoMove
     DEF FireT7, Disable, Farewell, FarewellThen, DeselectTimeout, Return,
         ctVars, connVars
<1>3. CASE StopServer \/ SendDeselect
  BY <1>3, NoMove
     DEF StopServer, SendDeselect, NilSession, Written, WriteFailed, ctVars,
         connVars
<1>4. CASE Operation("app")
  BY <1>4, OperationStep DEF Procs
<1>5. CASE Peer
  BY <1>5, NoMove DEF Peer, PeerSend, PeerAnswer, PeerClose, ctVars
<1> QED
  BY <1>1, <1>2, <1>3, <1>4, <1>5 DEF AppStep

\* No step starts a second connect thread or leaves a session behind.
LEMMA ThreadInvStep == ThreadInv /\ [Next]_vars => ThreadInv'
<1> SUFFICES ASSUME ThreadInv, [Next]_vars PROVE ThreadInv'
  OBVIOUS
<1>1. CASE Enable
  <2>1. CASE running
    BY <1>1, <2>1, NoMove DEF Enable, connVars
  <2>2. CASE ~running
    BY <1>1, <2>2, OneSpawn DEF Enable, connVars
  <2> QED
    BY <2>1, <2>2
<1>2. CASE Operation("t7")
  BY <1>2, OperationStep DEF Procs
<1>3. CASE UNCHANGED vars
  BY <1>3, NoMove DEF vars, ctVars, connVars
<1> QED
  BY <1>1, <1>2, <1>3, ThreadsStep, OthersStep DEF Next

-----------------------------------------------------------------------------
\* Enable, onStateDisconnect and the end of a thread never leave two connect
\* threads running.
THEOREM OneConnectThreadHolds == Spec => []OneConnectThread
<1>1. ThreadInv => OneConnectThread
  BY DEF ThreadInv
<1> QED
  BY <1>1, ThreadInit, ThreadInvStep, PTL DEF Spec

\* No session outlives the thread that serves it, whichever handler, timer or
\* call of Disable closes it.
THEOREM SessionIsServedHolds == Spec => []SessionIsServed
<1>1. ThreadInv => SessionIsServed
  BY DEF ThreadInv
<1> QED
  BY <1>1, ThreadInit, ThreadInvStep, PTL DEF Spec

-----------------------------------------------------------------------------
(* What the processes have to do.                                          *)

TodoTyped == todo \in [Procs -> Seq(Ops)]

\* Op is among the operations s.
Has(s, op) == \E i \in 1..Len(s) : s[i] = op

\* The sequences the actions queue.
LEMMA QueuedOps ==
  /\ <<>> \in Seq(Ops)
  /\ \A op \in Ops : <<op>> \in Seq(Ops)
  /\ \A event \in {"connect", "select", "deselect", "disconnect", "timeoutT7"} :
       Transition(event).enter \in {"armT7", "stopT7", "onDisconnect"}
  /\ {"armT7", "stopT7", "onDisconnect", "closeNow", "send"} \subseteq Ops
  /\ Closing \in Seq(Ops) /\ <<"separate">> \o Closing \in Seq(Ops)
  /\ <<"sendDeselect", "separate">> \o Closing \in Seq(Ops)
  /\ <<>> \o Closing \in Seq(Ops)
  /\ <<"stopLinktest", "stopT7", "notConnected", "farewell">> \in Seq(Ops)
  /\ <<"stopLinktest", "stopT7", "notConnected", "stopServer">> \in Seq(Ops)
  /\ <<"notConnected", "stopLinktest", "timeoutT7", "close">> \in Seq(Ops)
  /\ <<"connected", "connect">> \in Seq(Ops)
  /\ <<"notConnected", "stopLinktest", "disconnect">> \in Seq(Ops)
<1>1. /\ <<>> \in Seq(Ops)
      /\ \A a \in Ops : <<a>> \in Seq(Ops)
      /\ \A a, b \in Ops : <<a, b>> \in Seq(Ops)
      /\ \A a, b, c \in Ops : <<a, b, c>> \in Seq(Ops)
      /\ \A a, b, c, d \in Ops : <<a, b, c, d>> \in Seq(Ops)
  OBVIOUS
<1>2. \A op \in {"connected", "notConnected", "connect", "disconnect", "timeoutT7",
                 "onDisconnect", "armT7", "stopT7", "stopLinktest", "setFlag", "send",
                 "close", "closeNow", "separate", "farewell", "sendDeselect",
                 "stopServer"} : op \in Ops
  BY DEF Ops
<1>3. \A event \in {"connect", "select", "deselect", "disconnect", "timeoutT7"} :
        Transition(event).enter \in {"armT7", "stopT7", "onDisconnect"}
  BY DEF Transition, Edge
<1>4. Closing \in Seq(Ops)
  BY <1>1, <1>2 DEF Closing
<1>5. \A s \in Seq(Ops) : s \o Closing \in Seq(Ops)
  BY <1>4
<1>. QED  BY <1>1, <1>2, <1>3, <1>4, <1>5

LEMMA HandlerOps == \A type : Handler(type) \in Seq(Ops)
<1>1. /\ <<>> \in Seq(Ops)
      /\ \A a \in Ops : <<a>> \in Seq(Ops)
      /\ \A a, b \in Ops : <<a, b>> \in Seq(Ops)
      /\ \A a, b, c \in Ops : <<a, b, c>> \in Seq(Ops)
      /\ \A a, b, c, d \in Ops : <<a, b, c, d>> \in Seq(Ops)
      /\ \A a, b, c, d, e \in Ops : <<a, b, c, d, e>> \in Seq(Ops)
  OBVIOUS
<1>2. \A op \in {"send", "select", "close", "notConnected", "disconnect", "deselect",
                 "answerApp", "stopLinktest", "clearSession"} : op \in Ops
  BY DEF Ops
<1>. QED  BY <1>1, <1>2 DEF Handler

\* What ops and the rest of s look like one after the other.
LEMMA Joined ==
  ASSUME NEW s \in Seq(Ops), s # <<>>, NEW ops \in Seq(Ops),
         NEW m \in Nat, m = Len(ops), NEW n \in Nat, n = Len(s)
  PROVE  LET t == ops \o Tail(s)
         IN  /\ t \in Seq(Ops) /\ Len(t) = m + n - 1
             /\ \A i \in 1..m : t[i] = ops[i]
             /\ \A j \in 2..n : t[m + j - 1] = s[j]
<1>1. n > 0
  OBVIOUS
<1>2. Tail(s) \in Seq(Ops) /\ Len(Tail(s)) = n - 1 /\ \A j \in 1..(n - 1) : Tail(s)[j] = s[j + 1]
  BY <1>1
<1>. DEFINE q == Tail(s)
<1>3. /\ ops \o q \in Seq(Ops) /\ Len(ops \o q) = m + (n - 1)
      /\ \A i \in 1..m : (ops \o q)[i] = ops[i]
      /\ \A j \in 1..(n - 1) : (ops \o q)[m + j] = q[j]
  <2>. HIDE DEF q
  <2>. QED  BY <1>2 DEF q
<1>4. ASSUME NEW j \in 2..n PROVE (ops \o q)[m + j - 1] = s[j]
  <2>1. PICK k : k = j - 1
    OBVIOUS
  <2>2. k \in 1..(n - 1) /\ m + j - 1 = m + k /\ k + 1 = j
    BY <2>1
  <2>. QED  BY <2>2, <1>2, <1>3
<1>. QED  BY <1>3, <1>4

\* What p queues comes before the rest.
LEMMA ThenIs ==
  ASSUME TodoTyped, NEW p \in Procs, todo[p] # <<>>, NEW ops \in Seq(Ops), Then(p, ops)
  PROVE  /\ TodoTyped'
         /\ \A q \in Procs : q # p => todo'[q] = todo[q]
         /\ \A op : Has(todo'[p], op) => Has(ops, op) \/ Has(todo[p], op)
         /\ \A op : Has(todo[p], op) /\ ~At(p, op) => Has(todo'[p], op)
<1>1. PICK s \in Seq(Ops) : s = todo[p]
  BY DEF TodoTyped
<1>2. s # <<>> /\ Tail(s) \in Seq(Ops) /\ ops \o Tail(s) \in Seq(Ops)
  BY <1>1
<1>3. todo' = [todo EXCEPT ![p] = ops \o Tail(s)]
  BY <1>1 DEF Then
<1>4. /\ TodoTyped' /\ todo'[p] = ops \o Tail(s)
      /\ \A q \in Procs : q # p => todo'[q] = todo[q]
  BY <1>2, <1>3 DEF TodoTyped
<1>5. PICK m \in Nat, n \in Nat : m = Len(ops) /\ n = Len(s)
  OBVIOUS
<1>. DEFINE u == ops \o Tail(s)
<1>6. /\ Len(u) = m + n - 1 /\ n > 0
      /\ \A i \in 1..m : u[i] = ops[i]
      /\ \A j \in 2..n : u[m + j - 1] = s[j]
  BY <1>2, <1>5, Joined
<1>. HIDE DEF u
<1>7. ASSUME NEW op, Has(u, op)
      PROVE  Has(ops, op) \/ Has(s, op)
  <2>1. PICK i \in 1..Len(u) : u[i] = op
    BY <1>7 DEF Has
  <2>2. CASE i <= m
    <3>1. i \in 1..m
      BY <2>2
    <3>. QED  BY <3>1, <1>5, <1>6, <2>1 DEF Has
  <2>3. CASE i > m
    <3>1. PICK j : j = i - m + 1
      OBVIOUS
    <3>2. j \in 2..n /\ m + j - 1 = i /\ j \in 1..n
      BY <2>3, <3>1, <1>6
    <3>. QED  BY <3>2, <1>5, <1>6, <2>1 DEF Has
  <2>. QED  BY <2>2, <2>3
<1>8. ASSUME NEW op, Has(s, op), Head(s) # op
      PROVE  Has(u, op)
  <2>1. PICK j \in 1..Len(s) : s[j] = op
    BY <1>8 DEF Has
  <2>2. j # 1
    BY <1>2, <1>8, <2>1
  <2>3. j \in 2..n /\ m + j - 1 \in 1..(m + n - 1)
    BY <1>5, <2>1, <2>2
  <2>. QED  BY <2>1, <2>3, <1>6 DEF Has
<1>9. todo'[p] = u
  BY <1>4 DEF u
<1>10. \A op : Has(todo'[p], op) => Has(ops, op) \/ Has(todo[p], op)
  BY <1>1, <1>7, <1>9
<1>11. \A op : Has(todo[p], op) /\ ~At(p, op) => Has(todo'[p], op)
  BY <1>1, <1>2, <1>8, <1>9 DEF At
<1>. QED  BY <1>4, <1>10, <1>11

\* What is in one sequence after another is in one of them.
LEMMA HasJoin ==
  ASSUME NEW s \in Seq(Ops), NEW t \in Seq(Ops), NEW op, Has(s \o t, op)
  PROVE  Has(s, op) \/ Has(t, op)
<1>1. PICK m \in Nat, n \in Nat : m = Len(s) /\ n = Len(t)
  OBVIOUS
<1>2. /\ Len(s \o t) = m + n
      /\ \A i \in 1..m : (s \o t)[i] = s[i]
      /\ \A i \in (m + 1)..(m + n) : (s \o t)[i] = t[i - m]
  BY <1>1
<1>3. PICK i \in 1..(m + n) : (s \o t)[i] = op
  BY <1>2 DEF Has
<1>4. CASE i <= m
  BY <1>1, <1>2, <1>3, <1>4 DEF Has
<1>5. CASE i > m
  <2>1. PICK j : j = i - m
    OBVIOUS
  <2>2. j \in 1..n /\ i \in (m + 1)..(m + n)
    BY <1>5, <2>1
  <2>. QED  BY <1>1, <1>2, <1>3, <2>1, <2>2 DEF Has
<1>. QED  BY <1>4, <1>5

\* No process but a receiver queues the event select.
LEMMA NoSelectIn ==
  /\ ~Has(<<>>, "select")
  /\ \A op \in Ops \ {"select"} : ~Has(<<op>>, "select")
  /\ ~Has(<<>> \o Closing, "select") /\ ~Has(<<"separate">> \o Closing, "select")
  /\ ~Has(<<"sendDeselect", "separate">> \o Closing, "select")
  /\ ~Has(<<"stopLinktest", "stopT7", "notConnected", "farewell">>, "select")
  /\ ~Has(<<"stopLinktest", "stopT7", "notConnected", "stopServer">>, "select")
  /\ ~Has(<<"notConnected", "stopLinktest", "timeoutT7", "close">>, "select")
  /\ ~Has(<<"connected", "connect">>, "select")
  /\ ~Has(<<"notConnected", "stopLinktest", "disconnect">>, "select")
<1>1. \A a : a # "select" => ~Has(<<a>>, "select")
  BY DEF Has
<1>2. \A a, b : a # "select" /\ b # "select" => ~Has(<<a, b>>, "select")
  BY DEF Has
<1>3. \A a, b, c : a # "select" /\ b # "select" /\ c # "select" => ~Has(<<a, b, c>>, "select")
  BY DEF Has
<1>4. \A a, b, c, d : a # "select" /\ b # "select" /\ c # "select" /\ d # "select"
        => ~Has(<<a, b, c, d>>, "select")
  BY DEF Has
<1>5. ~Has(<<>>, "select")
  BY DEF Has
<1>6. /\ ~Has(<<>> \o Closing, "select") /\ ~Has(<<"separate">> \o Closing, "select")
      /\ ~Has(<<"sendDeselect", "separate">> \o Closing, "select")
  <2>1. Closing \in Seq(Ops) /\ ~Has(Closing, "select")
    BY <1>2, QueuedOps DEF Closing
  <2>2. /\ <<>> \in Seq(Ops) /\ <<"separate">> \in Seq(Ops)
        /\ <<"sendDeselect", "separate">> \in Seq(Ops)
    BY DEF Ops
  <2>3. \A s \in Seq(Ops) : ~Has(s, "select") => ~Has(s \o Closing, "select")
    BY <2>1, HasJoin
  <2>. QED  BY <1>1, <1>2, <1>5, <2>2, <2>3
<1>. QED  BY <1>1, <1>2, <1>3, <1>4, <1>5, <1>6

\* A step of p selects nothing that was not to be selected, and a thread that
\* is to tell the state machine of a disconnection still is, unless it is p
\* that does so now.
Settled(p) ==
  /\ TodoTyped'
  /\ \A q \in Procs : Has(todo'[q], "select") => Has(todo[q], "select")
  /\ \A t \in Threads :
       Has(todo[t], "disconnect")
         => Has(todo'[t], "disconnect") \/ (t = p /\ At(p, "disconnect"))

LEMMA ThenSettles ==
  ASSUME TodoTyped, NEW p \in Procs, todo[p] # <<>>, NEW ops \in Seq(Ops), Then(p, ops),
         ~Has(ops, "select")
  PROVE  Settled(p)
<1>1. /\ TodoTyped'
      /\ \A q \in Procs : q # p => todo'[q] = todo[q]
      /\ \A op : Has(todo'[p], op) => Has(ops, op) \/ Has(todo[p], op)
      /\ \A op : Has(todo[p], op) /\ ~At(p, op) => Has(todo'[p], op)
  BY ThenIs
<1>2. \A t \in Threads : t \in Procs
  BY DEF Procs
<1>. QED  BY <1>1, <1>2 DEF Settled

LEMMA SameSettles ==
  ASSUME TodoTyped, UNCHANGED todo, NEW p
  PROVE  Settled(p)
BY DEF TodoTyped, Settled, Procs

LEMMA ReplaceSettles ==
  ASSUME TodoTyped, NEW p \in Procs, NEW ops \in Seq(Ops), ~Has(ops, "select"),
         todo' = [todo EXCEPT ![p] = ops],
         p \in Threads => todo[p] = <<>>
  PROVE  Settled(p)
<1>1. /\ TodoTyped' /\ todo'[p] = ops
      /\ \A q \in Procs : q # p => todo'[q] = todo[q]
  BY DEF TodoTyped
<1>2. ~Has(<<>>, "disconnect")
  BY DEF Has
<1>3. \A t \in Threads : t \in Procs
  BY DEF Procs
<1>. QED  BY <1>1, <1>2, <1>3 DEF Settled

LEMMA OperationSettles ==
  ASSUME TodoTyped, NEW p \in Procs, Operation(p)
  PROVE  Settled(p)
<1>1. ASSUME todo[p] # <<>>, NEW op \in Ops \ {"select"}, Then(p, <<op>>)
      PROVE  Settled(p)
  BY <1>1, ThenSettles, QueuedOps, NoSelectIn
<1>2. ASSUME todo[p] # <<>>, Then(p, <<>>)
      PROVE  Settled(p)
  BY <1>2, ThenSettles, QueuedOps, NoSelectIn
<1>3. CASE SetConnected(p) \/ OnDisconnect(p) \/ SetT7(p) \/ SetFlag(p) \/ ClearSession(p)
  BY <1>3, <1>2 DEF SetConnected, OnDisconnect, OnDisconnectIf, SetT7, SetFlag,
     ClearSession, At
<1>4. CASE Event(p)
  <2>1. PICK event \in {"connect", "select", "deselect", "disconnect", "timeoutT7"} :
          At(p, event) /\ (Then(p, <<Transition(event).enter>>) \/ Then(p, <<>>))
    BY <1>4 DEF Event
  <2>2. Transition(event).enter \in Ops \ {"select"}
    BY QueuedOps
  <2>. QED  BY <2>1, <2>2, <1>1, <1>2 DEF At
<1>5. CASE Send(p) \/ CloseNow(p)
  <2>1. UNCHANGED todo \/ (todo[p] # <<>> /\ Then(p, <<>>))
    BY <1>5 DEF Send, CloseNow, NilSession, At
  <2>. QED  BY <2>1, <1>2, SameSettles
<1>6. CASE CheckSession(p)
  <2>1. PICK ops \in {<<>>, <<"closeNow">>, <<"send">>} : todo[p] # <<>> /\ Then(p, ops)
    BY <1>6 DEF CheckSession, At
  <2>2. {"closeNow", "send"} \subseteq Ops \ {"select"}
    BY QueuedOps
  <2>. QED  BY <2>1, <2>2, <1>1, <1>2
<1>7. CASE AnswerApp(p)
  <2>1. CASE Then(p, <<>>)
    BY <1>7, <2>1, <1>2 DEF AnswerApp, At
  <2>2. CASE todo' = [todo EXCEPT ![p] = Tail(todo[p]), !["app"] = <<"separate">> \o Closing]
    <3>1. PICK s : s = <<"separate">> \o Closing
      OBVIOUS
    <3>2. s \in Seq(Ops) /\ ~Has(s, "select") /\ "app" \in Procs /\ "app" \notin Threads
      BY <3>1, QueuedOps, NoSelectIn, HsmsAssumption DEF Procs
    <3>3. todo' = [todo EXCEPT ![p] = Tail(todo[p]), !["app"] = s]
      BY <2>2, <3>1
    <3>4. todo[p] \in Seq(Ops) /\ todo[p] # <<>> /\ At(p, "answerApp")
      BY <1>7 DEF AnswerApp, At, TodoTyped
    <3>5. PICK r \in Seq(Ops) : r = Tail(todo[p])
      <4>1. \A q \in Seq(Ops) : q # <<>> => Tail(q) \in Seq(Ops)
        OBVIOUS
      <4>. QED  BY <3>4, <4>1
    <3>8. /\ todo' \in [Procs -> Seq(Ops)] /\ todo'["app"] = s
          /\ p # "app" => todo'[p] = r
          /\ \A q \in Procs : q # p /\ q # "app" => todo'[q] = todo[q]
      BY <3>2, <3>3, <3>5 DEF TodoTyped
    <3>9. ASSUME NEW op
          PROVE  /\ Has(r, op) => Has(todo[p], op)
                 /\ Has(todo[p], op) /\ ~At(p, op) => Has(r, op)
      <4>1. PICK n \in Nat : n = Len(todo[p])
        BY <3>4
      <4>2. n > 0 /\ Len(r) = n - 1 /\ \A i \in 1..(n - 1) : r[i] = todo[p][i + 1]
        BY <3>4, <3>5, <4>1
      <4>3. ASSUME Has(r, op) PROVE Has(todo[p], op)
        <5>1. PICK i \in 1..(n - 1) : r[i] = op
          BY <4>2, <4>3 DEF Has
        <5>2. i + 1 \in 1..n
          BY <5>1
        <5>. QED  BY <5>1, <5>2, <4>1, <4>2 DEF Has
      <4>4. ASSUME Has(todo[p], op), ~At(p, op) PROVE Has(r, op)
        <5>1. PICK i \in 1..n : todo[p][i] = op
          BY <4>1, <4>4 DEF Has
        <5>2. i # 1
          BY <5>1, <3>4, <4>4 DEF At
        <5>3. PICK j : j = i - 1
          OBVIOUS
        <5>4. j \in 1..(n - 1) /\ j + 1 = i
          BY <5>1, <5>2, <5>3
        <5>. QED  BY <5>1, <5>4, <4>2 DEF Has
      <4>. QED  BY <4>3, <4>4
    <3>10. \A t \in Threads : t \in Procs
      BY DEF Procs
    <3>. QED  BY <3>2, <3>8, <3>9, <3>10 DEF Settled, TodoTyped
  <2>. QED  BY <1>7, <2>1, <2>2 DEF AnswerApp
<1>. QED
  BY <1>3, <1>4, <1>5, <1>6, <1>7 DEF Operation

-----------------------------------------------------------------------------
(* SELECTED on an agreed connection, until Enable is called again: then a  *)
(* receiver that Disable stopped has left without telling the state        *)
(* machine, which may stay SELECTED on the next connection.                *)

\* Positions of a thread before the state machine knows of its connection.
Fresh == {"dial", "failed", "listen", "publish", "accept", "accepted", "session"}

\* Enable has been called at most once, and Disable only after it.
Once ==
  /\ enabled <=> toggles = 1
  /\ toggles = 0 => state # "SELECTED" /\ \A t \in Threads : ct[t] = "off"

\* The event select is for a receiver to raise, on an agreed connection.
Selects ==
  \A p \in Procs :
    Has(todo[p], "select") => p \in Threads /\ ct[p] = "established" /\ agreed

\* Between two connections the state machine has left SELECTED, or is about to.
Between ==
  /\ \A t \in Threads :
       /\ ct[t] \in Fresh => state # "SELECTED"
       /\ ct[t] \in {"served", "stopping", "loop", "exit"} /\ enabled => state # "SELECTED"
       /\ ct[t] = "unlink" /\ enabled
            => state # "SELECTED" \/ Has(todo[t], "disconnect")
  /\ enabled /\ (\A t \in Threads : ct[t] = "off") => state # "SELECTED"

Agreement == Once /\ Selects /\ Between /\ SelectedIsAgreed

\* A step of p that moves no thread and does not select.
LEMMA AgreedQuiet ==
  ASSUME Agreement, NEW p \in Procs, Settled(p),
         UNCHANGED <<enabled, toggles, agreed, ct>>,
         state' = "SELECTED" => state = "SELECTED" /\ ~At(p, "disconnect")
  PROVE  Agreement'
<1>1. Once' /\ SelectedIsAgreed'
  BY DEF Agreement, Once, SelectedIsAgreed
<1>2. Selects'
  BY DEF Agreement, Selects, Settled
<1>3. Between'
  BY DEF Agreement, Between, Settled
<1>. QED  BY <1>1, <1>2, <1>3 DEF Agreement

\* The connect thread moves; there is no other.
LEMMA AgreedMove ==
  ASSUME ThreadInv, Agreement, NEW t \in Threads, NEW there \in CtPcs \ {"off"},
         ct[t] # "off", Move(t, there), UNCHANGED <<enabled, toggles, state>>,
         state = "SELECTED" => agreed',
         there \in Fresh => state # "SELECTED",
         there \in {"served", "stopping", "loop", "exit"} /\ enabled => state # "SELECTED",
         there = "unlink" /\ enabled => state # "SELECTED" \/ Has(todo'[t], "disconnect"),
         \A q \in Procs : Has(todo'[q], "select") => q = t /\ there = "established" /\ agreed'
  PROVE  Agreement'
<1>1. /\ ct'[t] = there
      /\ \A u \in Threads : u # t => ct'[u] = "off"
  BY DEF Move, ThreadInv, ThreadTypes, OneConnectThread
<1>2. Once' /\ SelectedIsAgreed'
  BY DEF Agreement, Once, SelectedIsAgreed
<1>3. Selects'
  BY <1>1 DEF Selects
<1>4. Between'
  BY <1>1 DEF Between, Fresh
<1>. QED  BY <1>2, <1>3, <1>4 DEF Agreement

\* A connect thread starts, by Enable or by onStateDisconnect.
LEMMA AgreedSpawn ==
  ASSUME ThreadInv, ~running, SpawnConnectThread, Selects, state' # "SELECTED",
         \A q \in Procs : Has(todo'[q], "select") => Has(todo[q], "select"),
         enabled' <=> toggles' = 1, toggles' # 0
  PROVE  Agreement'
<1>1. PICK t \in Threads : ct[t] = "off" /\ ct' = [ct EXCEPT ![t] = "loop"]
  BY DEF SpawnConnectThread
<1>2. \A u \in Threads : ct[u] = "off"
  BY DEF ThreadInv, OneConnectThread
<1>3. Selects'
  BY <1>2 DEF Selects
<1>4. Once' /\ Between' /\ SelectedIsAgreed'
  BY DEF Once, Between, SelectedIsAgreed
<1>. QED  BY <1>3, <1>4 DEF Agreement

\* What runs while a thread is ready for a step of its own.
LEMMA ReadySelects ==
  ASSUME ThreadInv, Agreement, NEW t \in Threads, NEW here, Ready(t, here), here # "off"
  PROVE  /\ ct[t] # "off"
         /\ \A op : ~Has(todo[t], op)
         /\ \A q \in Procs : ~Has(todo[q], "select")
<1>1. ct[t] # "off" /\ todo[t] = <<>>
  BY DEF Ready
<1>2. \A op : ~Has(todo[t], op)
  BY <1>1 DEF Has
<1>3. \A q \in Procs : Has(todo[q], "select") => q = t
  BY <1>1 DEF Agreement, Selects, ThreadInv, OneConnectThread
<1>. QED  BY <1>1, <1>2, <1>3

\* A handler raises select for a select.req it accepts and a select.rsp that
\* accepts.
LEMMA HandlerSelects ==
  ASSUME NEW type, Has(Handler(type), "select")
  PROVE  type \in {"select.req", "select.rsp"}
<1>1. \A a : a # "select" => ~Has(<<a>>, "select")
  BY DEF Has
<1>2. \A a, b : a # "select" /\ b # "select" => ~Has(<<a, b>>, "select")
  BY DEF Has
<1>3. \A a, b, c : a # "select" /\ b # "select" /\ c # "select" => ~Has(<<a, b, c>>, "select")
  BY DEF Has
<1>4. \A a, b, c, d : a # "select" /\ b # "select" /\ c # "select" /\ d # "select"
        => ~Has(<<a, b, c, d>>, "select")
  BY DEF Has
<1>5. \A a, b, c, d, e : /\ a # "select" /\ b # "select" /\ c # "select" /\ d # "select"
                         /\ e # "select"
        => ~Has(<<a, b, c, d, e>>, "select")
  BY DEF Has
<1>6. ~Has(<<>>, "select")
  BY DEF Has
<1>. QED  BY <1>1, <1>2, <1>3, <1>4, <1>5, <1>6 DEF Handler

\* A queued operation of any process.
LEMMA OperationAgrees ==
  ASSUME ThreadInv, TodoTyped, Agreement, NEW p \in Procs, Operation(p)
  PROVE  Agreement'
<1>0. Settled(p)
  BY OperationSettles
<1>1. CASE SetConnected(p) \/ SetT7(p) \/ SetFlag(p) \/ CheckSession(p) \/ ClearSession(p)
  <2>1. UNCHANGED <<enabled, toggles, agreed, ct, state>> /\ ~At(p, "disconnect")
    BY <1>1 DEF SetConnected, SetT7, SetFlag, CheckSession, ClearSession, At, appVars,
       connVars, ctVars, fsmVars
  <2>. QED  BY <1>0, <2>1, AgreedQuiet
<1>2. CASE Send(p) \/ CloseNow(p) \/ AnswerApp(p)
  <2>1. UNCHANGED <<enabled, toggles, agreed, ct, state>> /\ ~At(p, "disconnect")
    BY <1>2 DEF Send, CloseNow, AnswerApp, NilSession, At, appVars, connVars, ctVars, fsmVars
  <2>. QED  BY <1>0, <2>1, AgreedQuiet
<1>3. CASE Event(p)
  <2>1. PICK event \in {"connect", "select", "deselect", "disconnect", "timeoutT7"} :
          /\ At(p, event)
          /\ \/ state \in Transition(event).from /\ state' = Transition(event).to
             \/ state \notin Transition(event).from /\ state' = state
          /\ UNCHANGED <<enabled, toggles, agreed, ct>>
    BY <1>3 DEF Event, appVars, connVars, ctVars
  <2>2. CASE event = "select" /\ state' = "SELECTED"
    <3>1. Has(todo[p], "select")
      <4>1. PICK s \in Seq(Ops) : s = todo[p]
        BY DEF TodoTyped
      <4>2. s # <<>> /\ Head(s) = "select"
        BY <4>1, <2>1, <2>2 DEF At
      <4>3. 1 \in 1..Len(s) /\ s[1] = "select"
        BY <4>2
      <4>. QED  BY <4>1, <4>3 DEF Has
    <3>2. p \in Threads /\ ct[p] = "established" /\ agreed
      BY <3>1 DEF Agreement, Selects
    <3>3. \A t \in Threads : t # p => ct[t] = "off"
      BY <3>2 DEF ThreadInv, OneConnectThread
    <3>4. Once' /\ SelectedIsAgreed'
      BY <2>1, <3>2 DEF Agreement, Once, SelectedIsAgreed
    <3>5. Selects'
      BY <1>0, <2>1 DEF Agreement, Selects, Settled
    <3>6. Between'
      BY <2>1, <3>2, <3>3 DEF Between, Fresh
    <3>. QED  BY <3>4, <3>5, <3>6 DEF Agreement
  <2>3. CASE ~(event = "select" /\ state' = "SELECTED")
    <3>1. state' = "SELECTED" => state = "SELECTED" /\ event # "disconnect"
      BY <2>1, <2>3 DEF Transition, Edge
    <3>2. state' = "SELECTED" => ~At(p, "disconnect")
      BY <2>1, <3>1 DEF At
    <3>. QED  BY <1>0, <2>1, <3>1, <3>2, AgreedQuiet
  <2>. QED  BY <2>2, <2>3
<1>4. CASE OnDisconnect(p)
  <2>1. UNCHANGED <<enabled, toggles, agreed, state>> /\ ~At(p, "disconnect")
    BY <1>4 DEF OnDisconnect, OnDisconnectIf, At, appVars, connVars
  <2>2. CASE enabled /\ ~running
    <3>1. SpawnConnectThread
      BY <1>4, <2>2 DEF OnDisconnect, OnDisconnectIf
    <3>2. \A t \in Threads : ct[t] = "off"
      BY <2>2 DEF ThreadInv, OneConnectThread
    <3>3. state' # "SELECTED" /\ (enabled' <=> toggles' = 1) /\ toggles' # 0
      BY <2>1, <2>2, <3>2 DEF Agreement, Between, Once
    <3>4. Selects /\ \A q \in Procs : Has(todo'[q], "select") => Has(todo[q], "select")
      BY <1>0 DEF Agreement, Settled
    <3>. QED  BY <2>2, <3>1, <3>3, <3>4, AgreedSpawn
  <2>3. CASE ~(enabled /\ ~running)
    <3>1. ct' = ct
      BY <1>4, <2>3 DEF OnDisconnect, OnDisconnectIf
    <3>. QED  BY <1>0, <2>1, <3>1, AgreedQuiet
  <2>. QED  BY <2>2, <2>3
<1>. QED  BY <1>1, <1>2, <1>3, <1>4 DEF Operation

\* A step that moves the ready thread t and leaves what is queued, or replaces
\* what t has queued by ops.
LEMMA ReadyMove ==
  ASSUME ThreadInv, TodoTyped, Agreement, NEW t \in Threads, NEW here, Ready(t, here),
         here # "off", NEW ops \in Seq(Ops),
         (todo' = todo /\ ops = <<>>) \/ todo' = [todo EXCEPT ![t] = ops]
  PROVE  /\ TodoTyped' /\ todo'[t] = ops
         /\ \A q \in Procs : Has(todo'[q], "select") => q = t /\ Has(ops, "select")
<1>1. t \in Procs /\ todo[t] = <<>>
  BY DEF Procs, Ready
<1>2. \A q \in Procs : ~Has(todo[q], "select")
  BY ReadySelects
<1>3. /\ TodoTyped' /\ todo'[t] = ops
      /\ \A q \in Procs : q # t => todo'[q] = todo[q]
  BY <1>1 DEF TodoTyped
<1>. QED  BY <1>2, <1>3

\* A step of the connect thread that queues nothing.
LEMMA AgreedSteps ==
  ASSUME ThreadInv, TodoTyped, Agreement, NEW t \in Threads, NEW here, Ready(t, here),
         here # "off", NEW there \in CtPcs \ {"off"}, Move(t, there),
         UNCHANGED <<enabled, toggles, state, todo>>,
         agreed' = agreed \/ here \in Fresh,
         there \in Fresh => here \in Fresh \/ (here = "loop" /\ enabled),
         there \in {"served", "stopping", "loop", "exit"} /\ enabled
           => here \in Fresh \cup {"served", "stopping", "loop", "exit", "unlink"},
         there = "unlink" => ~enabled
  PROVE  Agreement'
<1>1. ct[t] = here /\ ct[t] # "off" /\ ~Has(todo[t], "disconnect")
  BY ReadySelects DEF Ready
<1>2. \A q \in Procs : ~Has(todo'[q], "select")
  BY ReadySelects
<1>3. here \in Fresh => state # "SELECTED"
  BY <1>1 DEF Agreement, Between
<1>4. here \in {"served", "stopping", "loop", "exit", "unlink"} /\ enabled => state # "SELECTED"
  BY <1>1 DEF Agreement, Between
<1>5. state = "SELECTED" => agreed'
  BY <1>3 DEF Agreement, SelectedIsAgreed
<1>. QED  BY <1>1, <1>2, <1>3, <1>4, <1>5, AgreedMove

\* A step of a connect thread.
LEMMA ThreadAgrees ==
  ASSUME ThreadInv, TodoTyped, Agreement, NEW t \in Threads, ThreadStep(t)
  PROVE  TodoTyped' /\ Agreement'
<1>1. CASE Operation(t)
  BY <1>1, OperationSettles, OperationAgrees DEF Procs, Settled
<1>2. ASSUME NEW here \in CtPcs \ {"off"}, NEW there \in CtPcs \ {"off"}, Steps(t, here, there),
             there \in Fresh => here \in Fresh \/ (here = "loop" /\ enabled),
             there \in {"served", "stopping", "loop", "exit"} /\ enabled
               => here \in Fresh \cup {"served", "stopping", "loop", "exit", "unlink"},
             there = "unlink" => ~enabled
      PROVE  TodoTyped' /\ Agreement'
  <2>1. /\ Ready(t, here) /\ Move(t, there)
        /\ UNCHANGED <<enabled, toggles, state, todo, agreed>>
    BY <1>2 DEF Steps, appVars, connVars, fsmVars
  <2>2. Agreement'
    BY <1>2, <2>1, AgreedSteps
  <2>. QED  BY <2>1, <2>2 DEF TodoTyped
<1>3. CASE Loop(t) \/ ConnectFails(t) \/ Accept(t) \/ ReceiveLoop(t)
  BY <1>2, <1>3 DEF Loop, ConnectFails, Accept, ReceiveLoop, CtPcs, Fresh
<1>4. CASE Retry(t)
  BY <1>2, <1>4 DEF Retry, RetryIf, CtPcs, Fresh
<1>5. CASE Listen(t) \/ Publish(t) \/ Served(t) \/ StopServed(t) \/ Unlink(t)
  <2>1. PICK here, there : /\ Ready(t, here) /\ Move(t, there)
                           /\ <<here, there>> \in {<<"listen", "publish">>, <<"publish", "accept">>,
                                                   <<"served", "loop">>, <<"served", "stopping">>,
                                                   <<"stopping", "loop">>, <<"unlink", "served">>}
                           /\ UNCHANGED <<enabled, toggles, state, todo, agreed>>
    BY <1>5 DEF Listen, Publish, Served, ServedTo, StopServed, StopServedIf, Unlink, UnlinkTo,
       appVars, connVars, fsmVars
  <2>2. Agreement'
    BY <2>1, AgreedSteps DEF CtPcs, Fresh
  <2>. QED  BY <2>1, <2>2 DEF TodoTyped
<1>6. CASE Dial(t) \/ Register(t)
  <2>1. PICK here \in {"dial", "accepted"} :
          /\ Ready(t, here) /\ Move(t, "session")
          /\ UNCHANGED <<enabled, toggles, state, todo>> /\ agreed' = FALSE
    BY <1>6 DEF Dial, Register, NewConnection, appVars, fsmVars
  <2>2. Agreement'
    BY <2>1, AgreedSteps DEF CtPcs, Fresh
  <2>. QED  BY <2>1, <2>2 DEF TodoTyped
<1>7. CASE TakeSession(t)
  <2>1. Ready(t, "session") /\ UNCHANGED <<enabled, toggles, state, agreed>>
    BY <1>7 DEF TakeSession, appVars, fsmVars
  <2>2. CASE ~Active /\ sess \in open
    <3>1. Move(t, "served") /\ UNCHANGED todo
      BY <1>7, <2>2 DEF TakeSession
    <3>2. Agreement'
      BY <2>1, <3>1, AgreedSteps DEF CtPcs, Fresh
    <3>. QED  BY <3>1, <3>2 DEF TodoTyped
  <2>3. CASE ~(~Active /\ sess \in open)
    <3>1. Move(t, "established") /\ todo' = [todo EXCEPT ![t] = <<"connected", "connect">>]
      BY <1>7, <2>3 DEF TakeSession
    <3>2. TodoTyped' /\ \A q \in Procs : ~Has(todo'[q], "select")
      BY <2>1, <3>1, ReadyMove, QueuedOps, NoSelectIn
    <3>3. ct[t] # "off" /\ (state = "SELECTED" => agreed')
      BY <2>1 DEF Ready, Agreement, SelectedIsAgreed
    <3>. QED  BY <2>1, <3>1, <3>2, <3>3, AgreedMove DEF CtPcs, Fresh
  <2>. QED  BY <2>2, <2>3
<1>8. CASE ReceiveError(t)
  <2>. DEFINE ops == <<"notConnected", "stopLinktest", "disconnect">>
  <2>1. /\ Ready(t, "receive") /\ Move(t, "unlink") /\ todo' = [todo EXCEPT ![t] = ops]
        /\ UNCHANGED <<enabled, toggles, state, agreed>>
    BY <1>8 DEF ReceiveError, ReceiveFails, appVars, fsmVars
  <2>2. Has(ops, "disconnect")
    BY DEF Has
  <2>3. ops \in Seq(Ops) /\ ~Has(ops, "select")
    BY QueuedOps, NoSelectIn
  <2>. HIDE DEF ops
  <2>4. TodoTyped' /\ todo'[t] = ops /\ \A q \in Procs : ~Has(todo'[q], "select")
    BY <2>1, <2>3, ReadyMove
  <2>5. ct[t] # "off" /\ (state = "SELECTED" => agreed')
    BY <2>1 DEF Ready, Agreement, SelectedIsAgreed
  <2>. QED  BY <2>1, <2>2, <2>4, <2>5, AgreedMove DEF CtPcs, Fresh
<1>9. CASE ReceiveMessage(t)
  <2>1. /\ Ready(t, "receive")
        /\ UNCHANGED <<enabled, toggles, state>>
        /\ \/ UNCHANGED <<agreed, ct, todo>>
           \/ \E type : /\ agreed' = (type \in {"select.req", "select.rsp"} \/ agreed)
                        /\ Move(t, "established")
                        /\ todo' = [todo EXCEPT ![t] = Handler(type)]
    BY <1>9 DEF ReceiveMessage, appVars, fsmVars
  <2>2. CASE UNCHANGED <<agreed, ct, todo>>
    <3>1. t \in Procs /\ ~At(t, "disconnect")
      BY <2>1 DEF Procs, Ready, At
    <3>. QED  BY <2>1, <2>2, <3>1, SameSettles, AgreedQuiet DEF TodoTyped
  <2>3. ASSUME NEW type, agreed' = (type \in {"select.req", "select.rsp"} \/ agreed),
               Move(t, "established"), todo' = [todo EXCEPT ![t] = Handler(type)]
        PROVE  TodoTyped' /\ Agreement'
    <3>1. PICK ops \in Seq(Ops) : ops = Handler(type)
      BY HandlerOps
    <3>2. TodoTyped' /\ \A q \in Procs : Has(todo'[q], "select") => q = t /\ Has(ops, "select")
      BY <2>1, <2>3, <3>1, ReadyMove
    <3>3. Has(ops, "select") => agreed'
      BY <2>3, <3>1, HandlerSelects
    <3>4. ct[t] # "off" /\ (state = "SELECTED" => agreed')
      BY <2>1, <2>3 DEF Ready, Agreement, SelectedIsAgreed
    <3>. QED  BY <2>1, <2>3, <3>2, <3>3, <3>4, AgreedMove DEF CtPcs, Fresh
  <2>. QED  BY <2>1, <2>2, <2>3
<1>10. CASE Exit(t)
  <2>1. /\ Ready(t, "exit") /\ Move(t, "off")
        /\ UNCHANGED <<enabled, toggles, state, agreed, todo>>
    BY <1>10 DEF Exit, appVars, connVars, fsmVars
  <2>2. ct[t] = "exit" /\ \A q \in Procs : ~Has(todo'[q], "select")
    BY <2>1, ReadySelects DEF Ready
  <2>3. enabled => state # "SELECTED"
    BY <2>2 DEF Agreement, Between
  <2>4. \A u \in Threads : ct'[u] = "off"
    BY <2>1, <2>2 DEF Move, ThreadInv, ThreadTypes, OneConnectThread
  <2>5. Once' /\ SelectedIsAgreed'
    BY <2>1, <2>2 DEF Agreement, Once, SelectedIsAgreed
  <2>6. Selects' /\ Between'
    BY <2>1, <2>2, <2>3, <2>4 DEF Selects, Between, Fresh
  <2>. QED  BY <2>1, <2>5, <2>6 DEF Agreement, TodoTyped
<1>. QED
  BY <1>1, <1>3, <1>4, <1>5, <1>6, <1>7, <1>8, <1>9, <1>10 DEF ThreadStep

\* A step of the select/linktest goroutines, of T7, Disable or the peer.
LEMMA OthersAgree ==
  ASSUME TodoTyped, Agreement,
         \/ \E g \in Conns : LinktestStep(g)
         \/ FireT7 \/ Farewell \/ SendDeselect \/ DeselectTimeout \/ StopServer \/ Return
         \/ Peer \/ UNCHANGED vars
  PROVE  TodoTyped' /\ Agreement'
<1>. "app" \in Procs /\ "t7" \in Procs /\ "app" \notin Threads /\ "t7" \notin Threads
  BY HsmsAssumption DEF Procs
<1>1. ASSUME UNCHANGED <<enabled, toggles, agreed, ct, state>>,
             NEW p \in {"app", "t7"}, Settled(p), ~At(p, "disconnect")
      PROVE  TodoTyped' /\ Agreement'
  BY <1>1, AgreedQuiet DEF Settled
<1>2. ASSUME UNCHANGED <<enabled, toggles, agreed, ct, state, todo>>
      PROVE  TodoTyped' /\ Agreement'
  <2>1. Once' /\ SelectedIsAgreed' /\ Selects' /\ Between'
    BY <1>2 DEF Agreement, Once, SelectedIsAgreed, Selects, Between
  <2>. QED  BY <1>2, <2>1 DEF TodoTyped, Agreement
<1>3. ASSUME NEW g \in Conns, LinktestStep(g) PROVE TodoTyped' /\ Agreement'
  BY <1>3, <1>2
     DEF LinktestStep, SendSelect, SelectTimeout, LinktestStart, SendLinktest,
         Tick, LinktestStop, NilSession, ctVars, connVars, appVars, fsmVars
<1>4. CASE Peer \/ UNCHANGED vars \/ Return
  BY <1>4, <1>2 DEF Peer, PeerSend, PeerAnswer, PeerClose, Return, vars, ctVars, connVars,
     appVars, fsmVars
<1>5. CASE FireT7
  <2>1. /\ UNCHANGED <<enabled, toggles, agreed, ct, state>>
        /\ todo["t7"] = <<>>
        /\ todo' = [todo EXCEPT !["t7"] = <<"notConnected", "stopLinktest", "timeoutT7", "close">>]
    BY <1>5 DEF FireT7, ctVars, connVars, appVars
  <2>2. Settled("t7")
    BY <2>1, ReplaceSettles, QueuedOps, NoSelectIn
  <2>. QED  BY <2>1, <2>2, <1>1 DEF At
<1>6. CASE Farewell \/ StopServer
  <2>1. PICK ops \in {<<>>, <<>> \o Closing, <<"separate">> \o Closing,
                      <<"sendDeselect", "separate">> \o Closing} :
          /\ UNCHANGED <<enabled, toggles, agreed, ct, state>>
          /\ todo["app"] # <<>> /\ ~At("app", "disconnect") /\ Then("app", ops)
    BY <1>6 DEF Farewell, FarewellThen, StopServer, At, ctVars, connVars, appVars, fsmVars
  <2>2. ops \in Seq(Ops) /\ ~Has(ops, "select")
    BY QueuedOps, NoSelectIn
  <2>3. Settled("app")
    BY <2>1, <2>2, ThenSettles
  <2>. QED  BY <2>1, <2>3, <1>1
<1>7. CASE SendDeselect
  <2>1. /\ UNCHANGED <<enabled, toggles, agreed, ct, state>>
        /\ todo["app"] # <<>> /\ ~At("app", "disconnect")
        /\ UNCHANGED todo \/ todo' = [todo EXCEPT !["app"] = <<>>] \/ Then("app", <<>>)
    BY <1>7 DEF SendDeselect, NilSession, At, ctVars, connVars, appVars, fsmVars
  <2>2. <<>> \in Seq(Ops) /\ ~Has(<<>>, "select")
    BY QueuedOps, NoSelectIn
  <2>3. Settled("app")
    BY <2>1, <2>2, ThenSettles, SameSettles, ReplaceSettles
  <2>. QED  BY <2>1, <2>3, <1>1
<1>8. CASE DeselectTimeout
  <2>1. PICK ops : ops = <<"separate">> \o Closing
    OBVIOUS
  <2>2. ops \in Seq(Ops) /\ ~Has(ops, "select")
    BY <2>1, QueuedOps, NoSelectIn
  <2>3. /\ UNCHANGED <<enabled, toggles, agreed, ct, state>>
        /\ todo' = [todo EXCEPT !["app"] = ops]
    BY <1>8, <2>1 DEF DeselectTimeout, ctVars, connVars, fsmVars
  <2>4. Settled("app") /\ UNCHANGED <<enabled, toggles, agreed, ct, state>>
    BY <2>2, <2>3, ReplaceSettles
  <2>5. Once' /\ SelectedIsAgreed' /\ Selects'
    BY <2>4 DEF Agreement, Once, SelectedIsAgreed, Selects, Settled
  <2>6. \A t \in Threads : todo'[t] = todo[t]
    BY <2>3 DEF TodoTyped, Procs
  <2>7. Between'
    BY <2>4, <2>6 DEF Agreement, Between
  <2>. QED  BY <2>4, <2>5, <2>7 DEF Agreement, Settled
<1>. QED  BY <1>3, <1>4, <1>5, <1>6, <1>7, <1>8

\* What has to be known besides ThreadInv.
AgreedInv == TodoTyped /\ toggles \in Nat /\ (toggles <= 2 => Agreement)

LEMMA AgreedStart == Init => AgreedInv
<1>. SUFFICES ASSUME Init PROVE AgreedInv
  OBVIOUS
<1>1. TodoTyped
  BY QueuedOps DEF Init, TodoTyped
<1>2. \A p \in Procs : \A op : ~Has(todo[p], op)
  BY DEF Init, Has
<1>3. Agreement
  BY <1>2 DEF Init, Agreement, Once, Selects, Between, SelectedIsAgreed, Fresh
<1>. QED  BY <1>1, <1>3 DEF Init, AgreedInv

\* Enable, for the first time or after an earlier Disable.
LEMMA EnableAgrees ==
  ASSUME ThreadInv, AgreedInv, Enable
  PROVE  AgreedInv'
<1>1. TodoTyped' /\ toggles' \in Nat /\ toggles' = toggles + 1
  BY DEF Enable, AgreedInv, TodoTyped
<1>2. ASSUME toggles' <= 2 PROVE Agreement'
  <2>1. Agreement /\ toggles = 0
    BY <1>1, <1>2 DEF AgreedInv, Agreement, Once, Enable
  <2>2. state' # "SELECTED" /\ \A t \in Threads : ct[t] = "off"
    BY <2>1 DEF Agreement, Once, Enable, fsmVars
  <2>3. ~running
    BY <2>2 DEF ThreadInv, OneConnectThread
  <2>4. SpawnConnectThread /\ enabled' = TRUE /\ toggles' = 1 /\ UNCHANGED todo
    BY <2>1, <2>3, <1>1 DEF Enable
  <2>5. Selects
    BY <2>1 DEF Agreement
  <2>. QED  BY <2>2, <2>3, <2>4, <2>5, AgreedSpawn
<1>. QED  BY <1>1, <1>2 DEF AgreedInv

\* Disable.
LEMMA DisableAgrees ==
  ASSUME ThreadInv, AgreedInv, Disable
  PROVE  AgreedInv'
<1>1. /\ toggles' \in Nat /\ toggles' = toggles + 1 /\ enabled /\ enabled' = FALSE
      /\ UNCHANGED <<agreed, ct, state>>
  BY DEF Disable, AgreedInv, ctVars, connVars, fsmVars
<1>2. PICK ops \in Seq(Ops) : /\ ~Has(ops, "select")
                              /\ todo' = [todo EXCEPT !["app"] = ops]
  BY QueuedOps, NoSelectIn DEF Disable
<1>3. "app" \in Procs /\ "app" \notin Threads
  BY HsmsAssumption DEF Procs
<1>4. Settled("app")
  BY <1>2, <1>3, ReplaceSettles DEF AgreedInv
<1>5. ASSUME toggles' <= 2 PROVE Agreement'
  <2>1. Agreement /\ toggles' = 2
    BY <1>1, <1>5 DEF AgreedInv, Agreement, Once
  <2>2. Once' /\ Between' /\ SelectedIsAgreed'
    BY <1>1, <2>1 DEF Agreement, Once, Between, SelectedIsAgreed
  <2>3. Selects'
    BY <1>1, <1>4, <2>1 DEF Agreement, Selects, Settled
  <2>. QED  BY <2>2, <2>3 DEF Agreement
<1>. QED  BY <1>1, <1>4, <1>5 DEF AgreedInv, Settled

\* What the operations queue, whether the connection is agreed or not.
LEMMA TodoStep == TodoTyped /\ [Next]_vars => TodoTyped'
<1>. SUFFICES ASSUME TodoTyped, [Next]_vars PROVE TodoTyped'
  OBVIOUS
<1>. "app" \in Procs /\ "t7" \in Procs /\ Threads \subseteq Procs
  BY DEF Procs
<1>1. ASSUME NEW p \in Procs, Operation(p) PROVE TodoTyped'
  BY <1>1, OperationSettles DEF Settled
<1>2. ASSUME NEW p \in Procs, NEW ops \in Seq(Ops),
             UNCHANGED todo \/ todo' = [todo EXCEPT ![p] = ops]
               \/ (todo[p] # <<>> /\ Then(p, ops))
      PROVE  TodoTyped'
  BY <1>2, ThenIs DEF TodoTyped
<1>3. ASSUME UNCHANGED todo PROVE TodoTyped'
  BY <1>3 DEF TodoTyped
<1>4. ASSUME NEW t \in Threads, ThreadStep(t) PROVE TodoTyped'
  <2>1. CASE \/ Loop(t) \/ ConnectFails(t) \/ Retry(t) \/ Dial(t) \/ Listen(t) \/ Publish(t)
             \/ Accept(t) \/ Register(t) \/ ReceiveLoop(t) \/ Unlink(t) \/ Served(t)
             \/ StopServed(t) \/ Exit(t)
    <3>1. UNCHANGED todo
      BY <2>1 DEF Loop, ConnectFails, Retry, RetryIf, Dial, Listen, Publish, Accept, Register,
         ReceiveLoop, Unlink, UnlinkTo, Served, ServedTo, StopServed, StopServedIf, Exit, Steps
    <3>. QED  BY <3>1, <1>3
  <2>2. CASE TakeSession(t) \/ ReceiveError(t)
    <3>1. PICK ops \in {<<"connected", "connect">>,
                        <<"notConnected", "stopLinktest", "disconnect">>} :
            UNCHANGED todo \/ todo' = [todo EXCEPT ![t] = ops]
      BY <2>2 DEF TakeSession, ReceiveError, ReceiveFails
    <3>. QED  BY <3>1, <1>2, QueuedOps
  <2>3. CASE ReceiveMessage(t)
    <3>1. PICK type : UNCHANGED todo \/ todo' = [todo EXCEPT ![t] = Handler(type)]
      BY <2>3 DEF ReceiveMessage
    <3>. QED  BY <3>1, <1>2, HandlerOps
  <2>. QED  BY <1>1, <1>4, <2>1, <2>2, <2>3 DEF ThreadStep
<1>5. ASSUME NEW g \in Conns, LinktestStep(g) PROVE TodoTyped'
  BY <1>5, <1>3
     DEF LinktestStep, SendSelect, SelectTimeout, LinktestStart, SendLinktest,
         Tick, LinktestStop, NilSession
<1>6. CASE Peer \/ UNCHANGED vars \/ Enable \/ Return
  BY <1>6, <1>3 DEF Peer, PeerSend, PeerAnswer, PeerClose, vars, Enable, Return
<1>7. CASE FireT7
  BY <1>7, <1>2, QueuedOps DEF FireT7
<1>8. CASE Disable
  BY <1>8, <1>2, QueuedOps DEF Disable
<1>9. CASE Farewell \/ StopServer \/ SendDeselect
  <2>1. PICK ops \in {<<>>, <<>> \o Closing, <<"separate">> \o Closing,
                      <<"sendDeselect", "separate">> \o Closing} :
          \/ UNCHANGED todo \/ todo' = [todo EXCEPT !["app"] = ops]
          \/ todo["app"] # <<>> /\ Then("app", ops)
    BY <1>9 DEF Farewell, FarewellThen, StopServer, SendDeselect, NilSession, At
  <2>. QED  BY <2>1, <1>2, QueuedOps
<1>10. CASE DeselectTimeout
  <2>1. PICK ops \in Seq(Ops) : ops = <<"separate">> \o Closing
    BY QueuedOps
  <2>2. todo' = [todo EXCEPT !["app"] = ops]
    BY <1>10, <2>1 DEF DeselectTimeout
  <2>. QED  BY <2>2, <1>2
<1>. QED  BY <1>1, <1>4, <1>5, <1>6, <1>7, <1>8, <1>9, <1>10 DEF Next, AppStep

LEMMA AgreedNext == ThreadInv /\ AgreedInv /\ [Next]_vars => AgreedInv'
<1>. SUFFICES ASSUME ThreadInv, AgreedInv, [Next]_vars PROVE AgreedInv'
  OBVIOUS
<1>1. CASE Enable \/ Disable
  BY <1>1, EnableAgrees, DisableAgrees
<1>2. TodoTyped'
  BY TodoStep DEF AgreedInv
<1>3. ASSUME ~(Enable \/ Disable) PROVE toggles' = toggles
  <2>1. ASSUME NEW p \in Procs, Operation(p) PROVE toggles' = toggles
    BY <2>1 DEF Operation, SetConnected, Event, OnDisconnect, OnDisconnectIf, SetT7, SetFlag,
       Send, CheckSession, CloseNow, ClearSession, AnswerApp, NilSession, appVars
  <2>2. ASSUME NEW t \in Threads, ThreadStep(t) PROVE toggles' = toggles
    <3>1. t \in Procs
      BY DEF Procs
    <3>. QED
      BY <2>1, <2>2, <3>1 DEF ThreadStep, Loop, ConnectFails, Retry, RetryIf, Dial, Listen,
         Publish, Accept, Register, TakeSession, ReceiveLoop, ReceiveError, ReceiveFails,
         ReceiveMessage, Unlink, UnlinkTo, Served, ServedTo, StopServed, StopServedIf, Exit,
         Steps, appVars
  <2>3. ASSUME NEW g \in Conns, LinktestStep(g) PROVE toggles' = toggles
    BY <2>3 DEF LinktestStep, SendSelect, SelectTimeout, LinktestStart, SendLinktest,
       Tick, LinktestStop, NilSession, appVars
  <2>4. ASSUME FireT7 \/ Farewell \/ SendDeselect \/ DeselectTimeout \/ StopServer \/ Return
               \/ Peer \/ UNCHANGED vars
        PROVE  toggles' = toggles
    BY <2>4 DEF FireT7, Farewell, FarewellThen, SendDeselect, NilSession, DeselectTimeout,
       StopServer, Return, Peer, PeerSend, PeerAnswer, PeerClose, vars, appVars
  <2>5. "app" \in Procs /\ "t7" \in Procs
    BY DEF Procs
  <2>. QED  BY <1>3, <2>1, <2>2, <2>3, <2>4, <2>5 DEF Next, AppStep
<1>4. ASSUME ~(Enable \/ Disable), Agreement PROVE Agreement'
  <2>1. TodoTyped
    BY DEF AgreedInv
  <2>2. "app" \in Procs /\ "t7" \in Procs
    BY DEF Procs
  <2>. QED  BY <1>4, <2>1, <2>2, ThreadAgrees, OthersAgree, OperationAgrees DEF Next, AppStep
<1>. QED  BY <1>1, <1>2, <1>3, <1>4 DEF AgreedInv

\* protocol.go - SELECTED is claimed only on a connection on which a select
\* transaction took place, from the first Enable until Enable is called again,
\* for any number of connections and whatever order messages, timers, failures
\* and Disable come in.
THEOREM SelectedIsAgreedHolds == Spec => [](toggles <= 2 => SelectedIsAgreed)
<1>1. AgreedInv => (toggles <= 2 => SelectedIsAgreed)
  BY DEF AgreedInv, Agreement
<1>. QED  BY <1>1, ThreadInit, ThreadInvStep, AgreedStart, AgreedNext, PTL DEF Spec

-----------------------------------------------------------------------------
(* The type of the variables.  ThreadTypes and TodoTyped give the rest.    *)

Flags ==
  /\ enabled \in BOOLEAN /\ connected \in BOOLEAN /\ running \in BOOLEAN
  /\ peerUp \in BOOLEAN /\ agreed \in BOOLEAN /\ server \in BOOLEAN
  /\ listening \in BOOLEAN /\ flag \in BOOLEAN

Places ==
  /\ state \in {"NOT_CONNECTED", "NOT_SELECTED", "SELECTED"}
  /\ t7 \in {"nil", "armed", "fired"}
  /\ st \in [Conns -> StPcs]
  /\ ltTimer \in 0..MaxConns
  /\ app \in {"idle", "busy", "deselectWait"}
  /\ crashed \in {"none", "nil session", "reject"}

Bounded ==
  /\ nconn \in 0..MaxConns
  /\ inbox \in Seq(Msgs)
  /\ asked \subseteq 0..MaxConns
  /\ attempts \in 0..MaxAttempts
  /\ toggles \in 0..MaxToggles
  /\ msgs \in 0..MaxMsgs

LEMMA BoundsAreNat ==
  /\ MaxConns \in Nat /\ MaxAttempts \in Nat /\ MaxToggles \in Nat /\ MaxMsgs \in Nat
BY HsmsAssumption

LEMMA ConnsAreNat == 0 \in 0..MaxConns /\ \A g \in Conns : g \in 0..MaxConns
BY BoundsAreNat DEF Conns

\* What a step does to the flags.
FlagsMove ==
  /\ enabled' \in {enabled, TRUE, FALSE} /\ connected' \in {connected, TRUE, FALSE}
  /\ running' \in {running, TRUE, FALSE} /\ peerUp' \in {peerUp, TRUE, FALSE}
  /\ agreed' \in {agreed, TRUE, FALSE} /\ server' \in {server, TRUE, FALSE}
  /\ listening' \in {listening, TRUE, FALSE} /\ flag' \in {flag, TRUE, FALSE}

LEMMA FlagsStep == Flags /\ FlagsMove => Flags'
<1>1. \A a, b : a \in BOOLEAN /\ b \in {a, TRUE, FALSE} => b \in BOOLEAN
  OBVIOUS
<1>. SUFFICES ASSUME Flags, FlagsMove PROVE Flags'
  OBVIOUS
<1>2. enabled' \in BOOLEAN /\ connected' \in BOOLEAN /\ running' \in BOOLEAN
  BY <1>1 DEF Flags, FlagsMove
<1>3. peerUp' \in BOOLEAN /\ agreed' \in BOOLEAN /\ server' \in BOOLEAN
  BY <1>1 DEF Flags, FlagsMove
<1>4. listening' \in BOOLEAN /\ flag' \in BOOLEAN
  BY <1>1 DEF Flags, FlagsMove
<1>. QED  BY <1>2, <1>3, <1>4 DEF Flags

LEMMA OperationFlags ==
  ASSUME NEW p \in Procs, Operation(p)
  PROVE  FlagsMove
<1>. USE DEF FlagsMove
<1>1. CASE SetConnected(p) \/ SetT7(p) \/ CheckSession(p) \/ ClearSession(p)
  BY <1>1 DEF SetConnected, SetT7, CheckSession, ClearSession, connVars, ctVars, ltVars, appVars
<1>2. CASE Event(p)
  BY <1>2 DEF Event, connVars, ctVars, appVars
<1>3. CASE OnDisconnect(p)
  BY <1>3 DEF OnDisconnect, OnDisconnectIf, SpawnConnectThread, StopLinktest, connVars, appVars
<1>4. CASE SetFlag(p)
  BY <1>4 DEF SetFlag, StopLinktest, connVars, ctVars, appVars
<1>5. CASE Send(p) \/ CloseNow(p)
  BY <1>5 DEF Send, CloseNow, NilSession, connVars, ctVars, ltVars, appVars
<1>6. CASE AnswerApp(p)
  BY <1>6 DEF AnswerApp, connVars, ctVars, ltVars
<1>. QED  BY <1>1, <1>2, <1>3, <1>4, <1>5, <1>6 DEF Operation

LEMMA ThreadFlags ==
  ASSUME NEW t \in Threads, ThreadStep(t)
  PROVE  FlagsMove
<1>1. CASE Operation(t)
  BY <1>1, OperationFlags DEF Procs
<1>. USE DEF FlagsMove
<1>2. CASE Loop(t) \/ ConnectFails(t) \/ Retry(t) \/ Accept(t) \/ ReceiveLoop(t)
  BY <1>2 DEF Loop, ConnectFails, Retry, RetryIf, Accept, ReceiveLoop, Steps, connVars,
     ltVars, appVars
<1>3. CASE Dial(t) \/ Register(t)
  BY <1>3 DEF Dial, Register, NewConnection, ltVars, appVars
<1>4. CASE Listen(t) \/ Publish(t) \/ Served(t) \/ StopServed(t) \/ Exit(t)
  BY <1>4 DEF Listen, Publish, Served, ServedTo, StopServed, StopServedIf, Exit, connVars,
     ltVars, appVars
<1>5. CASE TakeSession(t) \/ ReceiveError(t) \/ Unlink(t)
  BY <1>5 DEF TakeSession, ReceiveError, ReceiveFails, Unlink, UnlinkTo, ltVars, appVars
<1>6. CASE ReceiveMessage(t)
  BY <1>6 DEF ReceiveMessage, appVars
<1>. QED  BY <1>1, <1>2, <1>3, <1>4, <1>5, <1>6 DEF ThreadStep

LEMMA NextFlags == [Next]_vars => FlagsMove
<1>. SUFFICES ASSUME [Next]_vars PROVE FlagsMove
  OBVIOUS
<1>1. ASSUME NEW p \in Procs, Operation(p) PROVE FlagsMove
  BY <1>1, OperationFlags
<1>2. ASSUME NEW t \in Threads, ThreadStep(t) PROVE FlagsMove
  BY <1>2, ThreadFlags
<1>3. "app" \in Procs /\ "t7" \in Procs
  BY DEF Procs
<1>. USE DEF FlagsMove
<1>4. ASSUME NEW g \in Conns, LinktestStep(g) PROVE FlagsMove
  <2>1. CASE SendSelect(g) \/ SelectTimeout(g) \/ SendLinktest(g) \/ Tick(g)
    BY <2>1 DEF SendSelect, SelectTimeout, SendLinktest, Tick, NilSession, connVars, ctVars,
       ltVars, appVars
  <2>2. CASE LinktestStart(g) \/ LinktestStop(g)
    BY <2>2 DEF LinktestStart, LinktestStop, connVars, ctVars, appVars
  <2>. QED  BY <1>4, <2>1, <2>2 DEF LinktestStep
<1>5. CASE Enable \/ Disable
  BY <1>5 DEF Enable, Disable, SpawnConnectThread, connVars, ctVars, ltVars
<1>6. CASE Farewell \/ SendDeselect \/ DeselectTimeout
  BY <1>6 DEF Farewell, FarewellThen, SendDeselect, NilSession, DeselectTimeout, connVars,
     ctVars, ltVars, appVars
<1>7. CASE StopServer \/ Return \/ FireT7
  BY <1>7 DEF StopServer, Return, FireT7, connVars, ctVars, ltVars, appVars
<1>8. CASE Peer \/ UNCHANGED vars
  BY <1>8 DEF Peer, PeerSend, PeerAnswer, PeerClose, vars, connVars, ctVars, ltVars, appVars
<1>. QED
  BY <1>1, <1>2, <1>3, <1>4, <1>5, <1>6, <1>7, <1>8 DEF Next, AppStep

LEMMA OperationPlaces ==
  ASSUME Places, NEW p \in Procs, Operation(p)
  PROVE  Places'
<1>. USE DEF Places
<1>1. CASE SetConnected(p) \/ SetT7(p) \/ SetFlag(p) \/ CheckSession(p) \/ ClearSession(p)
  BY <1>1 DEF SetConnected, SetT7, SetFlag, CheckSession, ClearSession, fsmVars, ltVars, appVars
<1>2. CASE Event(p)
  <2>1. PICK event \in {"connect", "select", "deselect", "disconnect", "timeoutT7"} :
          /\ state' \in {state, Transition(event).to}
          /\ st' \in {st, [st EXCEPT ![nconn] = IF Active THEN "select" ELSE "selected"]}
          /\ UNCHANGED <<t7, ltTimer, app, crashed>>
    BY <1>2 DEF Event, appVars
  <2>2. Transition(event).to \in {"NOT_CONNECTED", "NOT_SELECTED", "SELECTED"}
    BY DEF Transition, Edge
  <2>3. st' \in [Conns -> StPcs]
    BY <2>1 DEF StPcs
  <2>. QED  BY <2>1, <2>2, <2>3
<1>3. CASE OnDisconnect(p)
  BY <1>3 DEF OnDisconnect, OnDisconnectIf, appVars
<1>4. CASE Send(p) \/ CloseNow(p) \/ AnswerApp(p)
  BY <1>4 DEF Send, CloseNow, NilSession, AnswerApp, fsmVars, ltVars, appVars
<1>. QED  BY <1>1, <1>2, <1>3, <1>4 DEF Operation

LEMMA NextPlaces == Places /\ [Next]_vars => Places'
<1>. SUFFICES ASSUME Places, [Next]_vars PROVE Places'
  OBVIOUS
<1>1. ASSUME NEW p \in Procs, Operation(p) PROVE Places'
  BY <1>1, OperationPlaces
<1>2. "app" \in Procs /\ "t7" \in Procs /\ Threads \subseteq Procs
  BY DEF Procs
<1>. USE DEF Places
<1>3. ASSUME NEW t \in Threads, ThreadStep(t) PROVE Places'
  <2>1. CASE Loop(t) \/ ConnectFails(t) \/ Retry(t) \/ Accept(t) \/ ReceiveLoop(t)
    BY <2>1 DEF Loop, ConnectFails, Retry, RetryIf, Accept, ReceiveLoop, Steps, fsmVars,
       ltVars, appVars
  <2>2. CASE Dial(t) \/ Register(t) \/ Listen(t) \/ Publish(t) \/ Served(t) \/ StopServed(t)
             \/ Exit(t)
    BY <2>2 DEF Dial, Register, Listen, Publish, Served, ServedTo, StopServed, StopServedIf,
       Exit, fsmVars, ltVars, appVars
  <2>3. CASE TakeSession(t) \/ ReceiveError(t) \/ Unlink(t)
    BY <2>3 DEF TakeSession, ReceiveError, ReceiveFails, Unlink, UnlinkTo, fsmVars, ltVars,
       appVars
  <2>4. CASE ReceiveMessage(t)
    <3>1. PICK m : st' \in {st, PutSelectRsp(m)}
      BY <2>4 DEF ReceiveMessage
    <3>2. st' \in [Conns -> StPcs]
      BY <3>1 DEF PutSelectRsp, StPcs
    <3>. QED  BY <2>4, <3>2 DEF ReceiveMessage, fsmVars, appVars
  <2>. QED  BY <1>1, <1>2, <1>3, <2>1, <2>2, <2>3, <2>4 DEF ThreadStep
<1>4. ASSUME NEW g \in Conns, LinktestStep(g) PROVE Places'
  <2>1. PICK there \in StPcs : st' \in {st, [st EXCEPT ![g] = there]}
    BY <1>4 DEF LinktestStep, SendSelect, SelectTimeout, LinktestStart, SendLinktest, Tick,
       LinktestStop, NilSession, Advance, ltVars, StPcs
  <2>2. st' \in [Conns -> StPcs]
    BY <2>1
  <2>3. ltTimer' \in {ltTimer, 0, g}
    BY <1>4 DEF LinktestStep, SendSelect, SelectTimeout, LinktestStart, SendLinktest, Tick,
       LinktestStop, NilSession, ltVars
  <2>4. ltTimer' \in 0..MaxConns
    <3>1. g \in 0..MaxConns /\ 0 \in 0..MaxConns
      BY ConnsAreNat
    <3>. QED  BY <2>3, <3>1
  <2>5. UNCHANGED <<state, t7, app>> /\ crashed' \in {crashed, "nil session"}
    BY <1>4 DEF LinktestStep, SendSelect, SelectTimeout, LinktestStart, SendLinktest, Tick,
       LinktestStop, NilSession, fsmVars, appVars
  <2>. QED  BY <2>2, <2>4, <2>5
<1>5. CASE Enable \/ Disable \/ Farewell \/ DeselectTimeout \/ StopServer
  BY <1>5 DEF Enable, Disable, Farewell, FarewellThen, DeselectTimeout, StopServer, fsmVars,
     ltVars, appVars
<1>6. CASE Return \/ FireT7 \/ SendDeselect
  BY <1>6 DEF Return, FireT7, SendDeselect, NilSession, fsmVars, ltVars, appVars
<1>7. CASE Peer \/ UNCHANGED vars
  BY <1>7 DEF Peer, PeerSend, PeerAnswer, PeerClose, vars, fsmVars, ltVars, appVars
<1>. QED
  BY <1>1, <1>2, <1>3, <1>4, <1>5, <1>6, <1>7 DEF Next, AppStep

\* What the peer may send.
LEMMA PeerMsgs ==
  /\ \A type \in PeerTypes : [type |-> type, to |-> 0] \in Msgs
  /\ [type |-> "deselect.rsp", to |-> 0] \in Msgs
  /\ \A g \in Conns : /\ [type |-> "select.rsp", to |-> g] \in Msgs
                      /\ [type |-> "select.rsp.denied", to |-> g] \in Msgs
BY HsmsAssumption DEF Msgs

LEMMA DeliverTyped ==
  ASSUME inbox \in Seq(Msgs), NEW m \in Msgs, Deliver(m)
  PROVE  inbox' \in Seq(Msgs)
BY DEF Deliver

LEMMA NextBounded == Bounded /\ [Next]_vars => Bounded'
<1>. SUFFICES ASSUME Bounded, [Next]_vars PROVE Bounded'
  OBVIOUS
<1>. USE DEF Bounded
<1>1. ASSUME UNCHANGED <<nconn, inbox, asked, attempts, toggles, msgs>> PROVE Bounded'
  BY <1>1
<1>2. ASSUME NEW p \in Procs, Operation(p) PROVE Bounded'
  <2>1. CASE SetConnected(p) \/ Event(p) \/ OnDisconnect(p) \/ SetT7(p) \/ SetFlag(p)
    BY <2>1, <1>1 DEF SetConnected, Event, OnDisconnect, OnDisconnectIf, SetT7, SetFlag,
       connVars, ctVars, appVars
  <2>2. CASE Send(p) \/ CloseNow(p)
    BY <2>2, <1>1 DEF Send, CloseNow, NilSession, connVars, ctVars, appVars
  <2>3. CASE CheckSession(p) \/ ClearSession(p) \/ AnswerApp(p)
    BY <2>3, <1>1 DEF CheckSession, ClearSession, AnswerApp, connVars, ctVars, appVars
  <2>. QED  BY <1>2, <2>1, <2>2, <2>3 DEF Operation
<1>3. "app" \in Procs /\ "t7" \in Procs /\ Threads \subseteq Procs
  BY DEF Procs
<1>4. ASSUME NEW t \in Threads, ThreadStep(t) PROVE Bounded'
  <2>1. CASE Loop(t) \/ ConnectFails(t) \/ Accept(t) \/ ReceiveLoop(t)
    BY <2>1, <1>1 DEF Loop, ConnectFails, Accept, ReceiveLoop, Steps, connVars, appVars
  <2>2. CASE Retry(t)
    <3>1. UNCHANGED <<nconn, inbox, asked, toggles, msgs>>
      BY <2>2 DEF Retry, RetryIf, Steps, connVars, appVars
    <3>2. \/ attempts' \in {attempts, 0}
          \/ attempts' = attempts + 1 /\ ~(attempts + 1 > MaxAttempts)
      BY <2>2 DEF Retry, RetryIf
    <3>3. attempts' \in 0..MaxAttempts
      BY <3>2, BoundsAreNat
    <3>. QED  BY <3>1, <3>3
  <2>3. CASE Dial(t) \/ Register(t)
    <3>1. /\ nconn < MaxConns /\ nconn' = nconn + 1 /\ inbox' = <<>> /\ asked' = {}
          /\ UNCHANGED <<attempts, toggles, msgs>>
      BY <2>3 DEF Dial, Register, NewConnection, appVars
    <3>2. nconn' \in 0..MaxConns
      BY <3>1, BoundsAreNat
    <3>3. inbox' \in Seq(Msgs)
      BY <3>1
    <3>. QED  BY <3>1, <3>2, <3>3
  <2>4. CASE Listen(t) \/ Publish(t) \/ StopServed(t) \/ Exit(t)
    BY <2>4, <1>1 DEF Listen, Publish, StopServed, StopServedIf, Exit, connVars, appVars
  <2>5. CASE Served(t)
    <3>1. UNCHANGED <<nconn, inbox, asked, toggles, msgs>> /\ attempts' \in {attempts, 0}
      BY <2>5 DEF Served, ServedTo, connVars, appVars
    <3>2. attempts' \in 0..MaxAttempts
      BY <3>1, BoundsAreNat
    <3>. QED  BY <3>1, <3>2
  <2>6. CASE TakeSession(t) \/ ReceiveError(t) \/ Unlink(t)
    BY <2>6, <1>1 DEF TakeSession, ReceiveError, ReceiveFails, Unlink, UnlinkTo, appVars
  <2>7. CASE ReceiveMessage(t)
    <3>1. /\ UNCHANGED <<nconn, asked, attempts, toggles, msgs>> /\ inbox # <<>>
          /\ inbox' = inbox \/ inbox' = Tail(inbox)
      BY <2>7 DEF ReceiveMessage, appVars
    <3>2. inbox' \in Seq(Msgs)
      BY <3>1
    <3>. QED  BY <3>1, <3>2
  <2>. QED
    BY <1>2, <1>3, <1>4, <2>1, <2>2, <2>3, <2>4, <2>5, <2>6, <2>7 DEF ThreadStep
<1>5. ASSUME NEW g \in Conns, LinktestStep(g) PROVE Bounded'
  <2>1. CASE SendSelect(g)
    <3>1. UNCHANGED <<nconn, inbox, attempts, toggles, msgs>> /\ asked' \subseteq asked \cup {g}
      BY <2>1 DEF SendSelect, NilSession, connVars, ctVars, appVars
    <3>2. asked' \subseteq 0..MaxConns
      BY <3>1, BoundsAreNat DEF Conns
    <3>. QED  BY <3>1, <3>2
  <2>2. CASE SelectTimeout(g) \/ LinktestStart(g) \/ SendLinktest(g) \/ Tick(g)
             \/ LinktestStop(g)
    BY <2>2, <1>1 DEF SelectTimeout, LinktestStart, SendLinktest, Tick, LinktestStop,
       NilSession, connVars, ctVars, appVars
  <2>. QED  BY <1>5, <2>1, <2>2 DEF LinktestStep
<1>6. CASE Enable \/ Disable
  <2>1. /\ UNCHANGED <<nconn, inbox, asked, attempts, msgs>>
        /\ toggles < MaxToggles /\ toggles' = toggles + 1
    BY <1>6 DEF Enable, Disable, connVars, ctVars
  <2>2. toggles' \in 0..MaxToggles
    BY <2>1, BoundsAreNat
  <2>. QED  BY <2>1, <2>2
<1>7. CASE SendDeselect
  <2>1. UNCHANGED <<nconn, inbox, attempts, toggles, msgs>> /\ asked' \subseteq asked \cup {0}
    BY <1>7 DEF SendDeselect, NilSession, connVars, ctVars, appVars
  <2>2. asked' \subseteq 0..MaxConns
    BY <2>1, BoundsAreNat
  <2>. QED  BY <2>1, <2>2
<1>8. CASE Farewell \/ DeselectTimeout \/ StopServer \/ Return \/ FireT7 \/ UNCHANGED vars
  BY <1>8, <1>1 DEF Farewell, FarewellThen, DeselectTimeout, StopServer, Return, FireT7, vars,
     connVars, ctVars, appVars
<1>9. CASE Peer
  <2>1. CASE PeerClose
    BY <2>1, <1>1 DEF PeerClose, ctVars, appVars
  <2>2. CASE PeerSend
    <3>1. /\ UNCHANGED <<nconn, asked, attempts, toggles>>
          /\ msgs < MaxMsgs /\ msgs' = msgs + 1
      BY <2>2 DEF PeerSend, ctVars, appVars
    <3>2. inbox' \in Seq(Msgs)
      BY <2>2, PeerMsgs, DeliverTyped DEF PeerSend
    <3>3. msgs' \in 0..MaxMsgs
      BY <3>1, BoundsAreNat
    <3>. QED  BY <3>1, <3>2, <3>3
  <2>3. CASE PeerAnswer
    <3>1. UNCHANGED <<nconn, attempts, toggles, msgs>> /\ asked' \subseteq asked
      BY <2>3 DEF PeerAnswer, ctVars, appVars
    <3>2. \A g \in asked : g = 0 \/ g \in Conns
      BY BoundsAreNat DEF Conns
    <3>3. inbox' \in Seq(Msgs)
      BY <2>3, <3>2, PeerMsgs, DeliverTyped DEF PeerAnswer
    <3>. QED  BY <3>1, <3>3
  <2>. QED  BY <1>9, <2>1, <2>2, <2>3 DEF Peer
<1>. QED
  BY <1>2, <1>3, <1>4, <1>5, <1>6, <1>7, <1>8, <1>9 DEF Next, AppStep

LEMMA TypedStart == Init => Flags /\ Places /\ Bounded /\ TodoTyped
<1>. SUFFICES ASSUME Init PROVE Flags /\ Places /\ Bounded /\ TodoTyped
  OBVIOUS
<1>1. Flags
  BY DEF Init, Flags
<1>2. Places /\ Bounded
  BY BoundsAreNat DEF Init, Places, Bounded, StPcs
<1>. QED  BY <1>1, <1>2, AgreedStart DEF AgreedInv

\* protocol.go - every variable keeps its type: only operations of the protocol
\* are queued, only answers the peer owes are read, and the count of attempts
\* stays within its maximum.
THEOREM TypeOKHolds == Spec => []TypeOK
<1>1. ThreadInv /\ Flags /\ Places /\ Bounded /\ TodoTyped => TypeOK
  <2>. SUFFICES ASSUME ThreadInv, Flags, Places, Bounded, TodoTyped PROVE TypeOK
    OBVIOUS
  <2>1. {enabled, connected, running, peerUp, agreed, server, listening, flag}
          \subseteq BOOLEAN
    BY DEF Flags
  <2>. QED  BY <2>1 DEF ThreadInv, ThreadTypes, Places, Bounded, TodoTyped, TypeOK
<1>2. Flags /\ [Next]_vars => Flags'
  BY NextFlags, FlagsStep
<1>. QED
  BY <1>1, <1>2, ThreadInit, ThreadInvStep, TypedStart, NextPlaces, NextBounded, TodoStep,
     PTL DEF Spec


-----------------------------------------------------------------------------
(* Whose the listener is.                                                  *)

\* Positions of a thread whose server is not in p.server.
Unowned == {"publish", "stopping"}

\* And no server is in p.server while its thread is in one of them; an active
\* entity has none.
ListenerInv ==
  /\ ListenerHasOwner
  /\ Active => ~listening /\ \A t \in Threads : ct[t] # "listen"
  /\ \A t \in Threads : ct[t] \in Unowned => ~server
  /\ \A t \in Threads : ct[t] = "publish" => listening

\* A nil session ends the process and leaves the listener alone.
LEMMA NilSessionListens == NilSession => UNCHANGED <<server, listening, ct>>
BY Zenon DEF NilSession, ctVars

LEMMA ListenerStart == Init => ListenerInv
BY DEF Init, ListenerInv, ListenerHasOwner, Unowned

\* A step of nobody, of another thread than the owner, or that starts one.
LEMMA ListenerQuiet ==
  ASSUME ListenerInv, UNCHANGED <<server, listening>>,
         UNCHANGED ct \/ SpawnConnectThread, ThreadTypes
  PROVE  ListenerInv'
<1>1. CASE UNCHANGED ct
  BY <1>1 DEF ListenerInv, ListenerHasOwner
<1>2. CASE SpawnConnectThread
  <2>1. PICK t \in Threads : ct[t] = "off" /\ ct' = [ct EXCEPT ![t] = "loop"]
    BY <1>2 DEF SpawnConnectThread
  <2>2. \A u \in Threads : ct'[u] = IF u = t THEN "loop" ELSE ct[u]
    BY <2>1 DEF ThreadTypes
  <2>. QED  BY <2>1, <2>2 DEF ListenerInv, ListenerHasOwner, Unowned, Listening
<1>. QED  BY <1>1, <1>2

\* The one connect thread moves.
LEMMA ListenerMove ==
  ASSUME ThreadInv, ListenerInv, NEW t \in Threads, NEW there, Move(t, there), ct[t] # "off"
  PROVE  /\ \A u \in Threads : ct[u] # "off" => u = t
         /\ ct'[t] = there /\ \A u \in Threads : u # t => ct'[u] = "off"
         /\ listening => ct[t] \in Listening
<1>1. \A u \in Threads : ct[u] # "off" => u = t
  BY DEF ThreadInv, OneConnectThread
<1>2. ct'[t] = there /\ \A u \in Threads : u # t => ct'[u] = ct[u]
  BY DEF Move, ThreadInv, ThreadTypes
<1>. QED  BY <1>1, <1>2 DEF ListenerInv, ListenerHasOwner, Listening

\* It goes on, with the listener it has.
LEMMA ListenerStays ==
  ASSUME ThreadInv, ListenerInv, NEW t \in Threads, NEW there, Move(t, there), ct[t] # "off",
         UNCHANGED <<server, listening>>,
         ct[t] \notin Unowned, there \notin Unowned, there = "listen" => ~Active,
         ct[t] \in Listening => there \in Listening
  PROVE  ListenerInv'
<1>1. /\ \A u \in Threads : ct[u] # "off" => u = t
      /\ ct'[t] = there /\ \A u \in Threads : u # t => ct'[u] = "off"
      /\ listening => ct[t] \in Listening
  BY ListenerMove
<1>2. ~(listening /\ ~server) /\ (server => listening)
  BY <1>1 DEF ListenerInv, ListenerHasOwner, Unowned
<1>3. listening => there \in Listening
  BY <1>1
<1>4. listening' => \E u \in Threads : ct'[u] \in Listening
  BY <1>1, <1>3
<1>5. \A u \in Threads : ct'[u] \notin Unowned
  BY <1>1 DEF Unowned
<1>6. Active => ~listening' /\ \A u \in Threads : ct'[u] # "listen"
  BY <1>1 DEF ListenerInv
<1>. QED  BY <1>2, <1>4, <1>5, <1>6 DEF ListenerInv, ListenerHasOwner, Unowned

LEMMA ListenerOperation ==
  ASSUME ThreadInv, ListenerInv, NEW p \in Procs, Operation(p)
  PROVE  ListenerInv'
<1>1. CASE SetConnected(p) \/ SetT7(p) \/ SetFlag(p) \/ AnswerApp(p)
  BY <1>1, ListenerQuiet DEF SetConnected, SetT7, SetFlag, AnswerApp, ctVars, ThreadInv
<1>2. CASE Event(p) \/ OnDisconnect(p) \/ Send(p)
  <2>1. CASE Event(p)
    <3>1. UNCHANGED <<server, listening, ct>>
      BY <2>1 DEF Event, ctVars
    <3>. QED  BY <3>1, ListenerQuiet DEF ThreadInv
  <2>2. CASE OnDisconnect(p)
    <3>1. UNCHANGED <<server, listening>> /\ (UNCHANGED ct \/ SpawnConnectThread)
      BY <2>2 DEF OnDisconnect, OnDisconnectIf
    <3>. QED  BY <3>1, ListenerQuiet DEF ThreadInv
  <2>3. CASE Send(p)
    <3>1. UNCHANGED <<server, listening, ct>>
      BY <2>3, NilSessionListens DEF Send, ctVars
    <3>. QED  BY <3>1, ListenerQuiet DEF ThreadInv
  <2>. QED  BY <1>2, <2>1, <2>2, <2>3
<1>3. CASE CheckSession(p) \/ CloseNow(p) \/ ClearSession(p)
  <2>1. UNCHANGED <<server, listening, ct>>
    BY <1>3, NilSessionListens DEF CheckSession, CloseNow, ClearSession, ctVars
  <2>. QED  BY <2>1, ListenerQuiet DEF ThreadInv
<1>. QED  BY <1>1, <1>2, <1>3 DEF Operation

LEMMA ListenerThread ==
  ASSUME ThreadInv, ListenerInv, NEW t \in Threads, ThreadStep(t)
  PROVE  ListenerInv'
<1>. USE DEF Ready, Listening, Unowned
<1>1. CASE Operation(t)
  BY <1>1, ListenerOperation DEF Procs
<1>2. CASE Loop(t) \/ ConnectFails(t) \/ Retry(t) \/ Accept(t) \/ ReceiveLoop(t)
  BY <1>2, ListenerStays DEF Loop, ConnectFails, Retry, RetryIf, Accept, ReceiveLoop, Steps
<1>3. CASE Dial(t) \/ Register(t)
  BY <1>3, ListenerStays DEF Dial, Register
<1>4. CASE TakeSession(t) \/ ReceiveError(t) \/ Unlink(t)
  BY <1>4, ListenerStays DEF TakeSession, ReceiveError, ReceiveFails, Unlink, UnlinkTo
<1>5. CASE ReceiveMessage(t)
  <2>1. UNCHANGED <<server, listening>> /\ ct[t] = "receive"
        /\ (UNCHANGED ct \/ Move(t, "established"))
    BY <1>5 DEF ReceiveMessage
  <2>. QED  BY <2>1, ListenerStays, ListenerQuiet DEF ThreadInv
<1>6. CASE Exit(t)
  BY <1>6, ListenerStays DEF Exit
<1>7. CASE Listen(t)
  <2>1. ct[t] = "listen" /\ Move(t, "publish") /\ listening' = TRUE /\ server' = server
    BY <1>7 DEF Listen
  <2>2. ct'[t] = "publish" /\ (\A u \in Threads : u # t => ct'[u] = "off") /\ ~listening
    BY <2>1, ListenerMove
  <2>3. ~server
    BY <2>2 DEF ListenerInv, ListenerHasOwner
  <2>4. ~Active
    BY <2>1 DEF ListenerInv
  <2>. QED  BY <2>1, <2>2, <2>3, <2>4 DEF ListenerInv, ListenerHasOwner
<1>8. CASE Publish(t)
  <2>1. ct[t] = "publish" /\ Move(t, "accept") /\ server' = TRUE /\ listening' = listening
    BY <1>8 DEF Publish
  <2>2. ct'[t] = "accept" /\ (\A u \in Threads : u # t => ct'[u] = "off") /\ listening
    BY <2>1, ListenerMove DEF ListenerInv
  <2>. QED  BY <2>1, <2>2 DEF ListenerInv, ListenerHasOwner
<1>9. CASE Served(t)
  <2>1. /\ ct[t] = "served" /\ Move(t, IF Active THEN "loop" ELSE "stopping")
        /\ server' = FALSE /\ listening' = listening
    BY <1>9 DEF Served, ServedTo
  <2>2. CASE Active
    <3>1. ~listening
      BY <2>2 DEF ListenerInv
    <3>2. \A u \in Threads : ct'[u] \notin Unowned
      BY <2>1, <2>2, ListenerMove
    <3>3. \A u \in Threads : ct'[u] # "listen"
      BY <2>1, <2>2, ListenerMove
    <3>. QED  BY <2>1, <3>1, <3>2, <3>3 DEF ListenerInv, ListenerHasOwner
  <2>3. CASE ~Active
    <3>1. ct'[t] = "stopping" /\ \A u \in Threads : u # t => ct'[u] = "off"
      BY <2>1, <2>3, ListenerMove
    <3>. QED  BY <2>1, <3>1 DEF ListenerInv, ListenerHasOwner
  <2>. QED  BY <2>2, <2>3
<1>10. CASE StopServed(t)
  <2>1. ct[t] = "stopping" /\ Move(t, "loop") /\ listening' = FALSE /\ server' = server
    BY <1>10 DEF StopServed, StopServedIf
  <2>2. \A u \in Threads : ct'[u] \notin Unowned /\ ct'[u] # "listen"
    BY <2>1, ListenerMove
  <2>3. ~server
    BY <2>1 DEF ListenerInv
  <2>. QED  BY <2>1, <2>2, <2>3 DEF ListenerInv, ListenerHasOwner
<1>. QED
  BY <1>1, <1>2, <1>3, <1>4, <1>5, <1>6, <1>7, <1>8, <1>9, <1>10 DEF ThreadStep

LEMMA ListenerStep == ThreadInv /\ ListenerInv /\ [Next]_vars => ListenerInv'
<1>. SUFFICES ASSUME ThreadInv, ListenerInv, [Next]_vars PROVE ListenerInv'
  OBVIOUS
<1>1. ASSUME NEW p \in Procs, Operation(p) PROVE ListenerInv'
  BY <1>1, ListenerOperation
<1>2. CASE Enable
  BY <1>2, ListenerQuiet DEF Enable, ThreadInv
<1>3. ASSUME NEW g \in Conns, LinktestStep(g) PROVE ListenerInv'
  <2>1. SendSelect(g) \/ SelectTimeout(g) \/ LinktestStart(g) => UNCHANGED <<server, listening, ct>>
    BY NilSessionListens DEF SendSelect, SelectTimeout, LinktestStart, ctVars
  <2>2. SendLinktest(g) \/ Tick(g) \/ LinktestStop(g) => UNCHANGED <<server, listening, ct>>
    BY NilSessionListens DEF SendLinktest, Tick, LinktestStop, ctVars
  <2>3. UNCHANGED <<server, listening, ct>>
    BY <1>3, <2>1, <2>2 DEF LinktestStep
  <2>. QED  BY <2>3, ListenerQuiet DEF ThreadInv
<1>4. CASE FireT7 \/ Disable \/ Farewell \/ SendDeselect \/ DeselectTimeout \/ Return
  <2>1. FireT7 \/ Disable => UNCHANGED <<server, listening, ct>>
    BY DEF FireT7, Disable, ctVars
  <2>2. Farewell \/ DeselectTimeout \/ Return => UNCHANGED <<server, listening, ct>>
    BY DEF Farewell, FarewellThen, DeselectTimeout, Return, ctVars
  <2>3. SendDeselect => UNCHANGED <<server, listening, ct>>
    BY NilSessionListens DEF SendDeselect, ctVars
  <2>. QED  BY <1>4, <2>1, <2>2, <2>3, ListenerQuiet DEF ThreadInv
<1>5. CASE StopServer
  <2>1. CASE server
    <3>1. server' = FALSE /\ listening' = FALSE /\ ct' = ct
      BY <1>5, <2>1 DEF StopServer
    <3>2. \A t \in Threads : ct[t] \notin Unowned
      BY <2>1 DEF ListenerInv
    <3>. QED  BY <3>1, <3>2 DEF ListenerInv, ListenerHasOwner, Unowned
  <2>2. CASE ~server
    BY <1>5, <2>2, ListenerQuiet DEF StopServer, ThreadInv
  <2>. QED  BY <2>1, <2>2
<1>6. CASE Peer \/ UNCHANGED vars
  BY <1>6, ListenerQuiet DEF Peer, PeerSend, PeerAnswer, PeerClose, vars, ctVars, ThreadInv
<1>7. "app" \in Procs /\ "t7" \in Procs
  BY DEF Procs
<1>. QED
  BY <1>1, <1>2, <1>3, <1>4, <1>5, <1>6, <1>7, ListenerThread DEF Next, AppStep

(* No listener outlives the connect thread that opened it, and Disable      *)
(* fails to find it in p.server in two windows only, each a few statements  *)
(* of passiveConnect: from Listen to the publication (442 to 452), and from *)
(* the unlock after SingleServe to server.Stop (461 to 463).                *)
THEOREM ListenerHasOwnerHolds == Spec => []ListenerHasOwner
<1>1. ListenerInv => ListenerHasOwner
  BY DEF ListenerInv
<1>. QED
  BY <1>1, ThreadInit, ThreadInvStep, ListenerStart, ListenerStep, PTL DEF Spec
=============================================================================
