---------------------------- MODULE HsmsProtocol ----------------------------
(***************************************************************************)
(* The life of an HSMS connection: Enable and Disable, the connect thread  *)
(* that dials or listens and then runs the receive loop, the connection    *)
(* state machine with its callbacks, the goroutine that sends select.req   *)
(* and then linktest.req, and the T7 timer.                                *)
(*                                                                         *)
(* The connect threads, the T7 callback and the application run straight-  *)
(* line code over shared state: `todo' holds, for each of them, the shared *)
(* operations it has still to perform, one per step, so that every         *)
(* interleaving of them is a behaviour.  A handler or callback is the      *)
(* sequence of operations it queues.                                       *)
(***************************************************************************)
EXTENDS Naturals, Sequences, FiniteSets

CONSTANTS
  Active,         (* TRUE: dial the peer; FALSE: listen for it             *)
  Threads,        (* identities for connect threads                        *)
  AutoReconnect,  (* SecsTimeout.autoReconnect                             *)
  MaxAttempts,    (* SecsTimeout.maxReconnectAttempts, 0 is unlimited      *)
  UseT7, UseT8,   (* whether T7 and T8 are positive                        *)
  PeerTypes,      (* what the peer may send unasked                        *)
  MayDeny,        (* whether the peer may deny a select.req                *)
  MaxConns,       (* bound: TCP connections                                *)
  MaxMsgs,        (* bound: messages the peer sends                        *)
  MaxInbox,       (* bound: messages in flight to us                       *)
  MaxToggles      (* bound: calls of Enable and Disable                    *)

Conns == 1..MaxConns
Types == {"select.req", "select.req.mismatch", "deselect.req", "linktest.req",
          "separate.req", "other"}
Msgs  == [type : Types \cup {"deselect.rsp"}, to : {0}]
           \cup [type : {"select.rsp", "select.rsp.denied"}, to : Conns]

ASSUME HsmsAssumption ==
  /\ Active \in BOOLEAN /\ AutoReconnect \in BOOLEAN
  /\ UseT7 \in BOOLEAN /\ UseT8 \in BOOLEAN /\ MayDeny \in BOOLEAN
  /\ PeerTypes \subseteq Types
  /\ {MaxAttempts, MaxConns, MaxMsgs, MaxInbox, MaxToggles} \subseteq Nat
  /\ "t7" \notin Threads /\ "app" \notin Threads

Procs == Threads \cup {"t7", "app"}

VARIABLES
  enabled, connected, running,  (* the three atomic flags; running is
                                   connectThreadRunning                    *)
  state,       (* of the connection state machine                          *)
  t7,          (* p.t7Timer: nil, armed, or fired                          *)
  sess,        (* hsmsConnection.connection, 0 for nil                     *)
  open,        (* sessions not closed on our side                          *)
  nconn,       (* TCP connections made so far                              *)
  peerUp,      (* the last connection still stands on the peer's side      *)
  inbox,       (* messages on the last connection, in TCP order            *)
  asked,       (* requests the peer may answer: select.req by goroutine, 0
                  for the deselect.req of Disable                          *)
  agreed,      (* history: the last connection saw a select transaction    *)
  ct, conn,    (* per connect thread: position, and the session it serves  *)
  attempts,    (* reconnectAttempts                                        *)
  server, listening,  (* passive: p.server set; its listener accepts       *)
  todo,        (* per process: the operations still to perform             *)
  st,          (* per select/linktest goroutine: position                  *)
  ltTimer,     (* p.linktestTimer: the goroutine whose ticker it is, or 0  *)
  flag,        (* the one slot of disconnectFlg is full                    *)
  app,         (* application: idle, busy, or waiting for deselect.rsp     *)
  toggles, msgs,
  crashed      (* none, or why the process panicked                        *)

fsmVars  == <<state, t7>>
connVars == <<open, nconn, peerUp, inbox, asked, agreed>>
ctVars   == <<ct, conn, attempts, server, listening>>
ltVars   == <<st, ltTimer, flag>>
appVars  == <<enabled, app, toggles>>
vars == <<connected, running, fsmVars, sess, connVars, ctVars, todo, ltVars,
          appVars, msgs, crashed>>

CtPcs == {"off", "loop", "dial", "failed", "listen", "publish", "accept",
          "accepted", "session", "established", "receive", "unlink", "served",
          "stopping", "exit"}
StPcs == {"off", "select", "selectWait", "selected", "register", "clear",
          "linktest", "idle"}
Ops   == {"connected", "notConnected", "connect", "select", "deselect",
          "disconnect", "timeoutT7", "onDisconnect", "armT7", "stopT7",
          "stopLinktest", "setFlag", "send", "close", "closeNow",
          "separate", "clearSession", "farewell", "sendDeselect", "stopServer",
          "answerApp"}

TypeOK ==
  /\ {enabled, connected, running, peerUp, agreed, server, listening, flag}
       \subseteq BOOLEAN
  /\ state \in {"NOT_CONNECTED", "NOT_SELECTED", "SELECTED"}
  /\ t7 \in {"nil", "armed", "fired"}
  /\ sess \in 0..nconn
  /\ open \subseteq 1..nconn
  /\ nconn \in 0..MaxConns
  /\ inbox \in Seq(Msgs)
  /\ asked \subseteq 0..MaxConns
  /\ ct \in [Threads -> CtPcs]
  /\ conn \in [Threads -> 0..nconn]
  /\ attempts \in 0..MaxAttempts
  /\ todo \in [Procs -> Seq(Ops)]
  /\ st \in [Conns -> StPcs]
  /\ ltTimer \in 0..MaxConns
  /\ app \in {"idle", "busy", "deselectWait"}
  /\ toggles \in 0..MaxToggles
  /\ msgs \in 0..MaxMsgs
  /\ crashed \in {"none", "nil session", "reject"}

Init ==
  /\ enabled = FALSE /\ connected = FALSE /\ running = FALSE
  /\ state = "NOT_CONNECTED" /\ t7 = "nil"
  /\ sess = 0 /\ open = {} /\ nconn = 0 /\ peerUp = FALSE
  /\ inbox = <<>> /\ asked = {} /\ agreed = FALSE
  /\ ct = [t \in Threads |-> "off"] /\ conn = [t \in Threads |-> 0]
  /\ attempts = 0 /\ server = FALSE /\ listening = FALSE
  /\ todo = [p \in Procs |-> <<>>]
  /\ st = [g \in Conns |-> "off"] /\ ltTimer = 0 /\ flag = FALSE
  /\ app = "idle" /\ toggles = 0 /\ msgs = 0
  /\ crashed = "none"

-----------------------------------------------------------------------------
(* Shared operations.                                                      *)

\* p is about to perform op.
At(p, op) == todo[p] # <<>> /\ Head(todo[p]) = op

\* p performs its operation and continues with ops before the rest.
Then(p, ops) == todo' = [todo EXCEPT ![p] = ops \o Tail(@)]

\* A goroutine for startConnectThread, after its CompareAndSwap succeeded.
SpawnConnectThread ==
  /\ running' = TRUE
  /\ \E t \in Threads : ct[t] = "off" /\ ct' = [ct EXCEPT ![t] = "loop"]

SetConnected(p) ==
  /\ \/ At(p, "connected") /\ connected' = TRUE
     \/ At(p, "notConnected") /\ connected' = FALSE
  /\ Then(p, <<>>)
  /\ UNCHANGED <<running, fsmVars, sess, connVars, ctVars, ltVars, appVars, msgs,
                 crashed>>

Edge(event, onConnect) ==
  CASE event = "connect" ->
         [from |-> {"NOT_CONNECTED"}, to |-> "NOT_SELECTED",
          enter |-> onConnect]
    [] event = "select" ->
         [from |-> {"NOT_SELECTED"}, to |-> "SELECTED", enter |-> "stopT7"]
    [] event = "deselect" ->
         [from |-> {"SELECTED"}, to |-> "NOT_SELECTED", enter |-> "armT7"]
    [] event = "timeoutT7" ->
         [from |-> {"NOT_SELECTED"}, to |-> "NOT_CONNECTED",
          enter |-> "onDisconnect"]
    [] OTHER ->
         [from |-> {"NOT_SELECTED", "SELECTED"}, to |-> "NOT_CONNECTED",
          enter |-> "onDisconnect"]

\* Mutant: T7 is not started for a new connection.
TransitionForgetsT7(event) == Edge(event, "stopT7")

\* The transitions of the state machine, and the enter callback each queues.
Transition(event) == Edge(event, "armT7")

\* An event: outside its source states it is an error that is only logged.
\* Leaving NOT-CONNECTED starts the select/linktest goroutine.
Event(p) ==
  \E event \in {"connect", "select", "deselect", "disconnect", "timeoutT7"} :
    LET edge == Transition(event) IN
    /\ At(p, event)
    /\ \/ /\ state \in edge.from
          /\ state' = edge.to
          /\ Then(p, <<edge.enter>>)
          /\ st' = IF event = "connect"
                   THEN [st EXCEPT ![nconn] = IF Active THEN "select"
                                              ELSE "selected"]
                   ELSE st
       \/ /\ state \notin edge.from
          /\ Then(p, <<>>)
          /\ UNCHANGED <<state, st>>
    /\ UNCHANGED <<connected, running, t7, sess, connVars, ctVars, ltTimer, flag,
                   appVars, msgs, crashed>>

\* The select on disconnectFlg in stopLinktestTimer, under linktestTimerMu.
StopLinktest == flag' = (flag \/ ltTimer # 0)

OnDisconnectIf(p, free) ==
  /\ At(p, "onDisconnect")
  /\ connected' = FALSE
  /\ StopLinktest
  /\ t7' = "nil"
  /\ IF enabled /\ free
     THEN SpawnConnectThread
     ELSE UNCHANGED <<running, ct>>
  /\ Then(p, <<>>)
  /\ UNCHANGED <<state, sess, connVars, conn, attempts, server, listening, st,
                 ltTimer, appVars, msgs, crashed>>

\* Mutant: connectThreadRunning is not tested.
OnDisconnectUntested(p) == OnDisconnectIf(p, TRUE)

\* onStateDisconnect.
OnDisconnect(p) == OnDisconnectIf(p, ~running)

\* startT7Timer and stopT7Timer.
SetT7(p) ==
  /\ \/ At(p, "armT7") /\ t7' = IF UseT7 THEN "armed" ELSE t7
     \/ At(p, "stopT7") /\ t7' = "nil"
  /\ Then(p, <<>>)
  /\ UNCHANGED <<connected, running, state, sess, connVars, ctVars, ltVars,
                 appVars, msgs, crashed>>

\* stopLinktestTimer, and the unconditional push of Disable.
SetFlag(p) ==
  /\ \/ At(p, "stopLinktest") /\ StopLinktest
     \/ At(p, "setFlag") /\ flag' = TRUE
  /\ Then(p, <<>>)
  /\ UNCHANGED <<connected, running, fsmVars, sess, connVars, ctVars, st, ltTimer,
                 appVars, msgs, crashed>>

\* The dereference of a nil session ends the process.
NilSession ==
  /\ crashed' = "nil session"
  /\ UNCHANGED <<connected, running, fsmVars, sess, connVars, ctVars, todo,
                 ltVars, appVars, msgs>>

\* A write on the session: it may fail, and then closes the session, only
\* when the peer is gone.
Written     == sess \in open /\ open' = open
WriteFailed == (sess \in open => ~peerUp) /\ open' = open \ {sess}

\* A write by the receive loop or by Disable: the pointer is not tested.
Send(p) ==
  /\ At(p, "send")
  /\ \/ sess = 0 /\ NilSession
     \/ /\ sess # 0
        /\ Written \/ WriteFailed
        /\ Then(p, <<>>)
        /\ UNCHANGED <<connected, running, fsmVars, sess, nconn, peerUp, inbox,
                       asked, agreed, ctVars, ltVars, appVars, msgs, crashed>>

\* HsmsConnection.Close and, for separate.req, HsmsConnection.Send test the
\* pointer and load it again to use it.
CheckSession(p) ==
  /\ \/ At(p, "close") /\ Then(p, IF sess = 0 THEN <<>> ELSE <<"closeNow">>)
     \/ At(p, "separate") /\ Then(p, IF sess = 0 THEN <<>> ELSE <<"send">>)
  /\ UNCHANGED <<connected, running, fsmVars, sess, connVars, ctVars, ltVars,
                 appVars, msgs, crashed>>

CloseNow(p) ==
  /\ At(p, "closeNow")
  /\ \/ sess = 0 /\ NilSession
     \/ /\ sess # 0
        /\ open' = open \ {sess}
        /\ Then(p, <<>>)
        /\ UNCHANGED <<connected, running, fsmVars, sess, nconn, peerUp, inbox,
                       asked, agreed, ctVars, ltVars, appVars, msgs, crashed>>

\* SetSession(nil) after separate.req.
ClearSession(p) ==
  /\ At(p, "clearSession")
  /\ sess' = 0
  /\ Then(p, <<>>)
  /\ UNCHANGED <<connected, running, fsmVars, connVars, ctVars, ltVars, appVars,
                 msgs, crashed>>

\* How Disable ends on an active entity.
Closing == <<"setFlag", "close">>

\* queue.Put of a deselect.rsp, after the state machine has moved.
AnswerApp(p) ==
  /\ At(p, "answerApp")
  /\ IF app = "deselectWait"
     THEN /\ app' = "busy"
          /\ todo' = [todo EXCEPT ![p] = Tail(@),
                                  !["app"] = <<"separate">> \o Closing]
     ELSE Then(p, <<>>) /\ UNCHANGED app
  /\ UNCHANGED <<connected, running, fsmVars, sess, connVars, ctVars, ltVars,
                 enabled, toggles, msgs, crashed>>

-----------------------------------------------------------------------------
(* The application: Enable and Disable, one call at a time.                *)

Enable ==
  /\ app = "idle"
  /\ toggles < MaxToggles
  /\ ~enabled
  /\ toggles' = toggles + 1
  /\ enabled' = TRUE
  /\ IF running THEN UNCHANGED <<running, ct>> ELSE SpawnConnectThread
  /\ UNCHANGED <<connected, fsmVars, sess, connVars, conn, attempts, server,
                 listening, todo, ltVars, app, msgs, crashed>>

Disable ==
  /\ app = "idle"
  /\ toggles < MaxToggles
  /\ enabled
  /\ toggles' = toggles + 1
  /\ enabled' = FALSE
  /\ app' = "busy"
  /\ todo' = [todo EXCEPT !["app"] =
                 <<"stopLinktest", "stopT7", "notConnected",
                   IF Active THEN "farewell" ELSE "stopServer">>]
  /\ UNCHANGED <<connected, running, fsmVars, sess, connVars, ctVars, ltVars,
                 msgs, crashed>>

FarewellThen(ending) ==
  /\ At("app", "farewell")
  /\ Then("app", (IF sess \notin open THEN <<>>
                  ELSE IF state = "SELECTED" THEN <<"sendDeselect", "separate">>
                  ELSE <<"separate">>) \o ending)
  /\ UNCHANGED <<connected, running, fsmVars, sess, connVars, ctVars, ltVars,
                 appVars, msgs, crashed>>

\* Mutant: the session is left to the peer to close.
FarewellLeaves == FarewellThen(<<"setFlag">>)

\* Active: with an open session, deselect when SELECTED, and separate.  Then
\* raise the flag and close.
Farewell == FarewellThen(Closing)

\* sendDeselectReq: the pointer is not tested again.
SendDeselect ==
  /\ At("app", "sendDeselect")
  /\ \/ sess = 0 /\ NilSession
     \/ /\ sess # 0
        /\ \/ /\ Written
              /\ app' = "deselectWait"
              /\ todo' = [todo EXCEPT !["app"] = <<>>]
              /\ asked' = IF peerUp THEN asked \cup {0} ELSE asked
           \/ /\ WriteFailed
              /\ Then("app", <<>>)
              /\ UNCHANGED <<app, asked>>
        /\ UNCHANGED <<connected, running, fsmVars, sess, nconn, peerUp, inbox,
                       agreed, ctVars, ltVars, enabled, toggles, msgs, crashed>>

\* T6 ends the wait for deselect.rsp.
DeselectTimeout ==
  /\ app = "deselectWait"
  /\ app' = "busy"
  /\ todo' = [todo EXCEPT !["app"] = <<"separate">> \o Closing]
  /\ UNCHANGED <<connected, running, fsmVars, sess, connVars, ctVars, ltVars,
                 enabled, toggles, msgs, crashed>>

\* Passive: under serverMu, server.Stop closes the listener and every session
\* the server has registered.
StopServer ==
  /\ At("app", "stopServer")
  /\ IF server
     THEN /\ server' = FALSE
          /\ listening' = FALSE
          /\ open' = {}
     ELSE UNCHANGED <<server, listening, open>>
  /\ Then("app", <<>>)
  /\ UNCHANGED <<connected, running, fsmVars, sess, nconn, peerUp, inbox, asked,
                 agreed, ct, conn, attempts, ltVars, appVars, msgs, crashed>>

\* Disable returns; waitForConnectionClosure gives up after two seconds, so it
\* promises nothing.
Return ==
  /\ app = "busy" /\ todo["app"] = <<>>
  /\ app' = "idle"
  /\ UNCHANGED <<connected, running, fsmVars, sess, connVars, ctVars, todo,
                 ltVars, enabled, toggles, msgs, crashed>>

-----------------------------------------------------------------------------
(* The T7 timer fires: its callback acts on whatever session is current.   *)

FireT7 ==
  /\ t7 = "armed" /\ todo["t7"] = <<>>
  /\ t7' = "fired"
  /\ todo' = [todo EXCEPT !["t7"] = <<"notConnected", "stopLinktest",
                                     "timeoutT7", "close">>]
  /\ UNCHANGED <<connected, running, state, sess, connVars, ctVars, ltVars,
                 appVars, msgs, crashed>>

-----------------------------------------------------------------------------
(* The connect thread.                                                     *)

\* Thread t has no queued operation and is at `here'.
Ready(t, here) == ct[t] = here /\ todo[t] = <<>>

Move(t, there) == ct' = [ct EXCEPT ![t] = there]

\* A step of t that changes nothing but its position and attempts.
Steps(t, here, there) ==
  /\ Ready(t, here)
  /\ Move(t, there)
  /\ UNCHANGED <<connected, running, fsmVars, sess, connVars, conn, server,
                 listening, todo, ltVars, appVars, msgs, crashed>>

\* The loop condition of startConnectThread.
Loop(t) ==
  /\ Steps(t, "loop", IF ~enabled THEN "exit"
                      ELSE IF Active THEN "dial" ELSE "listen")
  /\ UNCHANGED attempts

\* Dial and Listen may fail.
ConnectFails(t) ==
  /\ Steps(t, "dial", "failed") \/ Steps(t, "listen", "failed")
  /\ UNCHANGED attempts

RetryIf(t, usedUp) ==
  \/ /\ ~enabled \/ (Active /\ ~AutoReconnect)
     /\ Steps(t, "failed", "exit")
     /\ UNCHANGED attempts
  \/ /\ enabled /\ (Active => AutoReconnect)
     /\ IF Active /\ MaxAttempts > 0
        THEN IF usedUp
             THEN Steps(t, "failed", "exit") /\ attempts' = 0
             ELSE Steps(t, "failed", "loop") /\ attempts' = attempts + 1
        ELSE Steps(t, "failed", "loop") /\ UNCHANGED attempts

\* Mutant: the count is compared before it is raised.
RetryOffByOne(t) == RetryIf(t, attempts > MaxAttempts)

\* After a failure: leave when disabled, or (active) when reconnection is off
\* or used up; otherwise sleep and try again.  With no maximum the count only
\* sets the delay, and is not kept.
Retry(t) == RetryIf(t, attempts + 1 > MaxAttempts)

\* A new TCP connection for t, closed at once when the server was disposed.
NewConnection(t, opened) ==
  /\ nconn < MaxConns
  /\ nconn' = nconn + 1
  /\ conn' = [conn EXCEPT ![t] = nconn + 1]
  /\ open' = IF opened THEN open \cup {nconn + 1} ELSE open
  /\ peerUp' = TRUE
  /\ inbox' = <<>> /\ asked' = {} /\ agreed' = FALSE

Dial(t) ==
  /\ Ready(t, "dial")
  /\ NewConnection(t, TRUE)
  /\ Move(t, "session")
  /\ UNCHANGED <<connected, running, fsmVars, sess, attempts, server, listening,
                 todo, ltVars, appVars, msgs, crashed>>

\* link.Listen, then p.server is published under serverMu.
Listen(t) ==
  /\ Ready(t, "listen")
  /\ listening' = TRUE
  /\ Move(t, "publish")
  /\ UNCHANGED <<connected, running, fsmVars, sess, connVars, conn, attempts,
                 server, todo, ltVars, appVars, msgs, crashed>>

Publish(t) ==
  /\ Ready(t, "publish")
  /\ server' = TRUE
  /\ Move(t, "accept")
  /\ UNCHANGED <<connected, running, fsmVars, sess, connVars, conn, attempts,
                 listening, todo, ltVars, appVars, msgs, crashed>>

\* SingleServe: a peer connects, or the listener has been closed.
Accept(t) ==
  \/ /\ listening
     /\ Steps(t, "accept", "accepted")
     /\ UNCHANGED attempts
  \/ /\ ~listening
     /\ Steps(t, "accept", "served")
     /\ UNCHANGED attempts

\* manager.NewSession closes the session of a disposed server.
Register(t) ==
  /\ Ready(t, "accepted")
  /\ NewConnection(t, listening)
  /\ Move(t, "session")
  /\ UNCHANGED <<connected, running, fsmVars, sess, attempts, server, listening,
                 todo, ltVars, appVars, msgs, crashed>>

\* SetSession.  A passive entity refuses a second session while one is open.
TakeSession(t) ==
  /\ Ready(t, "session")
  /\ IF ~Active /\ sess \in open
     THEN /\ open' = open \ {conn[t]}
          /\ Move(t, "served")
          /\ UNCHANGED <<sess, todo>>
     ELSE /\ sess' = conn[t]
          /\ Move(t, "established")
          /\ todo' = [todo EXCEPT ![t] = <<"connected", "connect">>]
          /\ UNCHANGED open
  /\ UNCHANGED <<connected, running, fsmVars, nconn, peerUp, inbox, asked, agreed,
                 conn, attempts, server, listening, ltVars, appVars, msgs,
                 crashed>>

\* The loop condition of the receiver.  A disabled receiver leaves without
\* telling the state machine.
ReceiveLoop(t) ==
  /\ Steps(t, "established", IF enabled THEN "receive" ELSE "unlink")
  /\ UNCHANGED attempts

ReceiveFails(t, ops) ==
  /\ Ready(t, "receive")
  /\ UseT8 \/ ~peerUp \/ conn[t] \notin open
  /\ open' = open \ {conn[t]}
  /\ Move(t, "unlink")
  /\ todo' = [todo EXCEPT ![t] = ops]
  /\ UNCHANGED <<connected, running, fsmVars, sess, nconn, peerUp, inbox, asked,
                 agreed, conn, attempts, server, listening, ltVars, appVars, msgs,
                 crashed>>

\* Mutant: the state machine is not told.
ReceiveErrorSilent(t) == ReceiveFails(t, <<"notConnected", "stopLinktest">>)

\* Receive fails: the session is closed on either side, or T8 passed.
ReceiveError(t) ==
  ReceiveFails(t, <<"notConnected", "stopLinktest", "disconnect">>)

\* The operations a message queues in handleHsmsRequests, when the connected
\* flag is set where the handler tests it.
Handler(type) ==
  CASE type = "select.req"          -> <<"send", "select">>
    [] type = "select.req.mismatch" -> <<"send", "close", "notConnected",
                                         "disconnect">>
    [] type = "select.rsp"          -> <<"select">>
    [] type = "select.rsp.denied"   -> <<"notConnected", "disconnect", "close">>
    [] type = "deselect.req"        -> <<"send", "deselect">>
    [] type = "deselect.rsp"        -> <<"deselect", "answerApp">>
    [] type = "linktest.req"        -> <<"send">>
    [] type = "separate.req"        -> <<"stopLinktest", "notConnected",
                                         "disconnect", "close", "clearSession">>
    [] OTHER                        -> <<>>

NeedsConnected == {"select.req", "deselect.req", "linktest.req"}

\* queue.Put of a select.rsp: the goroutine that still waits goes on, or ends
\* when it was denied.
PutSelectRsp(m) ==
  IF m.type \in {"select.rsp", "select.rsp.denied"} /\ st[m.to] = "selectWait"
  THEN [st EXCEPT ![m.to] = IF m.type = "select.rsp" THEN "selected" ELSE "off"]
  ELSE st

\* One message; what is in the read buffer is still delivered after a close.
\* The reject.req for a request that comes while the connected
\* flag is down cannot be built: NewHSMSMessageRejectReqFromMsg panics.
ReceiveMessage(t) ==
  /\ Ready(t, "receive")
  /\ inbox # <<>>
  /\ LET m == Head(inbox) IN
     IF m.type \in NeedsConnected /\ ~connected
     THEN /\ crashed' = "reject"
          /\ UNCHANGED <<inbox, agreed, ct, todo, st>>
     ELSE /\ inbox' = Tail(inbox)
          /\ st' = PutSelectRsp(m)
          /\ agreed' = (m.type \in {"select.req", "select.rsp"} \/ agreed)
          /\ Move(t, "established")
          /\ todo' = [todo EXCEPT ![t] = Handler(m.type)]
          /\ UNCHANGED crashed
  /\ UNCHANGED <<connected, running, fsmVars, sess, open, nconn, peerUp, asked,
                 conn, attempts, server, listening, ltTimer, flag, appVars, msgs>>

UnlinkTo(t, left) ==
  /\ Ready(t, "unlink")
  /\ open' = open \ {conn[t]}
  /\ sess' = left
  /\ Move(t, "served")
  /\ UNCHANGED <<connected, running, fsmVars, nconn, peerUp, inbox, asked, agreed,
                 conn, attempts, server, listening, todo, ltVars, appVars, msgs,
                 crashed>>

\* Mutant: hsmsConnection keeps the dead session.
UnlinkKeeps(t) == UnlinkTo(t, sess)

\* The deferred clean-up of the receiver.
Unlink(t) == UnlinkTo(t, IF sess = conn[t] THEN 0 ELSE sess)

ServedTo(t, next) ==
  /\ Ready(t, "served")
  /\ Move(t, next)
  /\ conn' = [conn EXCEPT ![t] = 0]
  /\ attempts' = IF Active THEN 0 ELSE attempts
  /\ server' = FALSE
  /\ UNCHANGED <<connected, running, fsmVars, sess, connVars, listening, todo,
                 ltVars, appVars, msgs, crashed>>

\* Mutant: the thread ends, and leaves the rest to onStateDisconnect.
ServedEnds(t) == ServedTo(t, "exit")

\* Back in startConnectThread: an active thread has connected, and goes round
\* after T5; a passive one takes p.server back under serverMu.
Served(t) == ServedTo(t, IF Active THEN "loop" ELSE "stopping")

StopServedIf(t, left) ==
  /\ Ready(t, "stopping")
  /\ Move(t, "loop")
  /\ listening' = left
  /\ UNCHANGED <<connected, running, fsmVars, sess, connVars, conn, attempts,
                 server, todo, ltVars, appVars, msgs, crashed>>

\* Mutant: the server is taken back and not stopped.
StopServedNot(t) == StopServedIf(t, listening)

\* After the unlock it stops the server; no session of it is open any more.
StopServed(t) == StopServedIf(t, FALSE)

\* The deferred connectThreadRunning.Store(false).
Exit(t) ==
  /\ Ready(t, "exit")
  /\ Move(t, "off")
  /\ running' = FALSE
  /\ UNCHANGED <<connected, fsmVars, sess, connVars, conn, attempts, server,
                 listening, todo, ltVars, appVars, msgs, crashed>>

-----------------------------------------------------------------------------
(* The goroutine onStateConnect starts: select.req, then linktest.req.     *)

Advance(g, there) == st' = [st EXCEPT ![g] = there]

\* sendSelectReq: no check for a nil session.
SendSelect(g) ==
  /\ st[g] = "select"
  /\ \/ sess = 0 /\ NilSession
     \/ /\ sess # 0
        /\ \/ /\ Written
              /\ Advance(g, "selectWait")
              /\ asked' = IF peerUp THEN asked \cup {g} ELSE asked
           \/ /\ WriteFailed
              /\ Advance(g, "off")
              /\ UNCHANGED asked
        /\ UNCHANGED <<connected, running, fsmVars, sess, nconn, peerUp, inbox,
                       agreed, ctVars, todo, ltTimer, flag, appVars, msgs,
                       crashed>>

\* T6 passes without a select.rsp: the goroutine ends, and with it the
\* linktest of this connection.
SelectTimeout(g) ==
  /\ st[g] = "selectWait"
  /\ Advance(g, "off")
  /\ UNCHANGED <<connected, running, fsmVars, sess, connVars, ctVars, todo,
                 ltTimer, flag, appVars, msgs, crashed>>

\* startLinktestTimer: the ticker is published, then the flag is emptied.
LinktestStart(g) ==
  /\ \/ /\ st[g] = "selected"
        /\ Advance(g, IF enabled THEN "register" ELSE "off")
        /\ UNCHANGED <<ltTimer, flag>>
     \/ /\ st[g] = "register"
        /\ Advance(g, "clear")
        /\ ltTimer' = g
        /\ UNCHANGED flag
     \/ /\ st[g] = "clear"
        /\ Advance(g, "linktest")
        /\ flag' = FALSE
        /\ UNCHANGED ltTimer
  /\ UNCHANGED <<connected, running, fsmVars, sess, connVars, ctVars, todo,
                 appVars, msgs, crashed>>

\* sendLinktestReq: no check for a nil session.  The answer and T6 both lead
\* back to the select.
SendLinktest(g) ==
  /\ st[g] = "linktest"
  /\ \/ sess = 0 /\ NilSession
     \/ /\ sess # 0
        /\ Written \/ WriteFailed
        /\ Advance(g, "idle")
        /\ UNCHANGED <<connected, running, fsmVars, sess, nconn, peerUp, inbox,
                       asked, agreed, ctVars, todo, ltTimer, flag, appVars, msgs,
                       crashed>>

\* The select of startLinktestTimer: when the ticker and the flag are both
\* ready, either case may be taken.
Tick(g) ==
  /\ st[g] = "idle"
  /\ Advance(g, "linktest")
  /\ UNCHANGED <<connected, running, fsmVars, sess, connVars, ctVars, todo,
                 ltTimer, flag, appVars, msgs, crashed>>

LinktestStop(g) ==
  /\ st[g] = "idle" /\ flag
  /\ flag' = FALSE
  /\ Advance(g, "off")
  /\ ltTimer' = IF ltTimer = g THEN 0 ELSE ltTimer
  /\ UNCHANGED <<connected, running, fsmVars, sess, connVars, ctVars, todo,
                 appVars, msgs, crashed>>

-----------------------------------------------------------------------------
(* The peer.                                                               *)

Deliver(m) ==
  /\ peerUp /\ nconn \in open
  /\ Len(inbox) < MaxInbox
  /\ inbox' = Append(inbox, m)

\* What the peer sends of its own accord.
PeerSend ==
  /\ msgs < MaxMsgs
  /\ msgs' = msgs + 1
  /\ \E type \in PeerTypes : Deliver([type |-> type, to |-> 0])
  /\ UNCHANGED <<connected, running, fsmVars, sess, open, nconn, peerUp, asked,
                 agreed, ctVars, todo, ltVars, appVars, crashed>>

\* The peer answers a select.req, or the deselect.req of Disable.
PeerAnswer ==
  /\ \E g \in asked :
       /\ asked' = asked \ {g}
       /\ \/ g = 0 /\ Deliver([type |-> "deselect.rsp", to |-> 0])
          \/ g # 0 /\ Deliver([type |-> "select.rsp", to |-> g])
          \/ /\ g # 0 /\ MayDeny
             /\ Deliver([type |-> "select.rsp.denied", to |-> g])
  /\ UNCHANGED <<connected, running, fsmVars, sess, open, nconn, peerUp, agreed,
                 ctVars, todo, ltVars, appVars, msgs, crashed>>

PeerClose ==
  /\ peerUp
  /\ peerUp' = FALSE
  /\ UNCHANGED <<connected, running, fsmVars, sess, open, nconn, inbox, asked,
                 agreed, ctVars, todo, ltVars, appVars, msgs, crashed>>

-----------------------------------------------------------------------------
Operation(p) ==
  \/ SetConnected(p) \/ Event(p) \/ OnDisconnect(p) \/ SetT7(p) \/ SetFlag(p)
  \/ Send(p) \/ CheckSession(p) \/ CloseNow(p) \/ ClearSession(p) \/ AnswerApp(p)

ThreadStep(t) ==
  \/ Operation(t)
  \/ Loop(t) \/ ConnectFails(t) \/ Retry(t) \/ Dial(t)
  \/ Listen(t) \/ Publish(t) \/ Accept(t) \/ Register(t)
  \/ TakeSession(t) \/ ReceiveLoop(t) \/ ReceiveError(t) \/ ReceiveMessage(t)
  \/ Unlink(t) \/ Served(t) \/ StopServed(t) \/ Exit(t)

LinktestStep(g) ==
  \/ SendSelect(g) \/ SelectTimeout(g) \/ LinktestStart(g) \/ SendLinktest(g)
  \/ Tick(g) \/ LinktestStop(g)

AppStep ==
  \/ Operation("app") \/ Farewell \/ SendDeselect \/ DeselectTimeout
  \/ StopServer \/ Return

Peer == PeerSend \/ PeerAnswer \/ PeerClose

\* A panic ends the process.
Next ==
  /\ crashed = "none"
  /\ \/ \E t \in Threads : ThreadStep(t)
     \/ \E g \in Conns : LinktestStep(g)
     \/ Operation("t7") \/ FireT7
     \/ Enable \/ Disable \/ AppStep
     \/ Peer

Spec == Init /\ [][Next]_vars

\* Every goroutine that can run does, and timers fire.  Nobody has to call
\* Enable or Disable; the peer owes nothing.
FairSpec ==
  /\ Spec
  /\ \A t \in Threads : WF_vars(crashed = "none" /\ ThreadStep(t))
  /\ \A g \in Conns : WF_vars(crashed = "none" /\ LinktestStep(g))
  /\ WF_vars(crashed = "none" /\ Operation("t7"))
  /\ WF_vars(crashed = "none" /\ FireT7)
  /\ WF_vars(crashed = "none" /\ AppStep)

-----------------------------------------------------------------------------
(* Properties.                                                             *)

\* connectThreadRunning admits one connect thread: two would dial, and read
\* from, two sessions at once over the same protocol state.
OneConnectThread ==
  /\ \A t, u \in Threads : ct[t] # "off" /\ ct[u] # "off" => t = u
  /\ running <=> \E t \in Threads : ct[t] # "off"

\* No session outlives the thread that serves it: a session that is open, or
\* that hsmsConnection still points to, is the one some thread serves, so that
\* the clean-up of the receiver releases everything.
SessionIsServed ==
  /\ \A c \in open : \E t \in Threads : conn[t] = c
  /\ sess # 0 => \E t \in Threads : conn[t] = sess

\* A listener belongs to the connect thread, from Listen to the Stop after
\* SingleServe, so that none is left when the thread listens again; and Disable
\* finds it in p.server but in two windows, before the publication and between
\* the unlock after SingleServe and the Stop.  What p.server holds listens.
Listening == {"publish", "accept", "accepted", "session", "established", "receive",
              "unlink", "served", "stopping"}

ListenerHasOwner ==
  /\ listening => \E t \in Threads : ct[t] \in Listening
  /\ listening /\ ~server => \E t \in Threads : ct[t] \in {"publish", "stopping"}
  /\ server => listening

\* SELECTED is claimed only on a connection on which a select transaction took
\* place (OnConnectionEstablished, the receiver's error path, handlers).
SelectedIsAgreed == state = "SELECTED" => agreed

\* An enabled protocol that is not connected gets to dial or listen again, or
\* connects, whichever handler, timer or error ended the last connection.
Redials ==
  state = "NOT_CONNECTED" /\ enabled ~>
    \/ state # "NOT_CONNECTED" \/ ~enabled \/ crashed # "none"
    \/ \E t \in Threads : ct[t] \in {"dial", "listen"}

\* SecsTimeout.go:12: communication that is not selected within T7 is cut.  No
\* connection of an enabled protocol stays NOT SELECTED for ever.
HalfOpenEnds ==
  state = "NOT_SELECTED" /\ enabled ~>
    state # "NOT_SELECTED" \/ ~enabled \/ crashed # "none"

\* protocol.go:330: after Disable the session, the listener and the connect
\* thread go away, unless Enable is called again.  (A passive entity may keep
\* its listener: a Disable between Listen and Publish stops no server, and the
\* thread then waits in SingleServe.)
DisableReleases ==
  ~enabled ~>
    \/ enabled \/ crashed # "none"
    \/ sess = 0 /\ open = {} /\ ~listening /\ ~running

\* No goroutine dereferences a nil session or fails to build a message.
NoPanic == crashed = "none"

\* protocol.go:321, "Enable starts the connection manager": with reconnection
\* unlimited, an enabled protocol has a connect thread.
EnabledIsServed ==
  enabled /\ app = "idle" => \E t \in Threads : ct[t] # "off"
=============================================================================
