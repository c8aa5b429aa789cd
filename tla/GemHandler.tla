------------------------------ MODULE GemHandler ------------------------------
(***************************************************************************)
(* The GEM communication and control states of gem/handler.go over an HSMS *)
(* connection: the monitor that polls the connection, the goroutines of    *)
(* S1F13 handshakes and of S1F1 online attempts, the two wait timers, the  *)
(* handlers on the receive goroutine, the application, and a caller of     *)
(* WaitForCommunicating.                                                   *)
(*                                                                         *)
(* A process performs the operations in todo one by one; an operation is   *)
(* the code between two accesses to shared state, and may queue others.    *)
(* SendAndWait and the connection below are external: see Transactions and *)
(* HsmsProtocol.                                                           *)
(***************************************************************************)
EXTENDS Naturals, Sequences, FiniteSets

CONSTANTS
  Roles,       (* deviceType: host, equipment                              *)
  InitialControls,  (* control states NewGemHandler may leave              *)
  Handshakes,  (* slots for goroutines that send S1F13                     *)
  Attempts,    (* slots for goroutines that send S1F1                      *)
  MayWait,     (* somebody calls WaitForCommunicating                      *)
  MaxCalls,    (* bound: Enable, Disable and operator switches             *)
  MaxMsgs,     (* bound: messages of the peer the handlers see            *)
  MaxDrops     (* bound: times the connection is lost or deselected        *)

ASSUME GemAssumption ==
  /\ Roles \subseteq {"host", "equipment"}
  /\ InitialControls \subseteq {"EQUIPMENT_OFFLINE", "HOST_OFFLINE"}
  /\ MayWait \in BOOLEAN
  /\ {MaxCalls, MaxMsgs, MaxDrops} \subseteq Nat

VARIABLES
  role,
  link,                 (* protocol.Connected and CurrentState             *)
  enabled, monitoring,  (* g.enabled; stopCh is open                       *)
  comm,                 (* g.state                                         *)
  craTimer, delayTimer, (* the timers of g.state are running               *)
  handshakeInProgress,
  control, onlineMode,  (* g.control                                       *)
  attemptInProgress,    (* controlAttemptInProgress                        *)
  before,               (* per process: prev inside transitionControl       *)
  todo,                 (* per process: the operations still to perform    *)
  waiter,               (* a caller of WaitForCommunicating                *)
  asked,                (* requests the peer can still answer              *)
  late,                 (* an S1F14 may come after its T3                  *)
  calls, msgs, drops

flowVars  == <<enabled, monitoring>>
timerVars == <<craTimer, delayTimer>>
ctlVars   == <<control, onlineMode>>
peerVars  == <<link, asked, late>>
bounds    == <<calls, msgs, drops>>
vars == <<role, flowVars, comm, timerVars, handshakeInProgress, ctlVars,
          attemptInProgress, before, todo, waiter, peerVars, bounds>>

Requests == Handshakes \cup Attempts
Procs    == {"monitor", "cra", "delay", "rx", "app"} \cup Requests

\* Goroutines are told apart from each other and from the other processes.
ASSUME SlotAssumption ==
  /\ Handshakes \cap Attempts = {}
  /\ Requests \cap {"monitor", "cra", "delay", "rx", "app"} = {}

Online        == {"ONLINE_LOCAL", "ONLINE_REMOTE"}
ControlStates == {"EQUIPMENT_OFFLINE", "ATTEMPT_ONLINE", "HOST_OFFLINE"} \cup Online
CommStates    == {"NOT_COMMUNICATING", "WAIT_CRA", "WAIT_DELAY", "COMMUNICATING"}

Methods == {"SwitchOnline", "SwitchOffline", "SwitchOnlineLocal",
            "SwitchOnlineRemote", "AttemptOnlineFailEquipmentOffline",
            "AttemptOnlineFailHostOffline", "AttemptOnlineSuccess",
            "RemoteOffline", "RemoteOnline"}
Choices == {"operatorOnline", "operatorOffline", "contactLost", "contactMade"}
Ops     == Methods \cup Choices \cup
           {"settle", "initiateAttempt", "clearAttempt", "attempt", "sendS1F1",
            "awaitS1F2", "startHandshake", "clearHandshake", "setWaitCRA",
            "checkCommunicating", "sendS1F13", "awaitS1F14", "scheduleRetry",
            "waitCRATimeout", "waitDelayTimeout", "setCommunicating",
            "setNotCommunicating", "notify", "enableState", "start", "stop",
            "disableProtocol"}

TypeOK ==
  /\ role \in {"host", "equipment"}
  /\ link \in {"off", "down", "connected", "selected"}
  /\ {enabled, monitoring, craTimer, delayTimer, handshakeInProgress,
      attemptInProgress, late} \subseteq BOOLEAN
  /\ comm \in CommStates
  /\ control \in ControlStates
  /\ onlineMode \in {"LOCAL", "REMOTE"}
  /\ before \in [Procs -> ControlStates \cup {"none"}]
  /\ todo \in [Procs -> Seq(Ops)]
  /\ waiter \in {"idle", "check", "waiting"}
  /\ asked \subseteq Requests
  /\ calls \in 0..MaxCalls /\ msgs \in 0..MaxMsgs /\ drops \in 0..MaxDrops

\* What NewGemHandler leaves: it ends in NOT COMMUNICATING, and entering that
\* state takes every initial control state but HOST_OFFLINE to
\* EQUIPMENT_OFFLINE.  The online mode is the default one.
Init ==
  /\ role \in Roles
  /\ link = "off" /\ enabled = FALSE /\ monitoring = FALSE
  /\ comm = "NOT_COMMUNICATING" /\ craTimer = FALSE /\ delayTimer = FALSE
  /\ handshakeInProgress = FALSE /\ attemptInProgress = FALSE
  /\ control \in InitialControls
  /\ onlineMode = "REMOTE"
  /\ before = [p \in Procs |-> "none"]
  /\ todo = [p \in Procs |-> <<>>]
  /\ waiter = "idle" /\ asked = {} /\ late = FALSE
  /\ calls = 0 /\ msgs = 0 /\ drops = 0

-----------------------------------------------------------------------------
At(p, op) == todo[p] # <<>> /\ Head(todo[p]) = op

\* p performs its operation and continues with ops before the rest.
Then(p, ops) == todo' = [todo EXCEPT ![p] = ops \o Tail(@)]

\* An idle process starts with ops.
Begin(p, ops) == todo[p] = <<>> /\ todo' = [todo EXCEPT ![p] = ops]

Connected == link \in {"connected", "selected"}

\* transitionControl around a method of the state machine.
Change(method) == <<method, "settle">>

-----------------------------------------------------------------------------
(* The control state machine.                                              *)

OnlineState == IF onlineMode = "LOCAL" THEN "ONLINE_LOCAL" ELSE "ONLINE_REMOTE"

\* A method moves from one of its states, accepts the states it has nothing
\* to do in, and is an error in any other.
Method(m) ==
  CASE m = "SwitchOnline" ->
         [from |-> {"EQUIPMENT_OFFLINE"}, same |-> {"ATTEMPT_ONLINE"},
          to |-> "ATTEMPT_ONLINE"]
    [] m = "SwitchOffline" ->
         [from |-> Online, same |-> {}, to |-> "EQUIPMENT_OFFLINE"]
    [] m = "SwitchOnlineLocal" ->
         [from |-> {"ONLINE_REMOTE"}, same |-> {"ONLINE_LOCAL"}, to |-> "ONLINE_LOCAL"]
    [] m = "SwitchOnlineRemote" ->
         [from |-> {"ONLINE_LOCAL"}, same |-> {"ONLINE_REMOTE"}, to |-> "ONLINE_REMOTE"]
    [] m = "AttemptOnlineFailEquipmentOffline" ->
         [from |-> {"ATTEMPT_ONLINE"}, same |-> {"EQUIPMENT_OFFLINE"},
          to |-> "EQUIPMENT_OFFLINE"]
    [] m = "AttemptOnlineFailHostOffline" ->
         [from |-> {"ATTEMPT_ONLINE"}, same |-> {"HOST_OFFLINE"}, to |-> "HOST_OFFLINE"]
    [] m = "AttemptOnlineSuccess" ->
         [from |-> {"ATTEMPT_ONLINE"}, same |-> Online, to |-> OnlineState]
    [] m = "RemoteOffline" ->
         [from |-> Online, same |-> {}, to |-> "HOST_OFFLINE"]
    [] m = "RemoteOnline" ->
         [from |-> {"HOST_OFFLINE"}, same |-> {}, to |-> OnlineState]

\* transitionControl has looked at the state before, or does so now; after an
\* error it returns without looking at the state again.
ControlMethod(p) ==
  \E m \in Methods :
    /\ At(p, m)
    /\ \/ /\ control \in Method(m).from
          /\ control' = Method(m).to
          /\ onlineMode' = CASE m = "SwitchOnlineLocal"  -> "LOCAL"
                             [] m = "SwitchOnlineRemote" -> "REMOTE"
                             [] OTHER                    -> onlineMode
          /\ before' = [before EXCEPT ![p] = IF @ = "none" THEN control ELSE @]
          /\ Then(p, <<>>)
       \/ /\ control \in Method(m).same
          /\ before' = [before EXCEPT ![p] = IF @ = "none" THEN control ELSE @]
          /\ Then(p, <<>>)
          /\ UNCHANGED ctlVars
       \/ /\ control \notin Method(m).from \cup Method(m).same
          /\ todo' = [todo EXCEPT ![p] = SubSeq(@, 3, Len(@))]
          /\ before' = [before EXCEPT ![p] = "none"]
          /\ UNCHANGED ctlVars
    /\ UNCHANGED <<role, flowVars, comm, timerVars, handshakeInProgress,
                   attemptInProgress, waiter, peerVars, bounds>>

\* The functions that look at the state to choose a method: three inside
\* transitionControl, contactMade before it.
Chosen(choice) ==
  CASE choice = "operatorOnline" ->
         IF control \in {"EQUIPMENT_OFFLINE", "HOST_OFFLINE"} THEN Change("SwitchOnline")
         ELSE IF control = "ATTEMPT_ONLINE" THEN Change("initiateAttempt")
         ELSE <<"settle">>
    [] choice = "operatorOffline" ->
         IF control \in Online THEN Change("SwitchOffline") ELSE <<"settle">>
    [] choice = "contactLost" ->
         IF control \in Online THEN Change("SwitchOffline")
         ELSE IF control = "EQUIPMENT_OFFLINE" THEN <<"settle">>
         ELSE Change("AttemptOnlineFailEquipmentOffline")
    [] choice = "contactMade" ->
         IF control \in {"EQUIPMENT_OFFLINE", "HOST_OFFLINE"} THEN Change("SwitchOnline")
         ELSE IF control = "ATTEMPT_ONLINE" THEN <<"initiateAttempt">> ELSE <<>>

Choose(p) ==
  \E choice \in Choices :
    /\ At(p, choice)
    /\ Then(p, Chosen(choice))
    /\ before' = [before EXCEPT ![p] = IF choice = "contactMade" THEN "none" ELSE control]
    /\ UNCHANGED <<role, flowVars, comm, timerVars, handshakeInProgress, ctlVars,
                   attemptInProgress, waiter, peerVars, bounds>>

\* onControlStateTransition, on the difference to the state before.
Settle(p) ==
  /\ At(p, "settle")
  /\ Then(p, IF control = before[p] THEN <<>>
             ELSE IF before[p] = "ATTEMPT_ONLINE" THEN <<"clearAttempt">>
             ELSE IF control = "ATTEMPT_ONLINE" THEN <<"initiateAttempt">>
             ELSE <<>>)
  /\ before' = [before EXCEPT ![p] = "none"]
  /\ UNCHANGED <<role, flowVars, comm, timerVars, handshakeInProgress, ctlVars,
                 attemptInProgress, waiter, peerVars, bounds>>

\* initiateAttemptOnline: one compare-and-swap, and a goroutine for S1F1.
InitiateAttempt(p) ==
  /\ At(p, "initiateAttempt")
  /\ \/ /\ attemptInProgress
        /\ Then(p, <<>>)
        /\ UNCHANGED attemptInProgress
     \/ /\ ~attemptInProgress
        /\ attemptInProgress' = TRUE
        /\ \E a \in Attempts :
             /\ todo[a] = <<>>
             /\ todo' = [todo EXCEPT ![p] = Tail(@),
                                     ![a] = <<"attempt", "clearAttempt">>]
  /\ UNCHANGED <<role, flowVars, comm, timerVars, handshakeInProgress, ctlVars,
                 before, waiter, peerVars, bounds>>

ClearAttempt(p) ==
  /\ At(p, "clearAttempt")
  /\ attemptInProgress' = FALSE
  /\ Then(p, <<>>)
  /\ UNCHANGED <<role, flowVars, comm, timerVars, handshakeInProgress, ctlVars,
                 before, waiter, peerVars, bounds>>

\* The goroutine of an attempt looks at both states before it sends S1F1.
CheckAttempt(p) ==
  /\ At(p, "attempt")
  /\ Then(p, IF control # "ATTEMPT_ONLINE" THEN <<>>
             ELSE IF comm = "COMMUNICATING" THEN <<"sendS1F1">>
             ELSE Change("AttemptOnlineFailHostOffline"))
  /\ UNCHANGED <<role, flowVars, comm, timerVars, handshakeInProgress, ctlVars,
                 attemptInProgress, before, waiter, peerVars, bounds>>

-----------------------------------------------------------------------------
(* SendAndWait of S1F13 and S1F1.                                          *)

\* A host that fails to establish communication tries again after a delay.
Failed(request) ==
  CASE request = "sendS1F1" -> Change("AttemptOnlineFailHostOffline")
    [] request = "sendS1F13" ->
         IF role = "host" THEN <<"scheduleRetry">> ELSE <<>>

Accepted(request) ==
  CASE request = "sendS1F1"  -> Change("AttemptOnlineSuccess")
    [] request = "sendS1F13" -> <<"setCommunicating">>

Awaiting(request) ==
  CASE request = "sendS1F1"  -> "awaitS1F2"
    [] request = "sendS1F13" -> "awaitS1F14"

\* SendAndWait refuses unless SELECTED.
SendRequest(p) ==
  \E request \in {"sendS1F1", "sendS1F13"} :
    /\ At(p, request)
    /\ \/ /\ link = "selected"
          /\ Then(p, <<Awaiting(request)>>)
          /\ asked' = asked \cup {p}
       \/ /\ link # "selected"
          /\ Then(p, Failed(request))
          /\ UNCHANGED asked
    /\ UNCHANGED <<role, flowVars, comm, timerVars, handshakeInProgress, ctlVars,
                   attemptInProgress, before, waiter, link, late, bounds>>

\* The peer answers; Accept: with COMMACK 0, or with S1F2.
Answer(p, request, ops) ==
  /\ At(p, Awaiting(request))
  /\ p \in asked /\ link = "selected"
  /\ asked' = asked \ {p}
  /\ Then(p, ops)
  /\ UNCHANGED <<role, flowVars, comm, timerVars, handshakeInProgress, ctlVars,
                 attemptInProgress, before, waiter, link, late, bounds>>

Accept(p) ==
  \E request \in {"sendS1F1", "sendS1F13"} : Answer(p, request, Accepted(request))
Refuse(p) ==
  \E request \in {"sendS1F1", "sendS1F13"} : Answer(p, request, Failed(request))

\* T3: the answer may still come, and goes to the message handlers then.
ReplyTimeout(p) ==
  \E request \in {"sendS1F1", "sendS1F13"} :
    /\ At(p, Awaiting(request))
    /\ Then(p, Failed(request))
    /\ late' = (late \/ (request = "sendS1F13" /\ p \in asked /\ msgs < MaxMsgs))
    /\ asked' = asked \ {p}
    /\ UNCHANGED <<role, flowVars, comm, timerVars, handshakeInProgress, ctlVars,
                   attemptInProgress, before, waiter, link, bounds>>

-----------------------------------------------------------------------------
(* The communication state.                                                *)

\* A tick of monitorLoop, every 500 ms: observe.
Observe ==
  /\ monitoring /\ enabled
  /\ \/ /\ ~Connected
        /\ Begin("monitor", <<"clearHandshake", "setNotCommunicating">>)
     \/ /\ link = "selected" /\ comm # "COMMUNICATING" /\ ~handshakeInProgress
        /\ Begin("monitor", <<"startHandshake">>)
  /\ UNCHANGED <<role, flowVars, comm, timerVars, handshakeInProgress, ctlVars,
                 attemptInProgress, before, waiter, peerVars, bounds>>

FirstStep == IF role = "host" THEN "setWaitCRA" ELSE "checkCommunicating"

\* Mutant: no deferred Store(false).
HandshakeOpsNoDefer == <<FirstStep, "sendS1F13">>

HandshakeOps == <<FirstStep, "sendS1F13", "clearHandshake">>

\* initiateHandshake of a host, initiateEstablishCommunication of an equipment:
\* the compare-and-swap on handshakeInProgress, and the goroutine.
StartHandshake(p) ==
  /\ At(p, "startHandshake")
  /\ \/ /\ handshakeInProgress \/ (role = "host" /\ ~enabled)
        /\ Then(p, <<>>)
        /\ UNCHANGED handshakeInProgress
     \/ /\ ~handshakeInProgress /\ (role = "host" => enabled)
        /\ handshakeInProgress' = TRUE
        /\ \E h \in Handshakes :
             /\ todo[h] = <<>>
             /\ todo' = [todo EXCEPT ![p] = Tail(@), ![h] = HandshakeOps]
  /\ UNCHANGED <<role, flowVars, comm, timerVars, ctlVars, attemptInProgress,
                 before, waiter, peerVars, bounds>>

ClearHandshake(p) ==
  /\ At(p, "clearHandshake")
  /\ handshakeInProgress' = FALSE
  /\ Then(p, <<>>)
  /\ UNCHANGED <<role, flowVars, comm, timerVars, ctlVars, attemptInProgress,
                 before, waiter, peerVars, bounds>>

CheckCommunicatingOr(p, rest) ==
  /\ At(p, "checkCommunicating")
  /\ IF comm = "COMMUNICATING" THEN todo' = [todo EXCEPT ![p] = rest]
     ELSE Then(p, <<>>)
  /\ UNCHANGED <<role, flowVars, comm, timerVars, handshakeInProgress, ctlVars,
                 attemptInProgress, before, waiter, peerVars, bounds>>

\* Mutant: the early return comes before the deferred Store(false).
CheckCommunicatingLeaks(p) == CheckCommunicatingOr(p, <<>>)

\* An equipment that is communicating already sends nothing.
CheckCommunicating(p) == CheckCommunicatingOr(p, <<"clearHandshake">>)

\* setStateWithWaitCRA: entering a state stops the timer of the other.
SetWaitCRA(p) ==
  /\ At(p, "setWaitCRA")
  /\ comm' = "WAIT_CRA"
  /\ craTimer' = TRUE /\ delayTimer' = FALSE
  /\ Then(p, <<>>)
  /\ UNCHANGED <<role, flowVars, handshakeInProgress, ctlVars, attemptInProgress,
                 before, waiter, peerVars, bounds>>

ScheduleRetryWith(p, cra) ==
  /\ At(p, "scheduleRetry")
  /\ IF enabled
     THEN comm' = "WAIT_DELAY" /\ delayTimer' = TRUE /\ craTimer' = cra
     ELSE UNCHANGED <<comm, timerVars>>
  /\ Then(p, <<>>)
  /\ UNCHANGED <<role, flowVars, handshakeInProgress, ctlVars, attemptInProgress,
                 before, waiter, peerVars, bounds>>

\* Mutant: the timer of WAIT CRA is not stopped.
ScheduleRetryKeeps(p) == ScheduleRetryWith(p, craTimer)

\* scheduleRetry with setStateWithWaitDelay.
ScheduleRetry(p) == ScheduleRetryWith(p, FALSE)

\* A timer fires: its callback runs whatever Stop does from now on.
FireTimers ==
  /\ \/ /\ craTimer /\ craTimer' = FALSE
        /\ Begin("cra", <<"waitCRATimeout">>)
        /\ UNCHANGED delayTimer
     \/ /\ delayTimer /\ delayTimer' = FALSE
        /\ Begin("delay", <<"waitDelayTimeout">>)
        /\ UNCHANGED craTimer
  /\ UNCHANGED <<role, flowVars, comm, handshakeInProgress, ctlVars,
                 attemptInProgress, before, waiter, peerVars, bounds>>

\* onWaitCRATimeout and onWaitDelayTimeout look at the state they find.
OnTimeout(p) ==
  /\ \/ /\ At(p, "waitCRATimeout")
        /\ Then(p, IF enabled /\ comm = "WAIT_CRA" THEN <<"scheduleRetry">> ELSE <<>>)
     \/ /\ At(p, "waitDelayTimeout")
        /\ Then(p, IF ~enabled \/ comm # "WAIT_DELAY" THEN <<>>
                   ELSE IF role = "host" /\ link = "selected"
                        THEN <<"startHandshake">>
                   ELSE <<"setNotCommunicating">>)
  /\ UNCHANGED <<role, flowVars, comm, timerVars, handshakeInProgress, ctlVars,
                 attemptInProgress, before, waiter, peerVars, bounds>>

\* setState stops both timers, unless the state is the same.
StopTimersOnChange(next) ==
  /\ comm' = next
  /\ craTimer' = (craTimer /\ comm = next)
  /\ delayTimer' = (delayTimer /\ comm = next)

\* setCommunicating: the waiters are told after the state has changed; an
\* equipment then looks at its control state.
SetCommunicating(p) ==
  /\ At(p, "setCommunicating")
  /\ StopTimersOnChange("COMMUNICATING")
  /\ Then(p, IF comm = "COMMUNICATING" THEN <<>>
             ELSE IF role = "host" THEN <<"notify", "clearHandshake">>
             ELSE <<"notify", "clearHandshake", "contactMade">>)
  /\ UNCHANGED <<role, flowVars, handshakeInProgress, ctlVars, attemptInProgress,
                 before, waiter, peerVars, bounds>>

LoseContact(p, next) ==
  /\ At(p, "setNotCommunicating")
  /\ StopTimersOnChange(next)
  /\ Then(p, IF comm = next THEN <<>> ELSE <<"clearHandshake", "contactLost">>)
  /\ UNCHANGED <<role, flowVars, handshakeInProgress, ctlVars, attemptInProgress,
                 before, waiter, peerVars, bounds>>

\* Mutant: back to the state of a new handler.
SetDisabled(p) == LoseContact(p, "DISABLED")

\* setCommunicationState(CommunicationStateNotCommunicating).
SetNotCommunicating(p) == LoseContact(p, "NOT_COMMUNICATING")

-----------------------------------------------------------------------------
(* The handlers on the receive goroutine.                                  *)

\* A primary message of the peer, or an S1F14 that no call waits for any more.
\* RegisterHandler gives S1F15 and S1F17 to an equipment only; in the wrong
\* control state they are refused without any change.
Receive ==
  /\ link = "selected"
  /\ msgs < MaxMsgs /\ msgs' = msgs + 1
  /\ \/ /\ \/ Begin("rx", <<"setCommunicating">>)
           \/ /\ role = "equipment" /\ control \in Online
              /\ Begin("rx", Change("RemoteOffline"))
           \/ /\ role = "equipment" /\ control = "HOST_OFFLINE"
              /\ Begin("rx", Change("RemoteOnline"))
        /\ UNCHANGED late
     \/ /\ late /\ late' = FALSE
        /\ Begin("rx", <<"setCommunicating">>) \/ Begin("rx", <<"scheduleRetry">>)
  /\ UNCHANGED <<role, flowVars, comm, timerVars, handshakeInProgress, ctlVars,
                 attemptInProgress, before, waiter, link, asked, calls, drops>>

-----------------------------------------------------------------------------
(* The application.                                                        *)

Call(ops) ==
  /\ calls < MaxCalls /\ calls' = calls + 1
  /\ Begin("app", ops)
  /\ UNCHANGED <<role, comm, timerVars, handshakeInProgress, ctlVars,
                 attemptInProgress, before, waiter, peerVars, msgs, drops>>

Enable ==
  /\ ~enabled /\ enabled' = TRUE
  /\ Call(<<"enableState", "start">>)
  /\ UNCHANGED monitoring

Disable ==
  /\ enabled /\ enabled' = FALSE
  /\ Call(<<"setNotCommunicating", "stop", "disableProtocol">>)
  /\ UNCHANGED monitoring

\* SwitchControlOnline, -Offline, -OnlineLocal and -OnlineRemote.
Operator ==
  /\ \E ops \in {<<"operatorOnline">>, <<"operatorOffline">>,
                 Change("SwitchOnlineLocal"), Change("SwitchOnlineRemote")} : Call(ops)
  /\ UNCHANGED flowVars

\* The rest of Enable and Disable.  Enable sets the state without the
\* consequences setCommunicationState has.
EnableState(p) ==
  /\ At(p, "enableState")
  /\ StopTimersOnChange("NOT_COMMUNICATING")
  /\ Then(p, <<>>)
  /\ UNCHANGED <<role, flowVars, handshakeInProgress, ctlVars, attemptInProgress,
                 before, waiter, peerVars, bounds>>

\* protocol.Enable, and the monitor with its stop channel.
Start(p) ==
  /\ At(p, "start")
  /\ link' = "down" /\ monitoring' = TRUE
  /\ Then(p, <<>>)
  /\ UNCHANGED <<role, enabled, comm, timerVars, handshakeInProgress, ctlVars,
                 attemptInProgress, before, waiter, asked, late, bounds>>

\* The monitor is stopped, and both timers; then protocol.Disable.
Stop(p) ==
  /\ At(p, "stop")
  /\ monitoring' = FALSE /\ craTimer' = FALSE /\ delayTimer' = FALSE
  /\ Then(p, <<>>)
  /\ UNCHANGED <<role, enabled, comm, handshakeInProgress, ctlVars,
                 attemptInProgress, before, waiter, peerVars, bounds>>

DisableProtocol(p) ==
  /\ At(p, "disableProtocol")
  /\ link' = "off" /\ asked' = {} /\ late' = FALSE
  /\ Then(p, <<>>)
  /\ UNCHANGED <<role, flowVars, comm, timerVars, handshakeInProgress, ctlVars,
                 attemptInProgress, before, waiter, bounds>>

\* WaitForCommunicating: a look without the lock, then the look and the
\* registration under waitersMu.  It returns when woken or after its timeout.
StartWait ==
  /\ MayWait /\ waiter = "idle" /\ comm # "COMMUNICATING"
  /\ waiter' = "check"

RegisterIf(ok) ==
  /\ waiter = "check"
  /\ waiter' = IF ok THEN "waiting" ELSE "idle"

\* Mutant: no second look under the lock.
RegisterUnchecked == RegisterIf(TRUE)

Register == RegisterIf(comm # "COMMUNICATING")

EndWait == waiter = "waiting" /\ waiter' = "idle"

WaitStep ==
  /\ StartWait \/ Register \/ EndWait
  /\ UNCHANGED <<role, flowVars, comm, timerVars, handshakeInProgress, ctlVars,
                 attemptInProgress, before, todo, peerVars, bounds>>

\* notifyCommunicating takes the whole list and wakes everybody on it.
Notify(p) ==
  /\ At(p, "notify")
  /\ waiter' = IF waiter = "waiting" THEN "idle" ELSE waiter
  /\ Then(p, <<>>)
  /\ UNCHANGED <<role, flowVars, comm, timerVars, handshakeInProgress, ctlVars,
                 attemptInProgress, before, peerVars, bounds>>

-----------------------------------------------------------------------------
(* The HSMS connection.                                                    *)

LinkUp ==
  /\ \/ link = "down" /\ link' = "connected"
     \/ link = "connected" /\ link' = "selected"
  /\ UNCHANGED <<role, flowVars, comm, timerVars, handshakeInProgress, ctlVars,
                 attemptInProgress, before, todo, waiter, asked, late, bounds>>

LinkDown ==
  /\ drops < MaxDrops /\ drops' = drops + 1
  /\ \/ Connected /\ link' = "down"
     \/ link = "selected" /\ link' = "connected"
  /\ asked' = {} /\ late' = FALSE
  /\ UNCHANGED <<role, flowVars, comm, timerVars, handshakeInProgress, ctlVars,
                 attemptInProgress, before, todo, waiter, calls, msgs>>

-----------------------------------------------------------------------------
Operation(p) ==
  \/ ControlMethod(p) \/ Choose(p) \/ Settle(p) \/ InitiateAttempt(p)
  \/ ClearAttempt(p) \/ CheckAttempt(p) \/ SendRequest(p)
  \/ StartHandshake(p) \/ ClearHandshake(p) \/ CheckCommunicating(p)
  \/ SetWaitCRA(p) \/ ScheduleRetry(p) \/ OnTimeout(p)
  \/ SetCommunicating(p) \/ SetNotCommunicating(p) \/ Notify(p)
  \/ EnableState(p) \/ Start(p) \/ Stop(p) \/ DisableProtocol(p)

Step(p) == Operation(p) \/ ReplyTimeout(p)

Next ==
  \/ \E p \in Procs : Step(p)
  \/ \E p \in Requests : Accept(p) \/ Refuse(p)
  \/ Observe \/ FireTimers \/ Receive \/ WaitStep
  \/ Enable \/ Disable \/ Operator
  \/ LinkUp \/ LinkDown

Spec == Init /\ [][Next]_vars

\* Goroutines run, calls end with T3 at the latest, timers fire and the ticker
\* ticks.  The peer is assumed to accept a request it is asked often enough.
FairSpec ==
  /\ Spec
  /\ \A p \in Procs : WF_vars(Step(p))
  /\ \A p \in Requests : SF_vars(Accept(p))
  /\ WF_vars(Observe) /\ WF_vars(FireTimers)

-----------------------------------------------------------------------------
(* Properties.                                                             *)

\* handler.go:317: WaitForCommunicating returns when communication is
\* established.  Whoever is registered while the handler is COMMUNICATING is
\* about to be woken: the state is set, and looked at, without waitersMu.
WaitersAreWoken ==
  waiter = "waiting" /\ comm = "COMMUNICATING" => \E p \in Procs : At(p, "notify")

\* The two in-progress flags keep observe and the operator from starting a
\* goroutine.  A flag that is up has a goroutine that will lower it; if it had
\* none, communication could never be established again.
FlagsHaveOwners ==
  /\ handshakeInProgress => \E h \in Handshakes : todo[h] # <<>>
  /\ attemptInProgress => \E a \in Attempts : todo[a] # <<>>

\* A wait timer runs in its own state only: every other state stops it.
TimersBelong ==
  /\ craTimer => comm = "WAIT_CRA"
  /\ delayTimer => comm = "WAIT_DELAY"

\* While the connection stays selected and the peer answers, communication is
\* established, whatever earlier handshakes and timers still do.
Establishes ==
  <>[](enabled /\ link = "selected") => []<>(comm = "COMMUNICATING")
=============================================================================
