-------------------------- MODULE GemHandler_proofs --------------------------
(***************************************************************************)
(* Theorems about GemHandler: wait timers run in their own state only, a   *)
(* registered waiter is not forgotten, and a raised flag has an owner.     *)
(***************************************************************************)
EXTENDS GemHandler, TLAPS

-----------------------------------------------------------------------------
(* The wait timers.                                                        *)

\* A step that touches neither the state nor a timer keeps TimersBelong.
LEMMA TimersUntouched ==
  ASSUME TimersBelong, UNCHANGED <<comm, timerVars>>
  PROVE  TimersBelong'
BY DEF TimersBelong, timerVars

\* setState keeps a timer only when it keeps the state.
LEMMA TimersStopped ==
  ASSUME TimersBelong, NEW next, StopTimersOnChange(next)
  PROVE  TimersBelong'
BY DEF TimersBelong, StopTimersOnChange

\* What an operation of a process does to the timers.
LEMMA TimersOperation ==
  ASSUME TimersBelong, NEW p \in Procs, Operation(p)
  PROVE  TimersBelong'
<1>1. CASE ControlMethod(p) \/ Choose(p) \/ Settle(p) \/ InitiateAttempt(p)
           \/ ClearAttempt(p) \/ CheckAttempt(p) \/ SendRequest(p)
  BY <1>1, TimersUntouched DEF ControlMethod, Choose, Settle, InitiateAttempt,
     ClearAttempt, CheckAttempt, SendRequest
<1>2. CASE StartHandshake(p) \/ ClearHandshake(p) \/ CheckCommunicating(p)
           \/ OnTimeout(p) \/ Notify(p) \/ DisableProtocol(p) \/ Start(p)
  BY <1>2, TimersUntouched DEF StartHandshake, ClearHandshake, CheckCommunicating,
     CheckCommunicatingOr, OnTimeout, Notify, DisableProtocol, Start
<1>3. CASE SetWaitCRA(p)
  BY <1>3 DEF SetWaitCRA, TimersBelong
<1>4. CASE ScheduleRetry(p)
  BY <1>4, TimersUntouched DEF ScheduleRetry, ScheduleRetryWith, TimersBelong
<1>5. CASE SetCommunicating(p)
  BY <1>5, TimersStopped DEF SetCommunicating
<1>6. CASE SetNotCommunicating(p)
  BY <1>6, TimersStopped DEF SetNotCommunicating, LoseContact
<1>7. CASE EnableState(p)
  BY <1>7, TimersStopped DEF EnableState
<1>8. CASE Stop(p)
  BY <1>8 DEF Stop, TimersBelong
<1> QED
  BY <1>1, <1>2, <1>3, <1>4, <1>5, <1>6, <1>7, <1>8 DEF Operation

\* communication_state.go:36-71 - entering a state under the lock stops the
\* timer of the state that is left, for any number of goroutines and calls.
THEOREM TimersBelongHolds == Spec => []TimersBelong
<1>1. Init => TimersBelong
  BY DEF Init, TimersBelong
<1>2. TimersBelong /\ [Next]_vars => TimersBelong'
  <2> SUFFICES ASSUME TimersBelong, [Next]_vars
               PROVE  TimersBelong'
    OBVIOUS
  <2>1. CASE \E p \in Procs : Operation(p)
    BY <2>1, TimersOperation
  <2>2. CASE \E p \in Procs : ReplyTimeout(p)
    BY <2>2, TimersUntouched DEF ReplyTimeout
  <2>3. CASE \E p \in Requests : Accept(p) \/ Refuse(p)
    BY <2>3, TimersUntouched DEF Accept, Refuse, Answer
  <2>4. CASE FireTimers
    BY <2>4 DEF FireTimers, TimersBelong
  <2>5. CASE Observe \/ Receive \/ WaitStep \/ LinkUp \/ LinkDown
    BY <2>5, TimersUntouched DEF Observe, Receive, WaitStep, LinkUp, LinkDown
  <2>6. CASE Enable \/ Disable \/ Operator
    BY <2>6, TimersUntouched DEF Enable, Disable, Operator, Call
  <2>7. CASE UNCHANGED vars
    BY <2>7, TimersUntouched DEF vars
  <2> QED
    BY <2>1, <2>2, <2>3, <2>4, <2>5, <2>6, <2>7 DEF Next, Step
<1> QED
  BY <1>1, <1>2, PTL DEF Spec

-----------------------------------------------------------------------------
(* WaitForCommunicating.                                                   *)

\* Every process has a sequence of operations.
TodoOnProcs == todo \in [Procs -> Seq(Ops)]

\* A process that is about to notify still is, after a step of another one.
Notifiers == \A q \in Procs : At(q, "notify") => At(q, "notify")'

\* The sequences that the actions put before what is left to do.
LEMMA OpsSeqs ==
  /\ <<>> \in Seq(Ops)
  /\ <<"initiateAttempt">> \in Seq(Ops)
  /\ <<"clearAttempt">> \in Seq(Ops)
  /\ <<"sendS1F1">> \in Seq(Ops)
  /\ <<"awaitS1F2">> \in Seq(Ops)
  /\ <<"awaitS1F14">> \in Seq(Ops)
  /\ <<"startHandshake">> \in Seq(Ops)
  /\ <<"clearHandshake">> \in Seq(Ops)
  /\ <<"scheduleRetry">> \in Seq(Ops)
  /\ <<"setCommunicating">> \in Seq(Ops)
  /\ <<"setNotCommunicating">> \in Seq(Ops)
  /\ <<"waitCRATimeout">> \in Seq(Ops)
  /\ <<"waitDelayTimeout">> \in Seq(Ops)
  /\ <<"operatorOnline">> \in Seq(Ops)
  /\ <<"operatorOffline">> \in Seq(Ops)
  /\ <<"settle">> \in Seq(Ops)
  /\ <<"initiateAttempt", "settle">> \in Seq(Ops)
  /\ <<"SwitchOnline", "settle">> \in Seq(Ops)
  /\ <<"SwitchOffline", "settle">> \in Seq(Ops)
  /\ <<"SwitchOnlineLocal", "settle">> \in Seq(Ops)
  /\ <<"SwitchOnlineRemote", "settle">> \in Seq(Ops)
  /\ <<"AttemptOnlineFailEquipmentOffline", "settle">> \in Seq(Ops)
  /\ <<"AttemptOnlineFailHostOffline", "settle">> \in Seq(Ops)
  /\ <<"AttemptOnlineSuccess", "settle">> \in Seq(Ops)
  /\ <<"RemoteOffline", "settle">> \in Seq(Ops)
  /\ <<"RemoteOnline", "settle">> \in Seq(Ops)
  /\ <<"attempt", "clearAttempt">> \in Seq(Ops)
  /\ <<"clearHandshake", "setNotCommunicating">> \in Seq(Ops)
  /\ <<"setWaitCRA", "sendS1F13", "clearHandshake">> \in Seq(Ops)
  /\ <<"checkCommunicating", "sendS1F13", "clearHandshake">> \in Seq(Ops)
  /\ <<"clearHandshake", "contactLost">> \in Seq(Ops)
  /\ <<"notify", "clearHandshake">> \in Seq(Ops)
  /\ <<"notify", "clearHandshake", "contactMade">> \in Seq(Ops)
  /\ <<"enableState", "start">> \in Seq(Ops)
  /\ <<"setNotCommunicating", "stop", "disableProtocol">> \in Seq(Ops)
<1>1. /\ <<>> \in Seq(Ops)
      /\ \A op \in Ops : <<op>> \in Seq(Ops)
      /\ \A op1, op2 \in Ops : <<op1, op2>> \in Seq(Ops)
      /\ \A op1, op2, op3 \in Ops : <<op1, op2, op3>> \in Seq(Ops)
  OBVIOUS
<1>2. \A op \in {"initiateAttempt", "clearAttempt", "sendS1F1", "awaitS1F2",
                 "awaitS1F14", "startHandshake", "clearHandshake",
                 "scheduleRetry", "setCommunicating", "setNotCommunicating",
                 "waitCRATimeout", "waitDelayTimeout", "operatorOnline",
                 "operatorOffline", "SwitchOnline", "SwitchOffline",
                 "SwitchOnlineLocal", "SwitchOnlineRemote",
                 "AttemptOnlineFailEquipmentOffline",
                 "AttemptOnlineFailHostOffline", "AttemptOnlineSuccess",
                 "RemoteOffline", "RemoteOnline", "settle", "attempt",
                 "setWaitCRA", "checkCommunicating", "sendS1F13", "contactLost",
                 "contactMade", "notify", "enableState", "start", "stop",
                 "disableProtocol"} :
        op \in Ops
  BY DEF Ops, Methods, Choices
<1> QED
  BY <1>1, <1>2

\* What is left to do after an operation, or after a failed method.
LEMMA RestIsSeq ==
  ASSUME TodoOnProcs, NEW p \in Procs, todo[p] # <<>>
  PROVE  /\ Tail(todo[p]) \in Seq(Ops)
         /\ SubSeq(todo[p], 3, Len(todo[p])) \in Seq(Ops)
<1>1. todo[p] \in Seq(Ops)
  BY DEF TodoOnProcs
<1> QED
  BY <1>1

\* Only what p does next changes, and p was not about to notify.
LEMMA OneMoves ==
  ASSUME TodoOnProcs, NEW p \in Procs, NEW s \in Seq(Ops),
         todo' = [todo EXCEPT ![p] = s], ~At(p, "notify")
  PROVE  TodoOnProcs' /\ Notifiers
<1>1. TodoOnProcs'
  BY DEF TodoOnProcs
<1>2. ASSUME NEW q \in Procs, At(q, "notify")
      PROVE  At(q, "notify")'
  <2>1. q # p
    BY <1>2
  <2>2. todo'[q] = todo[q]
    BY <2>1 DEF TodoOnProcs
  <2> QED
    BY <1>2, <2>2 DEF At
<1> QED
  BY <1>1, <1>2 DEF Notifiers

LEMMA ThenKeeps ==
  ASSUME TodoOnProcs, NEW p \in Procs, NEW ops \in Seq(Ops), Then(p, ops),
         todo[p] # <<>>, ~At(p, "notify")
  PROVE  TodoOnProcs' /\ Notifiers
<1>1. ops \o Tail(todo[p]) \in Seq(Ops)
  BY RestIsSeq
<1> QED
  BY <1>1, OneMoves DEF Then

\* The same when p starts a goroutine in a free slot.
LEMMA OneSpawns ==
  ASSUME TodoOnProcs, NEW p \in Procs, NEW g \in Procs,
         NEW s \in Seq(Ops), NEW r \in Seq(Ops),
         todo' = [todo EXCEPT ![p] = s, ![g] = r],
         ~At(p, "notify"), todo[g] = <<>>
  PROVE  TodoOnProcs' /\ Notifiers
<1>1. TodoOnProcs'
  BY DEF TodoOnProcs
<1>2. ASSUME NEW q \in Procs, At(q, "notify")
      PROVE  At(q, "notify")'
  <2>1. q # p /\ q # g
    BY <1>2 DEF At
  <2>2. todo'[q] = todo[q]
    BY <2>1 DEF TodoOnProcs
  <2> QED
    BY <1>2, <2>2 DEF At
<1> QED
  BY <1>1, <1>2 DEF Notifiers

\* A step that keeps the notifiers keeps WaitersAreWoken, when it neither
\* registers a waiter nor establishes communication.
LEMMA StillWoken ==
  ASSUME WaitersAreWoken, Notifiers,
         waiter' = "waiting" => waiter = "waiting",
         comm' = "COMMUNICATING" => comm = "COMMUNICATING"
  PROVE  WaitersAreWoken'
BY DEF WaitersAreWoken, Notifiers

WakeInv == TodoOnProcs /\ WaitersAreWoken

\* The operations that leave the waiter and the communication state alone.
LEMMA QuietOperation ==
  ASSUME WakeInv, NEW p \in Procs,
         \/ ControlMethod(p) \/ Choose(p) \/ Settle(p) \/ InitiateAttempt(p)
         \/ ClearAttempt(p) \/ CheckAttempt(p) \/ SendRequest(p)
         \/ StartHandshake(p) \/ ClearHandshake(p) \/ CheckCommunicating(p)
         \/ OnTimeout(p) \/ Start(p) \/ Stop(p) \/ DisableProtocol(p)
         \/ ReplyTimeout(p) \/ Accept(p) \/ Refuse(p)
  PROVE  WakeInv'
<1>1. UNCHANGED <<waiter, comm>>
  BY DEF ControlMethod, Choose, Settle, InitiateAttempt, ClearAttempt, CheckAttempt,
     SendRequest, StartHandshake, ClearHandshake, CheckCommunicating,
     CheckCommunicatingOr, OnTimeout, Start, Stop, DisableProtocol, ReplyTimeout,
     Accept, Refuse, Answer
<1>2. ~At(p, "notify")
  BY DEF ControlMethod, Choose, Settle, InitiateAttempt, ClearAttempt, CheckAttempt,
     SendRequest, StartHandshake, ClearHandshake, CheckCommunicating,
     CheckCommunicatingOr, OnTimeout, Start, Stop, DisableProtocol, ReplyTimeout,
     Accept, Refuse, Answer, At, Methods, Choices, Awaiting
<1>3. todo[p] # <<>>
  BY DEF ControlMethod, Choose, Settle, InitiateAttempt, ClearAttempt, CheckAttempt,
     SendRequest, StartHandshake, ClearHandshake, CheckCommunicating,
     CheckCommunicatingOr, OnTimeout, Start, Stop, DisableProtocol, ReplyTimeout,
     Accept, Refuse, Answer, At
<1>4. ASSUME NEW ops \in Seq(Ops), Then(p, ops)
      PROVE  TodoOnProcs' /\ Notifiers
  BY <1>2, <1>3, <1>4, ThenKeeps DEF WakeInv
<1>5. TodoOnProcs' /\ Notifiers
  <2>1. CASE ControlMethod(p)
    <3>1. \/ Then(p, <<>>)
          \/ todo' = [todo EXCEPT ![p] = SubSeq(todo[p], 3, Len(todo[p]))]
      BY <2>1 DEF ControlMethod
    <3>2. CASE Then(p, <<>>)
      BY <3>2, <1>4, OpsSeqs
    <3>3. CASE todo' = [todo EXCEPT ![p] = SubSeq(todo[p], 3, Len(todo[p]))]
      <4>1. SubSeq(todo[p], 3, Len(todo[p])) \in Seq(Ops)
        BY <1>3, RestIsSeq DEF WakeInv
      <4> QED
        BY <3>3, <4>1, <1>2, OneMoves DEF WakeInv
    <3> QED
      BY <3>1, <3>2, <3>3
  <2>2. CASE InitiateAttempt(p)
    <3>1. \/ Then(p, <<>>)
          \/ \E a \in Attempts :
               /\ todo[a] = <<>>
               /\ todo' = [todo EXCEPT ![p] = Tail(todo[p]),
                                       ![a] = <<"attempt", "clearAttempt">>]
      BY <2>2 DEF InitiateAttempt
    <3>2. Attempts \subseteq Procs
      BY DEF Procs, Requests
    <3>3. Tail(todo[p]) \in Seq(Ops) /\ <<"attempt", "clearAttempt">> \in Seq(Ops)
      BY OpsSeqs, <1>3, RestIsSeq DEF WakeInv
    <3>4. CASE Then(p, <<>>)
      BY <3>4, <1>4, OpsSeqs
    <3> QED
      BY <3>1, <3>2, <3>3, <3>4, <1>2, OneSpawns DEF WakeInv
  <2>3. CASE StartHandshake(p)
    <3>1. \/ Then(p, <<>>)
          \/ \E h \in Handshakes :
               /\ todo[h] = <<>>
               /\ todo' = [todo EXCEPT ![p] = Tail(todo[p]), ![h] = HandshakeOps]
      BY <2>3 DEF StartHandshake
    <3>2. Handshakes \subseteq Procs
      BY DEF Procs, Requests
    <3>3. Tail(todo[p]) \in Seq(Ops) /\ HandshakeOps \in Seq(Ops)
      BY <1>3, RestIsSeq, OpsSeqs DEF WakeInv, HandshakeOps, FirstStep
    <3>4. CASE Then(p, <<>>)
      BY <3>4, <1>4, OpsSeqs
    <3> QED
      BY <3>1, <3>2, <3>3, <3>4, <1>2, OneSpawns DEF WakeInv
  <2>4. CASE CheckCommunicating(p)
    <3>1. \/ todo' = [todo EXCEPT ![p] = <<"clearHandshake">>]
          \/ Then(p, <<>>)
      BY <2>4 DEF CheckCommunicating, CheckCommunicatingOr
    <3>2. <<"clearHandshake">> \in Seq(Ops)
      BY OpsSeqs
    <3>3. CASE Then(p, <<>>)
      BY <3>3, <1>4, OpsSeqs
    <3> QED
      BY <3>1, <3>2, <3>3, <1>2, OneMoves DEF WakeInv
  <2>5. CASE Choose(p)
    <3>1. PICK choice \in Choices : Then(p, Chosen(choice))
      BY <2>5 DEF Choose
    <3>2. Chosen(choice) \in Seq(Ops)
      BY <3>1, OpsSeqs DEF Chosen, Change, Choices
    <3> QED
      BY <3>1, <3>2, <1>4
  <2>6. CASE Settle(p) \/ ClearAttempt(p) \/ CheckAttempt(p)
    BY <2>6, <1>4, OpsSeqs DEF Settle, ClearAttempt, CheckAttempt, Change
  <2>7. CASE ClearHandshake(p) \/ OnTimeout(p) \/ Start(p) \/ Stop(p)
             \/ DisableProtocol(p)
    BY <2>7, <1>4, OpsSeqs DEF ClearHandshake, OnTimeout, Start, Stop,
       DisableProtocol
  <2>8. CASE SendRequest(p) \/ ReplyTimeout(p) \/ Accept(p) \/ Refuse(p)
    <3>1. ASSUME NEW request \in {"sendS1F1", "sendS1F13"}
          PROVE  /\ Failed(request) \in Seq(Ops)
                 /\ Accepted(request) \in Seq(Ops)
                 /\ <<Awaiting(request)>> \in Seq(Ops)
      BY OpsSeqs DEF Failed, Accepted, Awaiting, Change
    <3>2. PICK request \in {"sendS1F1", "sendS1F13"} :
            \/ Then(p, <<Awaiting(request)>>)
            \/ Then(p, Failed(request))
            \/ Then(p, Accepted(request))
      BY <2>8 DEF SendRequest, ReplyTimeout, Accept, Refuse, Answer
    <3> QED
      BY <3>1, <3>2, <1>4
  <2> QED
    BY <2>1, <2>2, <2>3, <2>4, <2>5, <2>6, <2>7, <2>8
<1> QED
  BY <1>1, <1>5, StillWoken DEF WakeInv

\* The operations that leave COMMUNICATING alone or leave it: no waiter can be
\* waiting in vain afterwards.
LEMMA LeavingOperation ==
  ASSUME WakeInv, NEW p \in Procs,
         \/ SetWaitCRA(p) \/ ScheduleRetry(p) \/ SetNotCommunicating(p)
         \/ EnableState(p)
  PROVE  WakeInv'
<1>1. waiter' = waiter /\ (comm' = "COMMUNICATING" => comm = "COMMUNICATING")
  BY DEF SetWaitCRA, ScheduleRetry, ScheduleRetryWith, SetNotCommunicating,
     LoseContact, EnableState, StopTimersOnChange
<1>2. ~At(p, "notify")
  BY DEF SetWaitCRA, ScheduleRetry, ScheduleRetryWith, SetNotCommunicating,
     LoseContact, EnableState, At
<1>3. todo[p] # <<>> /\ (Then(p, <<>>) \/ Then(p, <<"clearHandshake", "contactLost">>))
  BY DEF SetWaitCRA, ScheduleRetry, ScheduleRetryWith, SetNotCommunicating,
     LoseContact, EnableState, At
<1>4. TodoOnProcs' /\ Notifiers
  BY <1>2, <1>3, ThenKeeps, OpsSeqs DEF WakeInv
<1> QED
  BY <1>1, <1>4, StillWoken DEF WakeInv

\* setCommunicating queues the notification in the step that sets the state.
LEMMA EstablishingOperation ==
  ASSUME WakeInv, NEW p \in Procs, SetCommunicating(p)
  PROVE  WakeInv'
<1>1. ~At(p, "notify") /\ waiter' = waiter /\ todo[p] # <<>>
  BY DEF SetCommunicating, At
<1>2. PICK ops \in {<<>>, <<"notify", "clearHandshake">>,
                    <<"notify", "clearHandshake", "contactMade">>} :
        /\ Then(p, ops)
        /\ ops = <<>> => comm = "COMMUNICATING"
  BY DEF SetCommunicating
<1> ops \in Seq(Ops)
  BY OpsSeqs
<1>3. TodoOnProcs' /\ Notifiers
  BY <1>1, <1>2, ThenKeeps DEF WakeInv
<1>4. CASE comm = "COMMUNICATING"
  BY <1>1, <1>3, <1>4, StillWoken DEF WakeInv
<1>5. CASE comm # "COMMUNICATING"
  <2>1. Len(ops) > 0 /\ ops[1] = "notify"
    BY <1>2, <1>5
  <2>2. todo'[p] = ops \o Tail(todo[p]) /\ Tail(todo[p]) \in Seq(Ops)
    BY <1>1, <1>2, RestIsSeq DEF WakeInv, TodoOnProcs, Then
  <2>3. At(p, "notify")'
    BY <2>1, <2>2 DEF At
  <2> QED
    BY <1>3, <2>3 DEF WakeInv, WaitersAreWoken
<1> QED
  BY <1>4, <1>5

\* After Notify nobody is registered.
LEMMA NotifyOperation ==
  ASSUME WakeInv, NEW p \in Procs, Notify(p)
  PROVE  WakeInv'
<1>1. waiter' # "waiting" /\ todo[p] # <<>> /\ Then(p, <<>>)
  BY DEF Notify, At
<1>2. TodoOnProcs'
  BY <1>1, RestIsSeq DEF Then, WakeInv, TodoOnProcs
<1> QED
  BY <1>1, <1>2 DEF WakeInv, WaitersAreWoken

\* An idle process that begins was not about to notify.
LEMMA BeginKeeps ==
  ASSUME WakeInv, NEW p \in Procs, NEW ops \in Seq(Ops), Begin(p, ops),
         UNCHANGED <<waiter, comm>>
  PROVE  WakeInv'
<1>1. ~At(p, "notify") /\ todo' = [todo EXCEPT ![p] = ops]
  BY DEF Begin, At
<1> QED
  BY <1>1, OneMoves, StillWoken DEF WakeInv

\* handler.go:317-362 - WaitForCommunicating registers under waitersMu after a
\* second look at the state, and notifyCommunicating takes the list after the
\* state is set: whoever is registered while the handler is COMMUNICATING is
\* about to be woken, for any number of goroutines.
THEOREM WaitersAreWokenHolds == Spec => []WaitersAreWoken
<1>1. Init => WakeInv
  BY DEF Init, WakeInv, TodoOnProcs, WaitersAreWoken
<1>2. WakeInv /\ [Next]_vars => WakeInv'
  <2> SUFFICES ASSUME WakeInv, [Next]_vars
               PROVE  WakeInv'
    OBVIOUS
  <2>1. CASE \E p \in Procs : Step(p)
    <3> SUFFICES ASSUME NEW p \in Procs, Step(p)
                 PROVE  WakeInv'
      BY <2>1
    <3> QED
      BY QuietOperation, LeavingOperation, EstablishingOperation, NotifyOperation
         DEF Step, Operation
  <2>2. CASE \E p \in Requests : Accept(p) \/ Refuse(p)
    BY <2>2, QuietOperation DEF Procs
  <2>3. ASSUME NEW p \in Procs, NEW ops \in Seq(Ops), Begin(p, ops),
               UNCHANGED <<waiter, comm>>
        PROVE  WakeInv'
    BY <2>3, BeginKeeps
  <2>4. CASE Observe \/ FireTimers
    BY <2>4, <2>3, OpsSeqs DEF Observe, FireTimers, Procs
  <2>5. CASE Receive
    BY <2>5, <2>3, OpsSeqs DEF Receive, Change, Procs
  <2>6. CASE Enable \/ Disable \/ Operator
    BY <2>6, <2>3, OpsSeqs DEF Enable, Disable, Operator, Call, Change, Procs
  <2>7. CASE WaitStep
    BY <2>7 DEF WaitStep, StartWait, Register, RegisterIf, EndWait, WakeInv,
       TodoOnProcs, WaitersAreWoken, At
  <2>8. CASE LinkUp \/ LinkDown \/ UNCHANGED vars
    BY <2>8 DEF LinkUp, LinkDown, vars, WakeInv, TodoOnProcs, WaitersAreWoken, At
  <2> QED
    BY <2>1, <2>2, <2>3, <2>4, <2>5, <2>6, <2>7, <2>8 DEF Next
<1>3. WakeInv => WaitersAreWoken
  BY DEF WakeInv
<1> QED
  BY <1>1, <1>2, <1>3, PTL DEF Spec

-----------------------------------------------------------------------------
(* The in-progress flags.                                                  *)
(* A goroutine that raised a flag ends with the deferred Store(false),     *)
(* whatever its operations queue and whichever method fails: the end of    *)
(* what it has to do never changes.  For the same reason a method is       *)
(* always followed by the look of transitionControl, which its error       *)
(* skips.                                                                  *)

\* The operations of a process that may come before others.
Part(p, s) ==
  /\ \A i \in 1..Len(s) : s[i] \in Methods => i < Len(s) /\ s[i + 1] = "settle"
  /\ \A i \in 1..Len(s) : s[i] \in {"checkCommunicating", "sendS1F13"} => p \in Handshakes
  /\ \A i \in 1..Len(s) : s[i] \in {"attempt", "sendS1F1"} => p \in Attempts

\* All that a process has to do.
Ending(p, s) ==
  /\ s # <<>> /\ p \in Handshakes => s[Len(s)] = "clearHandshake"
  /\ s # <<>> /\ p \in Attempts => s[Len(s)] = "clearAttempt"

Lines == \A p \in Procs : Part(p, todo[p]) /\ Ending(p, todo[p])

FlagInv == TodoOnProcs /\ Lines /\ FlagsHaveOwners

\* What ops and the rest of s look like one after the other.
LEMMA Joined ==
  ASSUME NEW s \in Seq(Ops), s # <<>>, NEW ops \in Seq(Ops),
         NEW m \in Nat, m = Len(ops), NEW n \in Nat, n = Len(s)
  PROVE  LET t == ops \o Tail(s)
         IN  /\ t \in Seq(Ops) /\ Len(t) = m + n - 1
             /\ \A i \in 1..m : t[i] = ops[i]
             /\ \A j \in 2..n : t[m + j - 1] = s[j]
<1>1. n > 0
  OBVIOUS
<1>2. Tail(s) \in Seq(Ops) /\ Len(Tail(s)) = n - 1 /\ \A j \in 1..(n - 1) : Tail(s)[j] = s[j + 1]
  BY <1>1
<1>. DEFINE q == Tail(s)
<1>3. /\ ops \o q \in Seq(Ops) /\ Len(ops \o q) = m + (n - 1)
      /\ \A i \in 1..m : (ops \o q)[i] = ops[i]
      /\ \A j \in 1..(n - 1) : (ops \o q)[m + j] = q[j]
  <2>. HIDE DEF q
  <2>. QED  BY <1>2 DEF q
<1>4. ASSUME NEW j \in 2..n PROVE (ops \o q)[m + j - 1] = s[j]
  <2>1. PICK k : k = j - 1
    OBVIOUS
  <2>2. k \in 1..(n - 1) /\ m + j - 1 = m + k /\ k + 1 = j
    BY <2>1
  <2>. QED  BY <2>2, <1>2, <1>3
<1>. QED  BY <1>3, <1>4

\* An operation that is not the last of a request leaves its ending in place.
LEMMA PartThenRest ==
  ASSUME NEW p, NEW s \in Seq(Ops), s # <<>>, Part(p, s), Ending(p, s),
         NEW ops \in Seq(Ops), Part(p, ops),
         ops = <<>> \/ p \notin Requests \/ Len(s) > 1
  PROVE  /\ Part(p, ops \o Tail(s)) /\ Ending(p, ops \o Tail(s))
         /\ Len(s) > 1 => ops \o Tail(s) # <<>>
<1>1. PICK m \in Nat, n \in Nat : m = Len(ops) /\ n = Len(s)
  OBVIOUS
<1>. DEFINE t == ops \o Tail(s)
<1>2. /\ t \in Seq(Ops) /\ Len(t) = m + n - 1
      /\ \A i \in 1..m : t[i] = ops[i]
      /\ \A j \in 2..n : t[m + j - 1] = s[j]
  BY <1>1, Joined
<1>3. n > 0
  BY <1>1
<1>. HIDE DEF t
<1>4. ASSUME NEW i \in 1..Len(t), i > m
      PROVE  \E j \in 2..n : j = i - m + 1 /\ t[i] = s[j] /\ i = m + j - 1
  <2>1. PICK j : j = i - m + 1
    OBVIOUS
  <2>2. j \in 2..n /\ m + j - 1 = i
    BY <1>2, <1>4, <2>1
  <2>. QED  BY <2>1, <2>2, <1>2
<1>5. ASSUME NEW i \in 1..Len(t), t[i] \in Methods
      PROVE  i < Len(t) /\ t[i + 1] = "settle"
  <2>1. CASE i <= m
    <3>1. i \in 1..m /\ ops[i] \in Methods
      BY <2>1, <1>2, <1>5
    <3>2. i < m /\ ops[i + 1] = "settle"
      BY <3>1, <1>1 DEF Part
    <3>3. i + 1 \in 1..m
      BY <3>1, <3>2
    <3>. QED  BY <3>2, <3>3, <1>2, <1>3
  <2>2. CASE i > m
    <3>1. PICK j \in 2..n : t[i] = s[j] /\ i = m + j - 1
      BY <2>2, <1>4
    <3>2. j < n /\ s[j + 1] = "settle"
      BY <3>1, <1>1, <1>5 DEF Part
    <3>3. j + 1 \in 2..n /\ m + (j + 1) - 1 = i + 1
      BY <3>1, <3>2
    <3>4. t[i + 1] = s[j + 1]
      BY <3>3, <1>2
    <3>. QED  BY <3>1, <3>2, <3>4, <1>2
  <2>. QED  BY <2>1, <2>2
<1>6. ASSUME NEW i \in 1..Len(t)
      PROVE  /\ t[i] \in {"checkCommunicating", "sendS1F13"} => p \in Handshakes
             /\ t[i] \in {"attempt", "sendS1F1"} => p \in Attempts
  <2>1. CASE i <= m
    <3>1. i \in 1..m
      BY <2>1
    <3>. QED  BY <3>1, <1>1, <1>2 DEF Part
  <2>2. CASE i > m
    <3>1. PICK j \in 2..n : t[i] = s[j]
      BY <2>2, <1>4
    <3>2. j \in 1..Len(s)
      BY <1>1
    <3>. QED  BY <3>1, <3>2 DEF Part
  <2>. QED  BY <2>1, <2>2
<1>7. Part(p, t)
  BY <1>5, <1>6 DEF Part
<1>8. n > 1 => t # <<>> /\ t[Len(t)] = s[n]
  <2>1. ASSUME n > 1 PROVE t # <<>> /\ t[Len(t)] = s[n]
    <3>1. n \in 2..n /\ m + n - 1 > 0
      BY <2>1
    <3>. QED  BY <3>1, <1>2
  <2>. QED  BY <2>1
<1>9. ops = <<>> /\ n = 1 => t = <<>>
  BY <1>1, <1>2
<1>10. Ending(p, t)
  BY <1>1, <1>3, <1>8, <1>9 DEF Ending, Requests
<1>. QED  BY <1>1, <1>7, <1>8, <1>10 DEF t

\* The error of a method skips the method and the look after it.
LEMMA ErrorSkips ==
  ASSUME NEW p, NEW s \in Seq(Ops), s # <<>>, Part(p, s), Ending(p, s), Head(s) \in Methods
  PROVE  LET u == SubSeq(s, 3, Len(s))
         IN  Part(p, u) /\ Ending(p, u) /\ (p \in Requests => u # <<>>)
<1>1. PICK n \in Nat : n = Len(s)
  OBVIOUS
<1>2. n > 1 /\ s[2] = "settle"
  <2>1. n > 0 /\ s[1] \in Methods
    BY <1>1
  <2>2. 1 \in 1..Len(s)
    BY <1>1, <2>1
  <2>3. 1 < Len(s) /\ s[1 + 1] = "settle"
    BY <2>1, <2>2 DEF Part
  <2>. QED  BY <2>3, <1>1
<1>. DEFINE u == SubSeq(s, 3, Len(s))
<1>3. u \in Seq(Ops) /\ Len(u) = n - 2 /\ \A i \in 1..(n - 2) : u[i] = s[i + 2]
  BY <1>1, <1>2
<1>. HIDE DEF u
<1>4. ASSUME NEW i \in 1..Len(u)
      PROVE  /\ i + 2 \in 1..Len(s) /\ u[i] = s[i + 2]
             /\ i + 2 < Len(s) => i < Len(u) /\ u[i + 1] = s[(i + 2) + 1]
  <2>1. i \in 1..(n - 2) /\ i + 2 \in 1..n
    BY <1>3
  <2>2. i + 2 < n => i + 1 \in 1..(n - 2) /\ (i + 1) + 2 = (i + 2) + 1
    BY <2>1
  <2>3. i + 2 < n => u[i + 1] = s[(i + 2) + 1]
    BY <2>2, <1>3
  <2>. QED  BY <2>1, <2>2, <2>3, <1>1, <1>3
<1>5. Part(p, u)
  BY <1>4 DEF Part
<1>6. p \in Requests => n > 2
  <2>1. p \in Requests => s[n] \in {"clearHandshake", "clearAttempt"}
    BY <1>1 DEF Ending, Requests
  <2>. QED  BY <2>1, <1>2
<1>7. n > 2 => u # <<>> /\ u[Len(u)] = s[n]
  <2>1. ASSUME n > 2 PROVE u # <<>> /\ u[Len(u)] = s[n]
    <3>1. n - 2 \in 1..(n - 2) /\ (n - 2) + 2 = n
      BY <2>1
    <3>. QED  BY <3>1, <1>3
  <2>. QED  BY <2>1
<1>8. Ending(p, u)
  BY <1>1, <1>6, <1>7 DEF Ending, Requests
<1>. QED  BY <1>5, <1>6, <1>7, <1>8 DEF u

\* Operations anybody may perform.
Plain == Ops \ (Methods \cup {"checkCommunicating", "sendS1F13", "attempt", "sendS1F1"})

LEMMA PlainParts ==
  ASSUME NEW p
  PROVE  /\ Part(p, <<>>)
         /\ \A op \in Plain : Part(p, <<op>>)
         /\ \A op1, op2 \in Plain : Part(p, <<op1, op2>>)
         /\ \A op1, op2, op3 \in Plain : Part(p, <<op1, op2, op3>>)
         /\ \A m \in Methods : Part(p, <<m, "settle">>)
<1>1. Part(p, <<>>)
  BY DEF Part
<1>2. ASSUME NEW op \in Plain PROVE Part(p, <<op>>)
  BY DEF Part, Plain
<1>3. ASSUME NEW op1 \in Plain, NEW op2 \in Plain PROVE Part(p, <<op1, op2>>)
  <2>1. \A i \in 1..Len(<<op1, op2>>) : <<op1, op2>>[i] \in Plain
    OBVIOUS
  <2>. QED  BY <2>1 DEF Part, Plain
<1>4. ASSUME NEW op1 \in Plain, NEW op2 \in Plain, NEW op3 \in Plain
      PROVE  Part(p, <<op1, op2, op3>>)
  <2>1. \A i \in 1..Len(<<op1, op2, op3>>) : <<op1, op2, op3>>[i] \in Plain
    OBVIOUS
  <2>. QED  BY <2>1 DEF Part, Plain
<1>5. ASSUME NEW m \in Methods PROVE Part(p, <<m, "settle">>)
  <2>1. m \notin {"settle", "checkCommunicating", "sendS1F13", "attempt", "sendS1F1"}
    BY DEF Methods
  <2>2. "settle" \notin Methods \cup {"checkCommunicating", "sendS1F13", "attempt", "sendS1F1"}
    BY DEF Methods
  <2>. DEFINE s == <<m, "settle">>
  <2>3. Len(s) = 2 /\ s[1] = m /\ s[2] = "settle"
    OBVIOUS
  <2>. HIDE DEF s
  <2>4. \A i \in 1..Len(s) : i = 1 \/ i = 2
    BY <2>3
  <2>. QED  BY <2>1, <2>2, <2>3, <2>4 DEF Part, s
<1>. QED  BY <1>1, <1>2, <1>3, <1>4, <1>5

\* The operations of the actions are plain, but for the special ones.
LEMMA PlainOps ==
  /\ {"initiateAttempt", "clearAttempt", "awaitS1F2", "awaitS1F14", "startHandshake",
      "clearHandshake", "scheduleRetry", "setCommunicating", "setNotCommunicating",
      "waitCRATimeout", "waitDelayTimeout", "settle", "setWaitCRA", "contactLost",
      "contactMade", "notify", "enableState", "start", "stop", "disableProtocol",
      "operatorOnline", "operatorOffline"} \subseteq Plain
  /\ Choices \subseteq Plain
BY DEF Plain, Ops, Methods, Choices

\* The sequences that the actions put before what is left to do, but for those
\* that belong to a request.
LEMMA OpsParts ==
  ASSUME NEW p
  PROVE  /\ Part(p, <<>>)
         /\ Part(p, <<"initiateAttempt">>) /\ Part(p, <<"clearAttempt">>)
         /\ Part(p, <<"awaitS1F2">>) /\ Part(p, <<"awaitS1F14">>)
         /\ Part(p, <<"startHandshake">>) /\ Part(p, <<"clearHandshake">>)
         /\ Part(p, <<"scheduleRetry">>) /\ Part(p, <<"setCommunicating">>)
         /\ Part(p, <<"setNotCommunicating">>) /\ Part(p, <<"waitCRATimeout">>)
         /\ Part(p, <<"waitDelayTimeout">>) /\ Part(p, <<"operatorOnline">>)
         /\ Part(p, <<"operatorOffline">>) /\ Part(p, <<"settle">>)
         /\ Part(p, Change("initiateAttempt"))
         /\ \A m \in Methods : Part(p, Change(m))
         /\ Part(p, <<"clearHandshake", "setNotCommunicating">>)
         /\ Part(p, <<"clearHandshake", "contactLost">>)
         /\ Part(p, <<"notify", "clearHandshake">>)
         /\ Part(p, <<"notify", "clearHandshake", "contactMade">>)
         /\ Part(p, <<"enableState", "start">>)
         /\ Part(p, <<"setNotCommunicating", "stop", "disableProtocol">>)
BY PlainParts, PlainOps DEF Change

\* A failed or accepted request goes on with plain operations.
LEMMA RequestParts ==
  ASSUME NEW p, NEW request \in {"sendS1F1", "sendS1F13"}
  PROVE  /\ Failed(request) \in Seq(Ops) /\ Part(p, Failed(request))
         /\ Accepted(request) \in Seq(Ops) /\ Part(p, Accepted(request))
         /\ <<Awaiting(request)>> \in Seq(Ops) /\ Part(p, <<Awaiting(request)>>)
<1>1. {"AttemptOnlineFailHostOffline", "AttemptOnlineSuccess"} \subseteq Methods
  BY DEF Methods
<1>2. /\ Change("AttemptOnlineFailHostOffline") \in Seq(Ops)
      /\ Change("AttemptOnlineSuccess") \in Seq(Ops)
  BY OpsSeqs DEF Change
<1>3. CASE request = "sendS1F1"
  BY <1>1, <1>2, <1>3, OpsSeqs, OpsParts DEF Failed, Accepted, Awaiting
<1>4. CASE request = "sendS1F13"
  BY <1>4, OpsSeqs, OpsParts DEF Failed, Accepted, Awaiting
<1>. QED  BY <1>3, <1>4

\* A process whose sequence is replaced.
LEMMA ReplaceKeeps ==
  ASSUME FlagInv, NEW p \in Procs, NEW s \in Seq(Ops), Part(p, s), Ending(p, s),
         todo' = [todo EXCEPT ![p] = s],
         handshakeInProgress' => handshakeInProgress,
         attemptInProgress' => attemptInProgress,
         p \in Handshakes /\ handshakeInProgress' => s # <<>> \/ todo[p] = <<>>,
         p \in Attempts /\ attemptInProgress' => s # <<>> \/ todo[p] = <<>>
  PROVE  FlagInv'
<1>1. todo \in [Procs -> Seq(Ops)]
  BY DEF FlagInv, TodoOnProcs
<1>2. /\ todo' \in [Procs -> Seq(Ops)] /\ todo'[p] = s
      /\ \A q \in Procs : q # p => todo'[q] = todo[q]
  BY <1>1
<1>3. Lines'
  BY <1>2 DEF FlagInv, Lines, Part, Ending
<1>4. Handshakes \cup Attempts \subseteq Procs
  BY DEF Procs, Requests
<1>5. handshakeInProgress' => \E h \in Handshakes : todo'[h] # <<>>
  BY <1>2, <1>4 DEF FlagInv, FlagsHaveOwners
<1>6. attemptInProgress' => \E a \in Attempts : todo'[a] # <<>>
  BY <1>2, <1>4 DEF FlagInv, FlagsHaveOwners
<1>. QED  BY <1>2, <1>3, <1>5, <1>6 DEF FlagInv, TodoOnProcs, FlagsHaveOwners

\* The last operation of a request is known.
LEMMA LastOfRequest ==
  ASSUME FlagInv, NEW p \in Procs, todo[p] # <<>>
  PROVE  /\ p \in Handshakes /\ ~At(p, "clearHandshake") => Len(todo[p]) > 1
         /\ p \in Attempts /\ ~At(p, "clearAttempt") => Len(todo[p]) > 1
<1>1. todo[p] \in Seq(Ops) /\ Ending(p, todo[p])
  BY DEF FlagInv, TodoOnProcs, Lines
<1>2. Len(todo[p]) = 1 => Head(todo[p]) = todo[p][Len(todo[p])]
  BY <1>1
<1>3. Len(todo[p]) > 0
  BY <1>1
<1>. QED  BY <1>1, <1>2, <1>3 DEF Ending, At

\* A process performs an operation and queues others.
LEMMA ThenFlags ==
  ASSUME FlagInv, NEW p \in Procs, todo[p] # <<>>, NEW ops \in Seq(Ops), Part(p, ops),
         Then(p, ops),
         ops # <<>> => ~At(p, "clearHandshake") /\ ~At(p, "clearAttempt"),
         handshakeInProgress' => handshakeInProgress /\ ~At(p, "clearHandshake"),
         attemptInProgress' => attemptInProgress /\ ~At(p, "clearAttempt")
  PROVE  FlagInv'
<1>1. todo[p] \in Seq(Ops) /\ Part(p, todo[p]) /\ Ending(p, todo[p])
  BY DEF FlagInv, TodoOnProcs, Lines
<1>. DEFINE s == ops \o Tail(todo[p])
<1>2. s \in Seq(Ops)
  BY RestIsSeq DEF FlagInv
<1>3. ops = <<>> \/ p \notin Requests \/ Len(todo[p]) > 1
  BY LastOfRequest DEF Requests
<1>4. Part(p, s) /\ Ending(p, s) /\ (Len(todo[p]) > 1 => s # <<>>)
  BY <1>1, <1>3, PartThenRest
<1>5. todo' = [todo EXCEPT ![p] = s]
  BY DEF Then
<1>6. /\ p \in Handshakes /\ handshakeInProgress' => s # <<>>
      /\ p \in Attempts /\ attemptInProgress' => s # <<>>
  BY <1>4, LastOfRequest
<1>. HIDE DEF s
<1>. QED  BY <1>2, <1>4, <1>5, <1>6, ReplaceKeeps

\* A process starts a goroutine in a free slot, which raises a flag.
LEMMA SpawnFlags ==
  ASSUME FlagInv, NEW p \in Procs, todo[p] # <<>>,
         ~At(p, "clearHandshake"), ~At(p, "clearAttempt"),
         NEW g \in Requests, todo[g] = <<>>, NEW r \in Seq(Ops), r # <<>>,
         Part(g, r), Ending(g, r),
         todo' = [todo EXCEPT ![p] = Tail(todo[p]), ![g] = r],
         handshakeInProgress' => handshakeInProgress \/ g \in Handshakes,
         attemptInProgress' => attemptInProgress \/ g \in Attempts
  PROVE  FlagInv'
<1>1. todo \in [Procs -> Seq(Ops)] /\ g \in Procs /\ p # g
  BY DEF FlagInv, TodoOnProcs, Procs
<1>2. Part(p, todo[p]) /\ Ending(p, todo[p]) /\ Part(p, <<>>)
  BY OpsParts DEF FlagInv, Lines
<1>3. /\ Tail(todo[p]) \in Seq(Ops) /\ <<>> \o Tail(todo[p]) = Tail(todo[p])
      /\ <<>> \in Seq(Ops)
  BY <1>1, RestIsSeq DEF FlagInv
<1>4. /\ Part(p, Tail(todo[p])) /\ Ending(p, Tail(todo[p]))
      /\ Len(todo[p]) > 1 => Tail(todo[p]) # <<>>
  BY <1>1, <1>2, <1>3, PartThenRest
<1>5. /\ todo' \in [Procs -> Seq(Ops)]
      /\ todo'[p] = Tail(todo[p]) /\ todo'[g] = r
      /\ \A q \in Procs : q # p /\ q # g => todo'[q] = todo[q]
  BY <1>1, <1>3
<1>6. Lines'
  <2>1. ASSUME NEW q \in Procs PROVE Part(q, todo'[q]) /\ Ending(q, todo'[q])
    <3>1. CASE q = p
      BY <3>1, <1>4, <1>5
    <3>2. CASE q = g
      BY <3>2, <1>5
    <3>3. CASE q # p /\ q # g
      BY <3>3, <1>5 DEF FlagInv, Lines
    <3>. QED  BY <3>1, <3>2, <3>3
  <2>. QED  BY <2>1 DEF Lines, Part, Ending
<1>7. /\ p \in Handshakes => todo'[p] # <<>>
      /\ p \in Attempts => todo'[p] # <<>>
  BY <1>4, <1>5, LastOfRequest
<1>8. Handshakes \cup Attempts \subseteq Procs
  BY DEF Procs, Requests
<1>9. handshakeInProgress' => \E h \in Handshakes : todo'[h] # <<>>
  BY <1>5, <1>7, <1>8 DEF FlagInv, FlagsHaveOwners
<1>10. attemptInProgress' => \E a \in Attempts : todo'[a] # <<>>
  BY <1>5, <1>7, <1>8 DEF FlagInv, FlagsHaveOwners
<1>. QED  BY <1>5, <1>6, <1>9, <1>10 DEF FlagInv, TodoOnProcs, FlagsHaveOwners

\* An idle process that is no request begins.
LEMMA BeginFlags ==
  ASSUME FlagInv, NEW p \in Procs, p \notin Requests, NEW ops \in Seq(Ops),
         Part(p, ops), Begin(p, ops), UNCHANGED <<handshakeInProgress, attemptInProgress>>
  PROVE  FlagInv'
<1>1. Ending(p, ops) /\ todo' = [todo EXCEPT ![p] = ops]
  BY DEF Ending, Requests, Begin
<1>2. p \notin Handshakes /\ p \notin Attempts
  BY DEF Requests
<1>. QED  BY <1>1, <1>2, ReplaceKeeps

\* What each operation does with the rest, and to the flags.
LEMMA FlagsOperation ==
  ASSUME FlagInv, NEW p \in Procs,
         Step(p) \/ Accept(p) \/ Refuse(p)
  PROVE  FlagInv'
<1>1. ASSUME todo[p] # <<>>, NEW ops \in Seq(Ops), Part(p, ops), Then(p, ops),
             ~At(p, "clearHandshake"), ~At(p, "clearAttempt"),
             UNCHANGED <<handshakeInProgress, attemptInProgress>>
      PROVE  FlagInv'
  BY <1>1, ThenFlags
<1>2. CASE ControlMethod(p)
  <2>1. PICK m \in Methods :
          /\ At(p, m)
          /\ \/ Then(p, <<>>)
             \/ todo' = [todo EXCEPT ![p] = SubSeq(todo[p], 3, Len(todo[p]))]
          /\ UNCHANGED <<handshakeInProgress, attemptInProgress>>
    BY <1>2 DEF ControlMethod
  <2>2. todo[p] # <<>> /\ ~At(p, "clearHandshake") /\ ~At(p, "clearAttempt")
    BY <2>1 DEF At, Methods
  <2>3. CASE Then(p, <<>>)
    BY <2>1, <2>2, <2>3, <1>1, OpsSeqs, OpsParts
  <2>4. CASE todo' = [todo EXCEPT ![p] = SubSeq(todo[p], 3, Len(todo[p]))]
    <3>. DEFINE u == SubSeq(todo[p], 3, Len(todo[p]))
    <3>1. todo[p] \in Seq(Ops) /\ Part(p, todo[p]) /\ Ending(p, todo[p]) /\ Head(todo[p]) \in Methods
      BY <2>1 DEF FlagInv, TodoOnProcs, Lines, At
    <3>2. u \in Seq(Ops)
      BY <2>2, RestIsSeq DEF FlagInv
    <3>3. Part(p, u) /\ Ending(p, u) /\ (p \in Requests => u # <<>>)
      BY <2>2, <3>1, ErrorSkips
    <3>4. todo' = [todo EXCEPT ![p] = u]
      BY <2>4
    <3>. HIDE DEF u
    <3>. QED  BY <2>1, <3>2, <3>3, <3>4, ReplaceKeeps DEF Requests
  <2>. QED  BY <2>1, <2>3, <2>4
<1>3. CASE Choose(p)
  <2>1. PICK choice \in Choices :
          /\ At(p, choice) /\ Then(p, Chosen(choice))
          /\ UNCHANGED <<handshakeInProgress, attemptInProgress>>
    BY <1>3 DEF Choose
  <2>2. todo[p] # <<>> /\ ~At(p, "clearHandshake") /\ ~At(p, "clearAttempt")
    BY <2>1 DEF At, Choices
  <2>3. {"SwitchOnline", "SwitchOffline", "AttemptOnlineFailEquipmentOffline"} \subseteq Methods
    BY DEF Methods
  <2>4. Chosen(choice) \in Seq(Ops)
    BY OpsSeqs DEF Chosen, Change, Choices
  <2>5. Part(p, Chosen(choice))
    BY <2>3, OpsParts DEF Chosen, Choices
  <2>. QED  BY <2>1, <2>2, <2>4, <2>5, <1>1
<1>4. CASE Settle(p)
  <2>1. /\ todo[p] # <<>> /\ ~At(p, "clearHandshake") /\ ~At(p, "clearAttempt")
        /\ UNCHANGED <<handshakeInProgress, attemptInProgress>>
    BY <1>4 DEF Settle, At
  <2>2. PICK ops \in {<<>>, <<"clearAttempt">>, <<"initiateAttempt">>} : Then(p, ops)
    BY <1>4 DEF Settle
  <2>3. ops \in Seq(Ops) /\ Part(p, ops)
    BY <2>2, OpsSeqs, OpsParts
  <2>. QED  BY <2>1, <2>2, <2>3, <1>1
<1>12. CASE CheckAttempt(p)
  <2>1. /\ todo[p] # <<>> /\ ~At(p, "clearHandshake") /\ ~At(p, "clearAttempt")
        /\ UNCHANGED <<handshakeInProgress, attemptInProgress>>
        /\ At(p, "attempt")
    BY <1>12 DEF CheckAttempt, At
  <2>2. PICK ops \in {<<>>, <<"sendS1F1">>, Change("AttemptOnlineFailHostOffline")} :
          Then(p, ops)
    BY <1>12 DEF CheckAttempt
  <2>3. "AttemptOnlineFailHostOffline" \in Methods
    BY DEF Methods
  <2>4. p \in Attempts
    <3>1. todo[p] \in Seq(Ops) /\ Part(p, todo[p]) /\ todo[p][1] = "attempt"
      BY <2>1 DEF At, FlagInv, TodoOnProcs, Lines
    <3>2. 1 \in 1..Len(todo[p])
      BY <2>1, <3>1
    <3>. QED  BY <3>1, <3>2 DEF Part
  <2>5. Part(p, <<"sendS1F1">>)
    BY <2>4 DEF Part, Methods
  <2>6. ops \in Seq(Ops)
    BY <2>2, OpsSeqs DEF Change
  <2>7. Part(p, ops)
    BY <2>2, <2>3, <2>5, OpsParts
  <2>. QED  BY <2>1, <2>2, <2>6, <2>7, <1>1
<1>5. CASE InitiateAttempt(p)
  <2>1. /\ todo[p] # <<>> /\ ~At(p, "clearHandshake") /\ ~At(p, "clearAttempt")
        /\ UNCHANGED handshakeInProgress
    BY <1>5 DEF InitiateAttempt, At
  <2>2. CASE Then(p, <<>>) /\ UNCHANGED attemptInProgress
    BY <2>1, <2>2, <1>1, OpsSeqs, OpsParts
  <2>3. ASSUME NEW a \in Attempts, todo[a] = <<>>,
               todo' = [todo EXCEPT ![p] = Tail(todo[p]), ![a] = <<"attempt", "clearAttempt">>]
        PROVE  FlagInv'
    <3>1. PICK r : r = <<"attempt", "clearAttempt">>
      OBVIOUS
    <3>2. /\ r \in Seq(Ops) /\ r # <<>> /\ Len(r) = 2
          /\ r[1] = "attempt" /\ r[2] = "clearAttempt"
      BY <3>1, OpsSeqs
    <3>3. \A i \in 1..Len(r) : i = 1 \/ i = 2
      BY <3>2
    <3>4. a \in Requests /\ a \notin Handshakes
      BY SlotAssumption DEF Requests
    <3>5. Part(a, r)
      BY <3>2, <3>3 DEF Part, Methods
    <3>6. Ending(a, r)
      BY <3>2, <3>4 DEF Ending
    <3>7. todo' = [todo EXCEPT ![p] = Tail(todo[p]), ![a] = r]
      BY <2>3, <3>1
    <3>. QED  BY <2>1, <2>3, <3>2, <3>4, <3>5, <3>6, <3>7, SpawnFlags
  <2>. QED  BY <1>5, <2>2, <2>3 DEF InitiateAttempt
<1>6. CASE StartHandshake(p)
  <2>1. /\ todo[p] # <<>> /\ ~At(p, "clearHandshake") /\ ~At(p, "clearAttempt")
        /\ UNCHANGED attemptInProgress
    BY <1>6 DEF StartHandshake, At
  <2>2. CASE Then(p, <<>>) /\ UNCHANGED handshakeInProgress
    BY <2>1, <2>2, <1>1, OpsSeqs, OpsParts
  <2>3. ASSUME NEW h \in Handshakes, todo[h] = <<>>,
               todo' = [todo EXCEPT ![p] = Tail(todo[p]), ![h] = HandshakeOps]
        PROVE  FlagInv'
    <3>1. PICK r : r = HandshakeOps
      OBVIOUS
    <3>2. /\ r \in Seq(Ops) /\ r # <<>> /\ Len(r) = 3
          /\ r[1] \in {"setWaitCRA", "checkCommunicating"}
          /\ r[2] = "sendS1F13" /\ r[3] = "clearHandshake"
      BY <3>1, OpsSeqs DEF HandshakeOps, FirstStep
    <3>3. \A i \in 1..Len(r) : i = 1 \/ i = 2 \/ i = 3
      BY <3>2
    <3>4. h \in Requests /\ h \notin Attempts
      BY SlotAssumption DEF Requests
    <3>5. Part(h, r)
      BY <3>2, <3>3 DEF Part, Methods
    <3>6. Ending(h, r)
      BY <3>2, <3>4 DEF Ending
    <3>7. todo' = [todo EXCEPT ![p] = Tail(todo[p]), ![h] = r]
      BY <2>3, <3>1
    <3>. QED  BY <2>1, <2>3, <3>2, <3>4, <3>5, <3>6, <3>7, SpawnFlags
  <2>. QED  BY <1>6, <2>2, <2>3 DEF StartHandshake
<1>7. CASE CheckCommunicating(p)
  <2>1. /\ todo[p] # <<>> /\ ~At(p, "clearHandshake") /\ ~At(p, "clearAttempt")
        /\ UNCHANGED <<handshakeInProgress, attemptInProgress>>
        /\ At(p, "checkCommunicating")
    BY <1>7 DEF CheckCommunicating, CheckCommunicatingOr, At
  <2>2. CASE Then(p, <<>>)
    BY <2>1, <2>2, <1>1, OpsSeqs, OpsParts
  <2>3. CASE todo' = [todo EXCEPT ![p] = <<"clearHandshake">>]
    <3>1. todo[p] \in Seq(Ops) /\ Part(p, todo[p]) /\ todo[p][1] = "checkCommunicating"
      BY <2>1 DEF At, FlagInv, TodoOnProcs, Lines
    <3>2. 1 \in 1..Len(todo[p])
      BY <2>1, <3>1
    <3>3. p \in Handshakes /\ p \notin Attempts
      BY <3>1, <3>2, SlotAssumption DEF Part
    <3>4. PICK r : r = <<"clearHandshake">>
      OBVIOUS
    <3>5. r \in Seq(Ops) /\ r # <<>> /\ r[Len(r)] = "clearHandshake" /\ Part(p, r)
      BY <3>4, OpsSeqs, OpsParts
    <3>6. Ending(p, r) /\ todo' = [todo EXCEPT ![p] = r]
      BY <2>3, <3>3, <3>4, <3>5 DEF Ending
    <3>. QED  BY <2>1, <3>5, <3>6, ReplaceKeeps
  <2>. QED  BY <1>7, <2>2, <2>3 DEF CheckCommunicating, CheckCommunicatingOr
<1>8. CASE ClearHandshake(p)
  <2>1. /\ todo[p] # <<>> /\ Then(p, <<>>) /\ ~At(p, "clearAttempt")
        /\ ~handshakeInProgress' /\ attemptInProgress' = attemptInProgress
    BY <1>8 DEF ClearHandshake, At
  <2>. QED  BY <2>1, ThenFlags, OpsSeqs, OpsParts
<1>9. CASE ClearAttempt(p)
  <2>1. /\ todo[p] # <<>> /\ Then(p, <<>>) /\ ~At(p, "clearHandshake")
        /\ ~attemptInProgress' /\ handshakeInProgress' = handshakeInProgress
    BY <1>9 DEF ClearAttempt, At
  <2>. QED  BY <2>1, ThenFlags, OpsSeqs, OpsParts
<1>10. CASE SendRequest(p) \/ ReplyTimeout(p) \/ Accept(p) \/ Refuse(p)
  <2>1. PICK request \in {"sendS1F1", "sendS1F13"} :
          /\ At(p, request) \/ At(p, Awaiting(request))
          /\ \/ Then(p, <<Awaiting(request)>>)
             \/ Then(p, Failed(request))
             \/ Then(p, Accepted(request))
          /\ UNCHANGED <<handshakeInProgress, attemptInProgress>>
    BY <1>10 DEF SendRequest, ReplyTimeout, Accept, Refuse, Answer
  <2>2. todo[p] # <<>> /\ ~At(p, "clearHandshake") /\ ~At(p, "clearAttempt")
    BY <2>1 DEF At, Awaiting
  <2>. QED  BY <2>1, <2>2, <1>1, RequestParts
<1>11. CASE SetWaitCRA(p) \/ ScheduleRetry(p) \/ OnTimeout(p) \/ SetCommunicating(p)
            \/ SetNotCommunicating(p) \/ Notify(p) \/ EnableState(p) \/ Start(p)
            \/ Stop(p) \/ DisableProtocol(p)
  <2>1. /\ todo[p] # <<>> /\ ~At(p, "clearHandshake") /\ ~At(p, "clearAttempt")
        /\ UNCHANGED <<handshakeInProgress, attemptInProgress>>
    BY <1>11 DEF SetWaitCRA, ScheduleRetry, ScheduleRetryWith, OnTimeout,
       SetCommunicating, SetNotCommunicating, LoseContact, Notify, EnableState, Start,
       Stop, DisableProtocol, At
  <2>2. PICK ops \in {<<>>, <<"scheduleRetry">>, <<"startHandshake">>, <<"setNotCommunicating">>,
                      <<"notify", "clearHandshake">>,
                      <<"notify", "clearHandshake", "contactMade">>,
                      <<"clearHandshake", "contactLost">>} : Then(p, ops)
    BY <1>11 DEF SetWaitCRA, ScheduleRetry, ScheduleRetryWith, OnTimeout,
       SetCommunicating, SetNotCommunicating, LoseContact, Notify, EnableState, Start,
       Stop, DisableProtocol
  <2>3. ops \in Seq(Ops) /\ Part(p, ops)
    BY <2>2, OpsSeqs, OpsParts
  <2>. QED  BY <2>1, <2>2, <2>3, <1>1
<1>. QED
  BY <1>2, <1>3, <1>4, <1>5, <1>6, <1>7, <1>8, <1>9, <1>10, <1>11, <1>12
     DEF Step, Operation

LEMMA FlagsNext == FlagInv /\ [Next]_vars => FlagInv'
<1>. SUFFICES ASSUME FlagInv, [Next]_vars
              PROVE  FlagInv'
  OBVIOUS
<1>1. CASE \E p \in Procs : Step(p)
  BY <1>1, FlagsOperation
<1>2. CASE \E p \in Requests : Accept(p) \/ Refuse(p)
  BY <1>2, FlagsOperation DEF Procs
<1>3. ASSUME NEW p \in {"monitor", "cra", "delay", "rx", "app"}, NEW ops \in Seq(Ops),
             Part(p, ops), Begin(p, ops),
             UNCHANGED <<handshakeInProgress, attemptInProgress>>
      PROVE  FlagInv'
  <2>1. p \in Procs /\ p \notin Requests
    BY SlotAssumption DEF Procs
  <2>. QED  BY <1>3, <2>1, BeginFlags
<1>4. CASE Observe \/ FireTimers
  <2>1. PICK p \in {"monitor", "cra", "delay"},
             ops \in {<<"clearHandshake", "setNotCommunicating">>, <<"startHandshake">>,
                      <<"waitCRATimeout">>, <<"waitDelayTimeout">>} :
          Begin(p, ops) /\ UNCHANGED <<handshakeInProgress, attemptInProgress>>
    BY <1>4 DEF Observe, FireTimers
  <2>2. ops \in Seq(Ops) /\ Part(p, ops)
    BY <2>1, OpsSeqs, OpsParts
  <2>. QED  BY <2>1, <2>2, <1>3
<1>5. CASE Receive
  <2>1. PICK ops \in {<<"setCommunicating">>, <<"scheduleRetry">>, Change("RemoteOffline"),
                      Change("RemoteOnline")} :
          Begin("rx", ops) /\ UNCHANGED <<handshakeInProgress, attemptInProgress>>
    BY <1>5 DEF Receive
  <2>2. ops \in Seq(Ops)
    BY <2>1, OpsSeqs DEF Change
  <2>3. {"RemoteOffline", "RemoteOnline"} \subseteq Methods
    BY DEF Methods
  <2>4. Part("rx", ops)
    BY <2>1, <2>3, OpsParts
  <2>. QED  BY <2>1, <2>2, <2>4, <1>3
<1>6. CASE Enable \/ Disable \/ Operator
  <2>1. PICK ops \in {<<"enableState", "start">>,
                      <<"setNotCommunicating", "stop", "disableProtocol">>,
                      <<"operatorOnline">>, <<"operatorOffline">>,
                      Change("SwitchOnlineLocal"), Change("SwitchOnlineRemote")} :
          Begin("app", ops) /\ UNCHANGED <<handshakeInProgress, attemptInProgress>>
    BY <1>6 DEF Enable, Disable, Operator, Call
  <2>2. ops \in Seq(Ops)
    BY <2>1, OpsSeqs DEF Change
  <2>3. {"SwitchOnlineLocal", "SwitchOnlineRemote"} \subseteq Methods
    BY DEF Methods
  <2>4. Part("app", ops)
    BY <2>1, <2>3, OpsParts
  <2>. QED  BY <2>1, <2>2, <2>4, <1>3
<1>7. CASE WaitStep \/ LinkUp \/ LinkDown \/ UNCHANGED vars
  <2>1. UNCHANGED <<todo, handshakeInProgress, attemptInProgress>>
    BY <1>7 DEF WaitStep, LinkUp, LinkDown, vars
  <2>. QED  BY <2>1 DEF FlagInv, TodoOnProcs, Lines, Part, Ending, FlagsHaveOwners
<1>. QED
  BY <1>1, <1>2, <1>4, <1>5, <1>6, <1>7 DEF Next

LEMMA FlagsStart == Init => FlagInv
<1>. SUFFICES ASSUME Init PROVE FlagInv
  OBVIOUS
<1>1. \A p \in Procs : todo[p] = <<>>
  BY DEF Init
<1>2. Lines
  BY <1>1, OpsParts DEF Lines, Ending
<1>. QED  BY <1>2 DEF Init, FlagInv, TodoOnProcs, FlagsHaveOwners

\* handler.go:468 and 647 - the two compare-and-swaps and the deferred
\* Store(false): a flag that is up has a goroutine that will lower it, for any
\* number of goroutines, and whatever fails on their way.
THEOREM FlagsHaveOwnersHolds == Spec => []FlagsHaveOwners
<1>1. FlagInv => FlagsHaveOwners
  BY DEF FlagInv
<1>. QED  BY <1>1, FlagsStart, FlagsNext, PTL DEF Spec

-----------------------------------------------------------------------------
(* The type of the variables.  That only requests are asked needs Lines.   *)

\* The state but for what the processes have to do.
Typed ==
  /\ role \in {"host", "equipment"}
  /\ link \in {"off", "down", "connected", "selected"}
  /\ enabled \in BOOLEAN /\ monitoring \in BOOLEAN
  /\ craTimer \in BOOLEAN /\ delayTimer \in BOOLEAN
  /\ handshakeInProgress \in BOOLEAN /\ attemptInProgress \in BOOLEAN
  /\ late \in BOOLEAN
  /\ comm \in CommStates
  /\ control \in ControlStates
  /\ onlineMode \in {"LOCAL", "REMOTE"}
  /\ before \in [Procs -> ControlStates \cup {"none"}]
  /\ waiter \in {"idle", "check", "waiting"}
  /\ asked \subseteq Requests
  /\ calls \in 0..MaxCalls /\ msgs \in 0..MaxMsgs /\ drops \in 0..MaxDrops

LEMMA MethodsType ==
  ASSUME NEW m \in Methods
  PROVE  Method(m).to \in ControlStates
BY DEF Methods, Method, ControlStates, Online, OnlineState

\* Steps that change one kind of variable.
LEMMA TypedSame == Typed /\ UNCHANGED <<role, flowVars, comm, timerVars,
    handshakeInProgress, ctlVars, attemptInProgress, before, waiter, peerVars, bounds>>
  => Typed'
BY DEF Typed, flowVars, timerVars, ctlVars, peerVars, bounds

LEMMA TypedProgress ==
  ASSUME Typed, UNCHANGED <<role, flowVars, comm, timerVars, ctlVars, before, waiter,
                            peerVars, bounds>>,
         handshakeInProgress' \in BOOLEAN, attemptInProgress' \in BOOLEAN
  PROVE  Typed'
BY DEF Typed, flowVars, timerVars, ctlVars, peerVars, bounds

LEMMA TypedFlow ==
  ASSUME Typed, UNCHANGED <<role, handshakeInProgress, attemptInProgress, ctlVars, before,
                            waiter, asked, late, bounds>>,
         link' \in {"off", "down", "connected", "selected"}, comm' \in CommStates,
         enabled' \in BOOLEAN, monitoring' \in BOOLEAN,
         craTimer' \in BOOLEAN, delayTimer' \in BOOLEAN
  PROVE  Typed'
BY DEF Typed, ctlVars, bounds

LEMMA TypedOperation ==
  ASSUME FlagInv, Typed, NEW p \in Procs, Step(p) \/ Accept(p) \/ Refuse(p)
  PROVE  Typed'
<1>1. CASE ControlMethod(p)
  <2>1. PICK m \in Methods :
          /\ control' \in {control, Method(m).to}
          /\ onlineMode' \in {"LOCAL", "REMOTE", onlineMode}
          /\ \/ before' = [before EXCEPT ![p] = IF before[p] = "none" THEN control ELSE before[p]]
             \/ before' = [before EXCEPT ![p] = "none"]
    BY <1>1 DEF ControlMethod, ctlVars
  <2>2. control' \in ControlStates /\ onlineMode' \in {"LOCAL", "REMOTE"}
    BY <2>1, MethodsType DEF Typed
  <2>3. before' \in [Procs -> ControlStates \cup {"none"}]
    BY <2>1 DEF Typed
  <2>. QED
    BY <1>1, <2>2, <2>3 DEF ControlMethod, Typed, flowVars, timerVars, peerVars, bounds
<1>2. CASE Choose(p)
  BY <1>2 DEF Choose, Typed, flowVars, timerVars, ctlVars, peerVars, bounds
<1>3. CASE Settle(p)
  <2>1. UNCHANGED <<role, flowVars, comm, timerVars, handshakeInProgress, ctlVars,
                     attemptInProgress, waiter, peerVars, bounds>>
    BY <1>3 DEF Settle
  <2>2. before' \in [Procs -> ControlStates \cup {"none"}]
    BY <1>3 DEF Settle, Typed
  <2>. QED  BY <2>1, <2>2 DEF Typed, flowVars, timerVars, ctlVars, peerVars, bounds
<1>4. CASE InitiateAttempt(p) \/ ClearAttempt(p) \/ CheckAttempt(p)
  <2>1. CASE InitiateAttempt(p)
    <3>1. /\ UNCHANGED <<role, flowVars, comm, timerVars, ctlVars, before, waiter,
                          peerVars, bounds>>
          /\ handshakeInProgress' = handshakeInProgress /\ attemptInProgress' \in {attemptInProgress, TRUE, FALSE}
      BY <2>1 DEF InitiateAttempt
    <3>2. attemptInProgress' \in BOOLEAN /\ handshakeInProgress' \in BOOLEAN
      BY <3>1 DEF Typed
    <3>. QED  BY <3>1, <3>2, TypedProgress
  <2>2. CASE ClearAttempt(p)
    <3>1. /\ UNCHANGED <<role, flowVars, comm, timerVars, ctlVars, before, waiter,
                          peerVars, bounds>>
          /\ handshakeInProgress' = handshakeInProgress /\ attemptInProgress' \in {attemptInProgress, TRUE, FALSE}
      BY <2>2 DEF ClearAttempt
    <3>2. attemptInProgress' \in BOOLEAN /\ handshakeInProgress' \in BOOLEAN
      BY <3>1 DEF Typed
    <3>. QED  BY <3>1, <3>2, TypedProgress
  <2>3. CASE CheckAttempt(p)
    BY <2>3, TypedSame DEF CheckAttempt
  <2>. QED  BY <1>4, <2>1, <2>2, <2>3
<1>5. CASE StartHandshake(p) \/ ClearHandshake(p) \/ CheckCommunicating(p) \/ OnTimeout(p)
  <2>1. CASE StartHandshake(p)
    <3>1. /\ UNCHANGED <<role, flowVars, comm, timerVars, ctlVars, before, waiter,
                          peerVars, bounds>>
          /\ attemptInProgress' = attemptInProgress /\ handshakeInProgress' \in {handshakeInProgress, TRUE, FALSE}
      BY <2>1 DEF StartHandshake
    <3>2. handshakeInProgress' \in BOOLEAN /\ attemptInProgress' \in BOOLEAN
      BY <3>1 DEF Typed
    <3>. QED  BY <3>1, <3>2, TypedProgress
  <2>2. CASE ClearHandshake(p)
    <3>1. /\ UNCHANGED <<role, flowVars, comm, timerVars, ctlVars, before, waiter,
                          peerVars, bounds>>
          /\ attemptInProgress' = attemptInProgress /\ handshakeInProgress' \in {handshakeInProgress, TRUE, FALSE}
      BY <2>2 DEF ClearHandshake
    <3>2. handshakeInProgress' \in BOOLEAN /\ attemptInProgress' \in BOOLEAN
      BY <3>1 DEF Typed
    <3>. QED  BY <3>1, <3>2, TypedProgress
  <2>3. CASE CheckCommunicating(p)
    BY <2>3, TypedSame DEF CheckCommunicating, CheckCommunicatingOr
  <2>4. CASE OnTimeout(p)
    BY <2>4, TypedSame DEF OnTimeout
  <2>. QED  BY <1>5, <2>1, <2>2, <2>3, <2>4
<1>6. CASE SendRequest(p)
  <2>1. todo[p] \in Seq(Ops) /\ todo[p] # <<>> /\ Part(p, todo[p])
        /\ todo[p][1] \in {"sendS1F1", "sendS1F13"}
    BY <1>6 DEF SendRequest, At, FlagInv, TodoOnProcs, Lines
  <2>2. 1 \in 1..Len(todo[p])
    BY <2>1
  <2>3. p \in Requests
    BY <2>1, <2>2 DEF Part, Requests
  <2>. QED
    BY <1>6, <2>3 DEF SendRequest, Typed, flowVars, timerVars, ctlVars, peerVars, bounds
<1>7. CASE ReplyTimeout(p) \/ Accept(p) \/ Refuse(p)
  <2>1. /\ UNCHANGED <<role, flowVars, comm, timerVars, handshakeInProgress, ctlVars,
                        attemptInProgress, before, waiter, link, bounds>>
        /\ asked' \subseteq asked
    BY <1>7 DEF ReplyTimeout, Accept, Refuse, Answer
  <2>2. late' \in BOOLEAN
    BY <1>7 DEF ReplyTimeout, Accept, Refuse, Answer, Typed
  <2>. QED  BY <2>1, <2>2 DEF Typed, flowVars, timerVars, ctlVars, bounds
<1>8. CASE SetWaitCRA(p) \/ ScheduleRetry(p)
  <2>1. /\ UNCHANGED <<role, flowVars, handshakeInProgress, ctlVars, attemptInProgress,
                        before, waiter, peerVars, bounds>>
        /\ comm' \in {comm, "WAIT_CRA", "WAIT_DELAY"}
        /\ craTimer' \in {craTimer, TRUE, FALSE} /\ delayTimer' \in {delayTimer, TRUE, FALSE}
    BY <1>8 DEF SetWaitCRA, ScheduleRetry, ScheduleRetryWith, timerVars
  <2>2. comm' \in CommStates
    BY <2>1 DEF Typed, CommStates
  <2>3. craTimer' \in BOOLEAN /\ delayTimer' \in BOOLEAN
    BY <2>1 DEF Typed
  <2>4. /\ link' \in {"off", "down", "connected", "selected"}
        /\ enabled' \in BOOLEAN /\ monitoring' \in BOOLEAN
    BY <2>1 DEF Typed, flowVars, peerVars
  <2>. QED  BY <2>1, <2>2, <2>3, <2>4, TypedFlow DEF peerVars
<1>9. CASE SetCommunicating(p) \/ SetNotCommunicating(p) \/ EnableState(p)
  BY <1>9 DEF SetCommunicating, SetNotCommunicating, LoseContact, EnableState,
     StopTimersOnChange, Typed, CommStates, flowVars, timerVars, ctlVars, peerVars, bounds
<1>10. CASE Notify(p) \/ Start(p) \/ Stop(p) \/ DisableProtocol(p)
  <2>1. CASE Notify(p)
    BY <2>1 DEF Notify, Typed, flowVars, timerVars, ctlVars, peerVars, bounds
  <2>2. CASE Start(p) \/ Stop(p)
    <3>1. /\ UNCHANGED <<role, enabled, comm, handshakeInProgress, ctlVars,
                          attemptInProgress, before, waiter, asked, late, bounds>>
          /\ link' \in {link, "down"} /\ monitoring' \in {TRUE, FALSE}
          /\ craTimer' \in {craTimer, FALSE} /\ delayTimer' \in {delayTimer, FALSE}
      BY <2>2 DEF Start, Stop, timerVars, peerVars
    <3>2. /\ enabled' \in BOOLEAN /\ monitoring' \in BOOLEAN
          /\ craTimer' \in BOOLEAN /\ delayTimer' \in BOOLEAN
      BY <3>1 DEF Typed
    <3>3. link' \in {"off", "down", "connected", "selected"} /\ comm' \in CommStates
      BY <3>1 DEF Typed
    <3>. QED  BY <3>1, <3>2, <3>3, TypedFlow
  <2>3. CASE DisableProtocol(p)
    <3>1. /\ UNCHANGED <<role, flowVars, comm, timerVars, handshakeInProgress, ctlVars,
                          attemptInProgress, before, waiter, bounds>>
          /\ link' = "off" /\ asked' = {}
      BY <2>3 DEF DisableProtocol
    <3>2. late' \in BOOLEAN
      BY <2>3 DEF DisableProtocol
    <3>. QED  BY <3>1, <3>2 DEF Typed, flowVars, timerVars, ctlVars, bounds
  <2>. QED  BY <1>10, <2>1, <2>2, <2>3
<1>. QED
  BY <1>1, <1>2, <1>3, <1>4, <1>5, <1>6, <1>7, <1>8, <1>9, <1>10 DEF Step, Operation

LEMMA TypedStart == Init => Typed
<1>1. MaxCalls \in Nat /\ MaxMsgs \in Nat /\ MaxDrops \in Nat
  BY GemAssumption
<1>2. 0 \in 0..MaxCalls /\ 0 \in 0..MaxMsgs /\ 0 \in 0..MaxDrops
  BY <1>1
<1>3. Init => control \in ControlStates /\ role \in {"host", "equipment"}
  BY GemAssumption DEF Init, ControlStates
<1>. QED  BY <1>2, <1>3 DEF Init, Typed, CommStates

LEMMA TypedNext == FlagInv /\ Typed /\ [Next]_vars => Typed'
<1>. SUFFICES ASSUME FlagInv, Typed, [Next]_vars
              PROVE  Typed'
  OBVIOUS
<1>. MaxCalls \in Nat /\ MaxMsgs \in Nat /\ MaxDrops \in Nat
  BY GemAssumption
<1>1. CASE \E p \in Procs : Step(p)
  BY <1>1, TypedOperation
<1>2. CASE \E p \in Requests : Accept(p) \/ Refuse(p)
  BY <1>2, TypedOperation DEF Procs
<1>3. CASE Observe \/ FireTimers
  <2>1. CASE Observe
    BY <2>1, TypedSame DEF Observe
  <2>2. CASE FireTimers
    <3>1. /\ UNCHANGED <<role, flowVars, comm, handshakeInProgress, ctlVars,
                          attemptInProgress, before, waiter, peerVars, bounds>>
          /\ craTimer' \in {craTimer, FALSE} /\ delayTimer' \in {delayTimer, FALSE}
      BY <2>2 DEF FireTimers
    <3>2. craTimer' \in BOOLEAN /\ delayTimer' \in BOOLEAN
      BY <3>1 DEF Typed
    <3>3. /\ link' \in {"off", "down", "connected", "selected"} /\ comm' \in CommStates
          /\ enabled' \in BOOLEAN /\ monitoring' \in BOOLEAN
      BY <3>1 DEF Typed, flowVars, peerVars
    <3>. QED  BY <3>1, <3>2, <3>3, TypedFlow DEF peerVars
  <2>. QED  BY <1>3, <2>1, <2>2
<1>4. CASE Receive
  <2>1. /\ UNCHANGED <<role, flowVars, comm, timerVars, handshakeInProgress, ctlVars,
                        attemptInProgress, before, waiter, link, asked, calls, drops>>
    BY <1>4 DEF Receive
  <2>2. msgs' \in 0..MaxMsgs
    BY <1>4 DEF Typed, Receive
  <2>3. late' \in BOOLEAN
    BY <1>4 DEF Typed, Receive
  <2>. QED  BY <2>1, <2>2, <2>3 DEF Typed, flowVars, timerVars, ctlVars
<1>5. CASE Enable \/ Disable \/ Operator
  <2>1. /\ UNCHANGED <<role, comm, timerVars, handshakeInProgress, ctlVars,
                        attemptInProgress, before, waiter, peerVars, msgs, drops>>
        /\ monitoring' = monitoring
    BY <1>5 DEF Enable, Disable, Operator, Call, flowVars
  <2>2. calls' \in 0..MaxCalls
    BY <1>5 DEF Enable, Disable, Operator, Call, Typed
  <2>3. enabled' \in BOOLEAN
    BY <1>5 DEF Enable, Disable, Operator, flowVars, Typed
  <2>. QED  BY <2>1, <2>2, <2>3 DEF Typed, timerVars, ctlVars, peerVars
<1>6. CASE WaitStep
  BY <1>6 DEF WaitStep, StartWait, Register, RegisterIf, EndWait, Typed, flowVars,
     timerVars, ctlVars, peerVars, bounds
<1>7. CASE LinkUp \/ LinkDown
  <2>1. /\ UNCHANGED <<role, flowVars, comm, timerVars, handshakeInProgress, ctlVars,
                        attemptInProgress, before, waiter, calls, msgs>>
    BY <1>7 DEF LinkUp, LinkDown, bounds
  <2>2. drops' \in 0..MaxDrops
    BY <1>7 DEF LinkUp, LinkDown, Typed, bounds
  <2>3. link' \in {"off", "down", "connected", "selected"} /\ asked' \subseteq Requests
    BY <1>7 DEF LinkUp, LinkDown, Typed
  <2>4. late' \in BOOLEAN
    BY <1>7 DEF LinkUp, LinkDown, Typed
  <2>. QED  BY <2>1, <2>2, <2>3, <2>4 DEF Typed, flowVars, timerVars, ctlVars
<1>8. CASE UNCHANGED vars
  BY <1>8, TypedSame DEF vars
<1>. QED
  BY <1>1, <1>2, <1>3, <1>4, <1>5, <1>6, <1>7, <1>8 DEF Next

\* handler.go and control_state_machine.go - every variable keeps its type; in
\* particular a request is sent by a goroutine of its own, never by a handler
\* or a timer.
THEOREM TypeOKHolds == Spec => []TypeOK
<1>1. FlagInv /\ Typed => TypeOK
  BY DEF FlagInv, TodoOnProcs, Typed, TypeOK
<1>. QED  BY <1>1, FlagsStart, FlagsNext, TypedStart, TypedNext, PTL DEF Spec

=============================================================================
