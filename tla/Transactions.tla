---------------------------- MODULE Transactions ----------------------------
(***************************************************************************)
(* Request/reply transactions of the HSMS layer: SendAndWait and the       *)
(* control requests (select, deselect, linktest) take a system ID, publish *)
(* a reply queue under it, send, and wait in Deque.Get for T3 or T6, while *)
(* the single receive loop routes every inbound message to the queue of    *)
(* its system ID or to the message handler.                                *)
(*                                                                         *)
(* A caller is a goroutine that issues one request after another.  A step  *)
(* is the code between two accesses to shared state: in particular         *)
(* Deque.Get releases its lock before it listens for the wake-up, and      *)
(* Deque.Put pushes before it offers one.                                  *)
(***************************************************************************)
EXTENDS Naturals, Sequences, FiniteSets

CONSTANTS
  DataCallers,     (* goroutines inside SendAndWait                        *)
  ControlCallers,  (* goroutines inside sendSelectReq, sendLinktestReq ... *)
  PeerIds,         (* system IDs the peer gives its own primary messages   *)
  MaxCalls,        (* bound: calls begun in a behaviour                    *)
  MaxStray,        (* bound: messages the peer sends unasked               *)
  MaxDrops         (* bound: connection losses                             *)

Callers == DataCallers \cup ControlCallers
Kinds   == {"reply", "primary", "control"}
Msgs    == [kind : Kinds, sys : Nat]
Errors  == {"refused", "sendError", "timeout", "badType"}

\* What a call returns: the message it got, or an error, or nothing yet.
Failed(error) == [kind |-> error, sys |-> 0]
Pending       == [kind |-> "none", sys |-> 0]
Results       == Msgs \cup {Failed(e) : e \in Errors} \cup {Pending}

ASSUME TransactionsAssumption ==
  /\ DataCallers \cap ControlCallers = {}
  /\ PeerIds \subseteq Nat
  /\ MaxCalls \in Nat /\ MaxStray \in Nat /\ MaxDrops \in Nat

VARIABLES
  up,          (* connected, with an open session, in state SELECTED       *)
  counter,     (* systemCounter, relative to its random start              *)
  registered,  (* the keys of systemQueues                                 *)
  deque,       (* contents of the queue object made for each system ID     *)
  pc, sys,     (* per caller: position, and the system ID it holds         *)
  expired,     (* per caller: its T3/T6 deadline has passed                *)
  inTime,      (* per caller, history: Put had completed when it passed    *)
  result,      (* per caller: what the call returns                        *)
  sent,        (* history: system IDs put on the wire as requests          *)
  asked,       (* the answers the peer has still to give                   *)
  wire,        (* inbound messages, in TCP order                           *)
  rx,          (* the receive loop: idle, or inside queue.Put              *)
  unmatched,   (* history: messages passed to handleDataMessage            *)
  calls, strays, drops

callerVars == <<pc, sys, expired, inTime, result>>
peerVars   == <<sent, asked, strays>>
rxVars     == <<rx, unmatched>>
vars == <<up, counter, registered, deque, callerVars, peerVars, wire, rxVars,
          calls, drops>>

RxIdle == [at |-> "idle"]
RxAt   == [at : {"push", "notify"}, msg : Msgs] \cup {RxIdle}

Pcs == {"idle", "number", "register", "send", "check", "unlocked", "select",
        "s9", "release", "returned"}

\* The part of a call during which its queue must be published.
Published == {"send", "check", "unlocked", "select", "s9", "release"}
\* The part of a call during which an answer is still awaited.
Waiting   == {"check", "unlocked", "select"}

TypeOK ==
  /\ up \in BOOLEAN
  /\ counter \in Nat
  /\ registered \subseteq 1..counter
  /\ DOMAIN deque \subseteq 1..counter
  /\ deque \in [DOMAIN deque -> Seq(Msgs)]
  /\ pc \in [Callers -> Pcs]
  /\ sys \in [Callers -> 0..counter]
  /\ expired \in [Callers -> BOOLEAN]
  /\ inTime \in [Callers -> BOOLEAN]
  /\ result \in [Callers -> Results]
  /\ sent \subseteq Nat
  /\ asked \subseteq Msgs
  /\ wire \in Seq(Msgs)
  /\ rx \in RxAt
  /\ unmatched \subseteq Msgs
  /\ calls \in 0..MaxCalls
  /\ strays \in 0..MaxStray
  /\ drops \in 0..MaxDrops

Init ==
  /\ up = TRUE
  /\ counter = 0
  /\ registered = {}
  /\ deque = <<>>
  /\ pc = [c \in Callers |-> "idle"]
  /\ sys = [c \in Callers |-> 0]
  /\ expired = [c \in Callers |-> FALSE]
  /\ inTime = [c \in Callers |-> FALSE]
  /\ result = [c \in Callers |-> Pending]
  /\ sent = {}
  /\ asked = {}
  /\ wire = <<>>
  /\ rx = RxIdle
  /\ unmatched = {}
  /\ calls = 0
  /\ strays = 0
  /\ drops = 0

-----------------------------------------------------------------------------
(* A caller.                                                               *)

Goto(c, there) == pc' = [pc EXCEPT ![c] = there]

Finish(c, there, value) ==
  /\ Goto(c, there)
  /\ result' = [result EXCEPT ![c] = value]

\* A call begins: SendAndWait refuses unless ensureReady(true) passes; the
\* control requests have no such check.
Call(c) ==
  /\ pc[c] \in {"idle", "returned"}
  /\ calls < MaxCalls
  /\ calls' = calls + 1
  /\ IF c \in ControlCallers \/ up
     THEN Finish(c, "number", Pending)
     ELSE Finish(c, "returned", Failed("refused"))
  /\ inTime' = [inTime EXCEPT ![c] = FALSE]
  /\ sys' = [sys EXCEPT ![c] = 0]
  /\ UNCHANGED <<up, counter, registered, deque, expired, peerVars, wire, rxVars,
                 drops>>

TakeNumberAs(c, next, mine) ==
  /\ pc[c] = "number"
  /\ counter' = next
  /\ sys' = [sys EXCEPT ![c] = mine]
  /\ Goto(c, "register")
  /\ UNCHANGED <<up, registered, deque, expired, inTime, result, peerVars,
                 wire, rxVars, calls, drops>>

\* Mutants: the counter starts again, a lost update, the value before Inc.
TakeNumberReset(c)      == TakeNumberAs(c, 0, 0)
TakeNumberLostUpdate(c) ==
  \E n \in {counter, counter + 1} : TakeNumberAs(c, n, counter + 1)
TakeNumberStale(c)      == TakeNumberAs(c, counter + 1, counter)

\* getNextSystemCounter: one atomic increment.
TakeNumber(c) == TakeNumberAs(c, counter + 1, counter + 1)

\* createQueue: a fresh Deque, published under the system ID.
CreateQueue(c) ==
  /\ pc[c] = "register"
  /\ registered' = registered \cup {sys[c]}
  /\ deque' = [s \in DOMAIN deque \cup {sys[c]} |->
                IF s = sys[c] THEN <<>> ELSE deque[s]]
  /\ Goto(c, "send")
  /\ UNCHANGED <<up, counter, sys, expired, inTime, result, peerVars, wire,
                 rxVars, calls, drops>>

\* What the peer may answer to the request of c.
AnswerTo(c) ==
  [kind |-> IF c \in DataCallers THEN "reply" ELSE "control", sys |-> sys[c]]

\* Mutant of SendRequest: the queue is removed at once, not deferred.
SendRequestForgets(c) ==
  /\ pc[c] = "send"
  /\ up
  /\ sent' = sent \cup {sys[c]}
  /\ asked' = asked \cup {AnswerTo(c)}
  /\ registered' = registered \ {sys[c]}
  /\ Goto(c, "check")
  /\ UNCHANGED <<up, counter, deque, sys, expired, inTime, result, strays, wire,
                 rxVars, calls, drops>>

\* The request goes out, or Send reports that there is no open session.
SendRequest(c) ==
  /\ pc[c] = "send"
  /\ IF up
     THEN /\ sent' = sent \cup {sys[c]}
          /\ asked' = asked \cup {AnswerTo(c)}
          /\ Goto(c, "check")
          /\ UNCHANGED result
     ELSE /\ Finish(c, "release", Failed("sendError"))
          /\ UNCHANGED <<sent, asked>>
  /\ UNCHANGED <<up, counter, registered, deque, sys, expired, inTime, strays,
                 wire, rxVars, calls, drops>>

\* What the call returns for a queue item: SendAndWait wants a data message.
ValueOf(c, m) ==
  IF c \in DataCallers /\ m.kind = "control" THEN Failed("badType") ELSE m

\* After a timeout SendAndWait still has S9F9 to send.
TimedOut(c) ==
  Finish(c, IF c \in DataCallers THEN "s9" ELSE "release", Failed("timeout"))

\* Deque.Get under its lock: take the oldest item, or give up when no time
\* remains, or release the lock in order to wait.
GetCheck(c) ==
  /\ pc[c] = "check"
  /\ \/ /\ deque[sys[c]] # <<>>
        /\ deque' = [deque EXCEPT ![sys[c]] = Tail(@)]
        /\ Finish(c, "release", ValueOf(c, Head(deque[sys[c]])))
     \/ /\ deque[sys[c]] = <<>>
        /\ IF expired[c]
           THEN TimedOut(c)
           ELSE Goto(c, "unlocked") /\ UNCHANGED result
        /\ UNCHANGED deque
  /\ UNCHANGED <<up, counter, registered, sys, expired, inTime, peerVars, wire,
                 rxVars, calls, drops>>

\* Deque.Get enters its select: only from here on can a wake-up reach it.
GetSelect(c) ==
  /\ pc[c] = "unlocked"
  /\ Goto(c, "select")
  /\ UNCHANGED <<up, counter, registered, deque, sys, expired, inTime, result,
                 peerVars, wire, rxVars, calls, drops>>

\* The deadline of Get passes.
Expire(c) ==
  /\ pc[c] \in Waiting
  /\ ~expired[c]
  /\ expired' = [expired EXCEPT ![c] = TRUE]
  /\ inTime' = [inTime EXCEPT ![c] = /\ deque[sys[c]] # <<>>
                                     /\ rx.at = "idle"]
  /\ UNCHANGED <<up, counter, registered, deque, pc, sys, result, peerVars,
                 wire, rxVars, calls, drops>>

GetTimeoutIf(c, fires) ==
  /\ pc[c] = "select"
  /\ fires
  /\ TimedOut(c)
  /\ UNCHANGED <<up, counter, registered, deque, sys, expired, inTime,
                 peerVars, wire, rxVars, calls, drops>>

\* Mutant: the wait is tied to the connection as well.
GetTimeoutConnected(c) == GetTimeoutIf(c, expired[c] /\ up)

\* time.After wins the select: Get returns without looking at the list again.
GetTimeout(c) == GetTimeoutIf(c, expired[c])

\* sendS9F9TransactionTimeout: takes a system ID of its own, publishes no
\* queue for it, and ignores a failure of Send.
SendS9F9(c) ==
  /\ pc[c] = "s9"
  /\ counter' = counter + 1
  /\ Goto(c, "release")
  /\ UNCHANGED <<up, registered, deque, sys, expired, inTime, result, peerVars,
                 wire, rxVars, calls, drops>>

RemoveQueueIf(c, remove) ==
  /\ pc[c] = "release"
  /\ registered' = IF remove THEN registered \ {sys[c]} ELSE registered
  /\ expired' = [expired EXCEPT ![c] = FALSE]
  /\ Goto(c, "returned")
  /\ UNCHANGED <<up, counter, deque, sys, inTime, result, peerVars, wire, rxVars,
                 calls, drops>>

\* Mutant: a failed Send returns without it.
RemoveQueueUnlessError(c) == RemoveQueueIf(c, result[c].kind # "sendError")

\* The deferred removeQueue, on every way out.
RemoveQueue(c) == RemoveQueueIf(c, TRUE)

-----------------------------------------------------------------------------
(* The receive loop.                                                       *)

\* One message: the queue published under its system ID gets it, whatever it
\* is; other data goes to handleDataMessage; other control messages end here.
RxDispatch ==
  /\ rx = RxIdle
  /\ wire # <<>>
  /\ wire' = Tail(wire)
  /\ LET m == Head(wire) IN
     \/ /\ m.sys \in registered
        /\ rx' = [at |-> "push", msg |-> m]
        /\ UNCHANGED unmatched
     \/ /\ m.sys \notin registered
        /\ unmatched' = unmatched \cup ({m} \ [kind : {"control"}, sys : Nat])
        /\ UNCHANGED rx
  /\ UNCHANGED <<up, counter, registered, deque, callerVars, peerVars, calls, drops>>

PushTo(s) ==
  /\ rx.at = "push"
  /\ deque' = [deque EXCEPT ![s] = Append(@, rx.msg)]
  /\ rx' = [rx EXCEPT !.at = "notify"]
  /\ UNCHANGED <<up, counter, registered, callerVars, peerVars, wire, unmatched,
                 calls, drops>>

\* Mutant: one reply queue for all, that of the last request.
RxPushLast ==
  \E s \in DOMAIN deque : (\A z \in DOMAIN deque : z <= s) /\ PushTo(s)

\* Deque.Put, under the lock.
RxPush == PushTo(rx.msg.sys)

\* Deque.Put after the lock: the wake-up reaches a caller that is in its
\* select, and is discarded otherwise.
RxNotify ==
  /\ rx.at = "notify"
  /\ pc' = [c \in Callers |-> IF pc[c] = "select" /\ sys[c] = rx.msg.sys
                              THEN "check" ELSE pc[c]]
  /\ rx' = RxIdle
  /\ UNCHANGED <<up, counter, registered, deque, sys, expired, inTime, result,
                 peerVars, wire, unmatched, calls, drops>>

-----------------------------------------------------------------------------
(* The peer and the network.                                               *)

\* The peer answers a request, in any order.
PeerAnswer ==
  \E m \in asked :
    /\ wire' = Append(wire, m)
    /\ asked' = asked \ {m}
    /\ UNCHANGED <<up, counter, registered, deque, callerVars, sent, strays,
                   rxVars, calls, drops>>

\* The peer sends what nobody asked for: an answer once more, a reject.req for
\* a request, or a primary message, whose system ID the peer chose.
PeerStray ==
  /\ up
  /\ strays < MaxStray
  /\ strays' = strays + 1
  /\ \E m \in [kind : {"primary"}, sys : PeerIds]
           \cup [kind : {"reply", "control"}, sys : sent] :
       wire' = Append(wire, m)
  /\ UNCHANGED <<up, counter, registered, deque, callerVars, sent, asked,
                 rxVars, calls, drops>>

\* The connection is lost between two messages: what was in flight is gone.
Drop ==
  /\ up /\ rx = RxIdle
  /\ drops < MaxDrops
  /\ drops' = drops + 1
  /\ up' = FALSE
  /\ wire' = <<>>
  /\ asked' = {}
  /\ UNCHANGED <<counter, registered, deque, callerVars, sent, strays, rxVars,
                 calls>>

Reselect ==
  /\ ~up
  /\ up' = TRUE
  /\ UNCHANGED <<counter, registered, deque, callerVars, peerVars, wire, rxVars,
                 calls, drops>>

-----------------------------------------------------------------------------
CallerStep(c) ==
  \/ TakeNumber(c) \/ CreateQueue(c) \/ SendRequest(c)
  \/ GetCheck(c) \/ GetSelect(c) \/ Expire(c) \/ GetTimeout(c)
  \/ SendS9F9(c) \/ RemoveQueue(c)

Receiver == RxDispatch \/ RxPush \/ RxNotify

Next ==
  \/ \E c \in Callers : Call(c) \/ CallerStep(c)
  \/ Receiver
  \/ PeerAnswer \/ PeerStray
  \/ Drop \/ Reselect

Spec == Init /\ [][Next]_vars

\* Go runs every runnable goroutine and fires every timer; the peer owes
\* nothing, and nobody has to call.
FairSpec ==
  /\ Spec
  /\ \A c \in Callers : WF_vars(CallerStep(c))
  /\ WF_vars(Receiver)

-----------------------------------------------------------------------------
(* Properties.                                                             *)

Answered(c) == result[c].kind \in Kinds

\* What a call returns is the answer to its own request: of the calls in
\* flight at the same time, none is handed a message with the system ID of
\* another (getNextSystemCounter, createQueue, the queue lookup of the receive
\* loop).
OwnAnswer == \A c \in Callers : Answered(c) => result[c].sys = sys[c]

\* Two calls that are under way never hold the same system ID, S9F9's numbers
\* included.
IdsDistinct ==
  \A c, d \in Callers : c # d /\ sys[c] # 0 => sys[c] # sys[d]

\* systemQueues holds exactly the calls that are under way: whatever way a
\* call ends (answer, timeout, failed Send), its entry is gone when it
\* returns, and it is there before the request is on the wire.
NoQueueLeak ==
  registered = {sys[c] : c \in {d \in Callers : pc[d] \in Published}}

\* An answer is handed to the message handler (which replies S9F5 to it) only
\* when it comes too late: never while its caller still waits.
UnmatchedIsLate ==
  \A m \in unmatched : m.kind = "reply" =>
    \A c \in Callers : sys[c] = m.sys => pc[c] \notin Waiting

\* Every call returns, whatever the peer and the network do: the T3/T6 timer
\* bounds the wait even when the connection is gone.
CallsReturn == \A c \in Callers : pc[c] = "number" ~> pc[c] = "returned"

\* README.md:111 has S9F9 (and the timeout error) triggered by T3 expiration:
\* a call that reports a timeout had no answer in its queue when T3 passed.
TimeoutMeansUnanswered ==
  \A c \in Callers : result[c].kind = "timeout" => ~inTime[c]

\* The refinement: what a caller of SendAndWait sees of its call.
Status ==
  [c \in Callers |-> IF pc[c] \in {"idle", "number"} THEN "idle"
                     ELSE IF pc[c] = "returned" THEN "closed" ELSE "open"]

AnswerSeen ==
  [c \in Callers |-> IF pc[c] = "returned" /\ Answered(c)
                     THEN result[c].sys ELSE 0]

\* The calls implement the abstract request/reply service (SendAndWait and the
\* control requests): refused, or opened with an ID of their own and closed
\* once, with the answer to that ID or with none.
Service == INSTANCE RequestReply WITH
  Ids <- Nat, used <- 1..counter, id <- sys, status <- Status,
  answer <- AnswerSeen

ServiceSpec == Service!Spec
=============================================================================
