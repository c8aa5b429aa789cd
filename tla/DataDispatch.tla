----------------------------- MODULE DataDispatch -----------------------------
(***************************************************************************)
(* Data messages between a host and an equipment of this library: who      *)
(* calls what, how the receive goroutine finds the reply queue or the      *)
(* handler, and the stream 9 messages for what nobody handles and for      *)
(* calls that end with T3.  A message is taken as the reply of the open    *)
(* call with its system bytes, whatever its stream and function.           *)
(***************************************************************************)
EXTENDS Naturals, Sequences, FiniteSets

CONSTANTS
  Starts,           (* per entity: the system counter it starts with       *)
  ForeignRequests,  (* stream and function of requests of the application  *)
                    (* for which the library has no handler                *)
  Used,             (* the requests and notifications that are made        *)
  MaxSent           (* bound: requests and notifications sent              *)

Entities == {"host", "equipment"}

\* A request has an odd function; stream 9 is the library's own.
ASSUME DispatchAssumption ==
  /\ Starts \in [Entities -> Nat]
  /\ \A sf \in ForeignRequests : sf \in Nat \X Nat /\ sf[1] # 9 /\ sf[2] % 2 = 1

Callers  == {"app", "rx"}
Peer(e)  == IF e = "host" THEN "equipment" ELSE "host"

VARIABLES
  handlers,   (* per entity: the registered streams and functions           *)
  counter,    (* per entity: systemCounter                                  *)
  open,       (* per entity and caller: the open call and its reply queue   *)
  serving,    (* per entity: the request whose handler waits for a call     *)
  transit,    (* per entity: the messages on their way to it                *)
  executed,   (* the requests a handler was run for, once for each run      *)
  sent        (* requests and notifications so far                          *)

dispatchVars == <<handlers, counter, open, serving, transit, executed, sent>>

\* NewGemHandler: what each role registers.
RegisteredHandlers(e) ==
  {<<1, 1>>, <<1, 13>>, <<1, 14>>} \cup
  IF e = "host" THEN {<<5, 1>>, <<6, 11>>}
  ELSE {<<1, 15>>, <<1, 17>>, <<2, 17>>, <<2, 31>>, <<2, 41>>, <<1, 3>>, <<1, 11>>,
        <<2, 13>>, <<2, 15>>, <<2, 29>>, <<2, 33>>, <<2, 35>>, <<2, 37>>, <<5, 3>>,
        <<5, 5>>, <<5, 7>>, <<6, 15>>, <<7, 3>>, <<7, 5>>}

\* What the functions of the host and of the equipment call with SendAndWait,
\* and what the equipment sends without waiting.
HostCalls ==
  {<<1, 13>>, <<1, 3>>, <<1, 11>>, <<2, 13>>, <<2, 15>>, <<2, 29>>, <<2, 33>>, <<2, 35>>,
   <<2, 37>>, <<6, 15>>, <<7, 3>>, <<7, 5>>, <<2, 41>>, <<2, 17>>, <<2, 31>>, <<5, 3>>,
   <<5, 5>>, <<5, 7>>}
EquipmentCalls == {<<1, 1>>, <<1, 13>>}
Calls(e) ==
  ((IF e = "host" THEN HostCalls ELSE EquipmentCalls) \cup ForeignRequests) \cap Used
Notifications(e) == IF e = "host" THEN {} ELSE {<<5, 1>>, <<6, 11>>}

\* A message: stream and function, system bytes; id: the sender, number and
\* stream and function of the request it belongs to; chain: how many messages
\* led to it.
Msg(sf, num, id, chain) == [sf |-> sf, num |-> num, id |-> id, chain |-> chain]
NoMsg == Msg(<<0, 0>>, 0, <<"none", 0, <<0, 0>>>>, 0)
Closed == [req |-> NoMsg, queue |-> <<>>]

DispatchInit ==
  /\ handlers = [e \in Entities |-> RegisteredHandlers(e)]
  /\ counter = Starts
  /\ open = [e \in Entities |-> [c \in Callers |-> Closed]]
  /\ serving = [e \in Entities |-> NoMsg]
  /\ transit = [e \in Entities |-> <<>>]
  /\ executed = <<>>
  /\ sent = 0

IsOpen(e, c) == open[e][c] # Closed
Send(e, m)   == transit' = [transit EXCEPT ![Peer(e)] = Append(@, m)]

\* getNextSystemCounter.
Number(e)   == counter[e] + 1
Count(e)    == counter' = [counter EXCEPT ![e] = Number(e)]

-----------------------------------------------------------------------------
(* SendAndWait and SendDataMessage.                                        *)

NewRequest(e, sf) == Msg(sf, Number(e), <<e, Number(e), sf>>, 0)

SendAndWait(e, c, sf) ==
  /\ sent < MaxSent
  /\ ~IsOpen(e, c)
  /\ c = "rx" => serving[e] # NoMsg
  /\ sent' = sent + 1
  /\ Count(e)
  /\ open' = [open EXCEPT ![e][c] = [req |-> NewRequest(e, sf), queue |-> <<>>]]
  /\ Send(e, NewRequest(e, sf))
  /\ UNCHANGED <<handlers, serving, executed>>

SendDataMessage(e, sf) ==
  /\ sent < MaxSent
  /\ sent' = sent + 1
  /\ Count(e)
  /\ Send(e, NewRequest(e, sf))
  /\ UNCHANGED <<handlers, open, serving, executed>>

CallReturns(e, c) ==
  /\ IsOpen(e, c) /\ open[e][c].queue # <<>>
  /\ open' = [open EXCEPT ![e][c] = Closed]
  /\ UNCHANGED <<handlers, counter, serving, transit, executed, sent>>

\* sendS9F9TransactionTimeout: with a number of its own.
CallTimesOut(e, c) ==
  /\ IsOpen(e, c) /\ open[e][c].queue = <<>>
  /\ open' = [open EXCEPT ![e][c] = Closed]
  /\ Count(e)
  /\ Send(e, Msg(<<9, 9>>, Number(e), open[e][c].req.id, 1))
  /\ UNCHANGED <<handlers, serving, executed, sent>>

-----------------------------------------------------------------------------
(* The receive goroutine.                                                  *)

RegisterHandler(e, sf) ==
  /\ handlers' = [handlers EXCEPT ![e] = @ \cup {sf}]
  /\ handlers' # handlers
  /\ UNCHANGED <<counter, open, serving, transit, executed, sent>>

RxMessage(e) == Head(transit[e])
RxTake(e)    == /\ serving[e] = NoMsg /\ transit[e] # <<>>
              /\ UNCHANGED <<handlers, counter, sent>>
RxTaken(e)   == transit' = [transit EXCEPT ![e] = Tail(@)]
RxTakenAnd(e, m) ==
  transit' = [transit EXCEPT ![e] = Tail(@), ![Peer(e)] = Append(@, m)]

\* Mutant: whoever waits gets the reply.
WaitsAny(e, num) == {c \in Callers : IsOpen(e, c)}

\* fetchQueue: the open calls of e with this number.
Waits(e, num) == {c \in Callers : IsOpen(e, c) /\ open[e][c].req.num = num}

RxReply(e) ==
  /\ RxTake(e)
  /\ \E c \in Waits(e, RxMessage(e).num) :
       open' = [open EXCEPT ![e][c].queue = Append(@, RxMessage(e))]
  /\ RxTaken(e)
  /\ UNCHANGED <<serving, executed>>

\* invokeHandler; the handler of S1F14 returns no answer.
AnswerTo(m) == Msg(<<m.sf[1], m.sf[2] + 1>>, m.num, m.id, m.chain + 1)
IsAnswered(m) == m.sf # <<1, 14>>

\* Mutant: a handler that fails is reported with S9F7.
RxHandleReports(e) ==
  /\ RxTake(e)
  /\ Waits(e, RxMessage(e).num) = {}
  /\ RxMessage(e).sf \in handlers[e]
  /\ executed' = Append(executed, RxMessage(e).id)
  /\ LET m == RxMessage(e)
     IN RxTakenAnd(e, AnswerTo(m)) \/ RxTakenAnd(e, Msg(<<9, 7>>, m.num, m.id, m.chain + 1))
  /\ UNCHANGED <<open, serving>>

RxHandle(e) ==
  /\ RxTake(e)
  /\ Waits(e, RxMessage(e).num) = {}
  /\ RxMessage(e).sf \in handlers[e]
  /\ executed' = Append(executed, RxMessage(e).id)
  /\ \/ /\ IF IsAnswered(RxMessage(e)) THEN RxTakenAnd(e, AnswerTo(RxMessage(e))) ELSE RxTaken(e)
        /\ UNCHANGED serving
     \/ \* A handler that calls SendAndWait keeps the receive goroutine.
        /\ IsAnswered(RxMessage(e))
        /\ RxTaken(e)
        /\ serving' = [serving EXCEPT ![e] = RxMessage(e)]
  /\ UNCHANGED open

HandlerReturns(e) ==
  /\ serving[e] # NoMsg /\ ~IsOpen(e, "rx")
  /\ serving' = [serving EXCEPT ![e] = NoMsg]
  /\ Send(e, AnswerTo(serving[e]))
  /\ UNCHANGED <<handlers, counter, open, executed, sent>>

isKnownStream(s) == s \in (1..10) \cup (12..17) \cup {21}

\* Mutant: a stream 9 message is answered too.
RxUnrecognizedAll(e) ==
  /\ RxTake(e)
  /\ Waits(e, RxMessage(e).num) = {}
  /\ RxMessage(e).sf \notin handlers[e]
  /\ LET m == RxMessage(e) IN RxTakenAnd(e, Msg(<<9, 5>>, m.num, m.id, m.chain + 1))
  /\ UNCHANGED <<open, serving, executed>>

\* sendS9ErrorForUnrecognized: S9F3 or S9F5 with the system bytes of the
\* message, and nothing about a stream 9 message.
RxUnrecognized(e) ==
  /\ RxTake(e)
  /\ Waits(e, RxMessage(e).num) = {}
  /\ RxMessage(e).sf \notin handlers[e]
  /\ LET m == RxMessage(e)
     IN IF m.sf[1] = 9 THEN RxTaken(e)
        ELSE RxTakenAnd(e, Msg(IF isKnownStream(m.sf[1]) THEN <<9, 5>> ELSE <<9, 3>>,
                             m.num, m.id, m.chain + 1))
  /\ UNCHANGED <<open, serving, executed>>

-----------------------------------------------------------------------------
DispatchNext ==
  \E e \in Entities :
    \/ \E c \in Callers :
         \/ \E sf \in Calls(e) : SendAndWait(e, c, sf)
         \/ CallReturns(e, c) \/ CallTimesOut(e, c)
    \/ \E sf \in Notifications(e) \cap Used : SendDataMessage(e, sf)
    \/ \E sf \in ForeignRequests : RegisterHandler(e, sf)
    \/ RxReply(e) \/ RxHandle(e) \/ HandlerReturns(e) \/ RxUnrecognized(e)

DispatchSpec == DispatchInit /\ [][DispatchNext]_dispatchVars

-----------------------------------------------------------------------------
InTransit == UNION {{transit[e][i] : i \in DOMAIN transit[e]} : e \in Entities}
Runs(id)  == Cardinality({i \in DOMAIN executed : executed[i] = id})

(* No message starts an endless exchange: a request leads to its answer, a *)
(* late answer to an error message, and an error message to nothing.       *)
ChainsEnd == \A m \in InTransit : m.chain <= 2

(* Both libraries understand each other: an error about stream or function *)
(* is never about a call or notification of the library, only about an     *)
(* answer that nobody waits for: that came late, or to a notification.     *)
LibraryUnderstood ==
  /\ HostCalls \subseteq handlers["equipment"]
  /\ EquipmentCalls \cup Notifications("equipment") \subseteq handlers["host"]
  /\ \A m \in InTransit : m.sf \in {<<9, 3>>, <<9, 5>>} /\ m.chain = 1 =>
       m.id[3] \in ForeignRequests

(* Two entities of this library always come to an end and understand each  *)
(* other.                                                                  *)
ExchangesEnd == ChainsEnd /\ LibraryUnderstood

(* What SendAndWait returns tells what happened, unless the peer has used  *)
(* the same number for a message of its own: an error of stream 9 means    *)
(* the request was not executed, an answer that it was, once.              *)
OutcomeIsTrue ==
  \A e \in Entities, c \in Callers :
    IsOpen(e, c) /\ open[e][c].queue # <<>> =>
      LET m == Head(open[e][c].queue)
      IN  m.id = open[e][c].req.id =>
            IF m.sf[1] = 9 THEN Runs(m.id) = 0
            ELSE /\ Runs(m.id) = 1
                 /\ m.sf = <<open[e][c].req.sf[1], open[e][c].req.sf[2] + 1>>

-----------------------------------------------------------------------------
(* Refinement.                                                             *)

Underway == {m.id : m \in {n \in InTransit : n.chain = 0}}

CallOf == [c \in Entities \X Callers |-> open[c[1]][c[2]].req.id]

\* What a call is told: the message its queue begins with.
Told(o) ==
  IF o.queue = <<>> THEN "nothing"
  ELSE IF Head(o.queue).id # o.req.id THEN "other"
  ELSE IF Head(o.queue).sf[1] = 9 THEN "refused" ELSE "done"

ToldOf == [c \in Entities \X Callers |-> Told(open[c[1]][c[2]])]

Remote == INSTANCE RemoteCalls WITH
  Callers <- Entities \X Callers, Confirmed <- <<1, 13>>, None <- NoMsg.id,
  count <- counter, pending <- Underway, call <- CallOf, told <- ToldOf

(* The calls are remote calls: executed once or never, and told the truth,  *)
(* but for the numbers the two entities share (SendAndWait, fetchQueue,     *)
(* invokeHandler, sendS9ErrorForUnrecognized).                              *)
CallsImplemented == Remote!Spec
=============================================================================
