-------------------------- MODULE DataDispatch_proofs --------------------------
(***************************************************************************)
(* Theorems about DataDispatch.                                            *)
(***************************************************************************)
EXTENDS DataDispatch, SequenceTheorems, FiniteSetTheorems, TLAPS

SF      == Nat \X Nat
Ids     == ({"none"} \cup Entities) \X Nat \X SF
Message == [sf : SF, num : Nat, id : Ids, chain : Nat]

Primary(sf) == sf[1] # 9 /\ sf[2] % 2 = 1
Reply(sf)   == sf[1] # 9 /\ sf[2] % 2 = 0

\* What the application of e sends.
Requests(e) == Calls(e) \cup Notifications(e)

\* A message on its way to e: a request, an answer, a report of T3, an error
\* message about a request, or one about an answer.
Sound(e, m) ==
  \/ m.chain = 0 /\ m.id[3] = m.sf /\ m.sf \in Requests(Peer(e))
  \/ m.chain = 1 /\ Reply(m.sf)
  \/ m.chain = 1 /\ m.sf = <<9, 9>>
  \/ m.chain = 1 /\ m.sf[1] = 9 /\ m.id[3] \in ForeignRequests
  \/ m.chain = 2 /\ m.sf[1] = 9

HandlersInv ==
  /\ handlers \in [Entities -> SUBSET SF]
  /\ \A e \in Entities :
       /\ RegisteredHandlers(e) \subseteq handlers[e]
       /\ \A sf \in handlers[e] : Primary(sf) \/ sf = <<1, 14>>

TransitInv ==
  /\ transit \in [Entities -> Seq(Message)]
  /\ \A e \in Entities : \A i \in 1..Len(transit[e]) : Sound(e, transit[e][i])

ServingInv ==
  /\ serving \in [Entities -> Message]
  /\ \A e \in Entities :
       serving[e] # NoMsg => serving[e].chain = 0 /\ Primary(serving[e].sf)

OpenInv == open \in [Entities -> [Callers -> [req : Message, queue : Seq(Message)]]]

DispatchInv ==
  /\ HandlersInv /\ TransitInv /\ ServingInv /\ OpenInv
  /\ counter \in [Entities -> Nat]

-----------------------------------------------------------------------------
(* The tables of the two roles.                                            *)

LEMMA Roles ==
  ASSUME NEW e \in Entities
  PROVE  Peer(e) \in Entities /\ Peer(e) # e /\ Peer(Peer(e)) = e
BY DEF Entities, Peer

\* Requests are primaries, and handlers are for primaries, or for S1F14.
LEMMA Tables ==
  ASSUME NEW e \in Entities
  PROVE  /\ \A sf \in Requests(e) : sf \in SF /\ Primary(sf)
         /\ \A sf \in RegisteredHandlers(e) : sf \in SF /\ (Primary(sf) \/ sf = <<1, 14>>)
<1>1. \A sf \in HostCalls \cup EquipmentCalls : sf \in SF /\ Primary(sf)
  BY DEF HostCalls, EquipmentCalls, SF, Primary
<1>2. \A sf \in Notifications(e) : sf \in SF /\ Primary(sf)
  BY DEF Notifications, SF, Primary
<1>3. \A sf \in ForeignRequests : sf \in SF /\ Primary(sf)
  BY DispatchAssumption DEF SF, Primary
<1>4. \A sf \in RegisteredHandlers(e) : sf \in SF /\ (Primary(sf) \/ sf = <<1, 14>>)
  BY DEF RegisteredHandlers, SF, Primary
<1>. QED  BY <1>1, <1>2, <1>3, <1>4 DEF Requests, Calls

\* What an entity asks and its peer has no handler for is a foreign request.
LEMMA Understood ==
  ASSUME NEW e \in Entities, NEW sf \in Requests(Peer(e)), sf \notin RegisteredHandlers(e)
  PROVE  sf \in ForeignRequests
<1>1. HostCalls \subseteq RegisteredHandlers("equipment")
  BY DEF HostCalls, RegisteredHandlers
<1>2. EquipmentCalls \cup Notifications("equipment") \subseteq RegisteredHandlers("host")
  BY DEF EquipmentCalls, Notifications, RegisteredHandlers
<1>3. Notifications("host") = {}
  BY DEF Notifications
<1>4. CASE e = "host"
  BY <1>2, <1>4 DEF Peer, Requests, Calls
<1>5. CASE e = "equipment"
  BY <1>1, <1>3, <1>5 DEF Peer, Requests, Calls
<1>. QED  BY <1>4, <1>5 DEF Entities

-----------------------------------------------------------------------------
(* Messages on their way.                                                  *)

LEMMA MsgIs ==
  ASSUME NEW sf \in SF, NEW num \in Nat, NEW id \in Ids, NEW chain \in Nat
  PROVE  /\ Msg(sf, num, id, chain) \in Message
         /\ Msg(sf, num, id, chain).sf = sf
         /\ Msg(sf, num, id, chain).num = num
         /\ Msg(sf, num, id, chain).id = id
         /\ Msg(sf, num, id, chain).chain = chain
BY DEF Msg, Message

LEMMA NoMsgIs == NoMsg \in Message
BY DEF NoMsg, Msg, Message, SF, Ids

LEMMA Appended ==
  ASSUME NEW e, NEW s \in Seq(Message), NEW m \in Message, Sound(e, m),
         \A i \in 1..Len(s) : Sound(e, s[i])
  PROVE  /\ Append(s, m) \in Seq(Message)
         /\ \A i \in 1..Len(Append(s, m)) : Sound(e, Append(s, m)[i])
<1>1. /\ Append(s, m) \in Seq(Message) /\ Len(Append(s, m)) = Len(s) + 1
      /\ \A i \in 1..Len(s) : Append(s, m)[i] = s[i]
      /\ Append(s, m)[Len(s) + 1] = m
  BY AppendProperties
<1>2. ASSUME NEW i \in 1..(Len(s) + 1) PROVE i \in 1..Len(s) \/ i = Len(s) + 1
  BY LenProperties
<1>. QED  BY <1>1, <1>2

LEMMA Shortened ==
  ASSUME NEW e, NEW s \in Seq(Message), s # <<>>, \A i \in 1..Len(s) : Sound(e, s[i])
  PROVE  /\ Head(s) \in Message /\ Sound(e, Head(s))
         /\ Tail(s) \in Seq(Message)
         /\ \A i \in 1..Len(Tail(s)) : Sound(e, Tail(s)[i])
<1>1. /\ Head(s) \in Message /\ Head(s) = s[1] /\ 1 \in 1..Len(s)
      /\ Tail(s) \in Seq(Message) /\ Len(Tail(s)) = Len(s) - 1
      /\ \A i \in 1..Len(Tail(s)) : Tail(s)[i] = s[i + 1] /\ i + 1 \in 1..Len(s)
  BY HeadTailProperties, LenProperties, EmptySeq
<1>. QED  BY <1>1

LEMMA SendKeeps ==
  ASSUME TransitInv, NEW e \in Entities, NEW m \in Message, Sound(Peer(e), m), Send(e, m)
  PROVE  TransitInv'
<1>. DEFINE p == Peer(e)
<1>1. p \in Entities
  BY Roles
<1>2. transit' = [transit EXCEPT ![p] = Append(transit[p], m)]
  BY DEF Send
<1>3. /\ Append(transit[p], m) \in Seq(Message)
      /\ \A i \in 1..Len(Append(transit[p], m)) : Sound(p, Append(transit[p], m)[i])
  BY <1>1, Appended DEF TransitInv
<1>. HIDE DEF p
<1>. QED  BY <1>1, <1>2, <1>3 DEF TransitInv

LEMMA TakenKeeps ==
  ASSUME TransitInv, NEW e \in Entities, RxTake(e), RxTaken(e)
  PROVE  TransitInv'
<1>1. transit[e] \in Seq(Message) /\ transit[e] # <<>>
  BY DEF TransitInv, RxTake
<1>2. /\ Tail(transit[e]) \in Seq(Message)
      /\ \A i \in 1..Len(Tail(transit[e])) : Sound(e, Tail(transit[e])[i])
  BY <1>1, Shortened DEF TransitInv
<1>. QED  BY <1>2 DEF TransitInv, RxTaken

LEMMA TakenAndKeeps ==
  ASSUME TransitInv, NEW e \in Entities, RxTake(e), NEW m \in Message, Sound(Peer(e), m),
         RxTakenAnd(e, m)
  PROVE  TransitInv'
<1>. DEFINE p == Peer(e)
<1>1. p \in Entities /\ p # e
  BY Roles
<1>2. transit[e] \in Seq(Message) /\ transit[e] # <<>>
  BY DEF TransitInv, RxTake
<1>3. /\ Tail(transit[e]) \in Seq(Message)
      /\ \A i \in 1..Len(Tail(transit[e])) : Sound(e, Tail(transit[e])[i])
  BY <1>2, Shortened DEF TransitInv
<1>4. /\ Append(transit[p], m) \in Seq(Message)
      /\ \A i \in 1..Len(Append(transit[p], m)) : Sound(p, Append(transit[p], m)[i])
  BY <1>1, Appended DEF TransitInv
<1>5. transit' = [transit EXCEPT ![e] = Tail(transit[e]), ![p] = Append(transit[p], m)]
  BY <1>1 DEF RxTakenAnd, TransitInv
<1>. HIDE DEF p
<1>. QED  BY <1>1, <1>3, <1>4, <1>5 DEF TransitInv

\* The message the receive goroutine takes.
LEMMA Taken ==
  ASSUME TransitInv, NEW e \in Entities, RxTake(e)
  PROVE  RxMessage(e) \in Message /\ Sound(e, RxMessage(e))
BY Shortened DEF TransitInv, RxTake, RxMessage

-----------------------------------------------------------------------------
(* Calls.                                                                  *)

LEMMA DispatchStart == DispatchInit => DispatchInv
<1>. SUFFICES ASSUME DispatchInit PROVE DispatchInv
  OBVIOUS
<1>1. HandlersInv
  BY Tables DEF DispatchInit, HandlersInv
<1>2. TransitInv
  BY EmptySeq DEF DispatchInit, TransitInv
<1>3. ServingInv
  BY NoMsgIs DEF DispatchInit, ServingInv
<1>4. OpenInv
  BY NoMsgIs DEF DispatchInit, OpenInv, Closed
<1>. QED  BY <1>1, <1>2, <1>3, <1>4, DispatchAssumption DEF DispatchInv, DispatchInit

LEMMA NewRequestIs ==
  ASSUME DispatchInv, NEW e \in Entities, NEW sf \in Requests(e)
  PROVE  NewRequest(e, sf) \in Message /\ Sound(Peer(e), NewRequest(e, sf))
<1>1. sf \in SF /\ Number(e) \in Nat /\ counter[e] \in Nat
  BY Tables DEF DispatchInv, Number
<1>2. <<e, Number(e), sf>> \in Ids
  BY <1>1 DEF Ids
<1>3. /\ NewRequest(e, sf) \in Message /\ NewRequest(e, sf).sf = sf
      /\ NewRequest(e, sf).id = <<e, Number(e), sf>> /\ NewRequest(e, sf).chain = 0
  BY <1>1, <1>2, MsgIs DEF NewRequest
<1>. QED  BY <1>3, Roles DEF Sound

LEMMA Counted ==
  ASSUME DispatchInv, NEW e \in Entities, Count(e)
  PROVE  counter' \in [Entities -> Nat]
BY DEF DispatchInv, Count, Number

LEMMA SendAndWaitKeeps ==
  ASSUME DispatchInv, NEW e \in Entities, NEW c \in Callers, NEW sf \in Calls(e),
         SendAndWait(e, c, sf)
  PROVE  DispatchInv'
<1>. DEFINE m == NewRequest(e, sf)
<1>1. m \in Message /\ Sound(Peer(e), m)
  BY NewRequestIs DEF Requests
<1>2. /\ Count(e) /\ Send(e, m) /\ UNCHANGED <<handlers, serving, executed>>
      /\ open' = [open EXCEPT ![e][c] = [req |-> m, queue |-> <<>>]]
  BY DEF SendAndWait
<1>. HIDE DEF m
<1>3. TransitInv'
  BY <1>1, <1>2, SendKeeps DEF DispatchInv
<1>4. OpenInv'
  BY <1>1, <1>2, EmptySeq DEF DispatchInv, OpenInv
<1>. QED  BY <1>2, <1>3, <1>4, Counted DEF DispatchInv, HandlersInv, ServingInv

LEMMA SendDataMessageKeeps ==
  ASSUME DispatchInv, NEW e \in Entities, NEW sf \in Notifications(e), SendDataMessage(e, sf)
  PROVE  DispatchInv'
<1>. DEFINE m == NewRequest(e, sf)
<1>1. m \in Message /\ Sound(Peer(e), m)
  BY NewRequestIs DEF Requests
<1>2. Count(e) /\ Send(e, m) /\ UNCHANGED <<handlers, open, serving, executed>>
  BY DEF SendDataMessage
<1>. HIDE DEF m
<1>3. TransitInv'
  BY <1>1, <1>2, SendKeeps DEF DispatchInv
<1>. QED  BY <1>2, <1>3, Counted DEF DispatchInv, HandlersInv, ServingInv, OpenInv

LEMMA Hangup ==
  ASSUME DispatchInv, NEW e \in Entities, NEW c \in Callers,
         open' = [open EXCEPT ![e][c] = Closed]
  PROVE  OpenInv'
<1>1. Closed \in [req : Message, queue : Seq(Message)]
  BY NoMsgIs, EmptySeq DEF Closed
<1>. QED  BY <1>1 DEF DispatchInv, OpenInv

LEMMA CallTimesOutKeeps ==
  ASSUME DispatchInv, NEW e \in Entities, NEW c \in Callers, CallTimesOut(e, c)
  PROVE  DispatchInv'
<1>. DEFINE m == Msg(<<9, 9>>, Number(e), open[e][c].req.id, 1)
<1>1. Number(e) \in Nat /\ open[e][c].req.id \in Ids /\ <<9, 9>> \in SF
  BY DEF DispatchInv, Number, OpenInv, Message, SF
<1>2. m \in Message /\ m.sf = <<9, 9>> /\ m.chain = 1
  BY <1>1, MsgIs
<1>3. Sound(Peer(e), m)
  BY <1>2 DEF Sound
<1>4. /\ Count(e) /\ Send(e, m) /\ UNCHANGED <<handlers, serving>>
      /\ open' = [open EXCEPT ![e][c] = Closed]
  BY DEF CallTimesOut
<1>. HIDE DEF m
<1>5. TransitInv'
  BY <1>2, <1>3, <1>4, SendKeeps DEF DispatchInv
<1>. QED  BY <1>4, <1>5, Counted, Hangup DEF DispatchInv, HandlersInv, ServingInv

-----------------------------------------------------------------------------
(* The receive goroutine.                                                  *)

\* A message somebody may handle is a request, or an S1F14.
LEMMA HandledIs ==
  ASSUME DispatchInv, NEW e \in Entities, NEW m \in Message, Sound(e, m),
         m.sf \in handlers[e], IsAnswered(m)
  PROVE  m.chain = 0 /\ Primary(m.sf)
<1>1. Primary(m.sf)
  BY DEF DispatchInv, HandlersInv, IsAnswered
<1>2. m.chain = 0
  BY <1>1 DEF Sound, Primary, Reply
<1>. QED  BY <1>1, <1>2

LEMMA AnswerIs ==
  ASSUME NEW e \in Entities, NEW m \in Message, m.chain = 0, Primary(m.sf)
  PROVE  AnswerTo(m) \in Message /\ Sound(Peer(e), AnswerTo(m))
<1>. DEFINE sf == <<m.sf[1], m.sf[2] + 1>>
<1>1. m.sf \in Nat \X Nat /\ m.num \in Nat /\ m.id \in Ids
  BY DEF Message, SF
<1>2. sf \in SF /\ Reply(sf)
  BY <1>1 DEF Primary, Reply, SF
<1>. HIDE DEF sf
<1>3. AnswerTo(m) = Msg(sf, m.num, m.id, 1)
  BY DEF AnswerTo, sf
<1>4. AnswerTo(m) \in Message /\ AnswerTo(m).sf = sf /\ AnswerTo(m).chain = 1
  BY <1>1, <1>2, <1>3, MsgIs
<1>. QED  BY <1>2, <1>4 DEF Sound

LEMMA RxReplyKeeps ==
  ASSUME DispatchInv, NEW e \in Entities, RxReply(e)
  PROVE  DispatchInv'
<1>1. RxTake(e) /\ RxTaken(e) /\ UNCHANGED <<handlers, counter, serving>>
  BY DEF RxReply, RxTake
<1>2. TransitInv'
  BY <1>1, TakenKeeps DEF DispatchInv
<1>3. RxMessage(e) \in Message
  BY <1>1, Taken DEF DispatchInv
<1>4. PICK c \in Callers : open' = [open EXCEPT ![e][c].queue = Append(@, RxMessage(e))]
  BY DEF RxReply, Waits
<1>5. open[e][c] \in [req : Message, queue : Seq(Message)]
  BY DEF DispatchInv, OpenInv
<1>6. Append(open[e][c].queue, RxMessage(e)) \in Seq(Message)
  BY <1>3, <1>5, AppendProperties
<1>7. OpenInv'
  BY <1>4, <1>5, <1>6 DEF DispatchInv, OpenInv
<1>. QED  BY <1>1, <1>2, <1>7 DEF DispatchInv, HandlersInv, ServingInv

LEMMA RxHandleKeeps ==
  ASSUME DispatchInv, NEW e \in Entities, RxHandle(e)
  PROVE  DispatchInv'
<1>. DEFINE m == RxMessage(e)
<1>1. RxTake(e) /\ m.sf \in handlers[e] /\ UNCHANGED <<handlers, counter, open>>
  BY DEF RxHandle, RxTake
<1>2. m \in Message /\ Sound(e, m)
  BY <1>1, Taken DEF DispatchInv
<1>. HIDE DEF m
<1>3. IsAnswered(m) => m.chain = 0 /\ Primary(m.sf)
  BY <1>1, <1>2, HandledIs
<1>4. CASE IsAnswered(m) /\ RxTakenAnd(e, AnswerTo(m)) /\ UNCHANGED serving
  <2>1. AnswerTo(m) \in Message /\ Sound(Peer(e), AnswerTo(m))
    BY <1>2, <1>3, <1>4, AnswerIs
  <2>2. TransitInv'
    BY <1>1, <1>4, <2>1, TakenAndKeeps DEF DispatchInv
  <2>. QED  BY <1>1, <1>4, <2>2 DEF DispatchInv, HandlersInv, ServingInv, OpenInv
<1>5. CASE RxTaken(e) /\ UNCHANGED serving
  <2>1. TransitInv'
    BY <1>1, <1>5, TakenKeeps DEF DispatchInv
  <2>. QED  BY <1>1, <1>5, <2>1 DEF DispatchInv, HandlersInv, ServingInv, OpenInv
<1>6. CASE IsAnswered(m) /\ RxTaken(e) /\ serving' = [serving EXCEPT ![e] = m]
  <2>1. TransitInv'
    BY <1>1, <1>6, TakenKeeps DEF DispatchInv
  <2>2. ServingInv'
    BY <1>2, <1>3, <1>6 DEF DispatchInv, ServingInv
  <2>. QED  BY <1>1, <2>1, <2>2 DEF DispatchInv, HandlersInv, OpenInv
<1>. QED  BY <1>4, <1>5, <1>6 DEF RxHandle, m

LEMMA HandlerReturnsKeeps ==
  ASSUME DispatchInv, NEW e \in Entities, HandlerReturns(e)
  PROVE  DispatchInv'
<1>1. /\ serving[e] # NoMsg /\ serving' = [serving EXCEPT ![e] = NoMsg]
      /\ Send(e, AnswerTo(serving[e])) /\ UNCHANGED <<handlers, counter, open>>
  BY DEF HandlerReturns
<1>2. serving[e] \in Message /\ serving[e].chain = 0 /\ Primary(serving[e].sf)
  BY <1>1 DEF DispatchInv, ServingInv
<1>3. AnswerTo(serving[e]) \in Message /\ Sound(Peer(e), AnswerTo(serving[e]))
  BY <1>2, AnswerIs
<1>4. TransitInv'
  BY <1>1, <1>3, SendKeeps DEF DispatchInv
<1>5. ServingInv'
  BY <1>1, NoMsgIs DEF DispatchInv, ServingInv
<1>. QED  BY <1>1, <1>4, <1>5 DEF DispatchInv, HandlersInv, OpenInv

LEMMA ErrorIs ==
  ASSUME DispatchInv, NEW e \in Entities, NEW m \in Message, Sound(e, m),
         m.sf \notin handlers[e], m.sf[1] # 9,
         NEW sf \in {<<9, 3>>, <<9, 5>>}
  PROVE  LET err == Msg(sf, m.num, m.id, m.chain + 1)
         IN  err \in Message /\ Sound(Peer(e), err)
<1>. DEFINE err == Msg(sf, m.num, m.id, m.chain + 1)
<1>. SUFFICES err \in Message /\ Sound(Peer(e), err)
  OBVIOUS
<1>1. m.num \in Nat /\ m.id \in Ids /\ m.chain \in Nat
  BY DEF Message
<1>2. sf \in SF /\ sf[1] = 9
  BY DEF SF
<1>3. m.chain + 1 \in Nat
  BY <1>1
<1>4. err \in Message /\ err.sf = sf /\ err.id = m.id /\ err.chain = m.chain + 1
  BY <1>1, <1>2, <1>3, MsgIs
<1>. HIDE DEF err
<1>5. CASE m.chain = 1
  <2>1. err.chain = 2 /\ err.sf[1] = 9
    BY <1>2, <1>4, <1>5
  <2>. QED  BY <1>4, <2>1 DEF Sound
<1>6. CASE m.chain = 0 /\ m.id[3] = m.sf /\ m.sf \in Requests(Peer(e))
  <2>1. m.sf \notin RegisteredHandlers(e)
    BY DEF DispatchInv, HandlersInv
  <2>2. m.id[3] \in ForeignRequests
    BY <1>6, <2>1, Understood
  <2>3. err.chain = 1 /\ err.sf[1] = 9 /\ err.id[3] \in ForeignRequests
    BY <1>2, <1>4, <1>6, <2>2
  <2>. QED  BY <1>4, <2>3 DEF Sound
<1>7. m.chain = 1 \/ (m.chain = 0 /\ m.id[3] = m.sf /\ m.sf \in Requests(Peer(e)))
  BY DEF Sound
<1>. QED  BY <1>5, <1>6, <1>7

LEMMA RxUnrecognizedKeeps ==
  ASSUME DispatchInv, NEW e \in Entities, RxUnrecognized(e)
  PROVE  DispatchInv'
<1>. DEFINE m == RxMessage(e)
            sf == IF isKnownStream(m.sf[1]) THEN <<9, 5>> ELSE <<9, 3>>
            err == Msg(sf, m.num, m.id, m.chain + 1)
<1>1. RxTake(e) /\ m.sf \notin handlers[e] /\ UNCHANGED <<handlers, counter, open, serving>>
  BY DEF RxUnrecognized, RxTake
<1>2. m \in Message /\ Sound(e, m)
  BY <1>1, Taken DEF DispatchInv
<1>3. \/ RxTaken(e)
      \/ m.sf[1] # 9 /\ RxTakenAnd(e, err)
  BY DEF RxUnrecognized
<1>4. sf \in {<<9, 3>>, <<9, 5>>}
  OBVIOUS
<1>. HIDE DEF m, sf
<1>5. m.sf[1] # 9 => err \in Message /\ Sound(Peer(e), err)
  BY <1>1, <1>2, <1>4, ErrorIs
<1>. HIDE DEF err
<1>6. TransitInv'
  BY <1>1, <1>3, <1>5, TakenKeeps, TakenAndKeeps DEF DispatchInv
<1>. QED  BY <1>1, <1>6 DEF DispatchInv, HandlersInv, ServingInv, OpenInv

LEMMA RegisterHandlerKeeps ==
  ASSUME DispatchInv, NEW e \in Entities, NEW sf \in ForeignRequests, RegisterHandler(e, sf)
  PROVE  DispatchInv'
<1>1. sf \in SF /\ Primary(sf)
  BY DispatchAssumption DEF SF, Primary
<1>2. HandlersInv'
  BY <1>1 DEF DispatchInv, HandlersInv, RegisterHandler
<1>. QED  BY <1>2 DEF DispatchInv, RegisterHandler, TransitInv, ServingInv, OpenInv

-----------------------------------------------------------------------------
(* Every exchange comes to an end.                                         *)

LEMMA DispatchStep == DispatchInv /\ [DispatchNext]_dispatchVars => DispatchInv'
<1>. SUFFICES ASSUME DispatchInv, [DispatchNext]_dispatchVars PROVE DispatchInv'
  OBVIOUS
<1>1. ASSUME NEW e \in Entities, NEW c \in Callers, NEW sf \in Calls(e), SendAndWait(e, c, sf)
      PROVE  DispatchInv'
  BY <1>1, SendAndWaitKeeps
<1>2. ASSUME NEW e \in Entities, NEW c \in Callers, CallReturns(e, c)
      PROVE  DispatchInv'
  <2>1. open' = [open EXCEPT ![e][c] = Closed] /\ UNCHANGED <<handlers, counter, serving, transit>>
    BY <1>2 DEF CallReturns
  <2>. QED  BY <2>1, Hangup DEF DispatchInv, HandlersInv, TransitInv, ServingInv
<1>3. ASSUME NEW e \in Entities, NEW c \in Callers, CallTimesOut(e, c)
      PROVE  DispatchInv'
  BY <1>3, CallTimesOutKeeps
<1>4. ASSUME NEW e \in Entities, NEW sf \in Notifications(e), SendDataMessage(e, sf)
      PROVE  DispatchInv'
  BY <1>4, SendDataMessageKeeps
<1>5. ASSUME NEW e \in Entities, NEW sf \in ForeignRequests, RegisterHandler(e, sf)
      PROVE  DispatchInv'
  BY <1>5, RegisterHandlerKeeps
<1>6. ASSUME NEW e \in Entities,
             RxReply(e) \/ RxHandle(e) \/ HandlerReturns(e) \/ RxUnrecognized(e)
      PROVE  DispatchInv'
  BY <1>6, RxReplyKeeps, RxHandleKeeps, HandlerReturnsKeeps, RxUnrecognizedKeeps
<1>7. CASE UNCHANGED dispatchVars
  BY <1>7 DEF dispatchVars, DispatchInv, HandlersInv, TransitInv, ServingInv, OpenInv
<1>. QED  BY <1>1, <1>2, <1>3, <1>4, <1>5, <1>6, <1>7 DEF DispatchNext

LEMMA DispatchEnds == DispatchInv => ExchangesEnd
<1>. SUFFICES ASSUME DispatchInv PROVE ExchangesEnd
  OBVIOUS
<1>1. ASSUME NEW m \in InTransit PROVE \E e \in Entities : m \in Message /\ Sound(e, m)
  <2>1. PICK e \in Entities : \E i \in DOMAIN transit[e] : m = transit[e][i]
    BY DEF InTransit
  <2>2. PICK i \in DOMAIN transit[e] : m = transit[e][i]
    BY <2>1
  <2>3. transit[e] \in Seq(Message) /\ i \in 1..Len(transit[e])
    BY LenProperties DEF DispatchInv, TransitInv
  <2>4. m \in Message /\ Sound(e, m)
    BY <2>2, <2>3, ElementOfSeq DEF DispatchInv, TransitInv
  <2>. QED  BY <2>4
<1>2. ChainsEnd
  BY <1>1 DEF ChainsEnd, Sound
<1>3. HostCalls \subseteq handlers["equipment"]
  <2>1. HostCalls \subseteq RegisteredHandlers("equipment")
    BY DEF HostCalls, RegisteredHandlers
  <2>. QED  BY <2>1 DEF DispatchInv, HandlersInv, Entities
<1>4. EquipmentCalls \cup Notifications("equipment") \subseteq handlers["host"]
  <2>1. EquipmentCalls \cup Notifications("equipment") \subseteq RegisteredHandlers("host")
    BY DEF EquipmentCalls, Notifications, RegisteredHandlers
  <2>. QED  BY <2>1 DEF DispatchInv, HandlersInv, Entities
<1>5. ASSUME NEW m \in InTransit, m.sf \in {<<9, 3>>, <<9, 5>>}, m.chain = 1
      PROVE  m.id[3] \in ForeignRequests
  <2>1. PICK e \in Entities : Sound(e, m)
    BY <1>1
  <2>2. m.sf[1] = 9 /\ m.sf # <<9, 9>>
    BY <1>5
  <2>. QED  BY <1>5, <2>1, <2>2 DEF Sound, Reply
<1>. QED  BY <1>2, <1>3, <1>4, <1>5 DEF ExchangesEnd, LibraryUnderstood

(* An exchange between two entities of the library has at most three       *)
(* messages, whatever is lost or late, and an S9F3 or S9F5 about a request *)
(* is about one the library has no handler for (sendS9ErrorForUnrecognized).*)
THEOREM ExchangesEndHolds == DispatchSpec => []ExchangesEnd
<1>. QED  BY DispatchStart, DispatchStep, DispatchEnds, PTL DEF DispatchSpec
-----------------------------------------------------------------------------
(* What a call returns.                                                    *)

MessagesIn(s) == {s[i] : i \in DOMAIN s}

\* The messages that tell how a request fares: the request on its way, or being
\* served; and what the peer made of it, on its way or in a reply queue.
Coming(e)   == MessagesIn(transit[e])
AskedOf(e)    == {m \in Coming(e) : m.chain = 0}
AnsweredTo(e) == {m \in Coming(e) : m.id[1] = e}
Queued(e)     == UNION {MessagesIn(open[e][c].queue) : c \in Callers}

Asked    == UNION {AskedOf(e) : e \in Entities}
Served   == {serving[e] : e \in Entities} \ {NoMsg}
Answered == UNION {AnsweredTo(e) : e \in Entities}
Arrived  == UNION {{m \in Queued(e) : m.id[1] = e} : e \in Entities}

\* A number the entity has given out.
Known(id) == id[1] \in Entities /\ id[2] <= counter[id[1]]

Belongs(e, m) ==
  /\ Known(m.id)
  /\ m.chain \in {0, 2} => m.id[1] = Peer(e)
  /\ m.chain = 1 /\ Reply(m.sf) => m.id[1] = e

Relevant(e, m) == m.chain = 0 \/ m.id[1] = e
OnceEach(e, s) ==
  \A i, j \in DOMAIN s :
    Relevant(e, s[i]) /\ Relevant(e, s[j]) /\ s[i].id = s[j].id => i = j

\* An answer of the peer tells whether the request was executed.
Tells(m) ==
  IF m.sf[1] = 9 THEN Runs(m.id) = 0
  ELSE Runs(m.id) = 1 /\ m.sf = <<m.id[3][1], m.id[3][2] + 1>>

Placed == \A e \in Entities : \A m \in Coming(e) : Belongs(e, m)

Handed ==
  \A e \in Entities : serving[e] # NoMsg =>
    /\ Known(serving[e].id)
    /\ serving[e].id[1] = Peer(e) /\ serving[e].id[3] = serving[e].sf

Opened ==
  \A e \in Entities, c \in Callers : IsOpen(e, c) =>
    LET req == open[e][c].req
    IN  Known(req.id) /\ req.id[1] = e /\ req.id[3] = req.sf

Disjoint(A, B) == \A m \in A, n \in B : m.id # n.id

\* A request is in one stage at a time, and executed when its handler is run.
Apart ==
  /\ Disjoint(Asked, Served) /\ Disjoint(Asked, Answered) /\ Disjoint(Asked, Arrived)
  /\ Disjoint(Served, Answered) /\ Disjoint(Served, Arrived) /\ Disjoint(Answered, Arrived)

Ran ==
  /\ \A m \in Asked : Runs(m.id) = 0
  /\ \A m \in Served : Runs(m.id) = 1
  /\ \A m \in Answered \cup Arrived : Tells(m)

Recorded ==
  /\ executed \in Seq(Ids)
  /\ \A i \in DOMAIN executed : Known(executed[i])
  /\ \A m \in Arrived : Known(m.id)

OutcomeInv ==
  /\ Placed /\ Handed /\ Opened /\ Recorded
  /\ \A e \in Entities : OnceEach(e, transit[e])
  /\ Apart /\ Ran

LEMMA WithoutHead ==
  ASSUME NEW e, NEW s \in Seq(Message), s # <<>>, OnceEach(e, s)
  PROVE  /\ Head(s) \in MessagesIn(s) /\ MessagesIn(Tail(s)) \subseteq MessagesIn(s)
         /\ OnceEach(e, Tail(s))
         /\ Relevant(e, Head(s)) =>
              \A m \in MessagesIn(Tail(s)) : Relevant(e, m) => m.id # Head(s).id
<1>1. /\ Tail(s) \in Seq(Message) /\ Len(Tail(s)) = Len(s) - 1 /\ Len(s) \in Nat \ {0}
      /\ Head(s) = s[1] /\ \A i \in 1..Len(Tail(s)) : Tail(s)[i] = s[i + 1]
  BY HeadTailProperties, EmptySeq, LenProperties
<1>2. DOMAIN s = 1..Len(s) /\ DOMAIN Tail(s) = 1..Len(Tail(s))
  BY <1>1
<1>3. /\ 1 \in DOMAIN s
      /\ \A i \in DOMAIN Tail(s) : i + 1 \in DOMAIN s /\ i + 1 # 1 /\ Tail(s)[i] = s[i + 1]
      /\ \A i, j \in DOMAIN Tail(s) : i + 1 = j + 1 => i = j
  BY <1>1, <1>2
<1>4. Head(s) \in MessagesIn(s) /\ MessagesIn(Tail(s)) \subseteq MessagesIn(s)
  BY <1>1, <1>3 DEF MessagesIn
<1>5. OnceEach(e, Tail(s))
  <2>. SUFFICES ASSUME NEW i \in DOMAIN Tail(s), NEW j \in DOMAIN Tail(s),
                       Relevant(e, Tail(s)[i]), Relevant(e, Tail(s)[j]), Tail(s)[i].id = Tail(s)[j].id
                PROVE  i = j
    BY DEF OnceEach
  <2>. QED  BY <1>3 DEF OnceEach
<1>6. ASSUME Relevant(e, Head(s)), NEW i \in DOMAIN Tail(s), Relevant(e, Tail(s)[i])
      PROVE  Tail(s)[i].id # Head(s).id
  BY <1>1, <1>3, <1>6 DEF OnceEach
<1>. QED  BY <1>4, <1>5, <1>6 DEF MessagesIn

LEMMA WithLast ==
  ASSUME NEW e, NEW s \in Seq(Message), NEW m \in Message
  PROVE  /\ MessagesIn(Append(s, m)) = MessagesIn(s) \cup {m}
         /\ OnceEach(e, s)
            /\ (Relevant(e, m) => \A x \in MessagesIn(s) : Relevant(e, x) => x.id # m.id)
              => OnceEach(e, Append(s, m))
<1>. DEFINE a == Append(s, m)
<1>1. /\ DOMAIN s = 1..Len(s) /\ DOMAIN a = 1..(Len(s) + 1) /\ Len(s) \in Nat
      /\ \A i \in 1..Len(s) : a[i] = s[i]
      /\ a[Len(s) + 1] = m
  OBVIOUS
<1>. HIDE DEF a
<1>2. /\ Len(s) + 1 \in DOMAIN a /\ DOMAIN s \subseteq DOMAIN a
      /\ \A i \in DOMAIN a : i \in DOMAIN s \/ i = Len(s) + 1
  BY <1>1
<1>3. MessagesIn(a) = MessagesIn(s) \cup {m}
  BY <1>1, <1>2 DEF MessagesIn
<1>4. ASSUME OnceEach(e, s),
             Relevant(e, m) => \A x \in MessagesIn(s) : Relevant(e, x) => x.id # m.id,
             NEW i \in DOMAIN a, NEW j \in DOMAIN a,
             Relevant(e, a[i]), Relevant(e, a[j]), a[i].id = a[j].id
      PROVE  i = j
  <2>1. CASE i \in DOMAIN s /\ j \in DOMAIN s
    BY <1>1, <1>4, <2>1 DEF OnceEach
  <2>2. CASE i \in DOMAIN s /\ j = Len(s) + 1
    <3>1. s[i] \in MessagesIn(s) /\ a[i] = s[i] /\ a[j] = m
      BY <1>1, <2>2 DEF MessagesIn
    <3>. QED  BY <1>4, <3>1
  <2>3. CASE i = Len(s) + 1 /\ j \in DOMAIN s
    <3>1. s[j] \in MessagesIn(s) /\ a[j] = s[j] /\ a[i] = m
      BY <1>1, <2>3 DEF MessagesIn
    <3>. QED  BY <1>4, <3>1
  <2>. QED  BY <1>2, <2>1, <2>2, <2>3
<1>. QED  BY <1>3, <1>4 DEF OnceEach, a

\* A handler is run once more.
LEMMA RunsOf ==
  ASSUME NEW id \in Ids, executed \in Seq(Ids), executed' = Append(executed, id)
  PROVE  /\ \A i : i # id => Runs(i)' = Runs(i)
         /\ Runs(id) = 0 => Runs(id)' = 1
<1>. DEFINE n == Len(executed) + 1
<1>1. /\ DOMAIN executed = 1..Len(executed) /\ DOMAIN executed' = 1..n /\ Len(executed) \in Nat
      /\ \A i \in 1..Len(executed) : executed'[i] = executed[i]
      /\ executed'[n] = id
  OBVIOUS
<1>2. n \in DOMAIN executed' /\ n \notin DOMAIN executed /\ DOMAIN executed' = DOMAIN executed \cup {n}
  BY <1>1
<1>. HIDE DEF n
<1>3. \A i : i # id => Runs(i)' = Runs(i)
  <2>. SUFFICES ASSUME NEW i, i # id
                PROVE  {k \in DOMAIN executed' : executed'[k] = i} = {k \in DOMAIN executed : executed[k] = i}
    BY DEF Runs
  <2>. QED  BY <1>1, <1>2
<1>4. ASSUME Runs(id) = 0 PROVE Runs(id)' = 1
  <2>. DEFINE S == {k \in DOMAIN executed : executed[k] = id}
              T == {k \in DOMAIN executed' : executed'[k] = id}
  <2>1. IsFiniteSet(S)
    <3>1. IsFiniteSet(1..Len(executed)) /\ S \subseteq 1..Len(executed)
      BY <1>1, FS_Interval
    <3>. HIDE DEF S
    <3>. QED  BY <3>1, FS_Subset
  <2>2. Cardinality(S) = 0
    BY <1>4 DEF Runs
  <2>3. T = S \cup {n} /\ n \notin S
    BY <1>1, <1>2
  <2>4. Runs(id)' = Cardinality(T)
    BY DEF Runs
  <2>. HIDE DEF S, T
  <2>5. S = {}
    BY <2>1, <2>2, FS_EmptySet
  <2>6. T = {n}
    BY <2>3, <2>5
  <2>. QED  BY <2>4, <2>6, FS_Singleton
<1>. QED  BY <1>3, <1>4

\* A request moves on; what is left of its earlier stage is gone.
LEMMA MoveKeeps ==
  ASSUME Apart, Ran, NEW id,
         NEW A, NEW B, NEW C, NEW D,
         \A m \in A \cup B \cup C \cup D : m.id = id,
         Disjoint(A, B), Disjoint(A, C), Disjoint(A, D), Disjoint(B, C), Disjoint(B, D), Disjoint(C, D),
         \A m \in Asked' : m \in A \/ (m \in Asked /\ m.id # id),
         \A m \in Served' : m \in B \/ (m \in Served /\ m.id # id),
         \A m \in Answered' : m \in C \/ (m \in Answered /\ m.id # id),
         \A m \in Arrived' : m \in D \/ (m \in Arrived /\ m.id # id),
         \A i : i # id => Runs(i)' = Runs(i),
         A # {} => Runs(id)' = 0, B # {} => Runs(id)' = 1,
         \A m \in C \cup D : Tells(m)'
  PROVE  Apart' /\ Ran'
<1>1. Apart'
  BY DEF Apart, Disjoint
<1>2. ASSUME NEW m, Tells(m), m.id # id PROVE Tells(m)'
  BY <1>2 DEF Tells
<1>3. Ran'
  BY <1>2 DEF Ran
<1>. QED  BY <1>1, <1>3

LEMMA LessKeeps ==
  ASSUME Apart, Ran, Asked' \subseteq Asked, Served' \subseteq Served,
         Answered' \subseteq Answered, Arrived' \subseteq Arrived, UNCHANGED executed
  PROVE  Apart' /\ Ran'
<1>1. Apart'
  BY DEF Apart, Disjoint
<1>2. \A m : Tells(m)' <=> Tells(m)
  BY DEF Tells, Runs
<1>3. \A i : Runs(i)' = Runs(i)
  BY DEF Runs
<1>4. Ran'
  BY <1>2, <1>3 DEF Ran
<1>. QED  BY <1>1, <1>4

LEMMA TwoSides ==
  ASSUME NEW e \in Entities, NEW x \in Entities
  PROVE  x = e \/ x = Peer(e)
BY DEF Entities, Peer

LEMMA ComingAre ==
  ASSUME DispatchInv, NEW e \in Entities, NEW m \in Coming(e)
  PROVE  m \in Message /\ Sound(e, m)
<1>1. PICK i \in DOMAIN transit[e] : m = transit[e][i]
  BY DEF Coming, MessagesIn
<1>2. transit[e] \in Seq(Message) /\ i \in 1..Len(transit[e])
  BY LenProperties DEF DispatchInv, TransitInv
<1>. QED  BY <1>1, <1>2, ElementOfSeq DEF DispatchInv, TransitInv

LEMMA QueuedAre ==
  ASSUME DispatchInv, NEW e \in Entities, NEW m \in Queued(e)
  PROVE  m \in Message
<1>1. PICK c \in Callers : m \in MessagesIn(open[e][c].queue)
  BY DEF Queued
<1>2. PICK i \in DOMAIN open[e][c].queue : m = open[e][c].queue[i]
  BY <1>1 DEF MessagesIn
<1>3. open[e][c].queue \in Seq(Message)
  BY DEF DispatchInv, OpenInv
<1>. QED  BY <1>2, <1>3, LenProperties, ElementOfSeq

LEMMA StagesKnown ==
  ASSUME DispatchInv, OutcomeInv, NEW m \in Asked \cup Served \cup Answered \cup Arrived
  PROVE  m \in Message /\ Known(m.id)
<1>1. CASE m \in Asked \cup Answered
  <2>1. PICK e \in Entities : m \in Coming(e)
    BY <1>1 DEF Asked, AskedOf, Answered, AnsweredTo
  <2>. QED  BY <2>1, ComingAre DEF OutcomeInv, Placed, Belongs
<1>2. CASE m \in Served
  BY <1>2 DEF Served, OutcomeInv, Handed, DispatchInv, ServingInv
<1>3. CASE m \in Arrived
  <2>1. PICK e \in Entities : m \in Queued(e)
    BY <1>3 DEF Arrived
  <2>. QED  BY <1>3, <2>1, QueuedAre DEF OutcomeInv, Recorded
<1>. QED  BY <1>1, <1>2, <1>3

LEMMA KnownStays ==
  ASSUME DispatchInv, NEW e \in Entities, UNCHANGED counter \/ Count(e), NEW id \in Ids, Known(id)
  PROVE  Known(id)'
<1>1. id[2] \in Nat
  BY DEF Ids
<1>2. \A x \in Entities : counter[x] \in Nat /\ counter'[x] \in Nat /\ counter[x] <= counter'[x]
  BY DEF DispatchInv, Count, Number
<1>. QED  BY <1>1, <1>2 DEF Known

LEMMA BelongsStays ==
  ASSUME DispatchInv, OutcomeInv, NEW e \in Entities, UNCHANGED counter \/ Count(e),
         NEW x \in Entities, NEW m \in Coming(x)
  PROVE  Belongs(x, m)'
<1>1. m.id \in Ids /\ Belongs(x, m)
  BY ComingAre DEF Message, OutcomeInv, Placed
<1>2. Known(m.id)'
  BY <1>1, KnownStays DEF Belongs
<1>. QED  BY <1>1, <1>2 DEF Belongs

LEMMA SendPlaces ==
  ASSUME DispatchInv, OutcomeInv, NEW e \in Entities, NEW m \in Message, Send(e, m),
         UNCHANGED counter \/ Count(e), Belongs(Peer(e), m)',
         Relevant(Peer(e), m) =>
           \A x \in Coming(Peer(e)) : Relevant(Peer(e), x) => x.id # m.id
  PROVE  /\ Placed' /\ (\A x \in Entities : OnceEach(x, transit[x]))'
         /\ Coming(e)' = Coming(e) /\ Coming(Peer(e))' = Coming(Peer(e)) \cup {m}
<1>. DEFINE p == Peer(e)
<1>1. p \in Entities /\ p # e /\ transit[p] \in Seq(Message)
  BY Roles DEF DispatchInv, TransitInv
<1>2. transit'[e] = transit[e] /\ transit'[p] = Append(transit[p], m)
  BY <1>1 DEF Send, DispatchInv, TransitInv
<1>3. OnceEach(p, transit[p])
  BY <1>1 DEF OutcomeInv
<1>4. /\ MessagesIn(Append(transit[p], m)) = MessagesIn(transit[p]) \cup {m}
      /\ OnceEach(p, Append(transit[p], m))
  BY <1>1, <1>3, WithLast DEF Coming
<1>5. Coming(e)' = Coming(e) /\ Coming(p)' = Coming(p) \cup {m}
  BY <1>2, <1>4 DEF Coming
<1>6. ASSUME NEW x \in Entities PROVE OnceEach(x, transit'[x])
  <2>1. CASE x = e
    BY <1>2, <2>1 DEF OutcomeInv
  <2>2. CASE x = p
    BY <1>2, <1>4, <2>2
  <2>. QED  BY <2>1, <2>2, TwoSides
<1>7. ASSUME NEW x \in Entities, NEW y \in Coming(x)' PROVE Belongs(x, y)'
  <2>1. CASE x = e
    BY <1>5, <1>7, <2>1, BelongsStays
  <2>2. CASE x = p
    BY <1>5, <1>7, <2>2, BelongsStays
  <2>. QED  BY <2>1, <2>2, TwoSides
<1>. QED  BY <1>5, <1>6, <1>7 DEF Placed, OnceEach

\* The message h is taken, and nothing sent.
LEMMA TakenPlaces ==
  ASSUME DispatchInv, OutcomeInv, NEW e \in Entities, RxTake(e), RxTaken(e),
         NEW h, h = RxMessage(e)
  PROVE  /\ Placed' /\ (\A x \in Entities : OnceEach(x, transit[x]))'
         /\ h \in Coming(e) /\ Coming(e)' \subseteq Coming(e)
         /\ Coming(Peer(e))' = Coming(Peer(e))
         /\ Relevant(e, h) => \A x \in Coming(e)' : Relevant(e, x) => x.id # h.id
<1>. DEFINE p == Peer(e)
<1>1. /\ p \in Entities /\ p # e /\ transit[e] \in Seq(Message) /\ transit[e] # <<>>
      /\ OnceEach(e, transit[e]) /\ h = Head(transit[e]) /\ UNCHANGED counter
  BY Roles DEF DispatchInv, TransitInv, OutcomeInv, RxTake, RxMessage
<1>2. transit'[p] = transit[p] /\ transit'[e] = Tail(transit[e])
  BY <1>1 DEF RxTaken, DispatchInv, TransitInv
<1>3. /\ h \in Coming(e) /\ Coming(e)' \subseteq Coming(e) /\ OnceEach(e, transit'[e])
      /\ Relevant(e, h) => \A x \in Coming(e)' : Relevant(e, x) => x.id # h.id
  BY <1>1, <1>2, WithoutHead DEF Coming
<1>4. Coming(p)' = Coming(p)
  BY <1>2 DEF Coming
<1>5. ASSUME NEW x \in Entities PROVE OnceEach(x, transit'[x])
  <2>1. CASE x = e
    BY <1>3, <2>1
  <2>2. CASE x = p
    BY <1>2, <2>2 DEF OutcomeInv
  <2>. QED  BY <2>1, <2>2, TwoSides
<1>6. ASSUME NEW x \in Entities, NEW y \in Coming(x)' PROVE Belongs(x, y)'
  <2>1. y \in Coming(x)
    BY <1>3, <1>4, <1>6, TwoSides
  <2>. QED  BY <1>1, <2>1, BelongsStays
<1>. QED  BY <1>3, <1>4, <1>5, <1>6 DEF Placed, OnceEach

\* The message h is taken, and m sent back.
LEMMA TakenAndPlaces ==
  ASSUME DispatchInv, OutcomeInv, NEW e \in Entities, RxTake(e), NEW m \in Message,
         RxTakenAnd(e, m), NEW h, h = RxMessage(e), Belongs(Peer(e), m),
         Relevant(Peer(e), m) =>
           \A x \in Coming(Peer(e)) : Relevant(Peer(e), x) => x.id # m.id
  PROVE  /\ Placed' /\ (\A x \in Entities : OnceEach(x, transit[x]))'
         /\ h \in Coming(e) /\ Coming(e)' \subseteq Coming(e)
         /\ Coming(Peer(e))' = Coming(Peer(e)) \cup {m}
         /\ Relevant(e, h) => \A x \in Coming(e)' : Relevant(e, x) => x.id # h.id
<1>. DEFINE p == Peer(e)
<1>1. /\ p \in Entities /\ p # e /\ transit[e] \in Seq(Message) /\ transit[e] # <<>>
      /\ transit[p] \in Seq(Message)
      /\ OnceEach(e, transit[e]) /\ OnceEach(p, transit[p])
      /\ h = Head(transit[e]) /\ UNCHANGED counter
  BY Roles DEF DispatchInv, TransitInv, OutcomeInv, RxTake, RxMessage
<1>2. transit'[p] = Append(transit[p], m) /\ transit'[e] = Tail(transit[e])
  BY <1>1 DEF RxTakenAnd, DispatchInv, TransitInv
<1>3. /\ h \in Coming(e) /\ Coming(e)' \subseteq Coming(e) /\ OnceEach(e, transit'[e])
      /\ Relevant(e, h) => \A x \in Coming(e)' : Relevant(e, x) => x.id # h.id
  BY <1>1, <1>2, WithoutHead DEF Coming
<1>4. /\ MessagesIn(Append(transit[p], m)) = MessagesIn(transit[p]) \cup {m}
      /\ OnceEach(p, Append(transit[p], m))
  BY <1>1, WithLast DEF Coming
<1>5. Coming(p)' = Coming(p) \cup {m}
  BY <1>2, <1>4 DEF Coming
<1>6. ASSUME NEW x \in Entities PROVE OnceEach(x, transit'[x])
  <2>1. CASE x = e
    BY <1>3, <2>1
  <2>2. CASE x = p
    BY <1>2, <1>4, <2>2
  <2>. QED  BY <2>1, <2>2, TwoSides
<1>7. ASSUME NEW x \in Entities, NEW y \in Coming(x)' PROVE Belongs(x, y)'
  <2>1. y \in Coming(x) \/ (x = p /\ y = m)
    BY <1>3, <1>5, <1>7, TwoSides
  <2>2. CASE x = p /\ y = m
    BY <1>1, <2>2 DEF Belongs, Known
  <2>. QED  BY <1>1, <2>1, <2>2, BelongsStays
<1>. QED  BY <1>3, <1>5, <1>6, <1>7 DEF Placed, OnceEach

\* The stages of the requests.
Stages(e) ==
  /\ \A m : m \in Asked <=> m.chain = 0 /\ (m \in Coming(e) \/ m \in Coming(Peer(e)))
  /\ \A m : m \in Answered <=>
       \/ m.id[1] = e /\ m \in Coming(e)
       \/ m.id[1] = Peer(e) /\ m \in Coming(Peer(e))
  /\ \A m : m \in Served <=> m # NoMsg /\ (m = serving[e] \/ m = serving[Peer(e)])
  /\ \A m : m \in Arrived <=>
       \/ m.id[1] = e /\ m \in Queued(e)
       \/ m.id[1] = Peer(e) /\ m \in Queued(Peer(e))

LEMMA StagesAre ==
  ASSUME NEW e \in Entities
  PROVE  Stages(e) /\ Stages(e)'
<1>1. \A x : x \in Entities <=> x = e \/ x = Peer(e)
  BY TwoSides, Roles
<1>2. Stages(e)
  BY <1>1 DEF Stages, Asked, AskedOf, Answered, AnsweredTo, Served, Arrived
<1>3. Stages(e)'
  BY <1>1 DEF Stages, Asked, AskedOf, Answered, AnsweredTo, Served, Arrived
<1>. QED  BY <1>2, <1>3

LEMMA FlowsStay ==
  ASSUME DispatchInv, OutcomeInv, NEW e \in Entities, UNCHANGED counter \/ Count(e)
  PROVE  /\ UNCHANGED serving => Handed'
         /\ UNCHANGED open => Opened'
         /\ UNCHANGED executed /\ Arrived' \subseteq Arrived => Recorded'
<1>1. ASSUME UNCHANGED serving PROVE Handed'
  <2>1. \A x \in Entities : serving[x].id \in Ids
    BY DEF DispatchInv, ServingInv, Message
  <2>2. \A x \in Entities : serving[x] # NoMsg => Known(serving[x].id)
    BY DEF OutcomeInv, Handed
  <2>3. \A x \in Entities : \A id \in Ids : id = serving[x].id /\ serving[x] # NoMsg => Known(id)'
    BY <2>2, KnownStays
  <2>. QED  BY <1>1, <2>1, <2>3 DEF OutcomeInv, Handed, Known
<1>2. ASSUME UNCHANGED open PROVE Opened'
  <2>1. \A x \in Entities, c \in Callers : open[x][c].req.id \in Ids
    BY DEF DispatchInv, OpenInv, Message
  <2>2. \A x \in Entities, c \in Callers : \A id \in Ids :
          id = open[x][c].req.id /\ IsOpen(x, c) => Known(id)'
    BY KnownStays DEF OutcomeInv, Opened
  <2>. QED  BY <1>2, <2>1, <2>2 DEF OutcomeInv, Opened, Known, IsOpen
<1>3. ASSUME UNCHANGED executed, Arrived' \subseteq Arrived PROVE Recorded'
  <2>1. \A i \in DOMAIN executed : executed[i] \in Ids /\ Known(executed[i])
    BY DEF OutcomeInv, Recorded
  <2>2. \A i \in DOMAIN executed : \A id \in Ids : id = executed[i] => Known(id)'
    BY <2>1, KnownStays
  <2>3. \A m \in Arrived : m.id \in Ids /\ Known(m.id)
    BY StagesKnown DEF Message
  <2>4. \A m \in Arrived : Known(m.id)'
    BY <2>3, KnownStays
  <2>5. \A i \in DOMAIN executed' : Known(executed[i])'
    BY <1>3, <2>1, <2>2 DEF Known
  <2>. QED  BY <1>3, <2>4, <2>5 DEF OutcomeInv, Recorded, Known
<1>. QED  BY <1>1, <1>2, <1>3

\* A request of e that has a number of its own.
LEMMA RequestGoes ==
  ASSUME DispatchInv, OutcomeInv, NEW e \in Entities, NEW sf \in Requests(e),
         Count(e), NEW m, m = NewRequest(e, sf), Send(e, m), UNCHANGED <<serving, executed>>,
         Queued(e)' \subseteq Queued(e), Queued(Peer(e))' = Queued(Peer(e))
  PROVE  /\ Placed' /\ Handed' /\ Recorded' /\ (\A x \in Entities : OnceEach(x, transit[x]))'
         /\ Apart' /\ Ran' /\ m.id = <<e, Number(e), sf>> /\ m.sf = sf /\ Known(m.id)'
<1>. DEFINE p == Peer(e)
            id == m.id
<1>1. p \in Entities /\ p # e /\ Peer(p) = e
  BY Roles
<1>2. m \in Message /\ id = <<e, Number(e), sf>> /\ m.sf = sf /\ m.chain = 0 /\ id \in Ids
  <2>1. sf \in SF /\ Number(e) \in Nat
    BY Tables DEF DispatchInv, Number
  <2>2. <<e, Number(e), sf>> \in Ids
    BY <2>1 DEF Ids
  <2>. QED  BY <2>1, <2>2, MsgIs DEF NewRequest
<1>3. Known(id)' /\ ~Known(id) /\ id[1] = e
  BY <1>2 DEF Known, Count, Number, DispatchInv
<1>4. \A x \in Asked \cup Served \cup Answered \cup Arrived : x.id # id
  BY <1>3, StagesKnown
<1>5. Belongs(p, m)'
  BY <1>1, <1>2, <1>3 DEF Belongs, Known
<1>6. \A x \in Coming(p) : Known(x.id)
  BY <1>1 DEF OutcomeInv, Placed, Belongs
<1>7. /\ Placed' /\ (\A x \in Entities : OnceEach(x, transit[x]))'
      /\ Coming(e)' = Coming(e) /\ Coming(p)' = Coming(p) \cup {m}
  BY <1>2, <1>3, <1>5, <1>6, SendPlaces
<1>8. \A x \in Asked' : x \in {m} \/ x \in Asked
  BY <1>7, StagesAre DEF Stages
<1>9. Served' = Served
  BY DEF Served
<1>10. \A x \in Answered' : x \in Answered
  BY <1>1, <1>2, <1>3, <1>7, StagesAre DEF Stages
<1>11. Arrived' \subseteq Arrived
  BY StagesAre DEF Stages
<1>12. Runs(id) = 0
  <2>1. {i \in DOMAIN executed : executed[i] = id} = {}
    BY <1>3 DEF OutcomeInv, Recorded
  <2>. QED  BY <2>1, FS_EmptySet DEF Runs
<1>13. \A i : Runs(i)' = Runs(i)
  BY DEF Runs
<1>14. Apart' /\ Ran'
  <2>. DEFINE A == {m}
              N == {}
  <2>1. /\ \A x \in A : x.id = id
        /\ Disjoint(A, N) /\ Disjoint(N, N)
    BY <1>2 DEF Disjoint
  <2>2. /\ \A x \in Asked' : x \in A \/ (x \in Asked /\ x.id # id)
        /\ \A x \in Served' : x \in Served /\ x.id # id
        /\ \A x \in Answered' : x \in Answered /\ x.id # id
        /\ \A x \in Arrived' : x \in Arrived /\ x.id # id
    BY <1>4, <1>8, <1>9, <1>10, <1>11
  <2>3. Runs(id)' = 0
    BY <1>12, <1>13
  <2>4. \A x \in N \cup N : Tells(x)'
    OBVIOUS
  <2>. HIDE DEF A, N
  <2>5. N = {}
    BY DEF N
  <2>. QED  BY <1>13, <2>1, <2>2, <2>3, <2>4, <2>5, MoveKeeps DEF OutcomeInv
<1>. QED  BY <1>2, <1>3, <1>7, <1>11, <1>14, FlowsStay

LEMMA SendAndWaitTrue ==
  ASSUME DispatchInv, OutcomeInv, NEW e \in Entities, NEW c \in Callers, NEW sf \in Calls(e),
         SendAndWait(e, c, sf)
  PROVE  OutcomeInv'
<1>1. /\ Count(e) /\ UNCHANGED <<serving, executed>> /\ Send(e, NewRequest(e, sf))
      /\ open' = [open EXCEPT ![e][c] = [req |-> NewRequest(e, sf), queue |-> <<>>]]
  BY DEF SendAndWait
<1>2. PICK m : m = NewRequest(e, sf)
  OBVIOUS
<1>3. /\ open' = [open EXCEPT ![e][c] = [req |-> m, queue |-> <<>>]] /\ Send(e, m)
      /\ sf \in Requests(e)
  BY <1>1, <1>2 DEF Requests
<1>4. /\ \A x \in Entities, d \in Callers : x # e \/ d # c => open'[x][d] = open[x][d]
      /\ open'[e][c] = [req |-> m, queue |-> <<>>]
  BY <1>3 DEF DispatchInv, OpenInv
<1>5. Queued(e)' \subseteq Queued(e) /\ Queued(Peer(e))' = Queued(Peer(e))
  BY <1>4, Roles DEF Queued, MessagesIn
<1>6. /\ Placed' /\ Handed' /\ Recorded' /\ (\A x \in Entities : OnceEach(x, transit[x]))'
      /\ Apart' /\ Ran' /\ m.id = <<e, Number(e), sf>> /\ m.sf = sf /\ Known(m.id)'
  BY <1>1, <1>2, <1>3, <1>5, RequestGoes
<1>7. ASSUME NEW x \in Entities, NEW d \in Callers, open'[x][d] # Closed
      PROVE  /\ Known(open[x][d].req.id)' /\ open'[x][d].req.id[1] = x
             /\ open'[x][d].req.id[3] = open'[x][d].req.sf
  <2>1. CASE x = e /\ d = c
    <3>1. open'[x][d].req = m
      BY <1>4, <2>1
    <3>. QED  BY <1>6, <2>1, <3>1 DEF Known
  <2>2. CASE ~(x = e /\ d = c)
    <3>1. open'[x][d] = open[x][d] /\ open[x][d] # Closed
      BY <1>4, <1>7, <2>2
    <3>2. PICK id \in Ids : id = open[x][d].req.id
      BY DEF DispatchInv, OpenInv, Message
    <3>3. Known(id) /\ id[1] = x /\ id[3] = open[x][d].req.sf
      BY <3>1, <3>2 DEF OutcomeInv, Opened, IsOpen
    <3>4. Known(id)'
      BY <1>1, <3>3, KnownStays
    <3>. QED  BY <3>1, <3>2, <3>3, <3>4 DEF Known
  <2>. QED  BY <2>1, <2>2
<1>. QED  BY <1>6, <1>7 DEF OutcomeInv, Opened, IsOpen

LEMMA SendDataMessageTrue ==
  ASSUME DispatchInv, OutcomeInv, NEW e \in Entities, NEW sf \in Notifications(e),
         SendDataMessage(e, sf)
  PROVE  OutcomeInv'
<1>1. /\ Count(e) /\ UNCHANGED <<serving, executed, open>> /\ Send(e, NewRequest(e, sf))
      /\ sf \in Requests(e)
  BY DEF SendDataMessage, Requests
<1>2. PICK m : m = NewRequest(e, sf)
  OBVIOUS
<1>3. Queued(e)' = Queued(e) /\ Queued(Peer(e))' = Queued(Peer(e))
  BY <1>1 DEF Queued
<1>4. /\ Placed' /\ Handed' /\ Recorded' /\ (\A x \in Entities : OnceEach(x, transit[x]))'
      /\ Apart' /\ Ran'
  BY <1>1, <1>2, <1>3, RequestGoes
<1>. QED  BY <1>1, <1>4, FlowsStay DEF OutcomeInv

\* A call ends.
LEMMA HangupTrue ==
  ASSUME DispatchInv, OutcomeInv, NEW e \in Entities, NEW c \in Callers,
         open' = [open EXCEPT ![e][c] = Closed], UNCHANGED counter \/ Count(e)
  PROVE  Opened' /\ Arrived' \subseteq Arrived
<1>1. /\ \A x \in Entities, d \in Callers : x # e \/ d # c => open'[x][d] = open[x][d]
      /\ open'[e][c] = Closed
  BY DEF DispatchInv, OpenInv
<1>2. Closed.queue = <<>>
  BY DEF Closed
<1>3. Queued(e)' \subseteq Queued(e) /\ Queued(Peer(e))' = Queued(Peer(e))
  BY <1>1, <1>2, Roles DEF Queued, MessagesIn
<1>4. Arrived' \subseteq Arrived
  BY <1>3, StagesAre DEF Stages
<1>5. ASSUME NEW x \in Entities, NEW d \in Callers, open'[x][d] # Closed
      PROVE  /\ Known(open[x][d].req.id)' /\ open'[x][d].req.id[1] = x
             /\ open'[x][d].req.id[3] = open'[x][d].req.sf
  <2>1. open'[x][d] = open[x][d] /\ open[x][d] # Closed
    BY <1>1, <1>5
  <2>2. PICK id \in Ids : id = open[x][d].req.id
    BY DEF DispatchInv, OpenInv, Message
  <2>3. Known(id) /\ id[1] = x /\ id[3] = open[x][d].req.sf
    BY <2>1, <2>2 DEF OutcomeInv, Opened, IsOpen
  <2>4. Known(id)'
    BY <2>3, KnownStays
  <2>. QED  BY <2>1, <2>2, <2>3, <2>4 DEF Known
<1>. QED  BY <1>4, <1>5 DEF Opened, IsOpen

LEMMA CallReturnsTrue ==
  ASSUME DispatchInv, OutcomeInv, NEW e \in Entities, NEW c \in Callers, CallReturns(e, c)
  PROVE  OutcomeInv'
<1>1. open' = [open EXCEPT ![e][c] = Closed] /\ UNCHANGED <<counter, serving, transit, executed>>
  BY DEF CallReturns
<1>2. Opened' /\ Arrived' \subseteq Arrived
  BY <1>1, HangupTrue
<1>3. \A x \in Entities : Coming(x)' = Coming(x)
  BY <1>1 DEF Coming
<1>4. Asked' = Asked /\ Served' = Served /\ Answered' = Answered
  BY <1>1 DEF Asked, AskedOf, Served, Answered, AnsweredTo, Coming
<1>5. Apart' /\ Ran'
  BY <1>1, <1>2, <1>4, LessKeeps DEF OutcomeInv
<1>6. Handed' /\ Recorded'
  BY <1>1, <1>2, FlowsStay
<1>7. Placed' /\ (\A x \in Entities : OnceEach(x, transit[x]))'
  BY <1>1, <1>3 DEF OutcomeInv, Placed, Belongs, Known, OnceEach
<1>. QED  BY <1>2, <1>5, <1>6, <1>7 DEF OutcomeInv

LEMMA CallTimesOutTrue ==
  ASSUME DispatchInv, OutcomeInv, NEW e \in Entities, NEW c \in Callers, CallTimesOut(e, c)
  PROVE  OutcomeInv'
<1>. DEFINE p == Peer(e)
<1>1. /\ IsOpen(e, c) /\ open' = [open EXCEPT ![e][c] = Closed] /\ Count(e)
      /\ UNCHANGED <<serving, executed>>
      /\ Send(e, Msg(<<9, 9>>, Number(e), open[e][c].req.id, 1))
  BY DEF CallTimesOut
<1>2. PICK m : m = Msg(<<9, 9>>, Number(e), open[e][c].req.id, 1)
  OBVIOUS
<1>3. /\ Number(e) \in Nat /\ open[e][c].req.id \in Ids /\ <<9, 9>> \in SF
      /\ Known(open[e][c].req.id) /\ open[e][c].req.id[1] = e
  BY <1>1 DEF DispatchInv, Number, OpenInv, Message, SF, OutcomeInv, Opened
<1>4. m \in Message /\ m.sf = <<9, 9>> /\ m.chain = 1 /\ m.id = open[e][c].req.id /\ m.id \in Ids
  BY <1>2, <1>3, MsgIs
<1>5. p \in Entities /\ p # e /\ Peer(p) = e
  BY Roles
<1>6. Known(m.id)'
  BY <1>1, <1>3, <1>4, KnownStays
<1>7. Belongs(p, m)' /\ ~Relevant(p, m)
  BY <1>3, <1>4, <1>5, <1>6 DEF Belongs, Known, Reply, Relevant
<1>8. /\ Placed' /\ (\A x \in Entities : OnceEach(x, transit[x]))'
      /\ Coming(e)' = Coming(e) /\ Coming(p)' = Coming(p) \cup {m}
  BY <1>1, <1>2, <1>4, <1>7, SendPlaces
<1>9. Opened' /\ Arrived' \subseteq Arrived
  BY <1>1, HangupTrue
<1>10. Handed' /\ Recorded'
  BY <1>1, <1>9, FlowsStay
<1>11. Asked' \subseteq Asked /\ Served' \subseteq Served /\ Answered' \subseteq Answered
  BY <1>1, <1>3, <1>4, <1>5, <1>8, StagesAre DEF Stages
<1>12. Apart' /\ Ran'
  BY <1>1, <1>9, <1>11, LessKeeps DEF OutcomeInv
<1>. QED  BY <1>8, <1>9, <1>10, <1>12 DEF OutcomeInv

LEMMA HandlerReturnsTrue ==
  ASSUME DispatchInv, OutcomeInv, NEW e \in Entities, HandlerReturns(e)
  PROVE  OutcomeInv'
<1>. DEFINE p == Peer(e)
<1>1. PICK h : h = serving[e]
  OBVIOUS
<1>2. PICK a : a = AnswerTo(h)
  OBVIOUS
<1>3. /\ h # NoMsg /\ serving' = [serving EXCEPT ![e] = NoMsg] /\ Send(e, a)
      /\ UNCHANGED <<counter, open, executed>>
  BY <1>1, <1>2 DEF HandlerReturns
<1>4. p \in Entities /\ p # e /\ Peer(p) = e
  BY Roles
<1>5. h \in Message /\ h.chain = 0 /\ Primary(h.sf) /\ Known(h.id) /\ h.id[1] = p /\ h.id[3] = h.sf
  BY <1>1, <1>3 DEF DispatchInv, ServingInv, OutcomeInv, Handed
<1>6. a \in Message /\ a.id = h.id /\ a.chain = 1 /\ a.sf = <<h.sf[1], h.sf[2] + 1>>
  <2>1. /\ <<h.sf[1], h.sf[2] + 1>> \in SF /\ h.num \in Nat /\ h.id \in Ids /\ h.chain + 1 = 1
    BY <1>5 DEF Message, SF
  <2>. QED  BY <1>2, <2>1, MsgIs DEF AnswerTo
<1>7. h \in Served
  BY <1>1, <1>3 DEF Served
<1>8. Belongs(p, a)
  BY <1>4, <1>5, <1>6 DEF Belongs
<1>9. \A x \in Coming(p) : Relevant(p, x) => x.id # a.id
  <2>. SUFFICES ASSUME NEW x \in Coming(p), Relevant(p, x) PROVE x.id # h.id
    BY <1>6
  <2>1. CASE x.chain = 0
    BY <1>4, <1>5, <2>1 DEF OutcomeInv, Placed, Belongs
  <2>2. CASE x.id[1] = p
    <3>1. x \in Answered
      BY <1>4, <2>2 DEF Answered, AnsweredTo
    <3>. QED  BY <1>7, <3>1 DEF OutcomeInv, Apart, Disjoint
  <2>. QED  BY <2>1, <2>2 DEF Relevant
<1>10. Belongs(p, a)'
  BY <1>3, <1>8 DEF Belongs, Known
<1>11. /\ Placed' /\ (\A x \in Entities : OnceEach(x, transit[x]))'
       /\ Coming(e)' = Coming(e) /\ Coming(p)' = Coming(p) \cup {a}
  BY <1>3, <1>6, <1>9, <1>10, SendPlaces
<1>12. \A x \in Asked \cup Answered \cup Arrived : x.id # h.id
  BY <1>7 DEF OutcomeInv, Apart, Disjoint
<1>13. serving'[e] = NoMsg /\ serving'[p] = serving[p]
  BY <1>3, <1>4 DEF DispatchInv, ServingInv
<1>14. \A x \in Asked' : x \in Asked
  BY <1>6, <1>11, StagesAre DEF Stages
<1>15. \A x \in Answered' : x \in {a} \/ x \in Answered
  BY <1>11, StagesAre DEF Stages
<1>16. \A x \in Served' : x \in Served /\ x.id # h.id
  <2>1. \A x \in Served' : x = serving[p] /\ x # NoMsg
    BY <1>13, StagesAre DEF Stages
  <2>. QED  BY <1>4, <1>5, <2>1 DEF Served, OutcomeInv, Handed
<1>17. Arrived' = Arrived
  BY <1>3 DEF Arrived, Queued
<1>18. \A i : Runs(i)' = Runs(i)
  BY <1>3 DEF Runs
<1>19. Tells(a)'
  <2>1. Runs(h.id) = 1
    BY <1>7 DEF OutcomeInv, Ran
  <2>2. a.sf[1] = h.sf[1] /\ h.sf[1] # 9
    BY <1>5, <1>6 DEF Primary
  <2>. QED  BY <1>5, <1>6, <1>18, <2>1, <2>2 DEF Tells
<1>20. Apart' /\ Ran'
  <2>. DEFINE C == {a}
              N == {}
  <2>1. /\ \A x \in N \cup N \cup C \cup N : x.id = h.id
        /\ Disjoint(N, N) /\ Disjoint(N, C) /\ Disjoint(C, N)
        /\ (N # {} => Runs(h.id)' = 0) /\ (N # {} => Runs(h.id)' = 1)
    BY <1>6 DEF Disjoint
  <2>2. /\ \A x \in Asked' : x \in N \/ (x \in Asked /\ x.id # h.id)
        /\ \A x \in Served' : x \in N \/ (x \in Served /\ x.id # h.id)
        /\ \A x \in Answered' : x \in C \/ (x \in Answered /\ x.id # h.id)
        /\ \A x \in Arrived' : x \in N \/ (x \in Arrived /\ x.id # h.id)
    BY <1>12, <1>14, <1>15, <1>16, <1>17
  <2>3. \A x \in C \cup N : Tells(x)'
    BY <1>19
  <2>. HIDE DEF C, N
  <2>. QED  BY <1>18, <2>1, <2>2, <2>3, MoveKeeps DEF OutcomeInv
<1>21. Handed'
  BY <1>3, <1>4, <1>13, TwoSides DEF OutcomeInv, Handed, Known
<1>22. Opened' /\ Recorded'
  BY <1>3, <1>17, FlowsStay
<1>. QED  BY <1>11, <1>20, <1>21, <1>22 DEF OutcomeInv

LEMMA RxReplyTrue ==
  ASSUME DispatchInv, OutcomeInv, NEW e \in Entities, RxReply(e)
  PROVE  OutcomeInv'
<1>. DEFINE p == Peer(e)
<1>1. PICK h : h = RxMessage(e)
  OBVIOUS
<1>2. RxTake(e) /\ RxTaken(e) /\ UNCHANGED <<counter, serving, executed>>
  BY DEF RxReply, RxTake
<1>3. PICK c \in Callers : IsOpen(e, c) /\ open' = [open EXCEPT ![e][c].queue = Append(@, h)]
  BY <1>1 DEF RxReply, Waits
<1>4. p \in Entities /\ p # e /\ Peer(p) = e
  BY Roles
<1>5. /\ Placed' /\ (\A x \in Entities : OnceEach(x, transit[x]))'
      /\ h \in Coming(e) /\ Coming(e)' \subseteq Coming(e) /\ Coming(p)' = Coming(p)
      /\ Relevant(e, h) => \A x \in Coming(e)' : Relevant(e, x) => x.id # h.id
  BY <1>1, <1>2, TakenPlaces
<1>6. h \in Message /\ Belongs(e, h) /\ open[e][c].queue \in Seq(Message)
  BY <1>5, ComingAre DEF OutcomeInv, Placed, DispatchInv, OpenInv
<1>7. /\ \A x \in Entities, d \in Callers : x # e \/ d # c => open'[x][d] = open[x][d]
      /\ open'[e][c].queue = Append(open[e][c].queue, h)
      /\ open'[e][c].req = open[e][c].req
  BY <1>3 DEF DispatchInv, OpenInv
<1>8. MessagesIn(Append(open[e][c].queue, h)) = MessagesIn(open[e][c].queue) \cup {h}
  BY <1>6, WithLast
<1>9. Queued(e)' = Queued(e) \cup {h} /\ Queued(p)' = Queued(p)
  <2>1. \A d \in Callers : MessagesIn(open'[e][d].queue) =
                             MessagesIn(open[e][d].queue) \cup (IF d = c THEN {h} ELSE {})
    BY <1>7, <1>8
  <2>2. \A d \in Callers : MessagesIn(open'[p][d].queue) = MessagesIn(open[p][d].queue)
    BY <1>4, <1>7
  <2>. QED  BY <2>1, <2>2 DEF Queued
<1>10. Asked' \subseteq Asked /\ Served' \subseteq Served /\ Answered' \subseteq Answered
  BY <1>2, <1>5, StagesAre DEF Stages
<1>11. Handed'
  BY <1>2, FlowsStay
<1>12. Opened'
  <2>. SUFFICES ASSUME NEW x \in Entities, NEW d \in Callers, open'[x][d] # Closed
                PROVE  /\ Known(open[x][d].req.id)' /\ open'[x][d].req.id[1] = x
                       /\ open'[x][d].req.id[3] = open'[x][d].req.sf
    BY DEF Opened, IsOpen
  <2>1. open[x][d] # Closed /\ open'[x][d].req = open[x][d].req
    BY <1>3, <1>7 DEF IsOpen
  <2>. QED  BY <1>2, <2>1 DEF OutcomeInv, Opened, IsOpen, Known
<1>13. \A x \in Arrived' : x \in Arrived \/ (x = h /\ h.id[1] = e)
  BY <1>9, StagesAre DEF Stages
<1>14. Known(h.id)
  BY <1>6 DEF Belongs
<1>15. Recorded'
  BY <1>2, <1>13, <1>14 DEF OutcomeInv, Recorded, Known
<1>16. CASE h.id[1] # e
  <2>1. Arrived' \subseteq Arrived
    BY <1>13, <1>16
  <2>2. Apart' /\ Ran'
    BY <1>2, <1>10, <2>1, LessKeeps DEF OutcomeInv
  <2>. QED  BY <1>5, <1>11, <1>12, <1>15, <2>2 DEF OutcomeInv
<1>17. CASE h.id[1] = e
  <2>1. h \in Answered /\ Relevant(e, h) /\ h.chain # 0
    BY <1>4, <1>5, <1>6, <1>17 DEF Answered, AnsweredTo, Relevant, Belongs
  <2>2. \A x \in Asked \cup Served \cup Arrived : x.id # h.id
    BY <2>1 DEF OutcomeInv, Apart, Disjoint
  <2>3. \A x \in Answered' : x.id # h.id
    <3>. SUFFICES ASSUME NEW x \in Answered' PROVE x.id # h.id
      OBVIOUS
    <3>1. (x.id[1] = e /\ x \in Coming(e)') \/ x.id[1] = p
      BY StagesAre DEF Stages
    <3>. QED  BY <1>4, <1>5, <1>17, <2>1, <3>1 DEF Relevant
  <2>4. \A i : Runs(i)' = Runs(i)
    BY <1>2 DEF Runs
  <2>5. Tells(h)'
    BY <2>1, <2>4 DEF OutcomeInv, Ran, Tells
  <2>6. Apart' /\ Ran'
    <3>. DEFINE D == {h}
                N == {}
    <3>1. /\ \A x \in N \cup N \cup N \cup D : x.id = h.id
          /\ Disjoint(N, N) /\ Disjoint(N, D)
          /\ (N # {} => Runs(h.id)' = 0) /\ (N # {} => Runs(h.id)' = 1)
      BY DEF Disjoint
    <3>2. /\ \A x \in Asked' : x \in N \/ (x \in Asked /\ x.id # h.id)
          /\ \A x \in Served' : x \in N \/ (x \in Served /\ x.id # h.id)
          /\ \A x \in Answered' : x \in N \/ (x \in Answered /\ x.id # h.id)
          /\ \A x \in Arrived' : x \in D \/ (x \in Arrived /\ x.id # h.id)
      BY <1>10, <1>13, <2>2, <2>3
    <3>3. \A x \in N \cup D : Tells(x)'
      BY <2>5
    <3>. HIDE DEF D, N
    <3>. QED  BY <2>4, <3>1, <3>2, <3>3, MoveKeeps DEF OutcomeInv
  <2>. QED  BY <1>5, <1>11, <1>12, <1>15, <2>6 DEF OutcomeInv
<1>. QED  BY <1>16, <1>17

\* A request that arrives, and an S1F14 that is late.
LEMMA HandledTrue ==
  ASSUME DispatchInv, OutcomeInv, NEW e \in Entities, NEW h \in Coming(e), h.sf \in handlers[e]
  PROVE  /\ IsAnswered(h) => h.chain = 0 /\ Primary(h.sf) /\ h.id[1] = Peer(e) /\ h.id[3] = h.sf
         /\ ~IsAnswered(h) => h.id[1] = e /\ h.chain = 1
         /\ Relevant(e, h) /\ h \in Message /\ h.id \in Ids /\ Known(h.id)
<1>1. h \in Message /\ h.id \in Ids /\ Sound(e, h) /\ Belongs(e, h)
  BY ComingAre DEF OutcomeInv, Placed, Message
<1>2. IsAnswered(h) => h.chain = 0 /\ Primary(h.sf)
  BY <1>1, HandledIs
<1>3. IsAnswered(h) => h.id[3] = h.sf
  BY <1>1, <1>2 DEF Sound
<1>4. ~IsAnswered(h) => h.chain = 1 /\ Reply(h.sf)
  <2>. SUFFICES ASSUME h.sf = <<1, 14>> PROVE h.chain = 1 /\ Reply(h.sf)
    BY DEF IsAnswered
  <2>1. Reply(h.sf) /\ ~Primary(h.sf) /\ h.sf[1] # 9
    BY DEF Reply, Primary
  <2>2. h.sf \notin Requests(Peer(e))
    BY <2>1, Roles, Tables
  <2>. QED  BY <1>1, <2>1, <2>2 DEF Sound
<1>. QED  BY <1>1, <1>2, <1>3, <1>4 DEF Belongs, Relevant

\* A handler was run: the numbers of the requests stay given out.
LEMMA RunRecorded ==
  ASSUME DispatchInv, OutcomeInv, NEW id \in Ids, Known(id), executed' = Append(executed, id),
         UNCHANGED <<counter, open>>
  PROVE  /\ Recorded' /\ Arrived' = Arrived /\ Opened'
         /\ \A i : i # id => Runs(i)' = Runs(i)
         /\ Runs(id) = 0 => Runs(id)' = 1
<1>1. executed \in Seq(Ids) /\ \A i \in DOMAIN executed : Known(executed[i])
  BY DEF OutcomeInv, Recorded
<1>2. \A i \in DOMAIN executed' : Known(executed'[i])
  <2>1. /\ DOMAIN executed = 1..Len(executed) /\ DOMAIN executed' = 1..(Len(executed) + 1)
        /\ Len(executed) \in Nat
        /\ \A i \in 1..Len(executed) : executed'[i] = executed[i]
        /\ executed'[Len(executed) + 1] = id
    BY <1>1
  <2>. QED  BY <1>1, <2>1
<1>3. executed' \in Seq(Ids)
  BY <1>1
<1>4. Arrived' = Arrived
  BY DEF Arrived, Queued
<1>5. Recorded'
  BY <1>2, <1>3, <1>4 DEF OutcomeInv, Recorded, Known
<1>6. Opened'
  BY DEF OutcomeInv, Opened, Known, IsOpen
<1>. QED  BY <1>1, <1>4, <1>5, <1>6, RunsOf

LEMMA HandleAnswered ==
  ASSUME DispatchInv, OutcomeInv, NEW e \in Entities, RxTake(e), NEW h, h = RxMessage(e),
         h \in Coming(e), h.sf \in handlers[e], IsAnswered(h), executed' = Append(executed, h.id),
         NEW a, a = AnswerTo(h), RxTakenAnd(e, a), UNCHANGED <<counter, open, serving>>
  PROVE  OutcomeInv'
<1>. DEFINE p == Peer(e)
<1>1. p \in Entities /\ p # e /\ Peer(p) = e
  BY Roles
<1>2. /\ h.chain = 0 /\ Primary(h.sf) /\ h.id[1] = p /\ h.id[3] = h.sf
      /\ Relevant(e, h) /\ h \in Message /\ h.id \in Ids /\ Known(h.id)
  BY HandledTrue
<1>3. a \in Message /\ a.id = h.id /\ a.chain = 1 /\ a.sf = <<h.sf[1], h.sf[2] + 1>>
  <2>. DEFINE sf == <<h.sf[1], h.sf[2] + 1>>
  <2>1. /\ sf \in SF /\ h.num \in Nat /\ h.id \in Ids /\ h.chain + 1 = 1
    BY <1>2 DEF Message, SF
  <2>2. a = Msg(sf, h.num, h.id, h.chain + 1)
    BY DEF AnswerTo
  <2>. HIDE DEF sf
  <2>3. a = Msg(sf, h.num, h.id, 1)
    BY <2>1, <2>2
  <2>4. a \in Message /\ a.id = h.id /\ a.chain = 1 /\ a.sf = sf
    BY <2>1, <2>3, MsgIs
  <2>. QED  BY <2>4 DEF sf
<1>4. h \in Asked
  BY <1>2 DEF Asked, AskedOf
<1>5. \A x \in Served \cup Answered \cup Arrived : x.id # h.id
  BY <1>4 DEF OutcomeInv, Apart, Disjoint
<1>6. \A x \in Coming(p) : Relevant(p, x) => x.id # a.id
  <2>. SUFFICES ASSUME NEW x \in Coming(p), Relevant(p, x) PROVE x.id # h.id
    BY <1>3
  <2>1. CASE x.chain = 0
    BY <1>1, <1>2, <2>1 DEF OutcomeInv, Placed, Belongs
  <2>2. CASE x.id[1] = p
    BY <1>1, <1>5, <2>2 DEF Answered, AnsweredTo
  <2>. QED  BY <2>1, <2>2 DEF Relevant
<1>7. Belongs(p, a)
  BY <1>1, <1>2, <1>3 DEF Belongs
<1>8. /\ Placed' /\ (\A x \in Entities : OnceEach(x, transit[x]))'
      /\ Coming(e)' \subseteq Coming(e) /\ Coming(p)' = Coming(p) \cup {a}
      /\ \A x \in Coming(e)' : Relevant(e, x) => x.id # h.id
  BY <1>2, <1>3, <1>6, <1>7, TakenAndPlaces
<1>9. /\ Recorded' /\ Arrived' = Arrived /\ Opened'
      /\ \A i : i # h.id => Runs(i)' = Runs(i)
      /\ Runs(h.id) = 0 => Runs(h.id)' = 1
  BY <1>2, RunRecorded
<1>10. \A x \in Asked' : x \in Asked /\ x.id # h.id
  <2>1. ASSUME NEW x \in Asked' PROVE x \in Asked /\ x.id # h.id
    <3>1. x.chain = 0 /\ (x \in Coming(e)' \/ x \in Coming(p))
      BY <1>3, <1>8, StagesAre DEF Stages
    <3>2. CASE x \in Coming(e)'
      BY <1>8, <3>1, <3>2, StagesAre DEF Stages, Relevant
    <3>3. CASE x \in Coming(p)
      BY <1>1, <1>3, <1>6, <3>1, <3>3, StagesAre DEF Stages, Relevant
    <3>. QED  BY <3>1, <3>2, <3>3
  <2>. QED  BY <2>1
<1>11. \A x \in Answered' : x \in {a} \/ (x \in Answered /\ x.id # h.id)
  BY <1>5, <1>8, StagesAre DEF Stages
<1>12. Served' = Served
  BY DEF Served
<1>13. Tells(a)'
  <2>1. Runs(h.id)' = 1
    BY <1>4, <1>9 DEF OutcomeInv, Ran
  <2>2. a.sf[1] = h.sf[1] /\ h.sf[1] # 9
    BY <1>2, <1>3 DEF Primary
  <2>. QED  BY <1>2, <1>3, <2>1, <2>2 DEF Tells
<1>14. Apart' /\ Ran'
  <2>. DEFINE C == {a}
              N == {}
  <2>1. /\ \A x \in N \cup N \cup C \cup N : x.id = h.id
        /\ Disjoint(N, N) /\ Disjoint(N, C) /\ Disjoint(C, N)
        /\ (N # {} => Runs(h.id)' = 0) /\ (N # {} => Runs(h.id)' = 1)
    BY <1>3 DEF Disjoint
  <2>2. /\ \A x \in Asked' : x \in N \/ (x \in Asked /\ x.id # h.id)
        /\ \A x \in Served' : x \in N \/ (x \in Served /\ x.id # h.id)
        /\ \A x \in Answered' : x \in C \/ (x \in Answered /\ x.id # h.id)
        /\ \A x \in Arrived' : x \in N \/ (x \in Arrived /\ x.id # h.id)
    BY <1>5, <1>9, <1>10, <1>11, <1>12
  <2>3. \A x \in C \cup N : Tells(x)'
    BY <1>13
  <2>. HIDE DEF C, N
  <2>. QED  BY <1>9, <2>1, <2>2, <2>3, MoveKeeps DEF OutcomeInv
<1>15. Handed'
  BY FlowsStay
<1>. QED  BY <1>8, <1>9, <1>14, <1>15 DEF OutcomeInv

\* The handler waits for a call of its own.
LEMMA HandleServes ==
  ASSUME DispatchInv, OutcomeInv, NEW e \in Entities, RxTake(e), NEW h, h = RxMessage(e),
         h \in Coming(e), h.sf \in handlers[e], IsAnswered(h), executed' = Append(executed, h.id),
         RxTaken(e), serving' = [serving EXCEPT ![e] = h], UNCHANGED <<counter, open>>
  PROVE  OutcomeInv'
<1>. DEFINE p == Peer(e)
<1>1. p \in Entities /\ p # e /\ Peer(p) = e
  BY Roles
<1>2. /\ h.chain = 0 /\ Primary(h.sf) /\ h.id[1] = p /\ h.id[3] = h.sf
      /\ Relevant(e, h) /\ h \in Message /\ h.id \in Ids /\ Known(h.id)
  BY HandledTrue
<1>3. h \in Asked
  BY <1>2 DEF Asked, AskedOf
<1>4. \A x \in Served \cup Answered \cup Arrived : x.id # h.id
  BY <1>3 DEF OutcomeInv, Apart, Disjoint
<1>5. /\ Placed' /\ (\A x \in Entities : OnceEach(x, transit[x]))'
      /\ Coming(e)' \subseteq Coming(e) /\ Coming(p)' = Coming(p)
      /\ \A x \in Coming(e)' : Relevant(e, x) => x.id # h.id
  BY <1>2, TakenPlaces
<1>6. /\ Recorded' /\ Arrived' = Arrived /\ Opened'
      /\ \A i : i # h.id => Runs(i)' = Runs(i)
      /\ Runs(h.id) = 0 => Runs(h.id)' = 1
  BY <1>2, RunRecorded
<1>7. \A x \in Asked' : x \in Asked /\ x.id # h.id
  <2>1. ASSUME NEW x \in Asked' PROVE x \in Asked /\ x.id # h.id
    <3>1. x.chain = 0 /\ (x \in Coming(e)' \/ x \in Coming(p))
      BY <1>5, StagesAre DEF Stages
    <3>2. CASE x \in Coming(e)'
      BY <1>5, <3>1, <3>2, StagesAre DEF Stages, Relevant
    <3>3. CASE x \in Coming(p)
      <4>1. x.id[1] = e
        BY <1>1, <3>1, <3>3 DEF OutcomeInv, Placed, Belongs
      <4>. QED  BY <1>1, <1>2, <3>1, <3>3, <4>1, StagesAre DEF Stages
    <3>. QED  BY <3>1, <3>2, <3>3
  <2>. QED  BY <2>1
<1>8. \A x \in Answered' : x \in Answered
  BY <1>5, StagesAre DEF Stages
<1>9. serving'[e] = h /\ serving'[p] = serving[p]
  BY <1>1 DEF DispatchInv, ServingInv
<1>10. \A x \in Served' : x \in {h} \/ x \in Served
  BY <1>9, StagesAre DEF Stages
<1>11. Runs(h.id)' = 1
  BY <1>3, <1>6 DEF OutcomeInv, Ran
<1>12. Apart' /\ Ran'
  <2>. DEFINE B == {h}
              N == {}
  <2>1. /\ \A x \in N \cup B \cup N \cup N : x.id = h.id
        /\ Disjoint(N, N) /\ Disjoint(N, B) /\ Disjoint(B, N)
        /\ (N # {} => Runs(h.id)' = 0) /\ (B # {} => Runs(h.id)' = 1)
    BY <1>11 DEF Disjoint
  <2>2. /\ \A x \in Asked' : x \in N \/ (x \in Asked /\ x.id # h.id)
        /\ \A x \in Served' : x \in B \/ (x \in Served /\ x.id # h.id)
        /\ \A x \in Answered' : x \in N \/ (x \in Answered /\ x.id # h.id)
        /\ \A x \in Arrived' : x \in N \/ (x \in Arrived /\ x.id # h.id)
    BY <1>4, <1>6, <1>7, <1>8, <1>10
  <2>3. \A x \in N \cup N : Tells(x)'
    OBVIOUS
  <2>. HIDE DEF B, N
  <2>. QED  BY <1>6, <2>1, <2>2, <2>3, MoveKeeps DEF OutcomeInv
<1>13. Handed'
  BY <1>1, <1>2, <1>9, TwoSides DEF OutcomeInv, Handed, Known
<1>. QED  BY <1>5, <1>6, <1>12, <1>13 DEF OutcomeInv

\* An S1F14 that nobody waits for: its request counts as run twice, and is over.
LEMMA HandleLate ==
  ASSUME DispatchInv, OutcomeInv, NEW e \in Entities, RxTake(e), NEW h, h = RxMessage(e),
         h \in Coming(e), h.sf \in handlers[e], ~IsAnswered(h), executed' = Append(executed, h.id),
         RxTaken(e), UNCHANGED <<counter, open, serving>>
  PROVE  OutcomeInv'
<1>. DEFINE p == Peer(e)
<1>1. p \in Entities /\ p # e /\ Peer(p) = e
  BY Roles
<1>2. h.chain = 1 /\ h.id[1] = e /\ Relevant(e, h) /\ h.id \in Ids /\ Known(h.id)
  BY HandledTrue
<1>3. h \in Answered
  BY <1>2 DEF Answered, AnsweredTo
<1>4. \A x \in Asked \cup Served \cup Arrived : x.id # h.id
  BY <1>3 DEF OutcomeInv, Apart, Disjoint
<1>5. /\ Placed' /\ (\A x \in Entities : OnceEach(x, transit[x]))'
      /\ Coming(e)' \subseteq Coming(e) /\ Coming(p)' = Coming(p)
      /\ \A x \in Coming(e)' : Relevant(e, x) => x.id # h.id
  BY <1>2, TakenPlaces
<1>6. /\ Recorded' /\ Arrived' = Arrived /\ Opened'
      /\ \A i : i # h.id => Runs(i)' = Runs(i)
  BY <1>2, RunRecorded
<1>7. \A x \in Asked' : x \in Asked
  BY <1>5, StagesAre DEF Stages
<1>8. \A x \in Answered' : x \in Answered /\ x.id # h.id
  <2>1. ASSUME NEW x \in Answered' PROVE x \in Answered /\ x.id # h.id
    <3>1. (x.id[1] = e /\ x \in Coming(e)') \/ (x.id[1] = p /\ x \in Coming(p))
      BY <1>5, StagesAre DEF Stages
    <3>. QED  BY <1>1, <1>2, <1>5, <3>1, StagesAre DEF Stages, Relevant
  <2>. QED  BY <2>1
<1>9. Served' = Served
  BY DEF Served
<1>10. Apart' /\ Ran'
  <2>. DEFINE N == {}
  <2>1. /\ \A x \in N \cup N \cup N \cup N : x.id = h.id
        /\ Disjoint(N, N)
        /\ (N # {} => Runs(h.id)' = 0) /\ (N # {} => Runs(h.id)' = 1)
    BY DEF Disjoint
  <2>2. /\ \A x \in Asked' : x \in N \/ (x \in Asked /\ x.id # h.id)
        /\ \A x \in Served' : x \in N \/ (x \in Served /\ x.id # h.id)
        /\ \A x \in Answered' : x \in N \/ (x \in Answered /\ x.id # h.id)
        /\ \A x \in Arrived' : x \in N \/ (x \in Arrived /\ x.id # h.id)
    BY <1>4, <1>6, <1>7, <1>8, <1>9
  <2>3. \A x \in N \cup N : Tells(x)'
    OBVIOUS
  <2>. HIDE DEF N
  <2>. QED  BY <1>6, <2>1, <2>2, <2>3, MoveKeeps DEF OutcomeInv
<1>11. Handed'
  BY FlowsStay
<1>. QED  BY <1>5, <1>6, <1>10, <1>11 DEF OutcomeInv

LEMMA RxHandleTrue ==
  ASSUME DispatchInv, OutcomeInv, NEW e \in Entities, RxHandle(e)
  PROVE  OutcomeInv'
<1>1. PICK h : h = RxMessage(e)
  OBVIOUS
<1>2. PICK a : a = AnswerTo(h)
  OBVIOUS
<1>3. /\ RxTake(e) /\ h.sf \in handlers[e] /\ executed' = Append(executed, h.id)
      /\ UNCHANGED <<counter, open>>
  BY <1>1 DEF RxHandle, RxTake
<1>4. h \in Coming(e)
  <2>1. transit[e] \in Seq(Message) /\ transit[e] # <<>> /\ OnceEach(e, transit[e])
    BY <1>3 DEF RxTake, DispatchInv, TransitInv, OutcomeInv
  <2>. QED  BY <1>1, <2>1, WithoutHead DEF RxMessage, Coming
<1>5. \/ IsAnswered(h) /\ RxTakenAnd(e, a) /\ UNCHANGED serving
      \/ ~IsAnswered(h) /\ RxTaken(e) /\ UNCHANGED serving
      \/ IsAnswered(h) /\ RxTaken(e) /\ serving' = [serving EXCEPT ![e] = h]
  BY <1>1, <1>2 DEF RxHandle
<1>. QED  BY <1>1, <1>2, <1>3, <1>4, <1>5, HandleAnswered, HandleServes, HandleLate

\* Nobody handles the message; about one of stream 9 nothing is said.
LEMMA RxDropped ==
  ASSUME DispatchInv, OutcomeInv, NEW e \in Entities, RxTake(e), RxTaken(e),
         UNCHANGED <<counter, open, serving, executed>>
  PROVE  OutcomeInv'
<1>1. PICK h : h = RxMessage(e)
  OBVIOUS
<1>2. /\ Placed' /\ (\A x \in Entities : OnceEach(x, transit[x]))'
      /\ Coming(e)' \subseteq Coming(e) /\ Coming(Peer(e))' = Coming(Peer(e))
  BY <1>1, TakenPlaces
<1>3. Asked' \subseteq Asked /\ Served' \subseteq Served /\ Answered' \subseteq Answered
  BY <1>2, StagesAre DEF Stages
<1>4. Arrived' = Arrived
  BY DEF Arrived, Queued
<1>5. Apart' /\ Ran'
  BY <1>3, <1>4, LessKeeps DEF OutcomeInv
<1>6. Handed' /\ Opened' /\ Recorded'
  BY <1>4, FlowsStay
<1>. QED  BY <1>2, <1>5, <1>6 DEF OutcomeInv

LEMMA RxUnrecognizedTrue ==
  ASSUME DispatchInv, OutcomeInv, NEW e \in Entities, RxUnrecognized(e)
  PROVE  OutcomeInv'
<1>. DEFINE p == Peer(e)
<1>1. PICK h : h = RxMessage(e)
  OBVIOUS
<1>2. PICK sf : sf = IF isKnownStream(h.sf[1]) THEN <<9, 5>> ELSE <<9, 3>>
  OBVIOUS
<1>3. PICK m : m = Msg(sf, h.num, h.id, h.chain + 1)
  OBVIOUS
<1>4. /\ RxTake(e) /\ h.sf \notin handlers[e]
      /\ UNCHANGED <<counter, open, serving, executed>>
      /\ RxTaken(e) \/ (h.sf[1] # 9 /\ RxTakenAnd(e, m))
  BY <1>1, <1>2, <1>3 DEF RxUnrecognized, RxTake
<1>5. CASE RxTaken(e)
  BY <1>4, <1>5, RxDropped
<1>6. CASE h.sf[1] # 9 /\ RxTakenAnd(e, m)
  <2>1. h \in Coming(e) /\ h = Head(transit[e])
    <3>1. transit[e] \in Seq(Message) /\ transit[e] # <<>> /\ OnceEach(e, transit[e])
      BY <1>4 DEF RxTake, DispatchInv, TransitInv, OutcomeInv
    <3>. QED  BY <1>1, <3>1, WithoutHead DEF RxMessage, Coming
  <2>2. h \in Message /\ Sound(e, h) /\ Belongs(e, h)
    BY <2>1, ComingAre DEF OutcomeInv, Placed
  <2>3. p \in Entities /\ p # e /\ Peer(p) = e
    BY Roles
  <2>4. \/ h.chain = 0 /\ h.id[1] = p
        \/ h.chain = 1 /\ h.id[1] = e
    BY <1>6, <2>2 DEF Sound, Belongs
  <2>5. m \in Message /\ m.sf[1] = 9 /\ m.sf \in SF /\ m.id = h.id /\ m.chain = h.chain + 1
    <3>1. sf \in SF /\ sf[1] = 9 /\ h.num \in Nat /\ h.id \in Ids /\ h.chain + 1 \in Nat
      BY <1>2, <2>2 DEF SF, Message
    <3>2. m \in Message /\ m.sf = sf /\ m.id = h.id /\ m.chain = h.chain + 1
      BY <1>3, <3>1, MsgIs
    <3>. QED  BY <3>1, <3>2
  <2>6. Belongs(p, m)
    BY <2>2, <2>3, <2>4, <2>5 DEF Belongs, Reply
  <2>7. Arrived' = Arrived /\ Served' = Served /\ \A i : Runs(i)' = Runs(i)
    BY <1>4 DEF Arrived, Queued, Served, Runs
  <2>8. Handed' /\ Opened' /\ Recorded'
    BY <1>4, <2>7, FlowsStay
  <2>9. CASE h.chain = 1 /\ h.id[1] = e
    <3>1. m.chain = 2 /\ m.id[1] = e /\ ~Relevant(p, m)
      BY <2>3, <2>5, <2>9 DEF Relevant
    <3>2. /\ Placed' /\ (\A x \in Entities : OnceEach(x, transit[x]))'
          /\ Coming(e)' \subseteq Coming(e) /\ Coming(p)' = Coming(p) \cup {m}
      BY <1>1, <1>4, <1>6, <2>5, <2>6, <3>1, TakenAndPlaces
    <3>3. Asked' \subseteq Asked
      BY <3>1, <3>2, StagesAre DEF Stages
    <3>4. Answered' \subseteq Answered
      BY <2>3, <3>1, <3>2, StagesAre DEF Stages
    <3>5. Apart' /\ Ran'
      BY <1>4, <2>7, <3>3, <3>4, LessKeeps DEF OutcomeInv
    <3>. QED  BY <2>8, <3>2, <3>5 DEF OutcomeInv
  <2>10. CASE h.chain = 0 /\ h.id[1] = p
    <3>1. h \in Asked /\ Relevant(e, h) /\ m.chain = 1
      BY <2>1, <2>5, <2>10 DEF Asked, AskedOf, Relevant
    <3>2. \A x \in Served \cup Answered \cup Arrived : x.id # h.id
      BY <3>1 DEF OutcomeInv, Apart, Disjoint
    <3>3. \A x \in Coming(p) : Relevant(p, x) => x.id # m.id
      <4>. SUFFICES ASSUME NEW x \in Coming(p), Relevant(p, x) PROVE x.id # h.id
        BY <2>5
      <4>1. CASE x.chain = 0
        BY <2>3, <2>10, <4>1 DEF OutcomeInv, Placed, Belongs
      <4>2. CASE x.id[1] = p
        BY <2>3, <3>2, <4>2 DEF Answered, AnsweredTo
      <4>. QED  BY <4>1, <4>2 DEF Relevant
    <3>4. /\ Placed' /\ (\A x \in Entities : OnceEach(x, transit[x]))'
          /\ Coming(e)' \subseteq Coming(e) /\ Coming(p)' = Coming(p) \cup {m}
          /\ \A x \in Coming(e)' : Relevant(e, x) => x.id # h.id
      BY <1>1, <1>4, <1>6, <2>5, <2>6, <3>1, <3>3, TakenAndPlaces
    <3>5. ASSUME NEW x \in Asked' PROVE x \in Asked /\ x.id # h.id
      <4>1. x.chain = 0 /\ (x \in Coming(e)' \/ x \in Coming(p))
        BY <3>1, <3>4, StagesAre DEF Stages
      <4>2. CASE x \in Coming(e)'
        BY <3>4, <4>1, <4>2, StagesAre DEF Stages, Relevant
      <4>3. CASE x \in Coming(p)
        BY <2>5, <3>3, <4>1, <4>3, StagesAre DEF Stages, Relevant
      <4>. QED  BY <4>1, <4>2, <4>3
    <3>6. \A x \in Answered' : x \in {m} \/ (x \in Answered /\ x.id # h.id)
      BY <3>2, <3>4, StagesAre DEF Stages
    <3>7. Tells(m)'
      <4>1. Runs(m.id)' = 0
        BY <2>5, <2>7, <3>1 DEF OutcomeInv, Ran
      <4>. QED  BY <2>5, <4>1 DEF Tells
    <3>8. Apart' /\ Ran'
      <4>. DEFINE C == {m}
                  N == {}
      <4>1. /\ \A x \in N \cup N \cup C \cup N : x.id = h.id
            /\ Disjoint(N, N) /\ Disjoint(N, C) /\ Disjoint(C, N)
            /\ (N # {} => Runs(h.id)' = 0) /\ (N # {} => Runs(h.id)' = 1)
        BY <2>5 DEF Disjoint
      <4>2. /\ \A x \in Asked' : x \in N \/ (x \in Asked /\ x.id # h.id)
            /\ \A x \in Served' : x \in N \/ (x \in Served /\ x.id # h.id)
            /\ \A x \in Answered' : x \in C \/ (x \in Answered /\ x.id # h.id)
            /\ \A x \in Arrived' : x \in N \/ (x \in Arrived /\ x.id # h.id)
        BY <2>7, <3>2, <3>5, <3>6
      <4>3. \A x \in C \cup N : Tells(x)'
        BY <3>7
      <4>. HIDE DEF C, N
      <4>. QED  BY <2>7, <4>1, <4>2, <4>3, MoveKeeps DEF OutcomeInv
    <3>. QED  BY <2>8, <3>4, <3>8 DEF OutcomeInv
  <2>. QED  BY <2>4, <2>9, <2>10
<1>. QED  BY <1>4, <1>5, <1>6

LEMMA OutcomeStart == DispatchInit => OutcomeInv
<1>. SUFFICES ASSUME DispatchInit PROVE OutcomeInv
  OBVIOUS
<1>1. \A e \in Entities : Coming(e) = {} /\ Queued(e) = {} /\ transit[e] = <<>>
  BY DEF DispatchInit, Coming, Queued, MessagesIn, Closed
<1>2. Asked = {} /\ Served = {} /\ Answered = {} /\ Arrived = {}
  BY <1>1 DEF DispatchInit, Asked, AskedOf, Served, Answered, AnsweredTo, Arrived
<1>3. Placed /\ Handed /\ Opened
  BY <1>1 DEF DispatchInit, Placed, Handed, Opened, IsOpen
<1>4. Recorded
  BY <1>2, EmptySeq DEF DispatchInit, Recorded
<1>5. Apart /\ Ran
  BY <1>2 DEF Apart, Ran, Disjoint
<1>6. \A e \in Entities : OnceEach(e, transit[e])
  BY <1>1, EmptySeq DEF OnceEach
<1>. QED  BY <1>3, <1>4, <1>5, <1>6 DEF OutcomeInv

LEMMA OutcomeStep ==
  ASSUME DispatchInv, OutcomeInv, [DispatchNext]_dispatchVars
  PROVE  OutcomeInv'
<1>1. ASSUME NEW e \in Entities, NEW sf \in ForeignRequests, RegisterHandler(e, sf)
      PROVE  UNCHANGED <<counter, open, serving, transit, executed>>
  BY <1>1 DEF RegisterHandler
<1>2. CASE UNCHANGED <<counter, open, serving, transit, executed>>
  <2>1. \A x \in Entities : Coming(x)' = Coming(x)
    BY <1>2 DEF Coming
  <2>2. Asked' = Asked /\ Served' = Served /\ Answered' = Answered /\ Arrived' = Arrived
    BY <1>2 DEF Asked, AskedOf, Served, Answered, AnsweredTo, Coming, Arrived, Queued
  <2>3. Apart' /\ Ran'
    BY <1>2, <2>2, LessKeeps DEF OutcomeInv
  <2>4. Handed' /\ Recorded' /\ Opened'
    <3>1. "host" \in Entities
      BY DEF Entities
    <3>. QED  BY <1>2, <2>2, <3>1, FlowsStay
  <2>5. Placed' /\ (\A x \in Entities : OnceEach(x, transit[x]))'
    BY <1>2, <2>1 DEF OutcomeInv, Placed, Belongs, Known, OnceEach
  <2>. QED  BY <2>3, <2>4, <2>5 DEF OutcomeInv
<1>3. ASSUME NEW e \in Entities, NEW c \in Callers,
             CallReturns(e, c) \/ CallTimesOut(e, c) \/ \E sf \in Calls(e) : SendAndWait(e, c, sf)
      PROVE  OutcomeInv'
  BY <1>3, CallReturnsTrue, CallTimesOutTrue, SendAndWaitTrue
<1>4. ASSUME NEW e \in Entities, NEW sf \in Notifications(e), SendDataMessage(e, sf)
      PROVE  OutcomeInv'
  BY <1>4, SendDataMessageTrue
<1>5. ASSUME NEW e \in Entities,
             RxReply(e) \/ RxHandle(e) \/ HandlerReturns(e) \/ RxUnrecognized(e)
      PROVE  OutcomeInv'
  BY <1>5, RxReplyTrue, RxHandleTrue, HandlerReturnsTrue, RxUnrecognizedTrue
<1>6. UNCHANGED dispatchVars => UNCHANGED <<counter, open, serving, transit, executed>>
  BY DEF dispatchVars
<1>. QED  BY <1>1, <1>2, <1>3, <1>4, <1>5, <1>6 DEF DispatchNext

LEMMA OutcomeTells == DispatchInv /\ OutcomeInv => OutcomeIsTrue
<1>. SUFFICES ASSUME DispatchInv, OutcomeInv, NEW e \in Entities, NEW c \in Callers,
                     IsOpen(e, c), open[e][c].queue # <<>>,
                     NEW m, m = Head(open[e][c].queue), m.id = open[e][c].req.id
              PROVE  IF m.sf[1] = 9 THEN Runs(m.id) = 0
                     ELSE /\ Runs(m.id) = 1
                          /\ m.sf = <<open[e][c].req.sf[1], open[e][c].req.sf[2] + 1>>
  BY DEF OutcomeIsTrue
<1>1. m \in MessagesIn(open[e][c].queue)
  <2>1. open[e][c].queue \in Seq(Message)
    BY DEF DispatchInv, OpenInv
  <2>2. m = open[e][c].queue[1] /\ 1 \in DOMAIN open[e][c].queue
    BY <2>1, HeadTailProperties, EmptySeq, LenProperties
  <2>. QED  BY <2>2 DEF MessagesIn
<1>2. m.id[1] = e /\ m.id[3] = open[e][c].req.sf
  BY DEF OutcomeInv, Opened
<1>3. m \in Arrived
  BY <1>1, <1>2 DEF Arrived, Queued
<1>4. Tells(m)
  BY <1>3 DEF OutcomeInv, Ran
<1>. QED  BY <1>2, <1>4 DEF Tells

(* What SendAndWait returns tells what happened: a message of stream 9 that *)
(* the request was not executed, an answer that it was, once; whatever      *)
(* comes late, in whatever order, unless a message of the peer's own has    *)
(* the number of the request (fetchQueue, invokeHandler).                   *)
THEOREM OutcomeIsTrueHolds == DispatchSpec => []OutcomeIsTrue
<1>. QED  BY DispatchStart, DispatchStep, OutcomeStart, OutcomeStep, OutcomeTells, PTL
          DEF DispatchSpec
-----------------------------------------------------------------------------
(* Whose number a message has.                                             *)

\* The number of a message to e: that of the request it belongs to, or at least
\* one its sender has used.
Fits(e, m) ==
  /\ m.chain = 0 \/ m.id[1] = e => m.num = m.id[2]
  /\ m.id[1] = Peer(e) => m.num <= counter[Peer(e)]

InStages == Asked \cup Served \cup Answered

\* Who waits for what: a request with the number of an open call is its request.
Waited(i, e, c) ==
  IsOpen(e, c) /\ i[1] = e /\ i[2] = open[e][c].req.id[2] => i = open[e][c].req.id

NumbersInv ==
  /\ \A e \in Entities : \A m \in Coming(e) : Fits(e, m)
  /\ \A e \in Entities : serving[e] # NoMsg => serving[e].num = serving[e].id[2]
  /\ \A e \in Entities, c \in Callers :
       IsOpen(e, c) => open[e][c].req.num = open[e][c].req.id[2]
  /\ \A m \in InStages, e \in Entities, c \in Callers : Waited(m.id, e, c)

LEMMA NumbersStart == DispatchInit => NumbersInv
<1>. SUFFICES ASSUME DispatchInit PROVE NumbersInv
  OBVIOUS
<1>1. \A e \in Entities : Coming(e) = {}
  BY DEF DispatchInit, Coming, MessagesIn
<1>2. InStages = {}
  BY <1>1 DEF DispatchInit, InStages, Asked, AskedOf, Served, Answered, AnsweredTo
<1>. QED  BY <1>1, <1>2 DEF DispatchInit, NumbersInv, IsOpen

\* The two queues of messages, when one is sent, or taken and one sent back.
LEMMA SendComes ==
  ASSUME DispatchInv, NEW e \in Entities, NEW m \in Message, Send(e, m)
  PROVE  Coming(e)' = Coming(e) /\ Coming(Peer(e))' = Coming(Peer(e)) \cup {m}
<1>. DEFINE p == Peer(e)
<1>1. p \in Entities /\ p # e /\ transit[p] \in Seq(Message)
  BY Roles DEF DispatchInv, TransitInv
<1>2. transit'[e] = transit[e] /\ transit'[p] = Append(transit[p], m)
  BY <1>1 DEF Send, DispatchInv, TransitInv
<1>3. MessagesIn(Append(transit[p], m)) = MessagesIn(transit[p]) \cup {m}
  BY <1>1, WithLast
<1>. QED  BY <1>2, <1>3 DEF Coming

\* Sent: nothing, or the message sent back.
TakenSending(e, Sent) ==
  \/ Sent = {} /\ RxTaken(e)
  \/ \E m \in Message : Sent = {m} /\ RxTakenAnd(e, m)

LEMMA HeadAndTail ==
  ASSUME NEW s \in Seq(Message), s # <<>>
  PROVE  MessagesIn(s) = {Head(s)} \cup MessagesIn(Tail(s))
<1>1. /\ Tail(s) \in Seq(Message) /\ Len(Tail(s)) = Len(s) - 1 /\ Len(s) \in Nat \ {0}
      /\ Head(s) = s[1] /\ \A i \in 1..Len(Tail(s)) : Tail(s)[i] = s[i + 1]
  BY HeadTailProperties, EmptySeq, LenProperties
<1>2. DOMAIN s = 1..Len(s) /\ DOMAIN Tail(s) = 1..Len(Tail(s))
  BY <1>1
<1>3. ASSUME NEW i \in DOMAIN s PROVE i = 1 \/ \E j \in DOMAIN Tail(s) : Tail(s)[j] = s[i]
  <2>1. CASE i # 1
    <3>1. i - 1 \in 1..Len(Tail(s)) /\ (i - 1) + 1 = i
      BY <1>1, <1>2, <2>1
    <3>. QED  BY <1>1, <1>2, <3>1
  <2>. QED  BY <2>1
<1>4. 1 \in DOMAIN s /\ \A j \in DOMAIN Tail(s) : j + 1 \in DOMAIN s /\ s[j + 1] = Tail(s)[j]
  BY <1>1, <1>2
<1>. QED  BY <1>1, <1>3, <1>4 DEF MessagesIn

LEMMA TakenComes ==
  ASSUME DispatchInv, OutcomeInv, NEW e \in Entities, RxTake(e), NEW Sent, TakenSending(e, Sent),
         NEW h, h = RxMessage(e)
  PROVE  /\ h \in Coming(e) /\ Coming(e) = {h} \cup Coming(e)'
         /\ Coming(Peer(e))' = Coming(Peer(e)) \cup Sent
         /\ Relevant(e, h) => \A x \in Coming(e)' : Relevant(e, x) => x.id # h.id
<1>. DEFINE p == Peer(e)
<1>1. /\ p \in Entities /\ p # e /\ transit[e] \in Seq(Message) /\ transit[e] # <<>>
      /\ transit[p] \in Seq(Message) /\ OnceEach(e, transit[e]) /\ h = Head(transit[e])
  BY Roles DEF DispatchInv, TransitInv, OutcomeInv, RxTake, RxMessage
<1>2. transit'[e] = Tail(transit[e])
  BY <1>1 DEF TakenSending, RxTaken, RxTakenAnd, DispatchInv, TransitInv
<1>3. \/ Sent = {} /\ transit'[p] = transit[p]
      \/ \E m \in Message : Sent = {m} /\ transit'[p] = Append(transit[p], m)
  BY <1>1 DEF TakenSending, RxTaken, RxTakenAnd, DispatchInv, TransitInv
<1>4. Coming(p)' = Coming(p) \cup Sent
  BY <1>1, <1>3, WithLast DEF Coming
<1>5. Relevant(e, h) => \A x \in Coming(e)' : Relevant(e, x) => x.id # h.id
  BY <1>1, <1>2, WithoutHead DEF Coming
<1>. QED  BY <1>1, <1>2, <1>4, <1>5, HeadAndTail DEF Coming

LEMMA FitsStays ==
  ASSUME DispatchInv, NEW e \in Entities, UNCHANGED counter \/ Count(e),
         NEW x \in Entities, NEW m \in Message, Fits(x, m)
  PROVE  Fits(x, m)'
<1>1. \A y \in Entities : counter[y] \in Nat /\ counter'[y] \in Nat /\ counter[y] <= counter'[y]
  BY DEF DispatchInv, Count, Number
<1>2. m.num \in Nat /\ Peer(x) \in Entities
  BY Roles DEF Message
<1>. QED  BY <1>1, <1>2 DEF Fits

\* A step; nid: the new number it gives out, if it does.
LEMMA NumbersGo ==
  ASSUME DispatchInv, OutcomeInv, NumbersInv, NEW e \in Entities, UNCHANGED counter \/ Count(e),
         NEW nid, ~Known(nid), nid[1] \in Entities, nid[2] \in Nat,
         \A x \in Entities : \A m \in Coming(x)' : m \in Coming(x) \/ Fits(x, m)',
         \A x \in Entities : serving'[x] # NoMsg =>
           serving'[x] = serving[x] \/ serving'[x].num = serving'[x].id[2],
         \A x \in Entities, c \in Callers : open'[x][c] # Closed =>
           \/ IsOpen(x, c) /\ open'[x][c].req = open[x][c].req
           \/ open'[x][c].req.id = nid /\ open'[x][c].req.num = nid[2] /\ nid[1] = x,
         \A m \in InStages' : m.id = nid \/ \E n \in InStages : n.id = m.id
  PROVE  NumbersInv'
<1>1. ASSUME NEW x \in Entities, NEW m \in Coming(x)' PROVE Fits(x, m)'
  BY <1>1, ComingAre, FitsStays DEF NumbersInv
<1>2. \A x \in Entities : serving'[x] # NoMsg => serving'[x].num = serving'[x].id[2]
  BY DEF NumbersInv
<1>3. \A x \in Entities, c \in Callers :
        open'[x][c] # Closed => open'[x][c].req.num = open'[x][c].req.id[2]
  BY DEF NumbersInv
<1>4. ASSUME NEW m \in InStages', NEW x \in Entities, NEW c \in Callers,
             open'[x][c] # Closed, m.id[1] = x, m.id[2] = open'[x][c].req.id[2]
      PROVE  m.id = open'[x][c].req.id
  <2>1. CASE m.id = nid /\ IsOpen(x, c) /\ open'[x][c].req = open[x][c].req
    <3>1. Known(open[x][c].req.id) /\ open[x][c].req.id[1] = x
      BY <2>1 DEF OutcomeInv, Opened
    <3>. QED  BY <1>4, <2>1, <3>1 DEF Known
  <2>2. CASE \E n \in InStages : n.id = m.id
    <3>1. PICK n \in InStages : n.id = m.id
      BY <2>2
    <3>2. Known(n.id)
      BY StagesKnown DEF InStages
    <3>3. CASE IsOpen(x, c) /\ open'[x][c].req = open[x][c].req
      BY <1>4, <3>1, <3>3 DEF NumbersInv, Waited
    <3>4. CASE open'[x][c].req.id = nid /\ nid[1] = x
      <4>1. m.id[1] = nid[1] /\ m.id[2] = nid[2]
        BY <1>4, <3>4
      <4>2. Known(m.id)
        BY <3>1, <3>2
      <4>. QED  BY <4>1, <4>2 DEF Known
    <3>. QED  BY <1>4, <3>3, <3>4
  <2>. QED  BY <1>4, <2>1, <2>2
<1>. QED  BY <1>1, <1>2, <1>3, <1>4 DEF NumbersInv, Waited, IsOpen

\* A number not given out yet.
LEMMA NextIsNew ==
  ASSUME DispatchInv, NEW e \in Entities, NEW sf
  PROVE  /\ ~Known(<<e, Number(e), sf>>) /\ Number(e) \in Nat
         /\ <<e, Number(e), sf>>[1] = e /\ <<e, Number(e), sf>>[2] = Number(e)
<1>1. counter[e] \in Nat /\ Number(e) = counter[e] + 1
  BY DEF DispatchInv, Number
<1>. QED  BY <1>1 DEF Known

\* The messages of the stages, by the entity they go to.
LEMMA StagesFlow ==
  ASSUME NEW e \in Entities
  PROVE  /\ \A m : m \in InStages <=>
              \/ m \in Served
              \/ m \in Coming(e) /\ Relevant(e, m)
              \/ m \in Coming(Peer(e)) /\ Relevant(Peer(e), m)
         /\ \A m : m \in InStages' <=>
              \/ m \in Served'
              \/ m \in Coming(e)' /\ Relevant(e, m)
              \/ m \in Coming(Peer(e))' /\ Relevant(Peer(e), m)
BY StagesAre DEF Stages, InStages, Relevant

LEMMA TakenNumbers ==
  ASSUME DispatchInv, OutcomeInv, NumbersInv, NEW e \in Entities, RxTake(e),
         NEW Sent, TakenSending(e, Sent), NEW h, h = RxMessage(e),
         \A m \in Sent : Relevant(e, h) /\ m.id = h.id /\ m.num = h.num /\ m.chain # 0,
         \/ UNCHANGED serving
         \/ h.chain = 0 /\ serving' = [serving EXCEPT ![e] = h],
         \A x \in Entities, c \in Callers : open'[x][c] # Closed =>
           IsOpen(x, c) /\ open'[x][c].req = open[x][c].req
  PROVE  NumbersInv'
<1>. DEFINE p == Peer(e)
            nid == <<e, Number(e), <<1, 1>>>>
<1>1. p \in Entities /\ p # e /\ Peer(p) = e /\ UNCHANGED counter
  BY Roles DEF RxTake
<1>2. h \in Coming(e) /\ Coming(e) = {h} \cup Coming(e)' /\ Coming(p)' = Coming(p) \cup Sent
  BY TakenComes
<1>3. h \in Message /\ Fits(e, h) /\ Known(h.id) /\ (h.chain = 0 => h.id[1] = p)
  BY <1>2, ComingAre DEF NumbersInv, OutcomeInv, Placed, Belongs
<1>4. ASSUME NEW m \in Sent PROVE Fits(p, m)'
  BY <1>1, <1>3 DEF Fits, Relevant, Known
<1>5. \A x \in Entities : \A m \in Coming(x)' : m \in Coming(x) \/ Fits(x, m)'
  BY <1>2, <1>4, TwoSides
<1>6. \A x \in Entities : serving'[x] # NoMsg =>
        serving'[x] = serving[x] \/ serving'[x].num = serving'[x].id[2]
  BY <1>3 DEF Fits, DispatchInv, ServingInv
<1>7. ASSUME NEW m \in Served' PROVE \E n \in InStages : n.id = m.id
  <2>1. CASE UNCHANGED serving
    BY <1>7, <2>1 DEF Served, InStages
  <2>2. CASE h.chain = 0 /\ serving' = [serving EXCEPT ![e] = h]
    <3>1. m = h \/ m \in Served
      BY <1>7, <2>2 DEF Served, DispatchInv, ServingInv
    <3>2. h \in InStages
      BY <1>2, <2>2, StagesFlow DEF Relevant
    <3>. QED  BY <3>1, <3>2 DEF InStages
  <2>. QED  BY <2>1, <2>2
<1>8. ASSUME NEW m \in Coming(e)', Relevant(e, m) PROVE m \in InStages
  BY <1>2, <1>8, StagesFlow
<1>9. ASSUME NEW m \in Coming(p)', Relevant(p, m) PROVE \E n \in InStages : n.id = m.id
  <2>1. CASE m \in Coming(p)
    BY <1>9, <2>1, StagesFlow
  <2>2. CASE m \in Sent
    BY <1>2, <2>2, StagesFlow
  <2>. QED  BY <1>2, <2>1, <2>2
<1>10. \A m \in InStages' : m.id = nid \/ \E n \in InStages : n.id = m.id
  <2>1. ASSUME NEW m \in InStages' PROVE \E n \in InStages : n.id = m.id
    BY <1>7, <1>8, <1>9, <2>1, StagesFlow
  <2>. QED  BY <2>1
<1>11. ~Known(nid) /\ nid[1] \in Entities /\ nid[2] \in Nat
  BY NextIsNew
<1>. HIDE DEF nid
<1>. QED  BY <1>1, <1>5, <1>6, <1>10, <1>11, NumbersGo

\* A message is sent; nid: its number, when it is a request.
LEMMA SendNumbers ==
  ASSUME DispatchInv, OutcomeInv, NumbersInv, NEW e \in Entities, UNCHANGED counter \/ Count(e),
         NEW nid, ~Known(nid), nid[1] \in Entities, nid[2] \in Nat,
         NEW m \in Message, Send(e, m), Fits(Peer(e), m)',
         Relevant(Peer(e), m) => m.id = nid \/ \E n \in InStages : n.id = m.id,
         \A x \in Entities : serving'[x] = serving[x] \/ serving'[x] = NoMsg,
         \A x \in Entities, c \in Callers : open'[x][c] # Closed =>
           \/ IsOpen(x, c) /\ open'[x][c].req = open[x][c].req
           \/ open'[x][c].req.id = nid /\ open'[x][c].req.num = nid[2] /\ nid[1] = x
  PROVE  NumbersInv'
<1>. DEFINE p == Peer(e)
<1>1. p \in Entities /\ p # e /\ Peer(p) = e
  BY Roles
<1>2. Coming(e)' = Coming(e) /\ Coming(p)' = Coming(p) \cup {m}
  BY SendComes
<1>3. \A x \in Entities : \A n \in Coming(x)' : n \in Coming(x) \/ Fits(x, n)'
  BY <1>2, TwoSides
<1>4. Served' \subseteq Served
  BY DEF Served
<1>5. \A n \in InStages' : n.id = nid \/ \E k \in InStages : k.id = n.id
  BY <1>2, <1>4, StagesFlow
<1>. QED  BY <1>3, <1>5, NumbersGo

\* A request is sent, with the next number.
LEMMA RequestNumbers ==
  ASSUME DispatchInv, OutcomeInv, NumbersInv, NEW e \in Entities, NEW sf \in Requests(e),
         Count(e), NEW m, m = NewRequest(e, sf), Send(e, m), UNCHANGED serving,
         \A x \in Entities, c \in Callers : open'[x][c] # Closed =>
           \/ IsOpen(x, c) /\ open'[x][c].req = open[x][c].req
           \/ x = e /\ open'[x][c].req = m
  PROVE  NumbersInv'
<1>. DEFINE nid == <<e, Number(e), sf>>
<1>1. ~Known(nid) /\ Number(e) \in Nat /\ nid[1] = e /\ nid[2] = Number(e) /\ nid[2] \in Nat
  BY NextIsNew
<1>2. m \in Message /\ m.id = nid /\ m.num = nid[2]
  <2>1. sf \in SF /\ nid \in Ids
    BY <1>1, Tables DEF Ids
  <2>. QED  BY <1>1, <2>1, MsgIs DEF NewRequest
<1>3. counter'[e] = Number(e) /\ Peer(Peer(e)) = e
  BY Roles DEF Count, DispatchInv
<1>. HIDE DEF nid
<1>4. Fits(Peer(e), m)'
  BY <1>1, <1>2, <1>3 DEF Fits
<1>5. \A x \in Entities, c \in Callers : open'[x][c] # Closed =>
        \/ IsOpen(x, c) /\ open'[x][c].req = open[x][c].req
        \/ open'[x][c].req.id = nid /\ open'[x][c].req.num = nid[2] /\ nid[1] = x
  BY <1>1, <1>2
<1>. QED  BY <1>1, <1>2, <1>4, <1>5, SendNumbers

LEMMA SendAndWaitNumbers ==
  ASSUME DispatchInv, OutcomeInv, NumbersInv, NEW e \in Entities, NEW c \in Callers,
         NEW sf \in Calls(e), SendAndWait(e, c, sf)
  PROVE  NumbersInv'
<1>1. PICK m : m = NewRequest(e, sf)
  OBVIOUS
<1>2. /\ Count(e) /\ UNCHANGED serving /\ Send(e, m) /\ sf \in Requests(e)
      /\ open' = [open EXCEPT ![e][c] = [req |-> m, queue |-> <<>>]]
  BY <1>1 DEF SendAndWait, Requests
<1>3. /\ \A x \in Entities, d \in Callers : x # e \/ d # c => open'[x][d] = open[x][d]
      /\ open'[e][c] = [req |-> m, queue |-> <<>>]
  BY <1>2 DEF DispatchInv, OpenInv
<1>4. \A x \in Entities, d \in Callers : open'[x][d] # Closed =>
        \/ IsOpen(x, d) /\ open'[x][d].req = open[x][d].req
        \/ x = e /\ open'[x][d].req = m
  BY <1>3 DEF IsOpen
<1>. QED  BY <1>1, <1>2, <1>4, RequestNumbers

LEMMA SendDataMessageNumbers ==
  ASSUME DispatchInv, OutcomeInv, NumbersInv, NEW e \in Entities, NEW sf \in Notifications(e),
         SendDataMessage(e, sf)
  PROVE  NumbersInv'
<1>1. PICK m : m = NewRequest(e, sf)
  OBVIOUS
<1>2. /\ Count(e) /\ UNCHANGED serving /\ Send(e, m) /\ sf \in Requests(e) /\ UNCHANGED open
  BY <1>1 DEF SendDataMessage, Requests
<1>. QED  BY <1>1, <1>2, RequestNumbers DEF IsOpen

\* What an ended call leaves open.
LEMMA OthersOpen ==
  ASSUME DispatchInv, NEW e \in Entities, NEW c \in Callers, open' = [open EXCEPT ![e][c] = Closed]
  PROVE  \A x \in Entities, d \in Callers : open'[x][d] # Closed =>
           IsOpen(x, d) /\ open'[x][d].req = open[x][d].req
<1>1. /\ \A x \in Entities, d \in Callers : x # e \/ d # c => open'[x][d] = open[x][d]
      /\ open'[e][c] = Closed
  BY DEF DispatchInv, OpenInv
<1>. QED  BY <1>1 DEF IsOpen

LEMMA CallReturnsNumbers ==
  ASSUME DispatchInv, OutcomeInv, NumbersInv, NEW e \in Entities, NEW c \in Callers,
         CallReturns(e, c)
  PROVE  NumbersInv'
<1>1. open' = [open EXCEPT ![e][c] = Closed] /\ UNCHANGED <<counter, serving, transit>>
  BY DEF CallReturns
<1>2. /\ InStages' = InStages
      /\ \A x \in Entities : Coming(x)' = Coming(x)
  BY <1>1 DEF InStages, Asked, AskedOf, Served, Answered, AnsweredTo, Coming
<1>. DEFINE nid == <<e, Number(e), <<1, 1>>>>
<1>3. ~Known(nid) /\ nid[1] \in Entities /\ nid[2] \in Nat
  BY NextIsNew
<1>. HIDE DEF nid
<1>4. \A x \in Entities, d \in Callers : open'[x][d] # Closed =>
        IsOpen(x, d) /\ open'[x][d].req = open[x][d].req
  BY <1>1, OthersOpen
<1>. QED  BY <1>1, <1>2, <1>3, <1>4, NumbersGo

LEMMA CallTimesOutNumbers ==
  ASSUME DispatchInv, OutcomeInv, NumbersInv, NEW e \in Entities, NEW c \in Callers,
         CallTimesOut(e, c)
  PROVE  NumbersInv'
<1>. DEFINE p == Peer(e)
            nid == <<e, Number(e), <<9, 9>>>>
<1>1. PICK m : m = Msg(<<9, 9>>, Number(e), open[e][c].req.id, 1)
  OBVIOUS
<1>2. /\ IsOpen(e, c) /\ open' = [open EXCEPT ![e][c] = Closed] /\ Count(e)
      /\ UNCHANGED serving /\ Send(e, m)
  BY <1>1 DEF CallTimesOut
<1>3. open[e][c].req.id \in Ids /\ <<9, 9>> \in SF /\ open[e][c].req.id[1] = e
  BY <1>2 DEF DispatchInv, OpenInv, Message, SF, OutcomeInv, Opened
<1>4. p \in Entities /\ p # e /\ Peer(p) = e
  BY Roles
<1>5. ~Known(nid) /\ nid[1] \in Entities /\ nid[2] \in Nat /\ Number(e) \in Nat
  BY NextIsNew
<1>6. m \in Message /\ m.num = Number(e) /\ m.chain = 1 /\ m.id[1] = e
  BY <1>1, <1>3, <1>5, MsgIs
<1>7. counter'[e] = Number(e)
  BY <1>2 DEF Count, DispatchInv
<1>8. Fits(p, m)' /\ ~Relevant(p, m)
  BY <1>4, <1>5, <1>6, <1>7 DEF Fits, Relevant
<1>. HIDE DEF nid
<1>9. \A x \in Entities, d \in Callers : open'[x][d] # Closed =>
        IsOpen(x, d) /\ open'[x][d].req = open[x][d].req
  BY <1>2, OthersOpen
<1>. QED  BY <1>2, <1>5, <1>6, <1>8, <1>9, SendNumbers

LEMMA HandlerReturnsNumbers ==
  ASSUME DispatchInv, OutcomeInv, NumbersInv, NEW e \in Entities, HandlerReturns(e)
  PROVE  NumbersInv'
<1>. DEFINE p == Peer(e)
            nid == <<e, Number(e), <<1, 1>>>>
<1>1. PICK h : h = serving[e]
  OBVIOUS
<1>2. PICK a : a = AnswerTo(h)
  OBVIOUS
<1>3. /\ h # NoMsg /\ serving' = [serving EXCEPT ![e] = NoMsg] /\ Send(e, a)
      /\ UNCHANGED <<counter, open>>
  BY <1>1, <1>2 DEF HandlerReturns
<1>4. p \in Entities /\ p # e /\ Peer(p) = e
  BY Roles
<1>5. h \in Message /\ h.chain = 0 /\ h.id[1] = p /\ h.num = h.id[2] /\ h \in Served
  BY <1>1, <1>3 DEF DispatchInv, ServingInv, OutcomeInv, Handed, NumbersInv, Served
<1>6. a \in Message /\ a.id = h.id /\ a.chain = 1 /\ a.num = h.num
  <2>1. /\ <<h.sf[1], h.sf[2] + 1>> \in SF /\ h.num \in Nat /\ h.id \in Ids /\ h.chain + 1 = 1
    BY <1>5 DEF Message, SF
  <2>. QED  BY <1>2, <2>1, MsgIs DEF AnswerTo
<1>7. Fits(p, a)'
  BY <1>4, <1>5, <1>6 DEF Fits
<1>8. h \in InStages
  BY <1>5 DEF InStages
<1>9. \A x \in Entities : serving'[x] = serving[x] \/ serving'[x] = NoMsg
  BY <1>3 DEF DispatchInv, ServingInv
<1>10. ~Known(nid) /\ nid[1] \in Entities /\ nid[2] \in Nat
  BY NextIsNew
<1>. HIDE DEF nid
<1>. QED  BY <1>3, <1>6, <1>7, <1>8, <1>9, <1>10, SendNumbers DEF IsOpen

LEMMA RxReplyNumbers ==
  ASSUME DispatchInv, OutcomeInv, NumbersInv, NEW e \in Entities, RxReply(e)
  PROVE  NumbersInv'
<1>1. PICK h : h = RxMessage(e)
  OBVIOUS
<1>2. RxTake(e) /\ RxTaken(e) /\ UNCHANGED serving
  BY DEF RxReply
<1>3. PICK c \in Callers : IsOpen(e, c) /\ open' = [open EXCEPT ![e][c].queue = Append(@, h)]
  BY <1>1 DEF RxReply, Waits
<1>4. /\ \A x \in Entities, d \in Callers : x # e \/ d # c => open'[x][d] = open[x][d]
      /\ open'[e][c].req = open[e][c].req
  BY <1>3 DEF DispatchInv, OpenInv
<1>5. \A x \in Entities, d \in Callers : open'[x][d] # Closed =>
        IsOpen(x, d) /\ open'[x][d].req = open[x][d].req
  BY <1>3, <1>4 DEF IsOpen
<1>6. TakenSending(e, {})
  BY <1>2 DEF TakenSending
<1>. QED  BY <1>1, <1>2, <1>5, <1>6, TakenNumbers

\* The answer to a request that arrives.
LEMMA AnswerTaken ==
  ASSUME DispatchInv, OutcomeInv, NEW e \in Entities, NEW h \in Coming(e), h.sf \in handlers[e],
         IsAnswered(h), NEW a, a = AnswerTo(h)
  PROVE  a \in Message /\ a.id = h.id /\ a.num = h.num /\ a.chain = 1
<1>1. h.chain = 0 /\ h \in Message
  BY HandledTrue
<1>2. PICK sf : sf = <<h.sf[1], h.sf[2] + 1>>
  OBVIOUS
<1>3. sf \in SF /\ h.num \in Nat /\ h.id \in Ids /\ h.chain + 1 = 1
  BY <1>1, <1>2 DEF Message, SF
<1>4. a = Msg(sf, h.num, h.id, 1)
  BY <1>2, <1>3 DEF AnswerTo
<1>. QED  BY <1>3, <1>4, MsgIs

LEMMA HeadComes ==
  ASSUME DispatchInv, OutcomeInv, NEW e \in Entities, RxTake(e)
  PROVE  RxMessage(e) \in Coming(e)
<1>1. transit[e] \in Seq(Message) /\ transit[e] # <<>> /\ OnceEach(e, transit[e])
  BY DEF RxTake, DispatchInv, TransitInv, OutcomeInv
<1>. QED  BY <1>1, WithoutHead DEF RxMessage, Coming

\* What RxHandle sends, and to whom the message belongs.
LEMMA RxHandles ==
  ASSUME DispatchInv, OutcomeInv, NEW e \in Entities, RxHandle(e), NEW h, h = RxMessage(e)
  PROVE  /\ RxTake(e) /\ h \in Coming(e) /\ h.sf \in handlers[e]
         /\ executed' = Append(executed, h.id) /\ UNCHANGED open
         /\ \/ /\ IsAnswered(h) /\ UNCHANGED serving
               /\ \E a : a = AnswerTo(h) /\ TakenSending(e, {a})
            \/ ~IsAnswered(h) /\ TakenSending(e, {}) /\ UNCHANGED serving
            \/ IsAnswered(h) /\ TakenSending(e, {}) /\ serving' = [serving EXCEPT ![e] = h]
<1>1. PICK a : a = AnswerTo(h)
  OBVIOUS
<1>2. /\ RxTake(e) /\ h.sf \in handlers[e]
      /\ executed' = Append(executed, h.id) /\ UNCHANGED open
  BY DEF RxHandle
<1>3. h \in Coming(e)
  BY <1>2, HeadComes
<1>4. IsAnswered(h) => a \in Message
  BY <1>1, <1>2, <1>3, AnswerTaken
<1>5. \/ IsAnswered(h) /\ RxTakenAnd(e, a) /\ UNCHANGED serving
      \/ ~IsAnswered(h) /\ RxTaken(e) /\ UNCHANGED serving
      \/ IsAnswered(h) /\ RxTaken(e) /\ serving' = [serving EXCEPT ![e] = h]
  BY <1>1 DEF RxHandle
<1>. QED  BY <1>1, <1>2, <1>3, <1>4, <1>5 DEF TakenSending

LEMMA RxHandleNumbers ==
  ASSUME DispatchInv, OutcomeInv, NumbersInv, NEW e \in Entities, RxHandle(e)
  PROVE  NumbersInv'
<1>1. PICK h : h = RxMessage(e)
  OBVIOUS
<1>2. /\ RxTake(e) /\ h \in Coming(e) /\ h.sf \in handlers[e] /\ UNCHANGED open
      /\ \/ /\ IsAnswered(h) /\ UNCHANGED serving
            /\ \E a : a = AnswerTo(h) /\ TakenSending(e, {a})
         \/ ~IsAnswered(h) /\ TakenSending(e, {}) /\ UNCHANGED serving
         \/ IsAnswered(h) /\ TakenSending(e, {}) /\ serving' = [serving EXCEPT ![e] = h]
  BY <1>1, RxHandles
<1>3. Relevant(e, h) /\ (IsAnswered(h) => h.chain = 0)
  BY <1>2, HandledTrue
<1>4. \A x \in Entities, d \in Callers : open'[x][d] # Closed =>
        IsOpen(x, d) /\ open'[x][d].req = open[x][d].req
  BY <1>2 DEF IsOpen
<1>5. CASE TakenSending(e, {}) /\ (UNCHANGED serving \/ (h.chain = 0 /\ serving' = [serving EXCEPT ![e] = h]))
  BY <1>1, <1>2, <1>4, <1>5, TakenNumbers
<1>6. ASSUME NEW a, a = AnswerTo(h), TakenSending(e, {a}), IsAnswered(h), UNCHANGED serving
      PROVE  NumbersInv'
  <2>1. a.id = h.id /\ a.num = h.num /\ a.chain = 1
    BY <1>2, <1>6, AnswerTaken
  <2>. QED  BY <1>1, <1>2, <1>3, <1>4, <1>6, <2>1, TakenNumbers
<1>. QED  BY <1>2, <1>3, <1>5, <1>6

\* What RxUnrecognized sends, and about what.
LEMMA RxRefuses ==
  ASSUME DispatchInv, OutcomeInv, NEW e \in Entities, RxUnrecognized(e), NEW h, h = RxMessage(e)
  PROVE  /\ RxTake(e) /\ h \in Coming(e) /\ UNCHANGED <<open, serving, executed>>
         /\ \/ h.sf[1] = 9 /\ TakenSending(e, {})
            \/ /\ Relevant(e, h) /\ h.sf[1] # 9
               /\ \E m : /\ TakenSending(e, {m})
                         /\ m.id = h.id /\ m.num = h.num /\ m.chain = h.chain + 1 /\ m.sf[1] = 9
<1>1. PICK sf : sf = IF isKnownStream(h.sf[1]) THEN <<9, 5>> ELSE <<9, 3>>
  OBVIOUS
<1>2. PICK m : m = Msg(sf, h.num, h.id, h.chain + 1)
  OBVIOUS
<1>3. /\ RxTake(e) /\ UNCHANGED <<open, serving, executed>>
      /\ (h.sf[1] = 9 /\ RxTaken(e)) \/ (h.sf[1] # 9 /\ RxTakenAnd(e, m))
  BY <1>1, <1>2 DEF RxUnrecognized
<1>4. h \in Coming(e)
  BY <1>3, HeadComes
<1>5. h \in Message /\ Sound(e, h) /\ Belongs(e, h)
  BY <1>4, ComingAre DEF OutcomeInv, Placed
<1>6. m \in Message /\ m.id = h.id /\ m.num = h.num /\ m.chain = h.chain + 1 /\ m.sf[1] = 9
  <2>1. sf \in SF /\ sf[1] = 9 /\ h.num \in Nat /\ h.id \in Ids /\ h.chain + 1 \in Nat
    BY <1>1, <1>5 DEF SF, Message
  <2>2. m \in Message /\ m.sf = sf /\ m.id = h.id /\ m.chain = h.chain + 1 /\ m.num = h.num
    BY <1>2, <2>1, MsgIs
  <2>. QED  BY <2>1, <2>2
<1>7. h.sf[1] # 9 => Relevant(e, h)
  BY <1>5 DEF Sound, Belongs, Relevant
<1>. QED  BY <1>3, <1>4, <1>6, <1>7 DEF TakenSending

LEMMA RxUnrecognizedNumbers ==
  ASSUME DispatchInv, OutcomeInv, NumbersInv, NEW e \in Entities, RxUnrecognized(e)
  PROVE  NumbersInv'
<1>1. PICK h : h = RxMessage(e)
  OBVIOUS
<1>2. /\ RxTake(e) /\ h \in Coming(e) /\ UNCHANGED <<open, serving>>
      /\ \/ TakenSending(e, {})
         \/ /\ Relevant(e, h)
            /\ \E m : /\ TakenSending(e, {m})
                      /\ m.id = h.id /\ m.num = h.num /\ m.chain = h.chain + 1
  BY <1>1, RxRefuses
<1>3. h.chain \in Nat
  BY <1>2, ComingAre DEF Message
<1>4. \A x \in Entities, d \in Callers : open'[x][d] # Closed =>
        IsOpen(x, d) /\ open'[x][d].req = open[x][d].req
  BY <1>2 DEF IsOpen
<1>5. CASE TakenSending(e, {})
  BY <1>1, <1>2, <1>4, <1>5, TakenNumbers
<1>6. ASSUME NEW m, TakenSending(e, {m}), Relevant(e, h), m.id = h.id, m.num = h.num, m.chain = h.chain + 1
      PROVE  NumbersInv'
  <2>1. m.chain # 0
    BY <1>3, <1>6
  <2>. QED  BY <1>1, <1>2, <1>4, <1>6, <2>1, TakenNumbers
<1>. QED  BY <1>2, <1>5, <1>6

LEMMA NumbersStep ==
  ASSUME DispatchInv, OutcomeInv, NumbersInv, [DispatchNext]_dispatchVars
  PROVE  NumbersInv'
<1>1. ASSUME NEW e \in Entities, NEW sf \in ForeignRequests, RegisterHandler(e, sf)
      PROVE  UNCHANGED <<counter, open, serving, transit>>
  BY <1>1 DEF RegisterHandler
<1>2. CASE UNCHANGED <<counter, open, serving, transit>>
  <2>1. InStages' = InStages /\ \A x \in Entities : Coming(x)' = Coming(x)
    BY <1>2 DEF InStages, Asked, AskedOf, Served, Answered, AnsweredTo, Coming
  <2>2. \A m \in InStages, x \in Entities, c \in Callers : Waited(m.id, x, c)' <=> Waited(m.id, x, c)
    BY <1>2 DEF Waited, IsOpen
  <2>3. \A x \in Entities : \A m \in Coming(x) : Fits(x, m)' <=> Fits(x, m)
    BY <1>2 DEF Fits
  <2>. QED  BY <1>2, <2>1, <2>2, <2>3 DEF NumbersInv, IsOpen
<1>3. ASSUME NEW e \in Entities, NEW c \in Callers,
             CallReturns(e, c) \/ CallTimesOut(e, c) \/ \E sf \in Calls(e) : SendAndWait(e, c, sf)
      PROVE  NumbersInv'
  BY <1>3, CallReturnsNumbers, CallTimesOutNumbers, SendAndWaitNumbers
<1>4. ASSUME NEW e \in Entities, NEW sf \in Notifications(e), SendDataMessage(e, sf)
      PROVE  NumbersInv'
  BY <1>4, SendDataMessageNumbers
<1>5. ASSUME NEW e \in Entities,
             RxReply(e) \/ RxHandle(e) \/ HandlerReturns(e) \/ RxUnrecognized(e)
      PROVE  NumbersInv'
  BY <1>5, RxReplyNumbers, RxHandleNumbers, HandlerReturnsNumbers, RxUnrecognizedNumbers
<1>6. UNCHANGED dispatchVars => UNCHANGED <<counter, open, serving, transit>>
  BY DEF dispatchVars
<1>. QED  BY <1>1, <1>2, <1>3, <1>4, <1>5, <1>6 DEF DispatchNext
-----------------------------------------------------------------------------
(* The calls are remote calls.                                             *)

LEMMA UnderwayIs ==
  /\ \A i : i \in Underway <=> \E m \in Asked : m.id = i
  /\ \A i : i \in Underway' <=> \E m \in Asked' : m.id = i
<1>1. \A m : m \in InTransit <=> \E e \in Entities : m \in Coming(e)
  BY DEF InTransit, Coming, MessagesIn
<1>2. \A m : m \in InTransit' <=> \E e \in Entities : m \in Coming(e)'
  BY DEF InTransit, Coming, MessagesIn
<1>. QED  BY <1>1, <1>2 DEF Underway, Asked, AskedOf

LEMMA UnderwayStays ==
  ASSUME UNCHANGED transit
  PROVE  Underway' = Underway
BY DEF Underway, InTransit

LEMMA UnderwaySent ==
  ASSUME DispatchInv, NEW e \in Entities, NEW m \in Message, Send(e, m)
  PROVE  /\ m.chain = 0 => Underway' = Underway \cup {m.id}
         /\ m.chain # 0 => Underway' = Underway
<1>1. Coming(e)' = Coming(e) /\ Coming(Peer(e))' = Coming(Peer(e)) \cup {m}
  BY SendComes
<1>2. \A x : x \in Asked' <=> x \in Asked \/ (x = m /\ m.chain = 0)
  BY <1>1, StagesAre DEF Stages
<1>. QED  BY <1>2, UnderwayIs

LEMMA UnderwayTaken ==
  ASSUME DispatchInv, OutcomeInv, NEW e \in Entities, RxTake(e),
         NEW Sent, TakenSending(e, Sent), NEW h, h = RxMessage(e), \A m \in Sent : m.chain # 0
  PROVE  /\ h.chain = 0 => h.id \in Underway /\ Underway' = Underway \ {h.id}
         /\ h.chain # 0 => Underway' = Underway
<1>. DEFINE p == Peer(e)
<1>1. p \in Entities /\ p # e /\ Peer(p) = e
  BY Roles
<1>2. /\ h \in Coming(e) /\ Coming(e) = {h} \cup Coming(e)'
      /\ Coming(p)' = Coming(p) \cup Sent
      /\ Relevant(e, h) => \A x \in Coming(e)' : Relevant(e, x) => x.id # h.id
  BY TakenComes
<1>3. \A x : x \in Asked <=> (x \in Asked' \/ (x = h /\ h.chain = 0))
  BY <1>2, StagesAre DEF Stages
<1>4. ASSUME h.chain = 0, NEW x \in Asked' PROVE x.id # h.id
  <2>1. x.chain = 0 /\ (x \in Coming(e)' \/ x \in Coming(p))
    BY <1>2, StagesAre DEF Stages
  <2>2. CASE x \in Coming(e)'
    BY <1>2, <1>4, <2>1, <2>2 DEF Relevant
  <2>3. CASE x \in Coming(p)
    BY <1>1, <1>2, <1>4, <2>1, <2>3 DEF OutcomeInv, Placed, Belongs
  <2>. QED  BY <2>1, <2>2, <2>3
<1>. QED  BY <1>3, <1>4, UnderwayIs

LEMMA DoneIs ==
  ASSUME OutcomeInv, NEW i
  PROVE  /\ Runs(i) = 0 => i \notin Remote!Done
         /\ Runs(i) = 1 => i \in Remote!Done
<1>. DEFINE S == {k \in DOMAIN executed : executed[k] = i}
<1>1. IsFiniteSet(S)
  <2>1. DOMAIN executed = 1..Len(executed) /\ Len(executed) \in Nat
    BY DEF OutcomeInv, Recorded
  <2>2. IsFiniteSet(1..Len(executed)) /\ S \subseteq 1..Len(executed)
    BY <2>1, FS_Interval
  <2>. HIDE DEF S
  <2>. QED  BY <2>2, FS_Subset
<1>2. Runs(i) = Cardinality(S)
  BY DEF Runs
<1>3. S = {} <=> i \notin Remote!Done
  BY DEF Remote!Done
<1>. HIDE DEF S
<1>4. Cardinality(S) = 0 <=> S = {}
  BY <1>1, FS_EmptySet
<1>. QED  BY <1>2, <1>3, <1>4

\* A caller and what its call is mapped to.
LEMMA CallIs ==
  ASSUME DispatchInv, OutcomeInv, NEW e \in Entities, NEW c \in Callers
  PROVE  /\ <<e, c>> \in Entities \X Callers /\ <<e, c>>[1] = e
         /\ CallOf[<<e, c>>] = open[e][c].req.id /\ ToldOf[<<e, c>>] = Told(open[e][c])
         /\ Remote!IsCalling(<<e, c>>) <=> IsOpen(e, c)
<1>1. /\ <<e, c>> \in Entities \X Callers /\ <<e, c>>[1] = e /\ <<e, c>>[2] = c
  OBVIOUS
<1>2. CallOf[<<e, c>>] = open[e][c].req.id /\ ToldOf[<<e, c>>] = Told(open[e][c])
  BY <1>1 DEF CallOf, ToldOf
<1>3. NoMsg.id[1] = "none" /\ e # "none"
  BY DEF NoMsg, Msg, Entities
<1>4. IsOpen(e, c) => open[e][c].req.id # NoMsg.id
  BY <1>3 DEF OutcomeInv, Opened
<1>5. ~IsOpen(e, c) => open[e][c].req.id = NoMsg.id
  BY DEF IsOpen, Closed
<1>. QED  BY <1>1, <1>2, <1>4, <1>5 DEF Remote!IsCalling

LEMMA Changed ==
  ASSUME NEW S, NEW f, NEW g, f = [x \in S |-> f[x]], g = [x \in S |-> g[x]],
         NEW a \in S, NEW v, \A x \in S : g[x] = IF x = a THEN v ELSE f[x]
  PROVE  g = [f EXCEPT ![a] = v]
<1>1. [f EXCEPT ![a] = v] = [x \in S |-> IF x = a THEN v ELSE f[x]]
  OBVIOUS
<1>. QED  BY <1>1

\* What it is mapped to after a step that makes it o.
Becomes(e, c, o) ==
  /\ CallOf' = [CallOf EXCEPT ![<<e, c>>] = o.req.id]
  /\ ToldOf' = [ToldOf EXCEPT ![<<e, c>>] = Told(o)]

LEMMA OneCall ==
  ASSUME DispatchInv, NEW e \in Entities, NEW c \in Callers, NEW o, open' = [open EXCEPT ![e][c] = o]
  PROVE  Becomes(e, c, o)
<1>. DEFINE C == Entities \X Callers
<1>1. \A d \in C :
        open'[d[1]][d[2]] = IF d = <<e, c>> THEN o ELSE open[d[1]][d[2]]
  BY DEF DispatchInv, OpenInv
<1>2. <<e, c>> \in C
  OBVIOUS
<1>3. CallOf' = [CallOf EXCEPT ![<<e, c>>] = o.req.id]
  <2>1. \A d \in C : CallOf'[d] = IF d = <<e, c>> THEN o.req.id ELSE CallOf[d]
    BY <1>1 DEF CallOf
  <2>2. CallOf = [d \in C |-> CallOf[d]] /\ CallOf' = [d \in C |-> CallOf'[d]]
    BY DEF CallOf
  <2>. HIDE DEF C
  <2>. QED  BY <1>2, <2>1, <2>2, Changed
<1>4. ToldOf' = [ToldOf EXCEPT ![<<e, c>>] = Told(o)]
  <2>1. ToldOf' = [d \in C |-> Told(open'[d[1]][d[2]])]
    BY DEF ToldOf, Told
  <2>2. \A d \in C : ToldOf'[d] = IF d = <<e, c>> THEN Told(o) ELSE ToldOf[d]
    BY <1>1, <2>1 DEF ToldOf
  <2>3. ToldOf = [d \in C |-> ToldOf[d]] /\ ToldOf' = [d \in C |-> ToldOf'[d]]
    BY <2>1 DEF ToldOf
  <2>. HIDE DEF C
  <2>. QED  BY <1>2, <2>2, <2>3, Changed
<1>. QED  BY <1>3, <1>4 DEF Becomes

LEMMA CallsStay ==
  ASSUME UNCHANGED open
  PROVE  CallOf' = CallOf /\ ToldOf' = ToldOf
BY DEF CallOf, ToldOf, Told

LEMMA SendAndWaitCalls ==
  ASSUME DispatchInv, OutcomeInv, NEW e \in Entities, NEW c \in Callers, NEW sf \in Calls(e),
         SendAndWait(e, c, sf)
  PROVE  Remote!Next
<1>. DEFINE id == <<e, Number(e), sf>>
            k  == <<e, c>>
<1>1. PICK m : m = NewRequest(e, sf)
  OBVIOUS
<1>2. PICK o : o = [req |-> m, queue |-> <<>>]
  OBVIOUS
<1>3. /\ ~IsOpen(e, c) /\ Count(e) /\ Send(e, m) /\ UNCHANGED executed
      /\ open' = [open EXCEPT ![e][c] = o]
  BY <1>1, <1>2 DEF SendAndWait
<1>4. m \in Message /\ m.id = id /\ m.chain = 0
  <2>1. sf \in SF /\ Number(e) \in Nat /\ id \in Ids
    BY Tables, NextIsNew DEF Requests, Ids
  <2>. QED  BY <1>1, <2>1, MsgIs DEF NewRequest
<1>5. Underway' = Underway \cup {id}
  BY <1>3, <1>4, UnderwaySent
<1>6. CallOf' = [CallOf EXCEPT ![k] = id] /\ ToldOf' = [ToldOf EXCEPT ![k] = "nothing"]
  <2>1. o.req.id = id /\ Told(o) = "nothing"
    BY <1>2, <1>4 DEF Told
  <2>2. Becomes(e, c, o)
    BY <1>3, OneCall
  <2>. QED  BY <2>1, <2>2 DEF Becomes
<1>7. k \in Entities \X Callers /\ k[1] = e /\ ~Remote!IsCalling(k) /\ ToldOf[k] = "nothing"
  <2>1. Told(open[e][c]) = "nothing"
    BY <1>3 DEF IsOpen, Closed, Told
  <2>. QED  BY <1>3, <2>1, CallIs
<1>8. ToldOf' = ToldOf
  BY <1>6, <1>7 DEF ToldOf
<1>9. id[1] = e /\ id[2] = counter[e] + 1 /\ counter' = [counter EXCEPT ![e] = counter[e] + 1]
  BY <1>3 DEF Number, Count
<1>. HIDE DEF id, k
<1>10. Remote!Issue(id)
  BY <1>5, <1>9 DEF Remote!Issue, Remote!Asker, Remote!NumOf
<1>11. Remote!Call(k, id)
  BY <1>3, <1>6, <1>7, <1>8, <1>9, <1>10 DEF Remote!Call, Remote!Asker
<1>. QED  BY <1>5, <1>7, <1>11 DEF Remote!Next

LEMMA SendDataMessageNotifies ==
  ASSUME DispatchInv, NEW e \in Entities, NEW sf \in Notifications(e), SendDataMessage(e, sf)
  PROVE  Remote!Next
<1>. DEFINE id == <<e, Number(e), sf>>
<1>1. PICK m : m = NewRequest(e, sf)
  OBVIOUS
<1>2. Count(e) /\ Send(e, m) /\ UNCHANGED <<executed, open>>
  BY <1>1 DEF SendDataMessage
<1>3. m \in Message /\ m.id = id /\ m.chain = 0
  <2>1. sf \in SF /\ Number(e) \in Nat /\ id \in Ids
    BY Tables, NextIsNew DEF Requests, Ids
  <2>. QED  BY <1>1, <2>1, MsgIs DEF NewRequest
<1>4. Underway' = Underway \cup {id}
  BY <1>2, <1>3, UnderwaySent
<1>5. id[1] = e /\ id[2] = counter[e] + 1 /\ counter' = [counter EXCEPT ![e] = counter[e] + 1]
  BY <1>2 DEF Number, Count
<1>. HIDE DEF id
<1>6. Remote!Issue(id)
  BY <1>4, <1>5 DEF Remote!Issue, Remote!Asker, Remote!NumOf
<1>7. Remote!Notify(id)
  BY <1>2, <1>6, CallsStay DEF Remote!Notify
<1>. QED  BY <1>4, <1>7 DEF Remote!Next

LEMMA CallEnds ==
  ASSUME DispatchInv, OutcomeInv, NEW e \in Entities, NEW c \in Callers, IsOpen(e, c),
         NEW o, o = Closed, open' = [open EXCEPT ![e][c] = o], Underway' = Underway, UNCHANGED executed
  PROVE  Remote!HangUp(<<e, c>>)
<1>1. o.req.id = NoMsg.id /\ Told(o) = "nothing"
  BY DEF Closed, Told
<1>2. Becomes(e, c, o)
  BY OneCall
<1>. QED  BY <1>1, <1>2, CallIs DEF Becomes, Remote!HangUp

LEMMA CallReturnsReturns ==
  ASSUME DispatchInv, OutcomeInv, NEW e \in Entities, NEW c \in Callers, CallReturns(e, c)
  PROVE  Remote!Next
<1>1. /\ IsOpen(e, c) /\ open[e][c].queue # <<>> /\ open' = [open EXCEPT ![e][c] = Closed]
      /\ UNCHANGED <<counter, transit, executed>>
  BY DEF CallReturns
<1>2. Remote!HangUp(<<e, c>>)
  BY <1>1, UnderwayStays, CallEnds
<1>3. Told(open[e][c]) # "nothing"
  BY <1>1 DEF Told
<1>4. Remote!Return(<<e, c>>)
  BY <1>1, <1>2, <1>3, CallIs DEF Remote!Return
<1>. QED  BY <1>1, <1>4, CallIs DEF Remote!Next

LEMMA CallTimesOutTimesOut ==
  ASSUME DispatchInv, OutcomeInv, NEW e \in Entities, NEW c \in Callers, CallTimesOut(e, c)
  PROVE  Remote!Next
<1>1. PICK m : m = Msg(<<9, 9>>, Number(e), open[e][c].req.id, 1)
  OBVIOUS
<1>2. /\ IsOpen(e, c) /\ open[e][c].queue = <<>> /\ open' = [open EXCEPT ![e][c] = Closed]
      /\ Count(e) /\ UNCHANGED executed /\ Send(e, m)
  BY <1>1 DEF CallTimesOut
<1>3. open[e][c].req.id \in Ids /\ <<9, 9>> \in SF /\ Number(e) \in Nat
  BY NextIsNew DEF DispatchInv, OpenInv, Message, SF
<1>4. m \in Message /\ m.chain = 1
  BY <1>1, <1>3, MsgIs
<1>5. Underway' = Underway
  BY <1>2, <1>4, UnderwaySent
<1>6. Remote!HangUp(<<e, c>>)
  BY <1>2, <1>5, CallEnds
<1>7. Told(open[e][c]) = "nothing"
  BY <1>2 DEF Told
<1>8. counter' = [counter EXCEPT ![e] = counter[e] + 1]
  BY <1>2 DEF Count, Number
<1>9. Remote!TimeOut(<<e, c>>)
  BY <1>6, <1>7, <1>8, CallIs DEF Remote!TimeOut
<1>. QED  BY <1>2, <1>9, CallIs DEF Remote!Next

LEMMA RxHandleExecutes ==
  ASSUME DispatchInv, OutcomeInv, NEW e \in Entities, RxHandle(e)
  PROVE  Remote!Next
<1>1. PICK h : h = RxMessage(e)
  OBVIOUS
<1>2. /\ RxTake(e) /\ h \in Coming(e) /\ h.sf \in handlers[e]
      /\ executed' = Append(executed, h.id) /\ UNCHANGED open
      /\ \/ /\ IsAnswered(h) /\ UNCHANGED serving
            /\ \E a : a = AnswerTo(h) /\ TakenSending(e, {a})
         \/ ~IsAnswered(h) /\ TakenSending(e, {}) /\ UNCHANGED serving
         \/ IsAnswered(h) /\ TakenSending(e, {}) /\ serving' = [serving EXCEPT ![e] = h]
  BY <1>1, RxHandles
<1>3. UNCHANGED <<counter, CallOf, ToldOf>>
  BY <1>2, CallsStay DEF RxTake
<1>4. /\ IsAnswered(h) => h.chain = 0
      /\ ~IsAnswered(h) => h.id[1] = e /\ h.chain = 1
      /\ h \in Message /\ h.id \in Ids
  BY <1>2, HandledTrue
<1>5. \E Sent : TakenSending(e, Sent) /\ \A m \in Sent : m.chain # 0
  <2>1. CASE TakenSending(e, {})
    BY <2>1
  <2>2. ASSUME NEW a, a = AnswerTo(h), IsAnswered(h), TakenSending(e, {a})
        PROVE  TakenSending(e, {a}) /\ \A m \in {a} : m.chain # 0
    <3>1. a.chain = 1
      BY <1>2, <2>2, AnswerTaken
    <3>. QED  BY <2>2, <3>1
  <2>. QED  BY <1>2, <2>1, <2>2
<1>6. /\ h.chain = 0 => h.id \in Underway /\ Underway' = Underway \ {h.id}
      /\ h.chain # 0 => Underway' = Underway
  BY <1>1, <1>2, <1>5, UnderwayTaken
<1>7. CASE IsAnswered(h)
  <2>1. Remote!Execute(h.id)
    BY <1>2, <1>3, <1>4, <1>6, <1>7 DEF Remote!Execute
  <2>. QED  BY <1>4, <1>6, <1>7, <2>1 DEF Remote!Next
<1>8. CASE ~IsAnswered(h)
  <2>1. h \in Answered
    BY <1>2, <1>4, <1>8, StagesAre DEF Stages
  <2>2. Tells(h) /\ h.sf = <<1, 14>>
    BY <1>8, <2>1 DEF OutcomeInv, Ran, IsAnswered
  <2>3. Runs(h.id) = 1 /\ h.sf = <<h.id[3][1], h.id[3][2] + 1>>
    BY <2>2 DEF Tells
  <2>4. h.id[3] = <<1, 13>>
    BY <1>4, <2>2, <2>3 DEF Ids, SF
  <2>5. h.id \in Remote!Done
    BY <2>3, DoneIs
  <2>6. Remote!Confirm(h.id)
    BY <1>2, <1>3, <1>4, <1>6, <1>8, <2>4, <2>5 DEF Remote!Confirm, Remote!Kind
  <2>. QED  BY <2>5, <2>6 DEF Remote!Next
<1>. QED  BY <1>7, <1>8

LEMMA RxUnrecognizedRefuses ==
  ASSUME DispatchInv, OutcomeInv, NEW e \in Entities, RxUnrecognized(e)
  PROVE  Remote!Next \/ UNCHANGED Remote!vars
<1>1. PICK h : h = RxMessage(e)
  OBVIOUS
<1>2. /\ RxTake(e) /\ h \in Coming(e) /\ UNCHANGED <<open, executed>>
      /\ \/ TakenSending(e, {})
         \/ \E m : TakenSending(e, {m}) /\ m.chain = h.chain + 1
  BY <1>1, RxRefuses
<1>3. UNCHANGED <<counter, CallOf, ToldOf>>
  BY <1>2, CallsStay DEF RxTake
<1>4. h.chain \in Nat
  BY <1>2, ComingAre DEF Message
<1>5. \E Sent : TakenSending(e, Sent) /\ \A m \in Sent : m.chain # 0
  <2>1. CASE TakenSending(e, {})
    BY <2>1
  <2>2. ASSUME NEW m, m.chain = h.chain + 1, TakenSending(e, {m})
        PROVE  TakenSending(e, {m}) /\ \A x \in {m} : x.chain # 0
    BY <1>4, <2>2
  <2>. QED  BY <1>2, <2>1, <2>2
<1>6. /\ h.chain = 0 => h.id \in Underway /\ Underway' = Underway \ {h.id}
      /\ h.chain # 0 => Underway' = Underway
  BY <1>1, <1>2, <1>5, UnderwayTaken
<1>7. CASE h.chain = 0
  <2>1. Remote!Refuse(h.id)
    BY <1>2, <1>3, <1>6, <1>7 DEF Remote!Refuse
  <2>. QED  BY <1>6, <1>7, <2>1 DEF Remote!Next
<1>8. CASE h.chain # 0
  BY <1>2, <1>3, <1>6, <1>8 DEF Remote!vars
<1>. QED  BY <1>7, <1>8

\* What a call is told by the message its queue begins with.
LEMMA FirstTold ==
  ASSUME DispatchInv, OutcomeInv, NumbersInv, NEW e \in Entities, NEW c \in Callers, IsOpen(e, c),
         NEW h \in Coming(e), h.chain # 0, h.num = open[e][c].req.num
  PROVE  IF h.id # open[e][c].req.id THEN open[e][c].req.id[2] <= counter[Peer(e)]
         ELSE IF h.sf[1] = 9 THEN h.id \notin Remote!Done \cup Underway
         ELSE h.id \in Remote!Done
<1>. DEFINE id == open[e][c].req.id
<1>1. Fits(e, h) /\ Belongs(e, h) /\ id[1] = e /\ h.num = id[2]
  BY DEF NumbersInv, OutcomeInv, Placed, Opened
<1>2. h.id[1] = e \/ h.id[1] = Peer(e)
  BY <1>1, TwoSides DEF Belongs, Known
<1>3. h.id[1] = e => h \in Answered
  BY StagesAre DEF Stages
<1>4. ASSUME h.id # id PROVE id[2] <= counter[Peer(e)]
  <2>1. h.id[1] = e => Waited(h.id, e, c) /\ h.num = h.id[2]
    BY <1>1, <1>3 DEF NumbersInv, InStages, Fits
  <2>2. h.id[1] # e
    BY <1>1, <1>4, <2>1 DEF Waited
  <2>. QED  BY <1>1, <1>2, <2>2 DEF Fits
<1>5. ASSUME h.id = id PROVE h \in Answered /\ Tells(h)
  BY <1>1, <1>3, <1>5 DEF OutcomeInv, Ran
<1>6. ASSUME h.id = id, h.sf[1] = 9 PROVE h.id \notin Remote!Done \cup Underway
  <2>1. h.id \notin Remote!Done
    BY <1>5, <1>6, DoneIs DEF Tells
  <2>2. \A m \in Asked : m.id # h.id
    BY <1>5, <1>6 DEF OutcomeInv, Apart, Disjoint
  <2>. QED  BY <2>1, <2>2, UnderwayIs
<1>7. ASSUME h.id = id, h.sf[1] # 9 PROVE h.id \in Remote!Done
  BY <1>5, <1>7, DoneIs DEF Tells
<1>. QED  BY <1>4, <1>6, <1>7

LEMMA RxReplyTells ==
  ASSUME DispatchInv, OutcomeInv, NumbersInv, NEW e \in Entities, RxReply(e)
  PROVE  Remote!Next \/ UNCHANGED Remote!vars
<1>1. PICK h : h = RxMessage(e)
  OBVIOUS
<1>2. RxTake(e) /\ RxTaken(e) /\ UNCHANGED <<counter, executed>>
  BY DEF RxReply, RxTake
<1>3. PICK c \in Callers : /\ IsOpen(e, c) /\ h.num = open[e][c].req.num
                           /\ open' = [open EXCEPT ![e][c].queue = Append(@, h)]
  BY <1>1 DEF RxReply, Waits
<1>. DEFINE q  == open[e][c].queue
            id == open[e][c].req.id
            k  == <<e, c>>
<1>4. h \in Coming(e) /\ h \in Message /\ q \in Seq(Message) /\ h.num = id[2] /\ id[1] = e
  BY <1>1, <1>2, <1>3, HeadComes, ComingAre DEF DispatchInv, OpenInv, NumbersInv, OutcomeInv, Opened
<1>5. PICK o : o = [open[e][c] EXCEPT !.queue = Append(q, h)]
  OBVIOUS
<1>6. open' = [open EXCEPT ![e][c] = o]
  BY <1>3, <1>5
<1>7. Becomes(e, c, o) /\ o.req = open[e][c].req /\ o.queue = Append(q, h)
  <2>1. Becomes(e, c, o)
    BY <1>6, OneCall
  <2>2. open[e][c] \in [req : Message, queue : Seq(Message)]
    BY DEF DispatchInv, OpenInv
  <2>. QED  BY <1>5, <2>1, <2>2
<1>8. /\ k \in Entities \X Callers /\ k[1] = e /\ Remote!IsCalling(k)
      /\ CallOf[k] = id /\ ToldOf[k] = Told(open[e][c])
  BY <1>3, CallIs
<1>9. CallOf' = CallOf /\ ToldOf' = [ToldOf EXCEPT ![k] = Told(o)]
  <2>1. CallOf' = [CallOf EXCEPT ![k] = id] /\ ToldOf' = [ToldOf EXCEPT ![k] = Told(o)]
    BY <1>7 DEF Becomes
  <2>2. PICK f : f = CallOf
    OBVIOUS
  <2>3. f = [x \in Entities \X Callers |-> f[x]]
    BY <2>2 DEF CallOf
  <2>4. [f EXCEPT ![k] = f[k]] = f
    BY <2>3
  <2>. QED  BY <1>8, <2>1, <2>2, <2>4
<1>10. TakenSending(e, {})
  BY <1>2 DEF TakenSending
<1>11. /\ h.chain = 0 => h.id \in Underway /\ Underway' = Underway \ {h.id}
       /\ h.chain # 0 => Underway' = Underway
  BY <1>1, <1>2, <1>10, UnderwayTaken
<1>12. /\ q # <<>> => Told(o) = Told(open[e][c]) /\ Told(open[e][c]) # "nothing"
       /\ q = <<>> => /\ Told(open[e][c]) = "nothing"
                      /\ Told(o) = IF h.id # id THEN "other"
                                   ELSE IF h.sf[1] = 9 THEN "refused" ELSE "done"
  <2>1. /\ Append(q, h) # <<>>
        /\ q # <<>> => Head(Append(q, h)) = Head(q)
        /\ q = <<>> => Head(Append(q, h)) = h
    BY <1>4
  <2>. QED  BY <1>7, <2>1 DEF Told
<1>13. CASE h.chain = 0
  <2>1. h.id[1] = Peer(e) /\ Peer(e) # e /\ h.num = h.id[2]
    BY <1>4, <1>13, Roles DEF OutcomeInv, Placed, Belongs, NumbersInv, Fits
  <2>2. Told(o) = IF ToldOf[k] = "nothing" THEN "other" ELSE ToldOf[k]
    BY <1>4, <1>8, <1>12, <2>1
  <2>3. Remote!Mistake(k, h.id)
    BY <1>2, <1>4, <1>8, <1>9, <1>11, <1>13, <2>1, <2>2
       DEF Remote!Mistake, Remote!Asker, Remote!NumOf
  <2>. QED  BY <1>8, <1>11, <1>13, <2>3 DEF Remote!Next
<1>14. CASE h.chain # 0 /\ q # <<>>
  <2>1. ToldOf' = ToldOf
    BY <1>8, <1>9, <1>12, <1>14 DEF ToldOf
  <2>. QED  BY <1>2, <1>9, <1>11, <1>14, <2>1 DEF Remote!vars
<1>15. CASE h.chain # 0 /\ q = <<>>
  <2>1. IF h.id # id THEN id[2] <= counter[Peer(e)]
        ELSE IF h.sf[1] = 9 THEN h.id \notin Remote!Done \cup Underway
        ELSE h.id \in Remote!Done
    BY <1>3, <1>4, <1>15, FirstTold
  <2>2. PICK what : what = Told(o)
    OBVIOUS
  <2>3. /\ what \in {"done", "refused", "other"}
        /\ what = "done" => id \in Remote!Done
        /\ what = "refused" => id \notin Remote!Done \cup Underway
        /\ what = "other" => \E x \in Entities \ {e} : id[2] <= counter[x]
    BY <1>12, <1>15, <2>1, <2>2, Roles
  <2>4. Remote!Tell(k, what)
    BY <1>2, <1>8, <1>9, <1>11, <1>12, <1>15, <2>2, <2>3 DEF Remote!Tell, Remote!NumOf
  <2>. QED  BY <1>8, <2>3, <2>4 DEF Remote!Next
<1>. QED  BY <1>13, <1>14, <1>15

LEMMA HandlerReturnsUnseen ==
  ASSUME DispatchInv, OutcomeInv, NEW e \in Entities, HandlerReturns(e)
  PROVE  UNCHANGED Remote!vars
<1>1. PICK h : h = serving[e]
  OBVIOUS
<1>2. h # NoMsg /\ Send(e, AnswerTo(h)) /\ UNCHANGED <<counter, open, executed>>
  BY <1>1 DEF HandlerReturns
<1>3. h \in Message /\ h.chain = 0
  BY <1>1, <1>2 DEF DispatchInv, ServingInv
<1>4. PICK sf : sf = <<h.sf[1], h.sf[2] + 1>>
  OBVIOUS
<1>5. PICK a : a = Msg(sf, h.num, h.id, h.chain + 1)
  OBVIOUS
<1>6. sf \in SF /\ h.num \in Nat /\ h.id \in Ids /\ h.chain + 1 = 1
  BY <1>3, <1>4 DEF Message, SF
<1>7. a \in Message /\ a.chain = 1 /\ Send(e, a)
  BY <1>2, <1>4, <1>5, <1>6, MsgIs DEF AnswerTo
<1>8. Underway' = Underway
  BY <1>7, UnderwaySent
<1>. QED  BY <1>2, <1>8, CallsStay DEF Remote!vars

LEMMA RemoteStart == DispatchAssumption /\ DispatchInit => Remote!Init
<1>. SUFFICES ASSUME DispatchAssumption, DispatchInit PROVE Remote!Init
  OBVIOUS
<1>1. Underway = {}
  BY DEF DispatchInit, Underway, InTransit
<1>2. CallOf = [c \in Entities \X Callers |-> NoMsg.id]
  BY DEF DispatchInit, CallOf, Closed
<1>3. ToldOf = [c \in Entities \X Callers |-> "nothing"]
  BY DEF DispatchInit, ToldOf, Told, Closed
<1>4. counter \in [Entities -> Nat] /\ executed = <<>>
  BY DEF DispatchInit, DispatchAssumption
<1>. QED  BY <1>1, <1>2, <1>3, <1>4 DEF Remote!Init

LEMMA RemoteStep ==
  ASSUME DispatchInv, OutcomeInv, NumbersInv, [DispatchNext]_dispatchVars
  PROVE  [Remote!Next]_Remote!vars
<1>1. ASSUME NEW e \in Entities, NEW sf \in ForeignRequests, RegisterHandler(e, sf)
      PROVE  UNCHANGED <<counter, open, transit, executed>>
  BY <1>1 DEF RegisterHandler
<1>2. UNCHANGED dispatchVars => UNCHANGED <<counter, open, transit, executed>>
  BY DEF dispatchVars
<1>3. CASE UNCHANGED <<counter, open, transit, executed>>
  BY <1>3, CallsStay, UnderwayStays DEF Remote!vars
<1>4. ASSUME NEW e \in Entities, NEW c \in Callers,
             CallReturns(e, c) \/ CallTimesOut(e, c) \/ \E sf \in Calls(e) : SendAndWait(e, c, sf)
      PROVE  Remote!Next
  BY <1>4, CallReturnsReturns, CallTimesOutTimesOut, SendAndWaitCalls
<1>5. ASSUME NEW e \in Entities, NEW sf \in Notifications(e), SendDataMessage(e, sf)
      PROVE  Remote!Next
  BY <1>5, SendDataMessageNotifies
<1>6. ASSUME NEW e \in Entities,
             RxReply(e) \/ RxHandle(e) \/ HandlerReturns(e) \/ RxUnrecognized(e)
      PROVE  Remote!Next \/ UNCHANGED Remote!vars
  BY <1>6, RxReplyTells, RxHandleExecutes, HandlerReturnsUnseen, RxUnrecognizedRefuses
<1>. QED  BY <1>1, <1>2, <1>3, <1>4, <1>5, <1>6 DEF DispatchNext

(* What the functions that call SendAndWait may rely on: the peer executes  *)
(* a request once or never, whatever was told is true, and a call is told   *)
(* about another request only where the peer has used its number itself     *)
(* (SendAndWait, fetchQueue, invokeHandler, sendS9ErrorForUnrecognized).    *)
THEOREM CallsImplementedHolds == DispatchSpec => CallsImplemented
<1>1. DispatchInit => DispatchInv /\ OutcomeInv /\ NumbersInv /\ Remote!Init
  BY DispatchStart, OutcomeStart, NumbersStart, RemoteStart, DispatchAssumption
<1>2. DispatchInv /\ OutcomeInv /\ NumbersInv /\ [DispatchNext]_dispatchVars
        => DispatchInv' /\ OutcomeInv' /\ NumbersInv' /\ [Remote!Next]_Remote!vars
  BY DispatchStep, OutcomeStep, NumbersStep, RemoteStep
<1>. QED  BY <1>1, <1>2, PTL DEF DispatchSpec, CallsImplemented, Remote!Spec
=============================================================================
