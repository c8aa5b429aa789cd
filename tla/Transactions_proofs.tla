------------------------- MODULE Transactions_proofs -------------------------
(***************************************************************************)
(* Theorems about Transactions for any callers and any bounds: types, no   *)
(* confusion of system IDs, no leak of reply queues, late answers, and the *)
(* refinement of RequestReply.                                             *)
(***************************************************************************)
EXTENDS Transactions, TLAPS

\* Positions between TakeNumber and the return of the call.
Numbered == {"register"} \cup Published

\* A caller in a position that uses its system ID has one.
HasNumber == \A c \in Callers : pc[c] \in Numbered => sys[c] # 0

\* Queues exist where the callers and the receive loop use them.
QueueExists ==
  /\ registered \subseteq DOMAIN deque
  /\ \A c \in Callers : pc[c] \in Published => sys[c] \in DOMAIN deque
  /\ rx.at # "idle" => rx.msg.sys \in DOMAIN deque

\* A queue holds only messages with its own system ID.
OwnQueue == \A s \in DOMAIN deque : \A i \in DOMAIN deque[s] : deque[s][i].sys = s

\* A call has no answer before it has a system ID.
NoEarlyAnswer == \A c \in Callers : pc[c] = "number" => ~Answered(c)

\* A system ID on the wire was taken by a call that has got past its Send.
SentOnce ==
  /\ sent \subseteq 1..counter
  /\ \A c \in Callers : sys[c] \in sent => pc[c] \notin {"register", "send"}

\* Replies answer requests.
RepliesAnswer ==
  /\ \A m \in asked : m.sys \in sent
  /\ \A i \in DOMAIN wire : wire[i].kind = "reply" => wire[i].sys \in sent

\* A reply without a queue belongs to no call that is under way.
UnmatchedIsOver ==
  \A m \in unmatched : m.kind = "reply" =>
    /\ m.sys \in sent
    /\ \A c \in Callers : sys[c] = m.sys => pc[c] \notin Published

TypeInv == TypeOK /\ HasNumber /\ QueueExists

IdInv == TypeInv /\ IdsDistinct /\ NoQueueLeak

AnswerInv == IdInv /\ OwnQueue /\ NoEarlyAnswer /\ OwnAnswer

LateInv == IdInv /\ SentOnce /\ RepliesAnswer /\ UnmatchedIsOver

-----------------------------------------------------------------------------
(* Types.                                                                  *)

\* What a call may return.
LEMMA ResultTypes ==
  /\ Pending \in Results
  /\ \A e \in Errors : Failed(e) \in Results
  /\ \A c \in Callers, m \in Msgs : ValueOf(c, m) \in Results
BY DEF Results, ValueOf, Errors

\* What NewHsmsProtocol sets up has its types.
LEMMA TypeInit == Init => TypeInv
BY TransactionsAssumption DEF Init, TypeInv, TypeOK, HasNumber, QueueExists,
   Callers, Pcs, Published, Numbered, Results, Pending, RxAt, RxIdle

\* Every step preserves the types.
LEMMA TypeStep == TypeInv /\ [Next]_vars => TypeInv'
<1> SUFFICES ASSUME TypeInv, [Next]_vars PROVE TypeInv'
  OBVIOUS
<1> USE TransactionsAssumption DEF TypeInv, TypeOK, HasNumber, QueueExists,
        Pcs, Published, Numbered
<1>1. ASSUME NEW c \in Callers, Call(c) PROVE TypeInv'
  <2>1. result' \in [Callers -> Results]
    BY <1>1, ResultTypes DEF Call, Finish, Errors
  <2>2. pc' \in [Callers -> Pcs]
    BY <1>1 DEF Call, Finish, Goto
  <2>3. sys' \in [Callers -> 0..counter']
    BY <1>1 DEF Call
  <2>4. HasNumber' /\ QueueExists'
    BY <1>1 DEF Call, Finish, Goto, rxVars
  <2> QED
    BY <1>1, <2>1, <2>2, <2>3, <2>4 DEF Call, peerVars, rxVars
<1>2. ASSUME NEW c \in Callers, TakeNumber(c) PROVE TypeInv'
  BY <1>2 DEF TakeNumber, TakeNumberAs, Goto, peerVars, rxVars
<1>3. ASSUME NEW c \in Callers, CreateQueue(c) PROVE TypeInv'
  <2>1. sys[c] \in 1..counter
    BY <1>3 DEF CreateQueue
  <2>2. registered' \subseteq 1..counter' /\ DOMAIN deque' \subseteq 1..counter'
    BY <1>3, <2>1 DEF CreateQueue
  <2>3. deque' \in [DOMAIN deque' -> Seq(Msgs)]
    BY <1>3 DEF CreateQueue
  <2>4. pc' \in [Callers -> Pcs]
    BY <1>3 DEF CreateQueue, Goto
  <2>5. HasNumber' /\ QueueExists'
    BY <1>3 DEF CreateQueue, Goto, rxVars
  <2> QED
    BY <1>3, <2>2, <2>3, <2>4, <2>5 DEF CreateQueue, peerVars, rxVars
<1>4. ASSUME NEW c \in Callers, SendRequest(c) PROVE TypeInv'
  <2>1. AnswerTo(c) \in Msgs
    BY <1>4 DEF SendRequest, AnswerTo, Msgs, Kinds
  <2>2. result' \in [Callers -> Results]
    BY <1>4, ResultTypes DEF SendRequest, Finish, Errors
  <2>3. pc' \in [Callers -> Pcs]
    BY <1>4 DEF SendRequest, Finish, Goto
  <2>4. sent' \subseteq Nat /\ asked' \subseteq Msgs
    BY <1>4, <2>1 DEF SendRequest
  <2>5. HasNumber' /\ QueueExists'
    BY <1>4 DEF SendRequest, Finish, Goto, rxVars
  <2> QED
    BY <1>4, <2>2, <2>3, <2>4, <2>5 DEF SendRequest, rxVars
<1>5. ASSUME NEW c \in Callers, GetCheck(c) PROVE TypeInv'
  <2> DEFINE q == deque[sys[c]]
  <2>1. CASE q # <<>>
    <3>1. q \in Seq(Msgs) /\ Head(q) \in Msgs /\ Tail(q) \in Seq(Msgs)
      BY <1>5, <2>1 DEF GetCheck
    <3>2. ValueOf(c, Head(q)) \in Results
      BY <3>1, ResultTypes
    <3>3. result' \in [Callers -> Results]
      BY <1>5, <2>1, <3>2 DEF GetCheck, Finish
    <3>4. pc' \in [Callers -> Pcs]
      BY <1>5, <2>1 DEF GetCheck, Finish, Goto
    <3>5. DOMAIN deque' = DOMAIN deque
      BY <1>5 DEF GetCheck
    <3>6. deque' \in [DOMAIN deque -> Seq(Msgs)]
      BY <1>5, <3>1 DEF GetCheck
    <3>7. HasNumber' /\ QueueExists'
      BY <1>5, <2>1, <3>5 DEF GetCheck, Finish, Goto, rxVars
    <3> QED
      BY <1>5, <3>3, <3>4, <3>5, <3>6, <3>7 DEF GetCheck, peerVars, rxVars
  <2>2. CASE q = <<>>
    BY <1>5, <2>2, ResultTypes
       DEF GetCheck, TimedOut, Finish, Goto, Errors, peerVars, rxVars
  <2> QED
    BY <2>1, <2>2
<1>6. ASSUME NEW c \in Callers, GetSelect(c) PROVE TypeInv'
  BY <1>6 DEF GetSelect, Goto, peerVars, rxVars
<1>7. ASSUME NEW c \in Callers, Expire(c) PROVE TypeInv'
  BY <1>7 DEF Expire, peerVars, rxVars
<1>8. ASSUME NEW c \in Callers, GetTimeout(c) PROVE TypeInv'
  BY <1>8, ResultTypes DEF GetTimeout, GetTimeoutIf, TimedOut, Finish, Goto,
     Errors, peerVars, rxVars
<1>9. ASSUME NEW c \in Callers, SendS9F9(c) PROVE TypeInv'
  BY <1>9 DEF SendS9F9, Goto, peerVars, rxVars
<1>10. ASSUME NEW c \in Callers, RemoveQueue(c) PROVE TypeInv'
  BY <1>10 DEF RemoveQueue, RemoveQueueIf, Goto, peerVars, rxVars
<1>11. CASE RxDispatch
  <2>1. Head(wire) \in Msgs /\ wire' \in Seq(Msgs)
    BY <1>11 DEF RxDispatch
  <2>2. rx' \in RxAt /\ unmatched' \subseteq Msgs
    BY <1>11, <2>1 DEF RxDispatch, RxAt
  <2>3. HasNumber' /\ QueueExists'
    BY <1>11 DEF RxDispatch, RxIdle, callerVars
  <2> QED
    BY <1>11, <2>1, <2>2, <2>3 DEF RxDispatch, callerVars, peerVars
<1>12. CASE RxPush
  <2>1. rx.msg \in Msgs /\ rx.msg.sys \in DOMAIN deque /\ rx' \in RxAt
    <3>1. rx.at = "push" /\ rx' = [rx EXCEPT !.at = "notify"]
      BY <1>12 DEF RxPush, PushTo
    <3>2. rx \in [at : {"push", "notify"}, msg : Msgs]
      BY <3>1 DEF RxAt, RxIdle
    <3>3. rx' \in [at : {"push", "notify"}, msg : Msgs]
      BY <3>1, <3>2
    <3> QED
      BY <3>1, <3>2, <3>3 DEF RxAt
  <2>2. DOMAIN deque' = DOMAIN deque /\ deque' \in [DOMAIN deque -> Seq(Msgs)]
    BY <1>12, <2>1 DEF RxPush, PushTo
  <2>3. HasNumber' /\ QueueExists'
    BY <1>12, <2>2 DEF RxPush, PushTo, RxAt, RxIdle, callerVars
  <2> QED
    BY <1>12, <2>1, <2>2, <2>3 DEF RxPush, PushTo, callerVars, peerVars
<1>13. CASE RxNotify
  BY <1>13 DEF RxNotify, RxAt, RxIdle, callerVars, peerVars
<1>14. CASE PeerAnswer
  BY <1>14 DEF PeerAnswer, callerVars, rxVars
<1>15. CASE PeerStray
  <2>2. wire' \in Seq(Msgs)
    <3>1. PICK m : m \in [kind : {"primary"}, sys : PeerIds]
                       \cup [kind : {"reply", "control"}, sys : sent]
                   /\ wire' = Append(wire, m)
      BY <1>15 DEF PeerStray
    <3>2. m \in Msgs
      BY <3>1 DEF Msgs, Kinds
    <3> QED
      BY <3>1, <3>2
  <2>3. strays' \in 0..MaxStray
    BY <1>15 DEF PeerStray
  <2> QED
    BY <1>15, <2>2, <2>3 DEF PeerStray, callerVars, rxVars
<1>16. CASE Drop
  <2>1. wire' \in Seq(Msgs) /\ asked' \subseteq Msgs /\ drops' \in 0..MaxDrops
    BY <1>16 DEF Drop
  <2> QED
    BY <1>16, <2>1 DEF Drop, callerVars, rxVars
<1>17. CASE Reselect
  BY <1>17 DEF Reselect, callerVars, peerVars, rxVars
<1>18. CASE UNCHANGED vars
  BY <1>18 DEF vars, callerVars, peerVars, rxVars
<1> QED
  BY <1>1, <1>2, <1>3, <1>4, <1>5, <1>6, <1>7, <1>8, <1>9, <1>10, <1>11,
     <1>12, <1>13, <1>14, <1>15, <1>16, <1>17, <1>18
     DEF Next, CallerStep, Receiver

\* Every value has its type, whatever the callers, the peer and the network do.
THEOREM TypeCorrect == Spec => []TypeOK
<1>1. TypeInv => TypeOK
  BY DEF TypeInv
<1> QED
  BY <1>1, TypeInit, TypeStep, PTL DEF Spec

-----------------------------------------------------------------------------
(* System IDs and the reply queues published under them.                   *)

\* A step keeps NoQueueLeak when it moves no caller in or out of Published and
\* leaves systemQueues alone.
LEMMA SameQueues ==
  ASSUME NoQueueLeak, registered' = registered,
         \A c \in Callers : /\ pc'[c] \in Published <=> pc[c] \in Published
                            /\ pc[c] \in Published => sys'[c] = sys[c]
  PROVE  NoQueueLeak'
<1>1. \A s : s \in registered <=>
              \E c \in Callers : pc[c] \in Published /\ s = sys[c]
  BY DEF NoQueueLeak
<1>2. \A s : s \in registered' <=>
              \E c \in Callers : pc'[c] \in Published /\ s = sys'[c]
  BY <1>1
<1> QED
  BY <1>2 DEF NoQueueLeak

\* No call is under way and no queue is published at the start.
LEMMA IdInit == Init => IdInv
BY TypeInit DEF Init, IdInv, IdsDistinct, NoQueueLeak, Published

\* Every step keeps system IDs distinct and systemQueues exact.
LEMMA IdStep == IdInv /\ [Next]_vars => IdInv'
<1> SUFFICES ASSUME IdInv, [Next]_vars PROVE IdsDistinct' /\ NoQueueLeak'
  BY TypeStep DEF IdInv
<1> USE DEF IdInv, IdsDistinct, TypeInv, TypeOK, Pcs, Published
<1>1. ASSUME NEW c \in Callers, Call(c) PROVE IdsDistinct' /\ NoQueueLeak'
  <2>1. IdsDistinct'
    BY <1>1 DEF Call
  <2>2. NoQueueLeak'
    BY <1>1, SameQueues DEF Call, Finish, Goto
  <2> QED
    BY <2>1, <2>2
<1>2. ASSUME NEW c \in Callers, TakeNumber(c)
      PROVE  IdsDistinct' /\ NoQueueLeak'
  <2>1. IdsDistinct'
    BY <1>2 DEF TakeNumber, TakeNumberAs
  <2>2. NoQueueLeak'
    BY <1>2, SameQueues DEF TakeNumber, TakeNumberAs, Goto
  <2> QED
    BY <2>1, <2>2
<1>3. ASSUME NEW c \in Callers, CreateQueue(c)
      PROVE  IdsDistinct' /\ NoQueueLeak'
  <2>1. \A d \in Callers : pc'[d] \in Published <=> pc[d] \in Published \/ d = c
    BY <1>3 DEF CreateQueue, Goto
  <2>2. NoQueueLeak'
    BY <1>3, <2>1 DEF CreateQueue, NoQueueLeak
  <2> QED
    BY <1>3, <2>2 DEF CreateQueue
<1>4. ASSUME NEW c \in Callers, SendRequest(c)
      PROVE  IdsDistinct' /\ NoQueueLeak'
  BY <1>4, SameQueues DEF SendRequest, Finish, Goto
<1>5. ASSUME NEW c \in Callers, GetCheck(c) PROVE IdsDistinct' /\ NoQueueLeak'
  BY <1>5, SameQueues DEF GetCheck, TimedOut, Finish, Goto
<1>6. ASSUME NEW c \in Callers, GetSelect(c) PROVE IdsDistinct' /\ NoQueueLeak'
  BY <1>6, SameQueues DEF GetSelect, Goto
<1>7. ASSUME NEW c \in Callers, Expire(c) PROVE IdsDistinct' /\ NoQueueLeak'
  BY <1>7, SameQueues DEF Expire
<1>8. ASSUME NEW c \in Callers, GetTimeout(c) PROVE IdsDistinct' /\ NoQueueLeak'
  BY <1>8, SameQueues DEF GetTimeout, GetTimeoutIf, TimedOut, Finish, Goto
<1>9. ASSUME NEW c \in Callers, SendS9F9(c) PROVE IdsDistinct' /\ NoQueueLeak'
  BY <1>9, SameQueues DEF SendS9F9, Goto
<1>10. ASSUME NEW c \in Callers, RemoveQueue(c)
       PROVE  IdsDistinct' /\ NoQueueLeak'
  <2>1. \A d \in Callers : pc'[d] \in Published <=> pc[d] \in Published /\ d # c
    BY <1>10 DEF RemoveQueue, RemoveQueueIf, Goto
  <2>2. \A d \in Callers : d # c => sys[d] # sys[c]
    BY <1>10 DEF RemoveQueue, RemoveQueueIf, HasNumber, Numbered
  <2>3. sys' = sys /\ registered' = registered \ {sys[c]}
    BY <1>10 DEF RemoveQueue, RemoveQueueIf
  <2>4. \A s : s \in registered' <=>
                \E d \in Callers : pc'[d] \in Published /\ s = sys'[d]
    BY <2>1, <2>2, <2>3 DEF NoQueueLeak
  <2>5. NoQueueLeak'
    BY <2>4 DEF NoQueueLeak
  <2> QED
    BY <2>3, <2>5
<1>11. CASE Receiver
  <2>1. registered' = registered /\ sys' = sys
    BY <1>11 DEF Receiver, RxDispatch, RxPush, PushTo, RxNotify, callerVars
  <2>2. \A c \in Callers : pc'[c] \in Published <=> pc[c] \in Published
    BY <1>11 DEF Receiver, RxDispatch, RxPush, PushTo, RxNotify, callerVars
  <2> QED
    BY <2>1, <2>2, SameQueues
<1>12. CASE PeerAnswer \/ PeerStray \/ Drop \/ Reselect \/ UNCHANGED vars
  <2>1. registered' = registered /\ sys' = sys /\ pc' = pc
    BY <1>12 DEF PeerAnswer, PeerStray, Drop, Reselect, vars, callerVars
  <2> QED
    BY <2>1, SameQueues
<1> QED
  BY <1>1, <1>2, <1>3, <1>4, <1>5, <1>6, <1>7, <1>8, <1>9, <1>10, <1>11, <1>12
     DEF Next, CallerStep

\* Two calls under way never hold the same system ID.
THEOREM DistinctIds == Spec => []IdsDistinct
<1>1. IdInv => IdsDistinct
  BY DEF IdInv
<1> QED
  BY <1>1, IdInit, IdStep, PTL DEF Spec

\* systemQueues holds exactly the calls under way: no way out of a call leaks
\* its queue.
THEOREM QueuesDoNotLeak == Spec => []NoQueueLeak
<1>1. IdInv => NoQueueLeak
  BY DEF IdInv
<1> QED
  BY <1>1, IdInit, IdStep, PTL DEF Spec

-----------------------------------------------------------------------------
(* Answers.                                                                *)

\* A step that leaves the queues alone or empties one keeps OwnQueue, and one
\* that changes no result and takes no number keeps OwnAnswer.
LEMMA SameAnswers ==
  ASSUME NoEarlyAnswer, OwnAnswer, result' = result, sys' = sys,
         \A c \in Callers : pc'[c] = "number" => pc[c] = "number"
  PROVE  NoEarlyAnswer' /\ OwnAnswer'
BY DEF NoEarlyAnswer, OwnAnswer, Answered

\* A call that ends with an error has no answer.
LEMMA ErrorIsNoAnswer == \A e \in Errors : Failed(e).kind \notin Kinds
BY DEF Errors, Failed, Kinds

\* No call has an answer at the start.
LEMMA AnswerInit == Init => AnswerInv
BY IdInit DEF Init, AnswerInv, OwnQueue, NoEarlyAnswer, OwnAnswer, Answered,
   Pending, Kinds

\* Every step keeps the answers with the calls they answer.
LEMMA AnswerStep == AnswerInv /\ [Next]_vars => AnswerInv'
<1> SUFFICES ASSUME AnswerInv, [Next]_vars
             PROVE  OwnQueue' /\ NoEarlyAnswer' /\ OwnAnswer'
  BY IdStep DEF AnswerInv
<1> USE DEF AnswerInv, IdInv, TypeInv, TypeOK
<1> DEFINE Goal == OwnQueue' /\ NoEarlyAnswer' /\ OwnAnswer'
<1>1. ASSUME NEW c \in Callers, Call(c) PROVE Goal
  <2>1. OwnQueue'
    BY <1>1 DEF Call, OwnQueue
  <2>2. result'[c] \in {Pending, Failed("refused")} /\ ~Answered(c)'
    BY <1>1, ErrorIsNoAnswer DEF Call, Finish, Pending, Answered, Kinds, Errors
  <2>3. \A d \in Callers \ {c} :
          result'[d] = result[d] /\ sys'[d] = sys[d] /\ pc'[d] = pc[d]
    BY <1>1 DEF Call, Finish, Goto
  <2>4. NoEarlyAnswer' /\ OwnAnswer'
    BY <2>2, <2>3 DEF NoEarlyAnswer, OwnAnswer, Answered
  <2> QED
    BY <2>1, <2>4
<1>2. ASSUME NEW c \in Callers, TakeNumber(c) PROVE Goal
  <2>1. OwnQueue' /\ NoEarlyAnswer'
    BY <1>2 DEF TakeNumber, TakeNumberAs, Goto, OwnQueue, NoEarlyAnswer,
       Answered
  <2>2. OwnAnswer'
    BY <1>2 DEF TakeNumber, TakeNumberAs, NoEarlyAnswer, OwnAnswer, Answered
  <2> QED
    BY <2>1, <2>2
<1>3. ASSUME NEW c \in Callers, CreateQueue(c) PROVE Goal
  <2>1. OwnQueue'
    BY <1>3 DEF CreateQueue, OwnQueue
  <2>2. NoEarlyAnswer' /\ OwnAnswer'
    BY <1>3, SameAnswers DEF CreateQueue, Goto
  <2> QED
    BY <2>1, <2>2
<1>4. ASSUME NEW c \in Callers, SendRequest(c) PROVE Goal
  <2>1. OwnQueue'
    BY <1>4 DEF SendRequest, OwnQueue
  <2>2. CASE up
    BY <1>4, <2>1, <2>2, SameAnswers DEF SendRequest, Goto
  <2>3. CASE ~up
    <3>1. ~Answered(c)' /\ pc'[c] # "number"
      BY <1>4, <2>3, ErrorIsNoAnswer DEF SendRequest, Finish, Goto, Answered,
         Errors
    <3>2. \A d \in Callers \ {c} : result'[d] = result[d] /\ pc'[d] = pc[d]
      BY <1>4, <2>3 DEF SendRequest, Finish, Goto
    <3>3. sys' = sys
      BY <1>4 DEF SendRequest
    <3> QED
      BY <2>1, <3>1, <3>2, <3>3 DEF NoEarlyAnswer, OwnAnswer, Answered
  <2> QED
    BY <2>2, <2>3
<1>5. ASSUME NEW c \in Callers, GetCheck(c) PROVE Goal
  <2> DEFINE q == deque[sys[c]]
  <2>1. sys' = sys /\ pc[c] = "check" /\ sys[c] \in DOMAIN deque
    BY <1>5 DEF GetCheck, QueueExists, Published
  <2>2. CASE q # <<>>
    <3>1. /\ q \in Seq(Msgs) /\ Head(q).sys = sys[c]
          /\ \A i \in DOMAIN Tail(q) : Tail(q)[i].sys = sys[c]
      BY <2>1, <2>2 DEF OwnQueue
    <3>2. deque' = [deque EXCEPT ![sys[c]] = Tail(q)]
      BY <1>5, <2>2 DEF GetCheck
    <3>3. OwnQueue'
      BY <2>1, <3>1, <3>2 DEF OwnQueue
    <3>4. result'[c] = ValueOf(c, Head(q)) /\ pc'[c] # "number"
      BY <1>5, <2>2 DEF GetCheck, Finish, Goto
    <3>5. Answered(c)' => result'[c].sys = sys[c]
      BY <3>1, <3>4, ErrorIsNoAnswer DEF ValueOf, Answered, Errors
    <3>6. \A d \in Callers \ {c} : result'[d] = result[d] /\ pc'[d] = pc[d]
      BY <1>5, <2>2 DEF GetCheck, Finish, Goto
    <3>7. NoEarlyAnswer' /\ OwnAnswer'
      BY <2>1, <3>4, <3>5, <3>6 DEF NoEarlyAnswer, OwnAnswer, Answered
    <3> QED
      BY <3>3, <3>7
  <2>3. CASE q = <<>> /\ expired[c]
    <3>1. ~Answered(c)' /\ pc'[c] # "number"
      BY <1>5, <2>3, ErrorIsNoAnswer DEF GetCheck, TimedOut, Finish, Goto,
         Answered, Errors
    <3>2. /\ deque' = deque
          /\ \A d \in Callers \ {c} : result'[d] = result[d] /\ pc'[d] = pc[d]
      BY <1>5, <2>3 DEF GetCheck, TimedOut, Finish, Goto
    <3> QED
      BY <2>1, <3>1, <3>2 DEF OwnQueue, NoEarlyAnswer, OwnAnswer, Answered
  <2>4. CASE q = <<>> /\ ~expired[c]
    BY <1>5, <2>4, SameAnswers DEF GetCheck, Goto, OwnQueue
  <2> QED
    BY <2>2, <2>3, <2>4
<1>6. ASSUME NEW c \in Callers, GetSelect(c) \/ Expire(c) PROVE Goal
  BY <1>6, SameAnswers DEF GetSelect, Expire, Goto, OwnQueue
<1>7. ASSUME NEW c \in Callers, GetTimeout(c) PROVE Goal
  <2>1. ~Answered(c)' /\ pc'[c] # "number"
    BY <1>7, ErrorIsNoAnswer DEF GetTimeout, GetTimeoutIf, TimedOut, Finish,
       Goto, Answered, Errors
  <2>2. /\ deque' = deque /\ sys' = sys
        /\ \A d \in Callers \ {c} : result'[d] = result[d] /\ pc'[d] = pc[d]
    BY <1>7 DEF GetTimeout, GetTimeoutIf, TimedOut, Finish, Goto
  <2> QED
    BY <2>1, <2>2 DEF OwnQueue, NoEarlyAnswer, OwnAnswer, Answered
<1>8. ASSUME NEW c \in Callers, SendS9F9(c) \/ RemoveQueue(c) PROVE Goal
  BY <1>8, SameAnswers DEF SendS9F9, RemoveQueue, RemoveQueueIf, Goto, OwnQueue
<1>9. CASE RxPush
  <2>1. /\ rx.msg \in Msgs /\ rx.msg.sys \in DOMAIN deque
        /\ deque' = [deque EXCEPT ![rx.msg.sys] = Append(@, rx.msg)]
    BY <1>9 DEF RxPush, PushTo, QueueExists, RxAt, RxIdle
  <2>2. OwnQueue'
    BY <2>1 DEF OwnQueue
  <2> QED
    BY <1>9, <2>2, SameAnswers DEF RxPush, PushTo, callerVars
<1>10. CASE RxDispatch \/ RxNotify
  BY <1>10, SameAnswers DEF RxDispatch, RxNotify, callerVars, OwnQueue
<1>11. CASE PeerAnswer \/ PeerStray \/ Drop \/ Reselect \/ UNCHANGED vars
  BY <1>11, SameAnswers
     DEF PeerAnswer, PeerStray, Drop, Reselect, vars, callerVars, OwnQueue
<1> QED
  BY <1>1, <1>2, <1>3, <1>4, <1>5, <1>6, <1>7, <1>8, <1>9, <1>10, <1>11
     DEF Next, CallerStep, Receiver

\* What a call returns is the answer to its own request.
THEOREM AnswersAreOwn == Spec => []OwnAnswer
<1>1. AnswerInv => OwnAnswer
  BY DEF AnswerInv
<1> QED
  BY <1>1, AnswerInit, AnswerStep, PTL DEF Spec

-----------------------------------------------------------------------------
(* Late answers.                                                           *)

\* No request and no message is under way at the start.
LEMMA LateInit == Init => LateInv
BY IdInit DEF Init, LateInv, SentOnce, RepliesAnswer, UnmatchedIsOver

\* Every step keeps answers without a queue with calls that are over.
LEMMA LateStep == LateInv /\ [Next]_vars => LateInv'
<1> SUFFICES ASSUME LateInv, [Next]_vars
             PROVE  SentOnce' /\ RepliesAnswer' /\ UnmatchedIsOver'
  BY IdStep DEF LateInv
<1> USE DEF LateInv, IdInv, TypeInv, TypeOK, Published
<1> DEFINE Goal == SentOnce' /\ RepliesAnswer' /\ UnmatchedIsOver'
           Same == UNCHANGED <<sent, asked, wire, unmatched>>
\* Callers that take no number, and enter neither Send nor Published.
<1>1. ASSUME Same, counter' \in Nat, counter' >= counter,
             \A c \in Callers :
               \/ sys'[c] = 0 \/ sys'[c] = counter + 1
               \/ /\ sys'[c] = sys[c]
                  /\ pc'[c] \in {"register", "send"} => pc[c] = pc'[c]
                  /\ pc'[c] \in Published => pc[c] \in Published
      PROVE  Goal
  <2>1. RepliesAnswer'
    BY <1>1 DEF RepliesAnswer
  <2>2. sent' \subseteq 1..counter'
    BY <1>1 DEF SentOnce
  <2>3. \A c \in Callers : sys'[c] \in sent =>
          /\ sys'[c] = sys[c]
          /\ pc'[c] \in {"register", "send"} => pc[c] = pc'[c]
          /\ pc'[c] \in Published => pc[c] \in Published
    <3>1. 0 \notin sent /\ counter + 1 \notin sent
      BY DEF SentOnce
    <3> QED
      BY <1>1, <3>1
  <2>4. SentOnce'
    BY <1>1, <2>2, <2>3 DEF SentOnce
  <2>5. UnmatchedIsOver'
    BY <1>1, <2>3 DEF UnmatchedIsOver
  <2> QED
    BY <2>1, <2>4, <2>5
<1>2. ASSUME NEW c \in Callers, Call(c) PROVE Goal
  BY <1>1, <1>2 DEF Call, Finish, Goto, peerVars, rxVars
<1>3. ASSUME NEW c \in Callers, TakeNumber(c) PROVE Goal
  BY <1>1, <1>3 DEF TakeNumber, TakeNumberAs, Goto, peerVars, rxVars
<1>4. ASSUME NEW c \in Callers, CreateQueue(c) PROVE Goal
  <2>1. sys[c] \notin sent
    BY <1>4 DEF CreateQueue, SentOnce
  <2>2. /\ Same /\ counter' = counter /\ sys' = sys
        /\ \A d \in Callers \ {c} : pc'[d] = pc[d]
        /\ pc'[c] = "send"
    BY <1>4 DEF CreateQueue, Goto, peerVars, rxVars
  <2>3. RepliesAnswer'
    BY <2>2 DEF RepliesAnswer
  <2>4. SentOnce'
    BY <2>1, <2>2 DEF SentOnce
  <2>5. UnmatchedIsOver'
    BY <2>1, <2>2 DEF UnmatchedIsOver
  <2> QED
    BY <2>3, <2>4, <2>5
<1>5. ASSUME NEW c \in Callers, SendRequest(c) PROVE Goal
  <2>1. pc[c] = "send" /\ sys' = sys /\ counter' = counter
        /\ UNCHANGED <<wire, unmatched>>
    BY <1>5 DEF SendRequest, rxVars
  <2>2. \A d \in Callers \ {c} : pc'[d] = pc[d]
    BY <1>5 DEF SendRequest, Finish, Goto
  <2>3. pc'[c] \in {"check", "release"}
    BY <1>5 DEF SendRequest, Finish, Goto
  <2>4. CASE up
    <3>1. sent' = sent \cup {sys[c]} /\ asked' = asked \cup {AnswerTo(c)}
      BY <1>5, <2>4 DEF SendRequest
    <3>2. AnswerTo(c).sys = sys[c]
      BY DEF AnswerTo
    <3>3. sys[c] \in 1..counter /\ \A d \in Callers \ {c} : sys[d] # sys[c]
      BY <2>1 DEF HasNumber, Numbered, IdsDistinct
    <3>4. RepliesAnswer'
      BY <2>1, <3>1, <3>2 DEF RepliesAnswer
    <3>5. SentOnce'
      BY <2>1, <2>2, <2>3, <3>1, <3>3 DEF SentOnce
    <3>6. UnmatchedIsOver'
      BY <2>1, <2>2, <2>3, <3>1 DEF UnmatchedIsOver
    <3> QED
      BY <3>4, <3>5, <3>6
  <2>5. CASE ~up
    BY <1>1, <1>5, <2>1, <2>2, <2>3, <2>5 DEF SendRequest
  <2> QED
    BY <2>4, <2>5
<1>6. ASSUME NEW c \in Callers, GetCheck(c) PROVE Goal
  BY <1>1, <1>6 DEF GetCheck, TimedOut, Finish, Goto, peerVars, rxVars
<1>7. ASSUME NEW c \in Callers, GetSelect(c) \/ Expire(c) PROVE Goal
  BY <1>1, <1>7 DEF GetSelect, Expire, Goto, peerVars, rxVars
<1>8. ASSUME NEW c \in Callers, GetTimeout(c) PROVE Goal
  BY <1>1, <1>8 DEF GetTimeout, GetTimeoutIf, TimedOut, Finish, Goto, peerVars,
     rxVars
<1>9. ASSUME NEW c \in Callers, SendS9F9(c) \/ RemoveQueue(c) PROVE Goal
  BY <1>1, <1>9 DEF SendS9F9, RemoveQueue, RemoveQueueIf, Goto, peerVars, rxVars
<1>10. CASE RxDispatch
  <2> DEFINE m == Head(wire)
  <2>1. /\ UNCHANGED <<sent, asked, counter, sys, pc>>
        /\ wire # <<>> /\ wire' = Tail(wire)
    BY <1>10 DEF RxDispatch, callerVars, peerVars
  <2>2. m = wire[1] /\ 1 \in DOMAIN wire
    BY <2>1
  <2>3. \A i \in DOMAIN wire' : i + 1 \in DOMAIN wire /\ wire'[i] = wire[i + 1]
    BY <2>1
  <2>4. RepliesAnswer' /\ SentOnce'
    BY <2>1, <2>3 DEF RepliesAnswer, SentOnce
  <2>5. m.kind = "reply" => m.sys \in sent
    BY <2>2 DEF RepliesAnswer
  <2>6. m.sys \notin registered =>
          \A c \in Callers : sys[c] = m.sys => pc[c] \notin Published
    BY DEF NoQueueLeak
  <2>7. \A n \in unmatched' : n \in unmatched \/ (n = m /\ m.sys \notin registered)
    <3>1. CASE m.sys \in registered
      BY <1>10, <3>1 DEF RxDispatch
    <3>2. CASE m.sys \notin registered
      <4> DEFINE kept == {m} \ [kind : {"control"}, sys : Nat]
      <4>1. unmatched' = unmatched \cup kept
        BY <1>10, <3>2 DEF RxDispatch
      <4>2. kept \subseteq {m}
        OBVIOUS
      <4> QED
        BY <3>2, <4>1, <4>2
    <3> QED
      BY <3>1, <3>2
  <2>8. UnmatchedIsOver'
    BY <2>1, <2>5, <2>6, <2>7 DEF UnmatchedIsOver
  <2> QED
    BY <2>4, <2>8
<1>11. CASE RxPush
  BY <1>1, <1>11 DEF RxPush, PushTo, callerVars, peerVars
<1>12. CASE RxNotify
  BY <1>1, <1>12 DEF RxNotify, peerVars
<1>13. ASSUME UNCHANGED <<sent, unmatched, counter, sys, pc>>, asked' \subseteq asked,
              NEW m, wire' = Append(wire, m), m.kind = "reply" => m.sys \in sent
       PROVE  Goal
  <2>1. \A i \in DOMAIN wire' : \/ i \in DOMAIN wire /\ wire'[i] = wire[i]
                               \/ wire'[i] = m
    BY <1>13
  <2>2. RepliesAnswer'
    BY <1>13, <2>1 DEF RepliesAnswer
  <2>3. SentOnce' /\ UnmatchedIsOver'
    BY <1>13 DEF SentOnce, UnmatchedIsOver
  <2> QED
    BY <2>2, <2>3
<1>14. CASE PeerAnswer
  BY <1>13, <1>14 DEF PeerAnswer, callerVars, rxVars, RepliesAnswer
<1>15. CASE PeerStray
  BY <1>13, <1>15 DEF PeerStray, callerVars, rxVars
<1>16. CASE Drop
  BY <1>16 DEF Drop, callerVars, rxVars, SentOnce, RepliesAnswer,
     UnmatchedIsOver
<1>17. CASE Reselect \/ UNCHANGED vars
  BY <1>1, <1>17 DEF Reselect, vars, callerVars, peerVars, rxVars
<1> QED
  BY <1>2, <1>3, <1>4, <1>5, <1>6, <1>7, <1>8, <1>9, <1>10, <1>11, <1>12,
     <1>14, <1>15, <1>16, <1>17 DEF Next, CallerStep, Receiver

\* An answer goes to the message handler only when its call is over.
THEOREM UnmatchedAnswersAreLate == Spec => []UnmatchedIsLate
<1>1. LateInv => UnmatchedIsLate
  BY DEF LateInv, UnmatchedIsOver, UnmatchedIsLate, Published, Waiting
<1> QED
  BY <1>1, LateInit, LateStep, PTL DEF Spec

-----------------------------------------------------------------------------
(* Refinement.                                                             *)

\* A step that shows a caller nothing new is a stutter of the service.
LEMMA Stutter ==
  ASSUME UNCHANGED <<counter, sys, result>>,
         \A c \in Callers : \/ pc'[c] = pc[c]
                            \/ /\ pc[c] \in Numbered
                               /\ pc'[c] \in Numbered
  PROVE  UNCHANGED Service!vars
<1>1. Status' = Status
  BY DEF Status, Numbered, Published
<1>2. AnswerSeen' = AnswerSeen
  BY DEF AnswerSeen, Answered, Numbered, Published
<1> QED
  BY <1>1, <1>2 DEF Service!vars

\* The same when the call under way also gets its result.
LEMMA StutterOf ==
  ASSUME NEW c \in Callers, UNCHANGED <<counter, sys>>,
         pc[c] \in Numbered, pc'[c] \in Numbered,
         \A d \in Callers \ {c} : pc'[d] = pc[d] /\ result'[d] = result[d]
  PROVE  UNCHANGED Service!vars
<1>1. Status' = Status
  BY DEF Status, Numbered, Published
<1>2. AnswerSeen' = AnswerSeen
  BY DEF AnswerSeen, Answered, Numbered, Published
<1> QED
  BY <1>1, <1>2 DEF Service!vars

\* The start of NewHsmsProtocol is the start of the service.
LEMMA ServiceInit == Init => Service!Init
BY DEF Init, Service!Init, Status, AnswerSeen

\* Every step of a call is a step of the service, or invisible.
LEMMA ServiceStep == AnswerInv /\ [Next]_vars => [Service!Next]_Service!vars
<1> SUFFICES ASSUME AnswerInv, [Next]_vars
             PROVE  Service!Next \/ UNCHANGED Service!vars
  OBVIOUS
<1> USE DEF AnswerInv, IdInv, TypeInv, TypeOK
<1> DEFINE Goal == Service!Next \/ UNCHANGED Service!vars
<1>1. ASSUME NEW c \in Callers, Call(c) PROVE Goal
  <2>1. /\ Status[c] # "open"
        /\ sys' = [sys EXCEPT ![c] = 0] /\ counter' = counter
    BY <1>1 DEF Call, Status
  <2>2. \A d \in Callers \ {c} : pc'[d] = pc[d] /\ result'[d] = result[d]
    BY <1>1 DEF Call, Finish, Goto
  <2>3. pc'[c] \in {"number", "returned"} /\ ~Answered(c)'
    BY <1>1, ErrorIsNoAnswer
       DEF Call, Finish, Goto, Answered, Pending, Kinds, Errors
  <2>4. \E o \in {"idle", "closed"} : Status' = [Status EXCEPT ![c] = o]
    BY <2>2, <2>3 DEF Status
  <2>5. AnswerSeen' = [AnswerSeen EXCEPT ![c] = 0]
    BY <2>2, <2>3 DEF AnswerSeen, Answered
  <2>6. \E o \in {"idle", "closed"} : Service!Begin(c, o)
    BY <2>1, <2>4, <2>5 DEF Service!Begin
  <2> QED
    BY <2>6 DEF Service!Next
<1>2. ASSUME NEW c \in Callers, TakeNumber(c) PROVE Goal
  <2> DEFINE i == counter + 1
  <2>1. /\ pc[c] = "number" /\ counter' = i /\ result' = result
        /\ sys' = [sys EXCEPT ![c] = i]
        /\ pc' = [pc EXCEPT ![c] = "register"]
    BY <1>2 DEF TakeNumber, TakeNumberAs, Goto
  <2>2. Status[c] = "idle" /\ Status' = [Status EXCEPT ![c] = "open"]
    BY <2>1 DEF Status
  <2>3. AnswerSeen' = AnswerSeen
    BY <2>1 DEF AnswerSeen, Answered
  <2>4. i \in Nat \ (1..counter) /\ 1..counter' = (1..counter) \cup {i}
    BY <2>1
  <2>5. Service!Open(c, i)
    BY <2>1, <2>2, <2>3, <2>4 DEF Service!Open
  <2> QED
    BY <2>4, <2>5 DEF Service!Next
<1>3. ASSUME NEW c \in Callers,
             CreateQueue(c) \/ GetSelect(c) \/ Expire(c) PROVE Goal
  BY <1>3, Stutter DEF CreateQueue, GetSelect, Expire, Goto, Numbered, Published
<1>4. ASSUME NEW c \in Callers, SendRequest(c) PROVE Goal
  BY <1>4, StutterOf DEF SendRequest, Finish, Goto, Numbered, Published
<1>5. ASSUME NEW c \in Callers, GetCheck(c) PROVE Goal
  BY <1>5, StutterOf DEF GetCheck, TimedOut, Finish, Goto, Numbered, Published
<1>6. ASSUME NEW c \in Callers, GetTimeout(c) PROVE Goal
  BY <1>6, StutterOf
     DEF GetTimeout, GetTimeoutIf, TimedOut, Finish, Goto, Numbered, Published
<1>7. ASSUME NEW c \in Callers, SendS9F9(c) PROVE Goal
  <2> DEFINE i == counter + 1
  <2>1. /\ pc[c] = "s9" /\ counter' = i /\ UNCHANGED <<sys, result>>
        /\ pc' = [pc EXCEPT ![c] = "release"]
    BY <1>7 DEF SendS9F9, Goto
  <2>2. Status' = Status
    BY <2>1 DEF Status
  <2>3. AnswerSeen' = AnswerSeen
    BY <2>1 DEF AnswerSeen, Answered
  <2>4. i \in Nat \ (1..counter) /\ 1..counter' = (1..counter) \cup {i}
    BY <2>1
  <2>5. Service!Burn(i)
    BY <2>1, <2>2, <2>3, <2>4 DEF Service!Burn
  <2> QED
    BY <2>4, <2>5 DEF Service!Next
<1>8. ASSUME NEW c \in Callers, RemoveQueue(c) PROVE Goal
  <2>1. /\ pc[c] = "release" /\ UNCHANGED <<counter, sys, result>>
        /\ pc' = [pc EXCEPT ![c] = "returned"]
    BY <1>8 DEF RemoveQueue, RemoveQueueIf, Goto
  <2>2. Status[c] = "open" /\ Status' = [Status EXCEPT ![c] = "closed"]
    BY <2>1 DEF Status
  <2>3. CASE Answered(c)
    <3>1. result[c].sys = sys[c]
      BY <2>3 DEF OwnAnswer
    <3>2. AnswerSeen' = [AnswerSeen EXCEPT ![c] = sys[c]]
      BY <2>1, <2>3, <3>1 DEF AnswerSeen, Answered
    <3>3. Service!Close(c, sys[c])
      BY <2>1, <2>2, <3>2 DEF Service!Close
    <3> QED
      BY <3>3 DEF Service!Next
  <2>4. CASE ~Answered(c)
    <3>1. AnswerSeen' = [AnswerSeen EXCEPT ![c] = 0]
      BY <2>1, <2>4 DEF AnswerSeen, Answered
    <3>2. Service!Close(c, 0)
      BY <2>1, <2>2, <3>1 DEF Service!Close
    <3> QED
      BY <3>2 DEF Service!Next
  <2> QED
    BY <2>3, <2>4
<1>9. CASE RxNotify
  BY <1>9, Stutter DEF RxNotify, Numbered, Published
<1>10. CASE \/ RxDispatch \/ RxPush \/ PeerAnswer \/ PeerStray \/ Drop
            \/ Reselect \/ UNCHANGED vars
  <2>1. UNCHANGED <<counter, sys, result, pc>>
    BY <1>10 DEF RxDispatch, RxPush, PushTo, PeerAnswer, PeerStray, Drop,
       Reselect, vars, callerVars
  <2> QED
    BY <2>1, Stutter
<1> QED
  BY <1>1, <1>2, <1>3, <1>4, <1>5, <1>6, <1>7, <1>8, <1>9, <1>10
     DEF Next, CallerStep, Receiver

\* SendAndWait and the control requests implement the abstract service.
THEOREM ServiceImplemented == Spec => ServiceSpec
BY ServiceInit, ServiceStep, AnswerInit, AnswerStep, PTL
   DEF Spec, ServiceSpec, Service!Spec
=============================================================================
