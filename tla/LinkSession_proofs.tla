------------------------- MODULE LinkSession_proofs -------------------------
(***************************************************************************)
(* Theorems about LinkSession.                                             *)
(***************************************************************************)
EXTENDS LinkSession, FiniteSetTheorems, SequenceTheorems, WellFoundedInduction, TLAPS

Phases == {"none", "made", "open", "flagged", "invoke", "callbacks", "forget", "done"}

-----------------------------------------------------------------------------
(* The send channel.                                                       *)

Shape(d) == {"pc", "on"} \subseteq DOMAIN d

SendInv ==
  /\ closing \in [Sessions -> Phases]
  /\ DOMAIN doing = Goroutines
  /\ \A g \in Goroutines : Shape(doing[g])
  /\ \A g \in Goroutines :
       doing[g].pc = "send" =>
         /\ g \in Workers /\ doing[g].on \in Sessions
         /\ closing[doing[g].on] \in {"open", "flagged"}

LEMMA SendInit == SessionInit => SendInv
<1>. SUFFICES ASSUME SessionInit PROVE SendInv
  OBVIOUS
<1>1. closing \in [Sessions -> Phases]
  BY DEF SessionInit, Phases
<1>2. DOMAIN doing = Goroutines /\ \A g \in Goroutines : doing[g] = AtEase
  BY DEF SessionInit
<1>3. Shape(AtEase) /\ AtEase.pc = "free"
  BY DEF AtEase, Shape
<1>. QED  BY <1>1, <1>2, <1>3 DEF SendInv

\* A phase changes; nobody sends to a session that goes on from its flag.
LEMMA PhaseKeeps ==
  ASSUME SendInv, UNCHANGED doing, NEW s \in Sessions, NEW p \in Phases,
         closing' = [closing EXCEPT ![s] = p],
         p \in {"open", "flagged"} \/ closing[s] \notin {"open", "flagged"} \/ SendingTo(s) = {}
  PROVE  SendInv'
<1>1. closing' \in [Sessions -> Phases]
  BY DEF SendInv
<1>2. ASSUME NEW g \in Goroutines, doing[g].pc = "send"
      PROVE  closing'[doing[g].on] \in {"open", "flagged"}
  <2>1. g \in Workers /\ doing[g].on \in Sessions /\ closing[doing[g].on] \in {"open", "flagged"}
    BY <1>2 DEF SendInv
  <2>2. CASE doing[g].on = s
    BY <1>2, <2>1, <2>2 DEF SendInv, SendingTo
  <2>3. CASE doing[g].on # s
    BY <2>1, <2>3 DEF SendInv
  <2>. QED  BY <2>2, <2>3
<1>. QED  BY <1>1, <1>2 DEF SendInv

LEMMA DoingKeeps ==
  ASSUME SendInv, NEW g \in Goroutines, NEW d, UNCHANGED closing,
         doing' = [doing EXCEPT ![g] = d], Shape(d),
         d.pc = "send" => g \in Workers /\ d.on \in Sessions /\ closing[d.on] = "open"
  PROVE  SendInv'
<1>1. /\ DOMAIN doing' = Goroutines /\ doing'[g] = d
      /\ \A h \in Goroutines : h # g => doing'[h] = doing[h]
  BY DEF SendInv
<1>. QED  BY <1>1 DEF SendInv, Shape

LEMMA Eased ==
  ASSUME SendInv, NEW g \in Goroutines, UNCHANGED closing, doing' = [doing EXCEPT ![g] = AtEase]
  PROVE  SendInv'
<1>1. Shape(AtEase) /\ AtEase.pc = "free"
  BY DEF AtEase, Shape
<1>. QED  BY <1>1, DoingKeeps

LEMMA SendChannelStep ==
  ASSUME SendInv, NEW g \in Goroutines, ChannelStep(g)
  PROVE  SendInv'
<1>. Shape(doing[g])
  BY DEF SendInv
<1>1. CASE ChannelLock(g)
  <2>. DEFINE d == [doing[g] EXCEPT !.pc = "remove"]
  <2>1. doing' = [doing EXCEPT ![g] = d] /\ Shape(d) /\ d.pc = "remove"
    BY <1>1 DEF ChannelLock, Shape
  <2>. QED  BY <1>1, <2>1, DoingKeeps DEF ChannelLock
<1>2. ASSUME NEW k \in Keys, RemoveKey(g, k)
      PROVE  SendInv'
  <2>1. CASE channel[k] # NoOne /\ ~IsClosed(channel[k])
    <3>. DEFINE d == [doing[g] EXCEPT !.pc = "unhook", !.key = k, !.on = channel[k]]
    <3>1. doing' = [doing EXCEPT ![g] = d] /\ Shape(d) /\ d.pc = "unhook"
      BY <1>2, <2>1 DEF RemoveKey, Shape
    <3>. QED  BY <1>2, <3>1, DoingKeeps DEF RemoveKey
  <2>2. CASE ~(channel[k] # NoOne /\ ~IsClosed(channel[k]))
    <3>. DEFINE d == [doing[g] EXCEPT !.keys = @ \ {k}]
    <3>1. doing' = [doing EXCEPT ![g] = d] /\ Shape(d) /\ d.pc = "remove"
      BY <1>2, <2>2 DEF RemoveKey, Shape
    <3>. QED  BY <1>2, <3>1, DoingKeeps DEF RemoveKey
  <2>. QED  BY <2>1, <2>2
<1>3. CASE Unhook(g)
  <2>. DEFINE d == [doing[g] EXCEPT !.pc = "remove", !.keys = @ \ {doing[g].key},
                                    !.key = NoOne, !.on = NoOne]
  <2>1. doing' = [doing EXCEPT ![g] = d] /\ Shape(d) /\ d.pc = "remove"
    BY <1>3 DEF Unhook, Shape
  <2>. QED  BY <1>3, <2>1, DoingKeeps DEF Unhook
<1>4. CASE RemoveEnd(g)
  BY <1>4, Eased DEF RemoveEnd
<1>5. CASE Enter(g)
  BY <1>5, Eased DEF Enter
<1>6. CASE PutTest(g)
  <2>. DEFINE d == [doing[g] EXCEPT !.pc = "hook", !.on = doing[g].new]
  <2>1. CASE doing' = [doing EXCEPT ![g] = d] /\ UNCHANGED closing
    <3>1. Shape(d) /\ d.pc = "hook"
      BY DEF Shape
    <3>. QED  BY <2>1, <3>1, DoingKeeps
  <2>. QED  BY <1>5, <1>6, <2>1 DEF PutTest
<1>7. CASE Hook(g)
  BY <1>5, <1>7 DEF Hook
<1>. QED  BY <1>1, <1>2, <1>3, <1>4, <1>6, <1>7 DEF ChannelStep

LEMMA SendWorkStep ==
  ASSUME SendInv, NEW w \in Workers
  PROVE  /\ \A s \in Sessions, k \in Keys : PutChannel(w, k, s) => SendInv'
         /\ \A k \in Keys : RemoveChannel(w, k) => SendInv'
         /\ RemoveAll(w) => SendInv'
         /\ \A s \in Sessions : SendTest(w, s) => SendInv'
         /\ SendPut(w) => SendInv'
<1>. w \in Goroutines
  BY DEF Goroutines
<1>1. ASSUME NEW d, BeginWork(w, d), Shape(d),
             d.pc = "send" => d.on \in Sessions /\ closing[d.on] = "open"
      PROVE  SendInv'
  BY <1>1, DoingKeeps DEF BeginWork
<1>2. ASSUME NEW s \in Sessions, NEW k \in Keys, PutChannel(w, k, s)
      PROVE  SendInv'
  <2>1. Shape([AtEase EXCEPT !.pc = "lock", !.keys = {k}, !.put = k, !.new = s])
    BY DEF Shape, AtEase
  <2>. QED  BY <1>1, <1>2, <2>1 DEF PutChannel, AtEase
<1>3. ASSUME NEW ks, BeginWork(w, [AtEase EXCEPT !.pc = "lock", !.keys = ks])
      PROVE  SendInv'
  <2>1. Shape([AtEase EXCEPT !.pc = "lock", !.keys = ks])
    BY DEF Shape, AtEase
  <2>. QED  BY <1>1, <1>3, <2>1 DEF AtEase
<1>4. ASSUME NEW s \in Sessions, SendTest(w, s)
      PROVE  SendInv'
  <2>1. Shape([AtEase EXCEPT !.pc = "send", !.on = s])
    BY DEF Shape, AtEase
  <2>. QED  BY <1>1, <1>4, <2>1 DEF SendTest, AtEase
<1>5. ASSUME SendPut(w)
      PROVE  SendInv'
  <2>. DEFINE s == doing[w].on
  <2>1. /\ closing' \in [Sessions -> Phases]
        /\ \A t \in Sessions : closing[t] \in {"open", "flagged"} => closing'[t] \in {"open", "flagged"}
    BY <1>5 DEF SendPut, SendInv, Phases
  <2>2. /\ DOMAIN doing' = Goroutines /\ doing'[w] = AtEase
        /\ \A h \in Goroutines : h # w => doing'[h] = doing[h]
    BY <1>5 DEF SendPut, SendInv
  <2>3. Shape(AtEase) /\ AtEase.pc = "free"
    BY DEF AtEase, Shape
  <2>. QED  BY <2>1, <2>2, <2>3 DEF SendInv
<1>. QED  BY <1>2, <1>3, <1>4, <1>5 DEF RemoveChannel, RemoveAll

LEMMA SendSessionStep ==
  ASSUME SendInv, NEW s \in Sessions,
         NewSession(s) \/ PutSession(s) \/ Close(s) \/ CloseStep(s) \/ DisposeClose(s)
  PROVE  SendInv'
<1>1. CASE CallBack(s)
  <2>. DEFINE d == [AtEase EXCEPT !.pc = "lock", !.keys = {Head(callbacks[s])}]
  <2>1. Shape(d) /\ d.pc = "lock"
    BY DEF Shape, AtEase
  <2>2. s \in Goroutines
    BY DEF Goroutines
  <2>. QED  BY <1>1, <2>1, <2>2, DoingKeeps DEF CallBack
<1>2. ASSUME NEW p \in Phases, closing' = [closing EXCEPT ![s] = p], UNCHANGED doing,
             p \in {"open", "flagged"} \/ closing[s] \notin {"open", "flagged"} \/ SendingTo(s) = {}
      PROVE  SendInv'
  BY <1>2, PhaseKeeps
<1>3. CASE NewSession(s)
  BY <1>2, <1>3 DEF NewSession, chanVars, Phases
<1>4. CASE PutSession(s)
  BY <1>2, <1>4 DEF PutSession, chanVars, Phases
<1>5. CASE Close(s)
  BY <1>2, <1>5 DEF Close, chanVars, Phases
<1>6. CASE CloseSendChan(s)
  BY <1>2, <1>6 DEF CloseSendChan, chanVars, Phases
<1>7. CASE InvokeCloseCallbacks(s)
  BY <1>2, <1>7 DEF InvokeCloseCallbacks, chanVars, Phases
<1>8. CASE CallbacksEnd(s)
  BY <1>2, <1>8 DEF CallbacksEnd, Invoking, chanVars, Phases
<1>9. CASE DelSession(s)
  BY <1>2, <1>9 DEF DelSession, chanVars, Phases
<1>10. CASE DisposeClose(s)
  <2>1. CASE UNCHANGED closing
    BY <1>10, <2>1 DEF DisposeClose, chanVars, SendInv, Shape
  <2>. QED  BY <1>2, <1>10, <2>1 DEF DisposeClose, chanVars, Phases
<1>. QED  BY <1>1, <1>3, <1>4, <1>5, <1>6, <1>7, <1>8, <1>9, <1>10 DEF CloseStep

LEMMA SendStep == SendInv /\ [SessionNext]_sessionVars => SendInv'
<1>. SUFFICES ASSUME SendInv, [SessionNext]_sessionVars PROVE SendInv'
  OBVIOUS
<1>1. CASE UNCHANGED <<closing, doing>>
  BY <1>1 DEF SendInv, Shape
<1>2. CASE DisposeMap \/ DisposeEnd
  BY <1>1, <1>2 DEF DisposeMap, DisposeEnd, chanVars
<1>. QED  BY <1>1, <1>2, SendChannelStep, SendWorkStep, SendSessionStep DEF SessionNext, sessionVars

(* Session.Send never writes to a channel that Close has closed: it tests  *)
(* the flag and writes under the lock that Close takes after the flag.     *)
THEOREM NoSendOnClosedHolds == SessionSpec => []NoSendOnClosed
<1>1. SendInv => NoSendOnClosed
  BY DEF SendInv, NoSendOnClosed, Goroutines
<1>. QED  BY SendInit, SendStep, <1>1, PTL DEF SessionSpec

-----------------------------------------------------------------------------
(* Dispose.                                                                *)

RestShape(d) == d = [pc |-> d.pc, map |-> d.map, left |-> d.left]

\* Every session that is open is in a map; a map that is disposed has open
\* sessions only while Dispose is closing them.
DisposeInv ==
  /\ closing \in [Sessions -> Phases]
  /\ IsFiniteSet(kept) /\ kept \subseteq Sessions /\ waitGroup = Cardinality(kept)
  /\ \A s \in kept : closing[s] \notin {"none", "made", "done"}
  /\ \A s \in Sessions : closing[s] = "open" => s \in kept
  /\ RestShape(disposer) /\ disposer.pc \in {"idle", "close", "wait", "done"}
  /\ disposer.map \in 0..MapCount /\ disposed = 1..disposer.map
  /\ disposer.pc = "idle" => disposer.map = 0
  /\ disposer.pc \in {"wait", "done"} => disposer.map = MapCount
  /\ \A s \in Sessions : closing[s] = "open" /\ MapOf[s] \in disposed =>
       disposer.pc = "close" /\ disposer.map = MapOf[s] /\ s \in disposer.left
  /\ disposer.pc = "done" => kept = {}

LEMMA DisposeInit == SessionInit => DisposeInv
<1>. SUFFICES ASSUME SessionInit PROVE DisposeInv
  OBVIOUS
<1>1. closing = [s \in Sessions |-> "none"] /\ kept = {} /\ disposed = {} /\ waitGroup = 0 /\ disposer = AtRest
  BY DEF SessionInit
<1>2. IsFiniteSet(kept) /\ waitGroup = Cardinality(kept)
  BY <1>1, FS_EmptySet
<1>3. RestShape(disposer) /\ disposer.pc = "idle" /\ disposer.map = 0 /\ 1..0 = {}
  BY <1>1 DEF AtRest, RestShape
<1>. QED  BY <1>1, <1>2, <1>3, LinkAssumption DEF DisposeInv, Phases

\* A phase changes and the manager does nothing.
LEMMA DisposePhaseKeeps ==
  ASSUME DisposeInv, UNCHANGED mgrVars, closing' \in [Sessions -> Phases],
         \A s \in Sessions : closing'[s] = closing[s] \/ closing'[s] \notin {"none", "open", "done"},
         \A s \in kept : closing'[s] # "made"
  PROVE  DisposeInv'
BY DEF DisposeInv, mgrVars

LEMMA PutSessionKeeps ==
  ASSUME DisposeInv, NEW s \in Sessions, PutSession(s)
  PROVE  DisposeInv'
<1>. UNCHANGED <<disposed, disposer>> /\ closing[s] = "made" /\ s \notin kept
  BY DEF PutSession, DisposeInv
<1>. MapOf[s] \in 1..MapCount
  BY LinkAssumption
<1>1. CASE /\ closing' = [closing EXCEPT ![s] = "flagged"] /\ UNCHANGED <<kept, waitGroup>>
  <2>1. closing' \in [Sessions -> Phases]
    BY <1>1 DEF DisposeInv, Phases
  <2>. QED  BY <1>1, <2>1 DEF DisposeInv
<1>2. CASE /\ MapOf[s] \notin disposed /\ closing' = [closing EXCEPT ![s] = "open"]
           /\ kept' = kept \cup {s} /\ waitGroup' = waitGroup + 1
  <2>1. closing' \in [Sessions -> Phases]
    BY <1>2 DEF DisposeInv, Phases
  <2>2. IsFiniteSet(kept') /\ waitGroup' = Cardinality(kept')
    BY <1>2, FS_AddElement DEF DisposeInv
  <2>3. disposer.pc # "done"
    BY <1>2 DEF DisposeInv
  <2>. QED  BY <1>2, <2>1, <2>2, <2>3 DEF DisposeInv
<1>. QED  BY <1>1, <1>2 DEF PutSession

LEMMA DelSessionKeeps ==
  ASSUME DisposeInv, NEW s \in Sessions, DelSession(s)
  PROVE  DisposeInv'
<1>. /\ UNCHANGED <<disposed, disposer>> /\ closing[s] = "forget" /\ kept' = kept \ {s}
     /\ closing' = [closing EXCEPT ![s] = "done"]
  BY DEF DelSession
<1>1. closing' \in [Sessions -> Phases]
  BY DEF DisposeInv, Phases
<1>2. IsFiniteSet(kept') /\ waitGroup' = Cardinality(kept')
  BY FS_RemoveElement DEF DisposeInv, DelSession
<1>. QED  BY <1>1, <1>2 DEF DisposeInv

LEMMA DisposeMapKeeps ==
  ASSUME DisposeInv, DisposeMap
  PROVE  DisposeInv'
<1>. UNCHANGED <<closing, kept, waitGroup>>
  BY DEF DisposeMap
<1>1. \A s \in Sessions : closing[s] = "open" => MapOf[s] \notin disposed
  BY DEF DisposeMap, DisposeInv
<1>2. CASE disposer.map < MapCount
  <2>. DEFINE n == disposer.map + 1
  <2>1. /\ disposed' = disposed \cup {n}
        /\ disposer' = [pc |-> "close", map |-> n, left |-> {s \in kept : MapOf[s] = n}]
    BY <1>2 DEF DisposeMap
  <2>2. n \in 0..MapCount /\ disposed' = 1..n
    BY <1>2, <2>1, LinkAssumption DEF DisposeInv
  <2>3. RestShape(disposer') /\ disposer'.pc = "close" /\ disposer'.map = n
    BY <2>1 DEF RestShape
  <2>. HIDE DEF n
  <2>4. ASSUME NEW s \in Sessions, closing[s] = "open", MapOf[s] \in disposed'
        PROVE  MapOf[s] = n /\ s \in disposer'.left
    BY <1>1, <2>1, <2>4 DEF DisposeInv
  <2>. QED  BY <2>2, <2>3, <2>4 DEF DisposeInv
<1>3. CASE ~(disposer.map < MapCount)
  <2>1. /\ UNCHANGED disposed /\ RestShape(disposer') /\ disposer'.pc = "wait"
        /\ disposer'.map = disposer.map
    BY <1>3 DEF DisposeMap, DisposeInv, RestShape
  <2>2. disposer.map = MapCount
    BY <1>3, LinkAssumption DEF DisposeInv
  <2>. QED  BY <1>1, <2>1, <2>2 DEF DisposeInv
<1>. QED  BY <1>2, <1>3

LEMMA DisposeCloseKeeps ==
  ASSUME DisposeInv, NEW s \in Sessions, DisposeClose(s)
  PROVE  DisposeInv'
<1>1. CASE closing[s] = "open" /\ closing' = [closing EXCEPT ![s] = "flagged"] /\ UNCHANGED disposer
  <2>1. closing' \in [Sessions -> Phases]
    BY <1>1 DEF DisposeInv, Phases
  <2>. QED  BY <1>1, <2>1, DisposePhaseKeeps DEF DisposeClose, mgrVars, DisposeInv
<1>2. CASE /\ IsClosed(s) /\ disposer' = [disposer EXCEPT !.left = @ \ {s}]
           /\ UNCHANGED closing
  <2>1. /\ RestShape(disposer') /\ disposer'.pc = disposer.pc /\ disposer'.map = disposer.map
        /\ disposer'.left = disposer.left \ {s}
    BY <1>2 DEF DisposeInv, RestShape
  <2>2. closing[s] # "open" /\ UNCHANGED <<kept, disposed, waitGroup>>
    BY <1>2 DEF IsClosed, DisposeClose
  <2>. QED  BY <1>2, <2>1, <2>2 DEF DisposeInv
<1>. QED  BY <1>1, <1>2 DEF DisposeClose

LEMMA DisposeEndKeeps ==
  ASSUME DisposeInv, DisposeEnd
  PROVE  DisposeInv'
<1>1. kept = {}
  BY FS_EmptySet DEF DisposeInv, DisposeEnd
<1>2. RestShape(disposer') /\ disposer'.pc = "done" /\ disposer'.map = disposer.map
  BY DEF DisposeEnd, DisposeInv, RestShape
<1>. QED  BY <1>1, <1>2 DEF DisposeInv, DisposeEnd

LEMMA DisposeStep == DisposeInv /\ [SessionNext]_sessionVars => DisposeInv'
<1>. SUFFICES ASSUME DisposeInv, [SessionNext]_sessionVars PROVE DisposeInv'
  OBVIOUS
<1>1. CASE UNCHANGED <<closing, mgrVars>>
  BY <1>1 DEF DisposeInv, mgrVars
<1>2. ASSUME NEW s \in Sessions, NEW p \in Phases \ {"none", "open", "done"},
             closing' = [closing EXCEPT ![s] = p], UNCHANGED mgrVars, p = "made" => s \notin kept
      PROVE  DisposeInv'
  <2>1. closing' \in [Sessions -> Phases]
    BY <1>2 DEF DisposeInv
  <2>. QED  BY <1>2, <2>1, DisposePhaseKeeps DEF DisposeInv
<1>3. ASSUME NEW g \in Goroutines, ChannelStep(g)
      PROVE  DisposeInv'
  BY <1>1, <1>3 DEF ChannelStep, ChannelLock, RemoveKey, Unhook, RemoveEnd, PutTest, Hook, Enter
<1>4. ASSUME NEW w \in Workers, SendPut(w)
      PROVE  DisposeInv'
  <2>1. CASE UNCHANGED closing
    BY <1>1, <1>4, <2>1 DEF SendPut
  <2>2. CASE closing' = [closing EXCEPT ![doing[w].on] = IF @ = "open" THEN "flagged" ELSE @]
    <3>1. closing' \in [Sessions -> Phases]
      BY <2>2 DEF DisposeInv, Phases
    <3>. QED  BY <1>4, <2>2, <3>1, DisposePhaseKeeps DEF SendPut, DisposeInv
  <2>. QED  BY <1>4, <2>1, <2>2 DEF SendPut
<1>5. ASSUME NEW w \in Workers,
             \/ \E s \in Sessions : SendTest(w, s) \/ \E k \in Keys : PutChannel(w, k, s)
             \/ \E k \in Keys : RemoveChannel(w, k)
             \/ RemoveAll(w)
      PROVE  DisposeInv'
  BY <1>1, <1>5 DEF SendTest, PutChannel, RemoveChannel, RemoveAll, BeginWork
<1>6. ASSUME NEW s \in Sessions, NewSession(s) \/ Close(s) \/ CloseStep(s)
      PROVE  DisposeInv'
  <2>1. CASE NewSession(s)
    BY <1>2, <2>1 DEF NewSession, Phases, DisposeInv
  <2>2. CASE Close(s)
    BY <1>2, <2>2 DEF Close, Phases
  <2>3. CASE CloseSendChan(s) \/ InvokeCloseCallbacks(s) \/ CallbacksEnd(s)
    BY <1>2, <2>3 DEF CloseSendChan, InvokeCloseCallbacks, CallbacksEnd, Phases
  <2>4. CASE CallBack(s)
    BY <1>1, <2>4 DEF CallBack
  <2>. QED  BY <1>6, <2>1, <2>2, <2>3, <2>4, DelSessionKeeps DEF CloseStep
<1>. QED  BY <1>1, <1>3, <1>4, <1>5, <1>6, PutSessionKeeps, DisposeCloseKeeps, DisposeMapKeeps,
             DisposeEndKeeps DEF SessionNext, sessionVars, mgrVars

(* Dispose returns only when every session the manager ever kept is gone,  *)
(* and none is open: the wait group counts the sessions in the maps, a map *)
(* that is disposed takes no other one, and Dispose has closed those it    *)
(* found.                                                                  *)
THEOREM DisposeCoversHolds == SessionSpec => []DisposeCovers
<1>1. DisposeInv => DisposeCovers
  BY DEF DisposeInv, DisposeCovers
<1>. QED  BY DisposeInit, DisposeStep, <1>1, PTL DEF SessionSpec
-----------------------------------------------------------------------------
(* Lists without the first occurrence of a key.                            *)

LEMMA FirstExists ==
  ASSUME NEW S \in SUBSET Nat, S # {}
  PROVE  First(S) \in S
<1>. DEFINE Below == [x \in S |-> {y \in S : y <= x}]
            T == {Below[x] : x \in S}
<1>1. \A x \in S : Below[x] \in FiniteSubsetsOf(Nat)
  <2>. SUFFICES ASSUME NEW x \in S PROVE Below[x] \in FiniteSubsetsOf(Nat)
    OBVIOUS
  <2>1. Below[x] \in SUBSET Nat /\ x \in Nat /\ \A y \in Below[x] : y <= x
    OBVIOUS
  <2>. HIDE DEF Below
  <2>2. IsFiniteSet(Below[x])
    BY <2>1, FS_BoundedSetOfNaturals
  <2>. QED  BY <2>1, <2>2 DEF FiniteSubsetsOf
<1>2. PICK m \in T : \A y \in T : <<y, m>> \notin StrictSubsetOrdering(Nat)
  <2>. HIDE DEF Below
  <2>1. T # {} /\ T \subseteq FiniteSubsetsOf(Nat)
    BY <1>1
  <2>. HIDE DEF T
  <2>. QED  BY <2>1, FS_StrictSubsetOrderingWellFounded, WFMin
<1>3. PICK x \in S : m = Below[x]
  BY <1>2
<1>4. ASSUME NEW y \in S PROVE x <= y
  <2>. SUFFICES ASSUME y < x PROVE FALSE
    OBVIOUS
  <2>1. x \in Below[x] /\ x \notin Below[y]
    OBVIOUS
  <2>2. Below[y] \subseteq Below[x]
    <3>. SUFFICES ASSUME NEW z \in S, z <= y PROVE z <= x
      OBVIOUS
    <3>. x \in Nat /\ y \in Nat /\ z \in Nat
      OBVIOUS
    <3>. QED  OBVIOUS
  <2>3. Below[x] \in SUBSET Nat /\ Below[y] \in SUBSET Nat
    OBVIOUS
  <2>. HIDE DEF Below
  <2>4. Below[y] \in T
    OBVIOUS
  <2>. HIDE DEF T
  <2>. QED  BY <1>2, <1>3, <2>1, <2>2, <2>3, <2>4 DEF StrictSubsetOrdering
<1>. QED  BY <1>4 DEF First

LEMMA CutIs ==
  ASSUME NEW S, NEW s \in Seq(S), NEW k \in 1..Len(s)
  PROVE  LET c == SubSeq(s, 1, k - 1) \o SubSeq(s, k + 1, Len(s))
         IN  /\ c \in Seq(S) /\ Len(c) = Len(s) - 1
             /\ \A i \in 1..Len(c) : c[i] = s[IF i < k THEN i ELSE i + 1]
<1>. DEFINE a == SubSeq(s, 1, k - 1)
            b == SubSeq(s, k + 1, Len(s))
            c == a \o b
<1>1. a \in Seq(S) /\ Len(a) = k - 1 /\ \A i \in 1..Len(a) : a[i] = s[i]
  OBVIOUS
<1>2. b \in Seq(S) /\ Len(b) = Len(s) - k /\ \A i \in 1..Len(b) : b[i] = s[k + i]
  OBVIOUS
<1>. HIDE DEF a, b
<1>3. /\ c \in Seq(S) /\ Len(c) = Len(a) + Len(b)
      /\ \A i \in 1..Len(a) + Len(b) : c[i] = IF i <= Len(a) THEN a[i] ELSE b[i - Len(a)]
  <2>1. a \in Seq(S) /\ b \in Seq(S)
    BY <1>1, <1>2
  <2>. QED  BY <2>1, ConcatProperties
<1>. HIDE DEF c
<1>4. Len(c) = Len(s) - 1
  BY <1>1, <1>2, <1>3
<1>6. PICK m \in Nat, n \in Nat : m = Len(a) /\ n = Len(b)
  <2>1. a \in Seq(S) /\ b \in Seq(S)
    BY <1>1, <1>2
  <2>2. Len(a) \in Nat /\ Len(b) \in Nat
    BY ONLY <2>1
  <2>. QED  BY ONLY <2>2
<1>5. ASSUME NEW i \in 1..Len(c) PROVE c[i] = s[IF i < k THEN i ELSE i + 1]
  <2>1. CASE i < k
    <3>1. i \in 1..Len(a) /\ c[i] = a[i]
      BY <1>1, <1>3, <1>4, <2>1
    <3>. QED  BY <1>1, <2>1, <3>1
  <2>2. CASE i >= k
    <3>1. k = m + 1 /\ i \in 1..(m + n)
      BY <1>1, <1>3, <1>6
    <3>2. i - m \in 1..n /\ k + (i - m) = i + 1 /\ i > m
      BY <2>2, <3>1
    <3>3. c[i] = b[i - m]
      BY <1>3, <1>6, <3>1, <3>2
    <3>4. b[i - m] = s[k + (i - m)]
      BY <1>2, <1>6, <3>2
    <3>. QED  BY <2>2, <3>2, <3>3, <3>4
  <2>. QED  BY <2>1, <2>2
<1>. QED  BY <1>3, <1>4, <1>5 DEF a, b, c


Occurs(k, s)    == \E i \in DOMAIN s : s[i] = k
NoneTwice(s)    == \A i, j \in DOMAIN s : s[i] = s[j] => i = j

LEMMA WithoutCallbackIs ==
  ASSUME NEW S, NEW s \in Seq(S), NEW k
  PROVE  LET c == WithoutCallback(s, k)
         IN  /\ c \in Seq(S)
             /\ \A x : Occurs(x, c) => Occurs(x, s)
             /\ \A x : x # k /\ Occurs(x, s) => Occurs(x, c)
             /\ NoneTwice(s) => NoneTwice(c) /\ ~Occurs(k, c)
<1>1. CASE ~Occurs(k, s)
  <2>1. WithoutCallback(s, k) = s
    BY <1>1 DEF WithoutCallback, Occurs
  <2>. QED  BY <1>1, <2>1
<1>2. CASE Occurs(k, s)
  <2>. DEFINE At == {i \in DOMAIN s : s[i] = k}
              n  == First(At)
              c  == SubSeq(s, 1, n - 1) \o SubSeq(s, n + 1, Len(s))
  <2>1. At \in SUBSET Nat /\ At # {}
    BY <1>2 DEF Occurs
  <2>2. WithoutCallback(s, k) = c
    BY <2>1 DEF WithoutCallback
  <2>3. n \in 1..Len(s) /\ s[n] = k
    <3>. HIDE DEF At
    <3>1. n \in At
      BY <2>1, FirstExists
    <3>. QED  BY <3>1 DEF At
  <2>4. /\ c \in Seq(S) /\ Len(c) = Len(s) - 1
        /\ \A i \in 1..Len(c) : c[i] = s[IF i < n THEN i ELSE i + 1]
    <3>. HIDE DEF n
    <3>. QED  BY <2>3, CutIs
  <2>. DEFINE old(i) == IF i < n THEN i ELSE i + 1
              new(i) == IF i < n THEN i ELSE i - 1
  <2>. HIDE DEF n, c, At
  <2>5. \A i \in 1..Len(c) : old(i) \in 1..Len(s) /\ old(i) # n
    BY <2>3, <2>4
  <2>6. \A i, j \in 1..Len(c) : old(i) = old(j) => i = j
    BY <2>3, <2>4
  <2>7. \A i \in 1..Len(s) : i # n => new(i) \in 1..Len(c) /\ old(new(i)) = i
    BY <2>3, <2>4
  <2>8. \A i \in 1..Len(c) : c[i] = s[old(i)]
    BY <2>4
  <2>9. DOMAIN c = 1..Len(c) /\ DOMAIN s = 1..Len(s)
    BY <2>4
  <2>. HIDE DEF old, new
  <2>10. \A x : Occurs(x, c) => Occurs(x, s)
    BY <2>5, <2>8, <2>9 DEF Occurs
  <2>11. ASSUME NEW x, x # k, NEW i \in DOMAIN s, s[i] = x
         PROVE  Occurs(x, c)
    <3>1. new(i) \in DOMAIN c /\ c[new(i)] = x
      BY <2>3, <2>7, <2>8, <2>9, <2>11
    <3>. QED  BY <3>1 DEF Occurs
  <2>12. ASSUME NoneTwice(s) PROVE NoneTwice(c)
    BY <2>5, <2>6, <2>8, <2>9, <2>12 DEF NoneTwice
  <2>13. ASSUME NoneTwice(s), NEW i \in DOMAIN c, c[i] = k PROVE FALSE
    BY <2>3, <2>5, <2>8, <2>9, <2>13 DEF NoneTwice
  <2>. QED  BY <2>2, <2>4, <2>10, <2>11, <2>12, <2>13 DEF Occurs
<1>. QED  BY <1>1, <1>2

-----------------------------------------------------------------------------
(* The channel and the close callbacks.                                    *)

Works == {"free", "lock", "remove", "unhook", "hook", "send"}
Deed  == [pc : Works, keys : SUBSET Keys, put : Keys \cup {NoOne},
          new : Sessions \cup {NoOne}, on : Sessions \cup {NoOne}, key : Keys \cup {NoOne}]

ChannelShape ==
  /\ closing \in [Sessions -> Phases]
  /\ callbacks \in [Sessions -> Seq(Keys)]
  /\ channel \in [Keys -> Sessions \cup {NoOne}]
  /\ doing \in [Goroutines -> Deed]

Inside(d) == d.pc \in {"remove", "unhook", "hook"}

\* Who is inside the functions of the channel holds its mutex.
Mutexed == \A g \in Goroutines : Inside(doing[g]) <=> chanMutex = g

\* What deed d has to do with the channel ch.
DeedFits(d, ch) ==
  /\ d.pc \in {"free", "send", "hook"} => d.keys = {}
  /\ d.pc = "hook" => d.new # NoOne
  /\ d.pc = "unhook" => d.key \in d.keys /\ d.on # NoOne /\ ch[d.key] = d.on
  /\ d.new # NoOne => d.put \in Keys
  /\ d.new # NoOne /\ d.pc = "lock" => d.put \in d.keys
  /\ d.new # NoOne /\ Inside(d) /\ d.put \notin d.keys => ch[d.put] = NoOne

\* A closing goroutine is in the channel for a callback only.
CallsBack(s) ==
  doing[s].new = NoOne /\ doing[s].pc # "send" /\ (doing[s].pc # "free" => Invoking(s))

Deeds ==
  /\ \A g \in Goroutines : DeedFits(doing[g], channel)
  /\ \A s \in Sessions : CallsBack(s)

\* The close callback of s for k is to be called, or is running.
Due(k, s) == Occurs(k, callbacks[s]) \/ k \in doing[s].keys

Gone(s) == closing[s] \in {"forget", "done"}

\* A session is in the channel if and only if its callback is due, unless one of
\* the two was taken or put when it had closed; an open one has each callback
\* once.
Tied ==
  /\ \A k \in Keys : channel[k] # NoOne =>
       <<k, channel[k]>> \in tardy \/ (Due(k, channel[k]) /\ ~Gone(channel[k]))
  /\ \A k \in Keys, s \in Sessions :
       Due(k, s) => channel[k] = s \/ <<k, s>> \in orphans \cup tardy
  /\ \A k \in Keys, s \in Sessions : <<k, s>> \in orphans \cup tardy => IsClosed(s)
  /\ \A s \in Sessions : ~IsClosed(s) => NoneTwice(callbacks[s])

ChannelInv == ChannelShape /\ Mutexed /\ Deeds /\ Tied

LEMMA EaseIs == AtEase \in Deed /\ AtEase.pc = "free" /\ AtEase.keys = {} /\ AtEase.new = NoOne
BY DEF AtEase, Deed, Works

LEMMA ChannelInit == SessionInit => ChannelInv
<1>. SUFFICES ASSUME SessionInit PROVE ChannelInv
  OBVIOUS
<1>1. ChannelShape
  BY EaseIs, EmptySeq DEF SessionInit, ChannelShape, Phases
<1>2. Mutexed
  BY EaseIs, GoroutineAssumption DEF SessionInit, Mutexed, Inside, Goroutines
<1>3. Deeds
  BY EaseIs DEF SessionInit, Deeds, DeedFits, CallsBack, Goroutines, Inside
<1>4. Tied
  BY EaseIs, EmptySeq DEF SessionInit, Tied, Due, Occurs, NoneTwice, Goroutines
<1>. QED  BY <1>1, <1>2, <1>3, <1>4 DEF ChannelInv

\* A session gets on with its life; it stays closed, is done with its callbacks
\* when it forgets, and runs none after them.
LEMMA ClosingKeeps ==
  ASSUME ChannelInv, UNCHANGED chanVars, closing' \in [Sessions -> Phases],
         \A s \in Sessions : IsClosed(s) => IsClosed(s)',
         \A s \in Sessions : Invoking(s) => Invoking(s)' \/ doing[s].pc = "free",
         \A s \in Sessions : Gone(s)' =>
           Gone(s) \/ (doing[s].pc = "free" /\ callbacks[s] = <<>>)
  PROVE  ChannelInv'
<1>1. ChannelShape'
  BY DEF ChannelInv, ChannelShape, chanVars
<1>2. Mutexed'
  BY DEF ChannelInv, Mutexed, Inside, chanVars
<1>3. Deeds'
  BY DEF ChannelInv, Deeds, DeedFits, CallsBack, Inside, chanVars
<1>4. UNCHANGED <<callbacks, channel, doing, tardy, orphans>>
  BY DEF chanVars
<1>5. \A k, s : Due(k, s)' <=> Due(k, s)
  BY <1>4 DEF Due, Occurs
<1>6. ASSUME NEW k \in Keys, channel[k] # NoOne, <<k, channel[k]>> \notin tardy
      PROVE  Due(k, channel[k]) /\ ~Gone(channel[k])'
  <2>. DEFINE s == channel[k]
  <2>1. s \in Sessions /\ Due(k, s) /\ ~Gone(s)
    BY <1>6 DEF ChannelInv, ChannelShape, Tied
  <2>2. s \in Goroutines /\ DeedFits(doing[s], channel)
    BY <2>1 DEF ChannelInv, Deeds, Goroutines
  <2>3. ~(doing[s].pc = "free" /\ callbacks[s] = <<>>)
    BY <2>1, <2>2, EmptySeq DEF Due, Occurs, DeedFits
  <2>. QED  BY <1>4, <2>1, <2>3 DEF Gone
<1>7. Tied'
  BY <1>4, <1>5, <1>6 DEF ChannelInv, Tied
<1>. QED  BY <1>1, <1>2, <1>3, <1>7 DEF ChannelInv

LEMMA ChannelCloseStep ==
  ASSUME ChannelInv, NEW s \in Sessions,
         NewSession(s) \/ PutSession(s) \/ Close(s) \/ CloseSendChan(s)
           \/ InvokeCloseCallbacks(s) \/ CallbacksEnd(s) \/ DelSession(s) \/ DisposeClose(s)
  PROVE  ChannelInv'
<1>1. ASSUME NEW p \in Phases, closing' = [closing EXCEPT ![s] = p], UNCHANGED chanVars,
             IsClosed(s) => p \notin {"none", "made", "open"},
             Invoking(s) => doing[s].pc = "free",
             p \in {"forget", "done"} =>
               Gone(s) \/ (doing[s].pc = "free" /\ callbacks[s] = <<>>)
      PROVE  ChannelInv'
  <2>1. closing' \in [Sessions -> Phases] /\ \A t \in Sessions : closing'[t] = IF t = s THEN p ELSE closing[t]
    BY <1>1 DEF ChannelInv, ChannelShape
  <2>2. \A t \in Sessions : IsClosed(t) => IsClosed(t)'
    BY <1>1, <2>1 DEF IsClosed
  <2>3. \A t \in Sessions : Invoking(t) => Invoking(t)' \/ doing[t].pc = "free"
    BY <1>1, <2>1 DEF Invoking
  <2>4. \A t \in Sessions : Gone(t)' => Gone(t) \/ (doing[t].pc = "free" /\ callbacks[t] = <<>>)
    BY <1>1, <2>1 DEF Gone
  <2>. QED  BY <1>1, <2>1, <2>2, <2>3, <2>4, ClosingKeeps
<1>2. CASE NewSession(s)
  BY <1>1, <1>2 DEF NewSession, IsClosed, Invoking, Phases
<1>3. CASE PutSession(s)
  BY <1>1, <1>3 DEF PutSession, IsClosed, Invoking, Phases
<1>4. CASE Close(s)
  BY <1>1, <1>4 DEF Close, IsClosed, Invoking, Phases
<1>5. CASE CloseSendChan(s)
  BY <1>1, <1>5 DEF CloseSendChan, IsClosed, Invoking, Phases
<1>6. CASE InvokeCloseCallbacks(s)
  BY <1>1, <1>6 DEF InvokeCloseCallbacks, IsClosed, Invoking, Phases
<1>7. CASE CallbacksEnd(s)
  BY <1>1, <1>7, EaseIs DEF CallbacksEnd, Phases
<1>8. CASE DelSession(s)
  BY <1>1, <1>8 DEF DelSession, Invoking, Gone, Phases
<1>9. CASE DisposeClose(s)
  <2>1. CASE UNCHANGED closing
    <3>1. UNCHANGED chanVars
      BY <1>9 DEF DisposeClose
    <3>. QED  BY <2>1, <3>1, ClosingKeeps DEF IsClosed, Invoking, Gone, ChannelInv, ChannelShape
  <2>. QED  BY <1>1, <1>9, <2>1 DEF DisposeClose, IsClosed, Invoking, Phases
<1>. QED  BY <1>2, <1>3, <1>4, <1>5, <1>6, <1>7, <1>8, <1>9


\* One goroutine goes on; it changes the channel only with its mutex.
LEMMA DeedKeeps ==
  ASSUME ChannelInv, NEW g \in Goroutines, NEW d \in Deed, doing' = [doing EXCEPT ![g] = d],
         closing' \in [Sessions -> Phases], \A s \in Sessions : Invoking(s) => Invoking(s)',
         callbacks' \in [Sessions -> Seq(Keys)], channel' \in [Keys -> Sessions \cup {NoOne}],
         channel' = channel \/ chanMutex = g,
         Inside(d) <=> chanMutex' = g,
         chanMutex' = chanMutex \/ {chanMutex, chanMutex'} \subseteq {NoOne, g},
         DeedFits(d, channel'),
         g \in Sessions => d.new = NoOne /\ d.pc # "send" /\ (d.pc # "free" => Invoking(g))
  PROVE  (ChannelShape /\ Mutexed /\ Deeds)'
<1>1. /\ doing' \in [Goroutines -> Deed] /\ doing'[g] = d
      /\ \A h \in Goroutines : h # g => doing'[h] = doing[h]
  BY DEF ChannelInv, ChannelShape
<1>2. ChannelShape'
  BY <1>1 DEF ChannelShape
<1>3. g # NoOne /\ NoOne \notin Goroutines
  BY GoroutineAssumption DEF Goroutines
<1>4. Mutexed'
  <2>. SUFFICES ASSUME NEW h \in Goroutines PROVE Inside(doing'[h]) <=> chanMutex' = h
    BY DEF Mutexed, Inside
  <2>1. CASE h = g
    BY <1>1, <2>1
  <2>2. CASE h # g
    BY <1>1, <1>3, <2>2 DEF ChannelInv, Mutexed
  <2>. QED  BY <2>1, <2>2
<1>5. ASSUME NEW h \in Goroutines PROVE DeedFits(doing'[h], channel')
  <2>1. CASE h = g
    BY <1>1, <2>1
  <2>2. CASE h # g /\ channel' = channel
    BY <1>1, <2>2 DEF ChannelInv, Deeds
  <2>3. CASE h # g /\ chanMutex = g
    <3>1. ~Inside(doing[h]) /\ DeedFits(doing[h], channel) /\ doing'[h] = doing[h]
      BY <1>1, <2>3 DEF ChannelInv, Deeds, Mutexed
    <3>. QED  BY <3>1 DEF DeedFits, Inside
  <2>. QED  BY <2>1, <2>2, <2>3
<1>6. ASSUME NEW s \in Sessions
      PROVE  doing'[s].new = NoOne /\ doing'[s].pc # "send" /\ (doing'[s].pc # "free" => Invoking(s)')
  BY <1>1 DEF ChannelInv, Deeds, CallsBack, Goroutines
<1>7. Deeds'
  BY <1>5, <1>6 DEF Deeds, CallsBack, DeedFits, Inside
<1>. QED  BY <1>2, <1>4, <1>7

LEMMA TiedKeeps ==
  ASSUME ChannelInv, UNCHANGED <<channel, tardy, orphans>>,
         \A k \in Keys, s \in Sessions : Due(k, s)' <=> Due(k, s),
         \A s \in Sessions : IsClosed(s) => IsClosed(s)',
         \A s \in Sessions : Gone(s)' => Gone(s),
         \A s \in Sessions : ~IsClosed(s) => callbacks'[s] = callbacks[s]
  PROVE  Tied'
<1>1. ASSUME NEW k \in Keys, channel[k] # NoOne
      PROVE  <<k, channel[k]>> \in tardy \/ (Due(k, channel[k])' /\ ~Gone(channel[k])')
  BY <1>1 DEF ChannelInv, ChannelShape, Tied
<1>2. ASSUME NEW s \in Sessions, ~IsClosed(s)' PROVE NoneTwice(callbacks'[s])
  BY <1>2 DEF ChannelInv, Tied
<1>3. /\ \A k \in Keys, s \in Sessions : Due(k, s)' => channel[k] = s \/ <<k, s>> \in orphans \cup tardy
      /\ \A k \in Keys, s \in Sessions : <<k, s>> \in orphans \cup tardy => IsClosed(s)'
  BY DEF ChannelInv, Tied
<1>. QED  BY <1>1, <1>2, <1>3 DEF Tied, NoneTwice, Gone, Due, Occurs

\* A worker outside the functions of the channel.
LEMMA ChannelWorkStep ==
  ASSUME ChannelInv, NEW w \in Workers,
         \/ \E s \in Sessions : SendTest(w, s) \/ \E k \in Keys : PutChannel(w, k, s)
         \/ \E k \in Keys : RemoveChannel(w, k)
         \/ RemoveAll(w) \/ SendPut(w)
  PROVE  ChannelInv'
<1>. w \in Goroutines /\ w \notin Sessions /\ doing[w] \in Deed
  BY GoroutineAssumption DEF Goroutines, ChannelInv, ChannelShape
<1>1. ASSUME NEW d \in Deed, doing' = [doing EXCEPT ![w] = d],
             ~Inside(doing[w]), ~Inside(d), DeedFits(d, channel),
             UNCHANGED <<callbacks, channel, chanMutex, tardy, orphans>>,
             closing' \in [Sessions -> Phases],
             \A s \in Sessions : IsClosed(s) => IsClosed(s)',
             \A s \in Sessions : Invoking(s) => Invoking(s)',
             \A s \in Sessions : Gone(s)' => Gone(s)
      PROVE  ChannelInv'
  <2>1. chanMutex # w
    BY <1>1 DEF ChannelInv, Mutexed
  <2>2. (ChannelShape /\ Mutexed /\ Deeds)'
    <3>1. /\ callbacks' \in [Sessions -> Seq(Keys)] /\ channel' \in [Keys -> Sessions \cup {NoOne}]
          /\ channel' = channel /\ chanMutex' = chanMutex /\ (Inside(d) <=> chanMutex' = w)
          /\ DeedFits(d, channel')
      BY <1>1, <2>1 DEF ChannelInv, ChannelShape
    <3>. QED  BY <1>1, <3>1, DeedKeeps
  <2>3. \A s \in Sessions : doing'[s] = doing[s]
    BY <1>1 DEF ChannelInv, ChannelShape
  <2>4. \A k \in Keys, s \in Sessions : Due(k, s)' <=> Due(k, s)
    BY <1>1, <2>3 DEF Due, Occurs
  <2>5. Tied'
    BY <1>1, <2>4, TiedKeeps
  <2>. QED  BY <2>2, <2>5 DEF ChannelInv
<1>2. ASSUME NEW d \in Deed, BeginWork(w, d), ~Inside(d), DeedFits(d, channel)
      PROVE  ChannelInv'
  <2>1. ~Inside(doing[w])
    BY <1>2, EaseIs DEF BeginWork, Inside
  <2>2. closing' = closing /\ closing' \in [Sessions -> Phases]
    BY <1>2 DEF BeginWork, ChannelInv, ChannelShape
  <2>. QED  BY <1>1, <1>2, <2>1, <2>2 DEF BeginWork, IsClosed, Invoking, Gone
<1>3. ASSUME NEW s \in Sessions, SendTest(w, s) PROVE ChannelInv'
  <2>. DEFINE d == [AtEase EXCEPT !.pc = "send", !.on = s]
  <2>1. d \in Deed /\ ~Inside(d) /\ DeedFits(d, channel)
    BY DEF AtEase, Deed, Works, Inside, DeedFits
  <2>. QED  BY <1>2, <1>3, <2>1 DEF SendTest
<1>4. ASSUME NEW s \in Sessions, NEW k \in Keys, PutChannel(w, k, s) PROVE ChannelInv'
  <2>. DEFINE d == [AtEase EXCEPT !.pc = "lock", !.keys = {k}, !.put = k, !.new = s]
  <2>1. d \in Deed /\ ~Inside(d) /\ DeedFits(d, channel)
    BY DEF AtEase, Deed, Works, Inside, DeedFits
  <2>. QED  BY <1>2, <1>4, <2>1 DEF PutChannel
<1>5. ASSUME NEW k \in Keys, RemoveChannel(w, k) PROVE ChannelInv'
  <2>. DEFINE d == [AtEase EXCEPT !.pc = "lock", !.keys = {k}]
  <2>1. d \in Deed /\ ~Inside(d) /\ DeedFits(d, channel)
    BY DEF AtEase, Deed, Works, Inside, DeedFits
  <2>. QED  BY <1>2, <1>5, <2>1 DEF RemoveChannel
<1>6. CASE RemoveAll(w)
  <2>. DEFINE d == [AtEase EXCEPT !.pc = "lock", !.keys = Keys]
  <2>1. d \in Deed /\ ~Inside(d) /\ DeedFits(d, channel)
    BY DEF AtEase, Deed, Works, Inside, DeedFits
  <2>. QED  BY <1>2, <1>6, <2>1 DEF RemoveAll
<1>7. CASE SendPut(w)
  <2>1. AtEase \in Deed /\ ~Inside(AtEase) /\ DeedFits(AtEase, channel) /\ ~Inside(doing[w])
    BY <1>7, EaseIs DEF SendPut, Inside, DeedFits
  <2>2. /\ closing' \in [Sessions -> Phases]
        /\ \A s \in Sessions : closing'[s] = closing[s] \/ (closing[s] = "open" /\ closing'[s] = "flagged")
    BY <1>7 DEF SendPut, ChannelInv, ChannelShape, Phases
  <2>3. /\ \A s \in Sessions : IsClosed(s) => IsClosed(s)'
        /\ \A s \in Sessions : Invoking(s) => Invoking(s)'
        /\ \A s \in Sessions : Gone(s)' => Gone(s)
    BY <2>2 DEF IsClosed, Invoking, Gone
  <2>. QED  BY <1>1, <1>7, <2>1, <2>2, <2>3 DEF SendPut
<1>. QED  BY <1>3, <1>4, <1>5, <1>6, <1>7

LEMMA HeadIsFirst ==
  ASSUME NEW S, NEW s \in Seq(S), s # <<>>, NEW x
  PROVE  Occurs(x, s) <=> x = Head(s) \/ Occurs(x, Tail(s))
<1>1. /\ Tail(s) \in Seq(S) /\ Len(Tail(s)) = Len(s) - 1 /\ Len(s) \in Nat \ {0}
      /\ Head(s) = s[1] /\ \A i \in 1..Len(Tail(s)) : Tail(s)[i] = s[i + 1]
  BY HeadTailProperties, EmptySeq, LenProperties
<1>2. DOMAIN s = 1..Len(s) /\ DOMAIN Tail(s) = 1..Len(Tail(s))
  BY <1>1
<1>3. ASSUME NEW i \in DOMAIN s PROVE s[i] = Head(s) \/ Occurs(s[i], Tail(s))
  <2>1. CASE i = 1
    BY <1>1, <2>1
  <2>2. CASE i # 1
    <3>1. i - 1 \in 1..Len(Tail(s)) /\ (i - 1) + 1 = i
      BY <1>1, <1>2, <2>2
    <3>. QED  BY <1>1, <1>2, <3>1 DEF Occurs
  <2>. QED  BY <2>1, <2>2
<1>4. ASSUME NEW i \in DOMAIN Tail(s) PROVE Occurs(Tail(s)[i], s)
  <2>1. i + 1 \in DOMAIN s /\ Tail(s)[i] = s[i + 1]
    BY <1>1, <1>2
  <2>. QED  BY <2>1 DEF Occurs
<1>5. Occurs(Head(s), s)
  <2>1. 1 \in DOMAIN s
    BY <1>1, <1>2
  <2>. QED  BY <1>1, <2>1 DEF Occurs
<1>. QED  BY <1>3, <1>4, <1>5 DEF Occurs

\* What the steps of the functions of the channel have in common.
LEMMA HolderKeeps ==
  ASSUME ChannelInv, NEW g \in Goroutines, Inside(doing[g]), UNCHANGED closing,
         NEW d \in Deed, doing' = [doing EXCEPT ![g] = d],
         callbacks' \in [Sessions -> Seq(Keys)], channel' \in [Keys -> Sessions \cup {NoOne}],
         (Inside(d) /\ chanMutex' = chanMutex) \/ (d.pc = "free" /\ chanMutex' = NoOne),
         DeedFits(d, channel'), d.new = doing[g].new \/ d.new = NoOne
  PROVE  (ChannelShape /\ Mutexed /\ Deeds)'
<1>1. chanMutex = g /\ g # NoOne
  BY GoroutineAssumption DEF ChannelInv, Mutexed, Goroutines
<1>2. /\ Inside(d) <=> chanMutex' = g
      /\ chanMutex' = chanMutex \/ {chanMutex, chanMutex'} \subseteq {NoOne, g}
  BY <1>1 DEF Inside
<1>3. g \in Sessions => d.new = NoOne /\ d.pc # "send" /\ (d.pc # "free" => Invoking(g))
  BY DEF ChannelInv, Deeds, CallsBack, Inside
<1>4. closing' \in [Sessions -> Phases] /\ \A s \in Sessions : Invoking(s) => Invoking(s)'
  BY DEF ChannelInv, ChannelShape, Invoking
<1>5. channel' = channel \/ chanMutex = g
  BY <1>1
<1>. QED  BY <1>2, <1>3, <1>4, <1>5, DeedKeeps

LEMMA CallBackStep ==
  ASSUME ChannelInv, NEW s \in Sessions, CallBack(s)
  PROVE  ChannelInv'
<1>. DEFINE k == Head(callbacks[s])
            d == [AtEase EXCEPT !.pc = "lock", !.keys = {k}]
<1>1. s \in Goroutines /\ callbacks[s] \in Seq(Keys) /\ callbacks[s] # <<>> /\ k \in Keys
  BY DEF CallBack, Goroutines, ChannelInv, ChannelShape
<1>2. d \in Deed /\ ~Inside(d) /\ DeedFits(d, channel) /\ d.pc = "lock" /\ d.new = NoOne /\ d.keys = {k}
  BY <1>1 DEF AtEase, Deed, Works, Inside, DeedFits
<1>3. ~Inside(doing[s]) /\ doing[s].keys = {}
  BY EaseIs DEF CallBack, Inside
<1>4. chanMutex # s
  BY <1>1, <1>3 DEF ChannelInv, Mutexed
<1>5. /\ doing' = [doing EXCEPT ![s] = d] /\ callbacks' = [callbacks EXCEPT ![s] = Tail(callbacks[s])]
      /\ Invoking(s) /\ UNCHANGED <<closing, channel, chanMutex, tardy, orphans>>
  BY DEF CallBack
<1>. HIDE DEF d, k
<1>6. /\ callbacks' \in [Sessions -> Seq(Keys)] /\ channel' \in [Keys -> Sessions \cup {NoOne}]
      /\ closing' \in [Sessions -> Phases] /\ \A t \in Sessions : Invoking(t) => Invoking(t)'
  BY <1>1, <1>5 DEF ChannelInv, ChannelShape, Invoking
<1>7. (ChannelShape /\ Mutexed /\ Deeds)'
  <2>1. channel' = channel /\ chanMutex' = chanMutex /\ (Inside(d) <=> chanMutex' = s) /\ DeedFits(d, channel')
    BY <1>2, <1>4, <1>5
  <2>. QED  BY <1>1, <1>2, <1>5, <1>6, <2>1, DeedKeeps
<1>8. ASSUME NEW x \in Keys, NEW t \in Sessions PROVE Due(x, t)' <=> Due(x, t)
  <2>1. CASE t # s
    <3>1. callbacks'[t] = callbacks[t] /\ doing'[t] = doing[t]
      BY <1>5, <2>1 DEF ChannelInv, ChannelShape
    <3>. QED  BY <3>1 DEF Due, Occurs
  <2>2. CASE t = s
    <3>1. callbacks'[s] = Tail(callbacks[s]) /\ doing'[s].keys = {k}
      BY <1>1, <1>2, <1>5 DEF ChannelInv, ChannelShape
    <3>2. Occurs(x, callbacks[s]) <=> x = k \/ Occurs(x, Tail(callbacks[s]))
      BY <1>1, HeadIsFirst DEF k
    <3>. QED  BY <1>3, <2>2, <3>1, <3>2 DEF Due, Occurs
  <2>. QED  BY <2>1, <2>2
<1>9. \A t \in Sessions : ~IsClosed(t) => callbacks'[t] = callbacks[t]
  BY <1>5 DEF ChannelInv, ChannelShape, Invoking, IsClosed
<1>10. Tied'
  BY <1>5, <1>8, <1>9, TiedKeeps DEF IsClosed, Gone
<1>. QED  BY <1>7, <1>10 DEF ChannelInv

LEMMA ChannelLockStep ==
  ASSUME ChannelInv, NEW g \in Goroutines, ChannelLock(g)
  PROVE  ChannelInv'
<1>. DEFINE d == [doing[g] EXCEPT !.pc = "remove"]
<1>1. doing[g] \in Deed /\ DeedFits(doing[g], channel) /\ doing[g].pc = "lock"
  BY DEF ChannelInv, ChannelShape, Deeds, ChannelLock
<1>2. /\ d \in Deed /\ Inside(d) /\ DeedFits(d, channel) /\ d.pc = "remove"
      /\ d.new = doing[g].new /\ d.keys = doing[g].keys
  BY <1>1 DEF Deed, Works, Inside, DeedFits
<1>3. /\ doing' = [doing EXCEPT ![g] = d] /\ chanMutex = NoOne /\ chanMutex' = g
      /\ UNCHANGED <<closing, callbacks, channel, tardy, orphans>>
  BY DEF ChannelLock
<1>. HIDE DEF d
<1>4. g \in Sessions => d.new = NoOne /\ d.pc # "send" /\ (d.pc # "free" => Invoking(g))
  BY <1>1, <1>2 DEF ChannelInv, Deeds, CallsBack
<1>5. (ChannelShape /\ Mutexed /\ Deeds)'
  <2>1. /\ channel' = channel /\ chanMutex' = g /\ {chanMutex, chanMutex'} \subseteq {NoOne, g}
        /\ callbacks' \in [Sessions -> Seq(Keys)] /\ channel' \in [Keys -> Sessions \cup {NoOne}]
        /\ closing' \in [Sessions -> Phases] /\ \A t \in Sessions : Invoking(t) => Invoking(t)'
        /\ DeedFits(d, channel')
    BY <1>2, <1>3 DEF ChannelInv, ChannelShape, Invoking
  <2>. QED  BY <1>2, <1>3, <1>4, <2>1, DeedKeeps
<1>6. \A t \in Goroutines : doing'[t].keys = doing[t].keys
  BY <1>2, <1>3 DEF ChannelInv, ChannelShape
<1>7. \A k \in Keys, s \in Sessions : Due(k, s)' <=> Due(k, s)
  BY <1>3, <1>6 DEF Due, Occurs, Goroutines
<1>8. Tied'
  BY <1>3, <1>7, TiedKeeps DEF IsClosed, Gone
<1>. QED  BY <1>5, <1>8 DEF ChannelInv

\* What is left of Tied when a goroutine has taken a step.
LEMMA TiedNext ==
  ASSUME channel' \in [Keys -> Sessions \cup {NoOne}], UNCHANGED closing,
         \A k \in Keys, s \in Sessions : channel'[k] = s =>
           <<k, s>> \in tardy' \/ (Due(k, s)' /\ ~Gone(s)),
         \A k \in Keys, s \in Sessions :
           Due(k, s)' => channel'[k] = s \/ <<k, s>> \in orphans' \cup tardy',
         \A k \in Keys, s \in Sessions : <<k, s>> \in orphans' \cup tardy' => IsClosed(s),
         \A s \in Sessions : ~IsClosed(s) => NoneTwice(callbacks'[s])
  PROVE  Tied'
<1>1. ASSUME NEW k \in Keys, NEW s \in Sessions, channel'[k] = s
      PROVE  <<k, channel'[k]>> \in tardy' \/ (Due(k, s)' /\ ~Gone(s)')
  BY <1>1 DEF Gone
<1>. QED  BY <1>1 DEF Tied, Due, Occurs, Gone, IsClosed, NoneTwice

LEMMA RemoveKeyStep ==
  ASSUME ChannelInv, NEW g \in Goroutines, NEW k \in Keys, RemoveKey(g, k)
  PROVE  ChannelInv'
<1>1. /\ doing[g] \in Deed /\ DeedFits(doing[g], channel) /\ doing[g].pc = "remove"
      /\ k \in doing[g].keys /\ Inside(doing[g])
  BY DEF ChannelInv, ChannelShape, Deeds, RemoveKey, Inside
<1>2. UNCHANGED <<closing, callbacks, chanMutex, tardy>>
  BY DEF RemoveKey
<1>3. CASE channel[k] # NoOne /\ ~IsClosed(channel[k])
  <2>. DEFINE d == [doing[g] EXCEPT !.pc = "unhook", !.key = k, !.on = channel[k]]
  <2>1. doing' = [doing EXCEPT ![g] = d] /\ UNCHANGED <<channel, orphans>>
    BY <1>3 DEF RemoveKey
  <2>2. channel[k] \in Sessions
    BY <1>3 DEF ChannelInv, ChannelShape
  <2>3. /\ d \in Deed /\ Inside(d) /\ DeedFits(d, channel)
        /\ d.new = doing[g].new /\ d.keys = doing[g].keys
    BY <1>1, <1>3, <2>2 DEF Deed, Works, Inside, DeedFits
  <2>. HIDE DEF d
  <2>4. (ChannelShape /\ Mutexed /\ Deeds)'
    <3>1. /\ callbacks' \in [Sessions -> Seq(Keys)] /\ channel' \in [Keys -> Sessions \cup {NoOne}]
          /\ DeedFits(d, channel')
      BY <1>2, <2>1, <2>3 DEF ChannelInv, ChannelShape
    <3>. QED  BY <1>1, <1>2, <2>1, <2>3, <3>1, HolderKeeps
  <2>5. \A t \in Goroutines : doing'[t].keys = doing[t].keys
    BY <2>1, <2>3 DEF ChannelInv, ChannelShape
  <2>6. \A x \in Keys, s \in Sessions : Due(x, s)' <=> Due(x, s)
    BY <1>2, <2>5 DEF Due, Occurs, Goroutines
  <2>7. Tied'
    BY <1>2, <2>1, <2>6, TiedKeeps DEF IsClosed, Gone
  <2>. QED  BY <2>4, <2>7 DEF ChannelInv
<1>4. CASE ~(channel[k] # NoOne /\ ~IsClosed(channel[k]))
  <2>. DEFINE d == [doing[g] EXCEPT !.keys = @ \ {k}]
  <2>1. /\ doing' = [doing EXCEPT ![g] = d] /\ channel' = [channel EXCEPT ![k] = NoOne]
        /\ orphans' = IF channel[k] = NoOne THEN orphans ELSE orphans \cup {<<k, channel[k]>>}
    BY <1>4 DEF RemoveKey
  <2>2. /\ channel' \in [Keys -> Sessions \cup {NoOne}] /\ channel'[k] = NoOne
        /\ \A x \in Keys : x # k => channel'[x] = channel[x]
    BY <2>1 DEF ChannelInv, ChannelShape
  <2>3. /\ d \in Deed /\ Inside(d) /\ DeedFits(d, channel')
        /\ d.new = doing[g].new /\ d.keys = doing[g].keys \ {k}
    BY <1>1, <2>2 DEF Deed, Works, Inside, DeedFits
  <2>. HIDE DEF d
  <2>4. (ChannelShape /\ Mutexed /\ Deeds)'
    <3>1. callbacks' \in [Sessions -> Seq(Keys)]
      BY <1>2 DEF ChannelInv, ChannelShape
    <3>. QED  BY <1>1, <1>2, <2>1, <2>2, <2>3, <3>1, HolderKeeps
  <2>5. \A t \in Goroutines : doing'[t].keys = IF t = g THEN doing[g].keys \ {k} ELSE doing[t].keys
    BY <2>1, <2>3 DEF ChannelInv, ChannelShape
  <2>6. \A x \in Keys, s \in Sessions : (Due(x, s)' => Due(x, s)) /\ (x # k /\ Due(x, s) => Due(x, s)')
    BY <1>2, <2>5 DEF Due, Occurs, Goroutines
  <2>7. ASSUME NEW x \in Keys, NEW s \in Sessions, channel'[x] = s
        PROVE  <<x, s>> \in tardy \/ (Due(x, s)' /\ ~Gone(s))
    <3>1. x # k /\ channel[x] = s /\ s # NoOne
      BY <2>2, <2>7, GoroutineAssumption
    <3>2. <<x, s>> \in tardy \/ (Due(x, s) /\ ~Gone(s))
      BY <3>1 DEF ChannelInv, Tied
    <3>. QED  BY <2>6, <3>1, <3>2
  <2>8. ASSUME NEW x \in Keys, NEW s \in Sessions, Due(x, s)'
        PROVE  channel'[x] = s \/ <<x, s>> \in orphans' \cup tardy
    <3>1. channel[x] = s \/ <<x, s>> \in orphans \cup tardy
      BY <2>6, <2>8 DEF ChannelInv, Tied
    <3>2. s # NoOne
      BY GoroutineAssumption
    <3>. QED  BY <2>1, <2>2, <3>1, <3>2
  <2>9. ASSUME NEW x \in Keys, NEW s \in Sessions, <<x, s>> \in orphans' \cup tardy
        PROVE  IsClosed(s)
    BY <1>4, <2>1, <2>9 DEF ChannelInv, Tied
  <2>10. Tied'
    BY <1>2, <2>2, <2>7, <2>8, <2>9, TiedNext DEF ChannelInv, Tied
  <2>. QED  BY <2>4, <2>10 DEF ChannelInv
<1>. QED  BY <1>3, <1>4

\* Nobody calls back, and nobody is to remove, for a session that is open.
LEMMA OpenDue ==
  ASSUME ChannelInv, NEW s \in Sessions, ~IsClosed(s)
  PROVE  doing[s].pc = "free" /\ doing[s].keys = {}
BY DEF ChannelInv, Deeds, CallsBack, DeedFits, Goroutines, Invoking, IsClosed

LEMMA UnhookStep ==
  ASSUME ChannelInv, NEW g \in Goroutines, Unhook(g)
  PROVE  ChannelInv'
<1>. DEFINE k == doing[g].key
            o == doing[g].on
            d == [doing[g] EXCEPT !.pc = "remove", !.keys = @ \ {k}, !.key = NoOne, !.on = NoOne]
            c == WithoutCallback(callbacks[o], k)
<1>1. /\ doing[g] \in Deed /\ DeedFits(doing[g], channel) /\ doing[g].pc = "unhook"
      /\ Inside(doing[g]) /\ ~Invoking(o)
  BY DEF ChannelInv, ChannelShape, Deeds, Unhook, Inside
<1>2. k \in Keys /\ k \in doing[g].keys /\ o \in Sessions /\ channel[k] = o /\ callbacks[o] \in Seq(Keys)
  BY <1>1 DEF DeedFits, Deed, ChannelInv, ChannelShape
<1>3. /\ doing' = [doing EXCEPT ![g] = d] /\ callbacks' = [callbacks EXCEPT ![o] = c]
      /\ channel' = [channel EXCEPT ![k] = NoOne]
      /\ orphans' = IF IsClosed(o) THEN orphans \cup {<<k, o>>} ELSE orphans
      /\ UNCHANGED <<closing, chanMutex, tardy>>
  BY DEF Unhook
<1>4. /\ channel' \in [Keys -> Sessions \cup {NoOne}] /\ channel'[k] = NoOne
      /\ \A x \in Keys : x # k => channel'[x] = channel[x]
  BY <1>2, <1>3 DEF ChannelInv, ChannelShape
<1>5. /\ d \in Deed /\ Inside(d) /\ DeedFits(d, channel')
      /\ d.new = doing[g].new /\ d.keys = doing[g].keys \ {k}
  BY <1>1, <1>2, <1>4 DEF Deed, Works, Inside, DeedFits
<1>6. /\ c \in Seq(Keys)
      /\ \A x : Occurs(x, c) => Occurs(x, callbacks[o])
      /\ \A x : x # k /\ Occurs(x, callbacks[o]) => Occurs(x, c)
      /\ NoneTwice(callbacks[o]) => NoneTwice(c) /\ ~Occurs(k, c)
  BY <1>2, WithoutCallbackIs
<1>. HIDE DEF d, c, k, o
<1>7. /\ callbacks' \in [Sessions -> Seq(Keys)] /\ callbacks'[o] = c
      /\ \A s \in Sessions : s # o => callbacks'[s] = callbacks[s]
  BY <1>2, <1>3, <1>6 DEF ChannelInv, ChannelShape
<1>8. (ChannelShape /\ Mutexed /\ Deeds)'
  BY <1>1, <1>3, <1>4, <1>5, <1>7, HolderKeeps
<1>9. \A t \in Goroutines : doing'[t].keys = IF t = g THEN doing[g].keys \ {k} ELSE doing[t].keys
  BY <1>3, <1>5 DEF ChannelInv, ChannelShape
<1>10. ASSUME NEW x \in Keys, NEW s \in Sessions
       PROVE  (Due(x, s)' => Due(x, s)) /\ (x # k /\ Due(x, s) => Due(x, s)')
  <2>1. /\ Occurs(x, callbacks'[s]) => Occurs(x, callbacks[s])
        /\ x # k /\ Occurs(x, callbacks[s]) => Occurs(x, callbacks'[s])
    BY <1>6, <1>7
  <2>. QED  BY <1>9, <2>1 DEF Due, Occurs, Goroutines
<1>11. ASSUME NEW x \in Keys, NEW s \in Sessions, channel'[x] = s
       PROVE  <<x, s>> \in tardy \/ (Due(x, s)' /\ ~Gone(s))
  <2>1. x # k /\ channel[x] = s /\ s # NoOne
    BY <1>4, <1>11, GoroutineAssumption
  <2>2. <<x, s>> \in tardy \/ (Due(x, s) /\ ~Gone(s))
    BY <2>1 DEF ChannelInv, Tied
  <2>. QED  BY <1>10, <2>1, <2>2
<1>12. ASSUME NEW s \in Sessions, ~IsClosed(s)
       PROVE  NoneTwice(callbacks'[s]) /\ \A x \in Keys : x = k /\ s = o => ~Due(x, s)'
  <2>1. NoneTwice(callbacks[s])
    BY <1>12 DEF ChannelInv, Tied
  <2>2. doing[s].keys = {} /\ s \in Goroutines
    BY <1>12, OpenDue DEF Goroutines
  <2>3. doing'[s].keys = {}
    BY <1>9, <2>2
  <2>. QED  BY <1>6, <1>7, <2>1, <2>3 DEF Due, Occurs
<1>13. ASSUME NEW x \in Keys, NEW s \in Sessions, Due(x, s)'
       PROVE  channel'[x] = s \/ <<x, s>> \in orphans' \cup tardy
  <2>1. channel[x] = s \/ <<x, s>> \in orphans \cup tardy
    BY <1>10, <1>13 DEF ChannelInv, Tied
  <2>2. x = k /\ s = o => IsClosed(o)
    BY <1>12, <1>13
  <2>. QED  BY <1>2, <1>3, <1>4, <2>1, <2>2
<1>14. ASSUME NEW x \in Keys, NEW s \in Sessions, <<x, s>> \in orphans' \cup tardy
       PROVE  IsClosed(s)
  BY <1>3, <1>14 DEF ChannelInv, Tied
<1>15. Tied'
  BY <1>3, <1>4, <1>11, <1>12, <1>13, <1>14, TiedNext
<1>. QED  BY <1>8, <1>15 DEF ChannelInv

LEMMA RemoveEndStep ==
  ASSUME ChannelInv, NEW g \in Goroutines, RemoveEnd(g)
  PROVE  ChannelInv'
<1>1. Inside(doing[g]) /\ doing[g].keys = {}
  BY DEF RemoveEnd, Inside
<1>2. /\ doing' = [doing EXCEPT ![g] = AtEase] /\ chanMutex' = NoOne
      /\ UNCHANGED <<closing, callbacks, channel, tardy, orphans>>
  BY DEF RemoveEnd
<1>3. (ChannelShape /\ Mutexed /\ Deeds)'
  <2>1. DeedFits(AtEase, channel')
    BY EaseIs DEF DeedFits, Inside
  <2>2. callbacks' \in [Sessions -> Seq(Keys)] /\ channel' \in [Keys -> Sessions \cup {NoOne}]
    BY <1>2 DEF ChannelInv, ChannelShape
  <2>. QED  BY <1>1, <1>2, <2>1, <2>2, EaseIs, HolderKeeps
<1>4. \A t \in Goroutines : doing'[t].keys = doing[t].keys
  BY <1>1, <1>2, EaseIs DEF ChannelInv, ChannelShape
<1>5. \A x \in Keys, s \in Sessions : Due(x, s)' <=> Due(x, s)
  BY <1>2, <1>4 DEF Due, Occurs, Goroutines
<1>6. Tied'
  BY <1>2, <1>5, TiedKeeps DEF IsClosed, Gone
<1>. QED  BY <1>3, <1>6 DEF ChannelInv

\* A Put ends; its callback is added unless the session had closed.
LEMMA EnterKeeps ==
  ASSUME ChannelInv, NEW g \in Goroutines, Inside(doing[g]), Enter(g),
         doing[g].keys = {}, doing[g].new # NoOne,
         callbacks' \in [Sessions -> Seq(Keys)],
         \A s \in Sessions : s # doing[g].new => callbacks'[s] = callbacks[s],
         \A k \in Keys : Occurs(k, callbacks'[doing[g].new]) =>
           Occurs(k, callbacks[doing[g].new]) \/ k = doing[g].put,
         \A k \in Keys : Occurs(k, callbacks[doing[g].new]) => Occurs(k, callbacks'[doing[g].new]),
         ~IsClosed(doing[g].new) =>
           /\ Occurs(doing[g].put, callbacks'[doing[g].new])
           /\ NoneTwice(callbacks[doing[g].new]) /\ ~Occurs(doing[g].put, callbacks[doing[g].new])
                => NoneTwice(callbacks'[doing[g].new])
  PROVE  ChannelInv'
<1>. DEFINE k == doing[g].put
            n == doing[g].new
<1>1. /\ doing[g] \in Deed /\ DeedFits(doing[g], channel)
      /\ k \in Keys /\ n \in Sessions /\ channel[k] = NoOne
  BY DEF ChannelInv, ChannelShape, Deeds, DeedFits, Deed
<1>2. /\ doing' = [doing EXCEPT ![g] = AtEase] /\ channel' = [channel EXCEPT ![k] = n]
      /\ chanMutex' = NoOne /\ closing' = closing /\ orphans' = orphans
      /\ tardy' = IF IsClosed(n) THEN tardy \cup {<<k, n>>} ELSE tardy
  BY DEF Enter
<1>3. /\ \A s \in Sessions : s # n => callbacks'[s] = callbacks[s]
      /\ \A x \in Keys : Occurs(x, callbacks'[n]) => Occurs(x, callbacks[n]) \/ x = k
      /\ \A x \in Keys : Occurs(x, callbacks[n]) => Occurs(x, callbacks'[n])
      /\ ~IsClosed(n) => /\ Occurs(k, callbacks'[n])
                         /\ NoneTwice(callbacks[n]) /\ ~Occurs(k, callbacks[n]) => NoneTwice(callbacks'[n])
  OBVIOUS
<1>4. /\ channel' \in [Keys -> Sessions \cup {NoOne}] /\ channel'[k] = n
      /\ \A x \in Keys : x # k => channel'[x] = channel[x]
  BY <1>1, <1>2 DEF ChannelInv, ChannelShape
<1>5. (ChannelShape /\ Mutexed /\ Deeds)'
  <2>1. DeedFits(AtEase, channel')
    BY EaseIs DEF DeedFits, Inside
  <2>. QED  BY <1>2, <1>4, <2>1, EaseIs, HolderKeeps
<1>6. \A t \in Goroutines : doing'[t].keys = doing[t].keys
  BY <1>2, EaseIs DEF ChannelInv, ChannelShape
<1>. HIDE DEF k, n
<1>7. \A s \in Sessions : NoOne # s
  BY GoroutineAssumption
<1>8. ASSUME NEW x \in Keys, NEW s \in Sessions
      PROVE  (Due(x, s)' => Due(x, s) \/ (x = k /\ s = n)) /\ (Due(x, s) => Due(x, s)')
  BY <1>3, <1>6 DEF Due, Goroutines
<1>9. ASSUME NEW x \in Keys, NEW s \in Sessions, channel'[x] = s
      PROVE  <<x, s>> \in tardy' \/ (Due(x, s)' /\ ~Gone(s))
  <2>1. CASE x = k
    BY <1>2, <1>3, <1>4, <1>9, <2>1 DEF Due, Gone, IsClosed
  <2>2. CASE x # k
    <3>1. channel[x] = s /\ s # NoOne
      BY <1>4, <1>7, <1>9, <2>2
    <3>2. <<x, s>> \in tardy \/ (Due(x, s) /\ ~Gone(s))
      BY <3>1 DEF ChannelInv, Tied
    <3>. QED  BY <1>2, <1>8, <3>2
  <2>. QED  BY <2>1, <2>2
<1>10. ASSUME NEW x \in Keys, NEW s \in Sessions, Due(x, s)'
       PROVE  channel'[x] = s \/ <<x, s>> \in orphans' \cup tardy'
  <2>1. CASE x = k /\ s = n
    BY <1>4, <2>1
  <2>2. CASE ~(x = k /\ s = n)
    <3>1. channel[x] = s \/ <<x, s>> \in orphans \cup tardy
      BY <1>8, <1>10, <2>2 DEF ChannelInv, Tied
    <3>. QED  BY <1>1, <1>2, <1>4, <1>7, <3>1
  <2>. QED  BY <2>1, <2>2
<1>11. ASSUME NEW x \in Keys, NEW s \in Sessions, <<x, s>> \in orphans' \cup tardy'
       PROVE  IsClosed(s)
  BY <1>2, <1>11 DEF ChannelInv, Tied
<1>12. ASSUME NEW s \in Sessions, ~IsClosed(s) PROVE NoneTwice(callbacks'[s])
  <2>1. NoneTwice(callbacks[s])
    BY <1>12 DEF ChannelInv, Tied
  <2>2. CASE s # n
    BY <1>3, <2>1, <2>2
  <2>3. CASE s = n
    <3>1. ~(channel[k] = n) /\ <<k, n>> \notin orphans \cup tardy
      BY <1>1, <1>7, <1>12, <2>3 DEF ChannelInv, Tied
    <3>2. ~Occurs(k, callbacks[n])
      BY <1>1, <3>1 DEF ChannelInv, Tied, Due
    <3>. QED  BY <1>3, <1>12, <2>1, <2>3, <3>2
  <2>. QED  BY <2>2, <2>3
<1>13. Tied'
  BY <1>2, <1>4, <1>9, <1>10, <1>11, <1>12, TiedNext
<1>. QED  BY <1>5, <1>13 DEF ChannelInv

LEMMA AppendedIs ==
  ASSUME NEW S, NEW s \in Seq(S), NEW k \in S
  PROVE  /\ \A x : Occurs(x, Append(s, k)) <=> Occurs(x, s) \/ x = k
         /\ NoneTwice(s) /\ ~Occurs(k, s) => NoneTwice(Append(s, k))
<1>1. /\ DOMAIN s = 1..Len(s) /\ DOMAIN Append(s, k) = 1..(Len(s) + 1) /\ Len(s) \in Nat
      /\ \A i \in 1..Len(s) : Append(s, k)[i] = s[i]
      /\ Append(s, k)[Len(s) + 1] = k
  OBVIOUS
<1>2. Len(s) + 1 \in DOMAIN Append(s, k)
  BY <1>1
<1>3. \A i \in DOMAIN Append(s, k) : i \in DOMAIN s \/ i = Len(s) + 1
  BY <1>1
<1>4. DOMAIN s \subseteq DOMAIN Append(s, k)
  BY <1>1
<1>. QED  BY <1>1, <1>2, <1>3, <1>4 DEF Occurs, NoneTwice

LEMMA PutTestStep ==
  ASSUME ChannelInv, NEW g \in Goroutines, PutTest(g)
  PROVE  ChannelInv'
<1>1. /\ doing[g] \in Deed /\ DeedFits(doing[g], channel) /\ doing[g].pc = "remove"
      /\ doing[g].keys = {} /\ doing[g].new # NoOne /\ Inside(doing[g]) /\ UNCHANGED callbacks
  BY DEF ChannelInv, ChannelShape, Deeds, PutTest, Inside
<1>2. CASE IsClosed(doing[g].new)
  <2>1. Enter(g)
    BY <1>2 DEF PutTest
  <2>2. callbacks' \in [Sessions -> Seq(Keys)]
    BY <1>1 DEF ChannelInv, ChannelShape
  <2>. QED  BY <1>1, <1>2, <2>1, <2>2, EnterKeeps
<1>3. CASE ~IsClosed(doing[g].new)
  <2>. DEFINE d == [doing[g] EXCEPT !.pc = "hook", !.on = doing[g].new]
  <2>1. doing' = [doing EXCEPT ![g] = d] /\ UNCHANGED <<closing, channel, chanMutex, tardy, orphans>>
    BY <1>3 DEF PutTest
  <2>2. /\ d \in Deed /\ Inside(d) /\ DeedFits(d, channel)
        /\ d.new = doing[g].new /\ d.keys = doing[g].keys
    BY <1>1 DEF Deed, Works, Inside, DeedFits
  <2>. HIDE DEF d
  <2>3. (ChannelShape /\ Mutexed /\ Deeds)'
    <3>1. /\ callbacks' \in [Sessions -> Seq(Keys)] /\ channel' \in [Keys -> Sessions \cup {NoOne}]
          /\ DeedFits(d, channel')
      BY <1>1, <2>1, <2>2 DEF ChannelInv, ChannelShape
    <3>. QED  BY <1>1, <2>1, <2>2, <3>1, HolderKeeps
  <2>4. \A t \in Goroutines : doing'[t].keys = doing[t].keys
    BY <2>1, <2>2 DEF ChannelInv, ChannelShape
  <2>5. \A x \in Keys, s \in Sessions : Due(x, s)' <=> Due(x, s)
    BY <1>1, <2>4 DEF Due, Occurs, Goroutines
  <2>6. Tied'
    BY <1>1, <2>1, <2>5, TiedKeeps DEF IsClosed, Gone
  <2>. QED  BY <2>3, <2>6 DEF ChannelInv
<1>. QED  BY <1>2, <1>3

LEMMA HookStep ==
  ASSUME ChannelInv, NEW g \in Goroutines, Hook(g)
  PROVE  ChannelInv'
<1>. DEFINE k == doing[g].put
            n == doing[g].new
<1>1. /\ doing[g] \in Deed /\ DeedFits(doing[g], channel) /\ doing[g].pc = "hook" /\ Enter(g)
  BY DEF ChannelInv, ChannelShape, Deeds, Hook
<1>2. Inside(doing[g]) /\ doing[g].keys = {} /\ n # NoOne /\ k \in Keys /\ n \in Sessions
  BY <1>1 DEF DeedFits, Inside, Deed
<1>3. callbacks[n] \in Seq(Keys) /\ callbacks' = [callbacks EXCEPT ![n] = Append(callbacks[n], k)]
  BY <1>2 DEF Hook, ChannelInv, ChannelShape
<1>4. /\ callbacks' \in [Sessions -> Seq(Keys)] /\ callbacks'[n] = Append(callbacks[n], k)
      /\ \A s \in Sessions : s # n => callbacks'[s] = callbacks[s]
  BY <1>2, <1>3 DEF ChannelInv, ChannelShape
<1>5. /\ \A x : Occurs(x, callbacks'[n]) <=> Occurs(x, callbacks[n]) \/ x = k
      /\ NoneTwice(callbacks[n]) /\ ~Occurs(k, callbacks[n]) => NoneTwice(callbacks'[n])
  BY <1>2, <1>3, <1>4, AppendedIs
<1>. QED  BY <1>1, <1>2, <1>4, <1>5, EnterKeeps

LEMMA ChannelStepInv == ChannelInv /\ [SessionNext]_sessionVars => ChannelInv'
<1>. SUFFICES ASSUME ChannelInv, [SessionNext]_sessionVars PROVE ChannelInv'
  OBVIOUS
<1>1. ASSUME NEW s \in Sessions,
             NewSession(s) \/ PutSession(s) \/ Close(s) \/ CloseStep(s) \/ DisposeClose(s)
      PROVE  ChannelInv'
  BY <1>1, ChannelCloseStep, CallBackStep DEF CloseStep
<1>2. CASE DisposeMap \/ DisposeEnd
  BY <1>2, ClosingKeeps DEF DisposeMap, DisposeEnd, IsClosed, Invoking, Gone, ChannelInv, ChannelShape
<1>3. ASSUME NEW w \in Workers,
             \/ \E s \in Sessions : SendTest(w, s) \/ \E k \in Keys : PutChannel(w, k, s)
             \/ \E k \in Keys : RemoveChannel(w, k)
             \/ RemoveAll(w) \/ SendPut(w)
      PROVE  ChannelInv'
  BY <1>3, ChannelWorkStep
<1>4. ASSUME NEW g \in Goroutines, ChannelStep(g)
      PROVE  ChannelInv'
  BY <1>4, ChannelLockStep, UnhookStep, RemoveEndStep, PutTestStep, HookStep, RemoveKeyStep
     DEF ChannelStep
<1>5. CASE UNCHANGED sessionVars
  BY <1>5, ClosingKeeps DEF sessionVars, chanVars, IsClosed, Invoking, Gone, ChannelInv, ChannelShape
<1>. QED  BY <1>1, <1>2, <1>3, <1>4, <1>5 DEF SessionNext

(* When the close of a session is over, the channel has it only if its Put  *)
(* overlapped or followed that close (Channel.Put, AddCloseCallback and     *)
(* Session.Close).                                                          *)
THEOREM ChannelForgetsHolds == SessionSpec => []ChannelForgets
<1>1. ChannelInv => ChannelForgets
  BY DEF ChannelInv, Tied, ChannelForgets, Gone
<1>. QED  BY ChannelInit, ChannelStepInv, <1>1, PTL DEF SessionSpec

\* What LiveStays says of a step.
LiveStep ==
  \A k \in Keys : LET s == channel[k] IN
    s # NoOne /\ channel'[k] # s /\ ~IsClosed(s) =>
      \/ chanMutex \in Workers
      \/ <<k, chanMutex>> \in orphans \cup tardy

LEMMA EnterLive ==
  ASSUME ChannelInv, NEW g \in Goroutines, doing[g].pc \in {"remove", "hook"},
         doing[g].keys = {}, doing[g].new # NoOne, Enter(g)
  PROVE  LiveStep
<1>1. DeedFits(doing[g], channel) /\ Inside(doing[g])
  BY DEF ChannelInv, Deeds, Inside
<1>2. channel[doing[g].put] = NoOne /\ channel' = [channel EXCEPT ![doing[g].put] = doing[g].new]
  BY <1>1 DEF DeedFits, Enter
<1>3. \A k \in Keys : channel[k] # NoOne => channel'[k] = channel[k]
  BY <1>2 DEF ChannelInv, ChannelShape
<1>. QED  BY <1>3 DEF LiveStep

LEMMA ChannelLive ==
  ASSUME ChannelInv, [SessionNext]_sessionVars
  PROVE  LiveStep
<1>1. CASE UNCHANGED channel
  BY <1>1 DEF LiveStep
<1>2. ASSUME NEW g \in Goroutines, NEW x \in Keys, RemoveKey(g, x)
      PROVE  LiveStep
  <2>1. CASE channel[x] # NoOne /\ ~IsClosed(channel[x])
    BY <1>1, <1>2, <2>1 DEF RemoveKey
  <2>2. CASE ~(channel[x] # NoOne /\ ~IsClosed(channel[x]))
    <3>1. channel' = [channel EXCEPT ![x] = NoOne]
      BY <1>2, <2>2 DEF RemoveKey
    <3>2. \A k \in Keys : k # x => channel'[k] = channel[k]
      BY <3>1 DEF ChannelInv, ChannelShape
    <3>. QED  BY <2>2, <3>2 DEF LiveStep
  <2>. QED  BY <2>1, <2>2
<1>3. ASSUME NEW g \in Goroutines, Unhook(g)
      PROVE  LiveStep
  <2>. DEFINE x == doing[g].key
  <2>1. doing[g].pc = "unhook" /\ x \in doing[g].keys /\ chanMutex = g /\ doing[g] \in Deed
    BY <1>3 DEF Unhook, ChannelInv, ChannelShape, Deeds, DeedFits, Mutexed, Inside
  <2>2. x \in Keys /\ \A k \in Keys : k # x => channel'[k] = channel[k]
    BY <1>3, <2>1 DEF Deed, Unhook, ChannelInv, ChannelShape
  <2>3. CASE g \in Workers
    BY <2>1, <2>3 DEF LiveStep
  <2>4. CASE g \in Sessions
    <3>1. IsClosed(g)
      BY <2>1, <2>4 DEF ChannelInv, Deeds, CallsBack, Invoking, IsClosed
    <3>2. channel[x] = g \/ <<x, g>> \in orphans \cup tardy
      BY <2>1, <2>2, <2>4 DEF ChannelInv, Tied, Due
    <3>. QED  BY <2>1, <2>2, <3>1, <3>2 DEF LiveStep
  <2>. QED  BY <2>3, <2>4 DEF Goroutines
<1>4. ASSUME NEW g \in Goroutines, PutTest(g)
      PROVE  LiveStep
  BY <1>1, <1>4, EnterLive DEF PutTest
<1>5. ASSUME NEW g \in Goroutines, Hook(g)
      PROVE  LiveStep
  <2>1. doing[g].keys = {} /\ doing[g].new # NoOne /\ doing[g].pc = "hook" /\ Enter(g)
    BY <1>5 DEF ChannelInv, Deeds, DeedFits, Hook
  <2>. QED  BY <2>1, EnterLive
<1>6. ASSUME NEW g \in Goroutines, ChannelStep(g)
      PROVE  LiveStep
  <2>1. CASE ChannelLock(g) \/ RemoveEnd(g)
    BY <1>1, <2>1 DEF ChannelLock, RemoveEnd
  <2>. QED  BY <1>2, <1>3, <1>4, <1>5, <1>6, <2>1 DEF ChannelStep
<1>7. ASSUME NEW s \in Sessions,
             NewSession(s) \/ PutSession(s) \/ Close(s) \/ CloseStep(s) \/ DisposeClose(s)
      PROVE  UNCHANGED channel
  BY <1>7 DEF NewSession, PutSession, Close, CloseStep, CloseSendChan, InvokeCloseCallbacks,
              CallBack, CallbacksEnd, DelSession, DisposeClose, chanVars
<1>8. ASSUME NEW w \in Workers,
             \/ \E s \in Sessions : SendTest(w, s) \/ \E k \in Keys : PutChannel(w, k, s)
             \/ \E k \in Keys : RemoveChannel(w, k)
             \/ RemoveAll(w) \/ SendPut(w)
      PROVE  UNCHANGED channel
  BY <1>8 DEF SendTest, PutChannel, RemoveChannel, RemoveAll, SendPut, BeginWork
<1>9. CASE DisposeMap \/ DisposeEnd \/ UNCHANGED sessionVars
  BY <1>1, <1>9 DEF DisposeMap, DisposeEnd, sessionVars, chanVars
<1>. QED  BY <1>1, <1>6, <1>7, <1>8, <1>9 DEF SessionNext

(* An open session leaves the channel because a goroutine of the            *)
(* application takes it out, or through the close callback of a session     *)
(* that had the same key and was closing when it lost or got it             *)
(* (Channel.remove, Session.RemoveCloseCallback).                           *)
THEOREM LiveStaysHolds == SessionSpec => LiveStays
<1>1. ChannelInv /\ [SessionNext]_sessionVars => [LiveStep]_sessionVars
  BY ChannelLive
<1>2. LiveStays <=> [][LiveStep]_sessionVars
  BY DEF LiveStays, LiveStep
<1>. QED  BY ChannelInit, ChannelStepInv, <1>1, <1>2, PTL DEF SessionSpec

-----------------------------------------------------------------------------
(* Who waits for whom.                                                     *)

\* A closing goroutine never waits for its own closeMutex, and Dispose only
\* goes through sessions that its maps have had.
WaitInv ==
  /\ chanMutex \in Goroutines \cup {NoOne}
  /\ \A g \in Goroutines : doing[g].pc = "free" => doing[g] = AtEase
  /\ \A g \in Goroutines : doing[g].pc = "hook" => doing[g].on = doing[g].new
  /\ \A s \in Sessions : doing[s].pc = "unhook" => doing[s].on # s
  /\ disposer.pc = "close" =>
       \A s \in disposer.left : s \in Sessions /\ closing[s] \notin {"none", "made"}

LEMMA WaitInit == SessionInit => WaitInv
BY EaseIs DEF SessionInit, WaitInv, AtRest, Goroutines

\* One goroutine goes on.
LEMMA WaitKeeps ==
  ASSUME ChannelShape, WaitInv, NEW g \in Goroutines, NEW d, doing' = [doing EXCEPT ![g] = d],
         chanMutex' \in {chanMutex, g, NoOne}, UNCHANGED <<closing, disposer>>,
         d = AtEase \/ d.pc \in {"lock", "remove", "send"}
           \/ (d.pc = "unhook" /\ d.on # g) \/ (d.pc = "hook" /\ d.on = d.new)
  PROVE  WaitInv'
<1>1. \A h \in Goroutines : doing'[h] = IF h = g THEN d ELSE doing[h]
  BY DEF ChannelShape
<1>. QED  BY <1>1, EaseIs DEF WaitInv, Goroutines

LEMMA WaitChannelStep ==
  ASSUME ChannelInv, WaitInv, NEW g \in Goroutines, ChannelStep(g)
  PROVE  WaitInv'
<1>1. ChannelShape /\ doing[g] \in Deed
  BY DEF ChannelInv, ChannelShape
<1>2. CASE ChannelLock(g)
  <2>. DEFINE d == [doing[g] EXCEPT !.pc = "remove"]
  <2>1. doing' = [doing EXCEPT ![g] = d] /\ d.pc = "remove"
    BY <1>1, <1>2 DEF ChannelLock, Deed
  <2>. QED  BY <1>1, <1>2, <2>1, WaitKeeps DEF ChannelLock, mgrVars
<1>3. ASSUME NEW k \in Keys, RemoveKey(g, k)
      PROVE  WaitInv'
  <2>1. CASE channel[k] # NoOne /\ ~IsClosed(channel[k])
    <3>. DEFINE d == [doing[g] EXCEPT !.pc = "unhook", !.key = k, !.on = channel[k]]
    <3>1. doing' = [doing EXCEPT ![g] = d] /\ d.pc = "unhook" /\ d.on = channel[k]
      BY <1>1, <1>3, <2>1 DEF RemoveKey, Deed
    <3>2. g \in Sessions => IsClosed(g)
      BY <1>3 DEF RemoveKey, ChannelInv, Deeds, CallsBack, Invoking, IsClosed
    <3>3. channel[k] \in Sessions
      BY <2>1 DEF ChannelInv, ChannelShape
    <3>4. d.on # g
      BY <2>1, <3>1, <3>2, <3>3
    <3>. QED  BY <1>1, <1>3, <3>1, <3>4, WaitKeeps DEF RemoveKey, mgrVars
  <2>2. CASE ~(channel[k] # NoOne /\ ~IsClosed(channel[k]))
    <3>. DEFINE d == [doing[g] EXCEPT !.keys = @ \ {k}]
    <3>1. doing' = [doing EXCEPT ![g] = d] /\ d.pc = "remove"
      BY <1>1, <1>3, <2>2 DEF RemoveKey, Deed
    <3>. QED  BY <1>1, <1>3, <3>1, WaitKeeps DEF RemoveKey, mgrVars
  <2>. QED  BY <2>1, <2>2
<1>4. CASE Unhook(g)
  <2>. DEFINE d == [doing[g] EXCEPT !.pc = "remove", !.keys = @ \ {doing[g].key},
                                    !.key = NoOne, !.on = NoOne]
  <2>1. doing' = [doing EXCEPT ![g] = d] /\ d.pc = "remove"
    BY <1>1, <1>4 DEF Unhook, Deed
  <2>. QED  BY <1>1, <1>4, <2>1, WaitKeeps DEF Unhook, mgrVars
<1>5. CASE RemoveEnd(g)
  BY <1>1, <1>5, WaitKeeps DEF RemoveEnd, mgrVars
<1>6. CASE Enter(g)
  BY <1>1, <1>6, WaitKeeps DEF Enter, mgrVars
<1>7. CASE PutTest(g) /\ ~IsClosed(doing[g].new)
  <2>. DEFINE d == [doing[g] EXCEPT !.pc = "hook", !.on = doing[g].new]
  <2>1. doing' = [doing EXCEPT ![g] = d] /\ d.pc = "hook" /\ d.on = d.new
    BY <1>1, <1>7 DEF PutTest, Deed
  <2>. QED  BY <1>1, <1>7, <2>1, WaitKeeps DEF PutTest, mgrVars
<1>. QED  BY <1>2, <1>3, <1>4, <1>5, <1>6, <1>7 DEF ChannelStep, PutTest, Hook

\* The sessions that Dispose has still to close were kept when it took the map.
LEMMA WaitDisposeStep ==
  ASSUME DisposeInv, WaitInv, DisposeMap \/ DisposeEnd
  PROVE  WaitInv'
<1>1. UNCHANGED <<closing, doing, chanMutex>>
  BY DEF DisposeMap, DisposeEnd, chanVars
<1>2. disposer'.pc = "close" =>
        \A s \in disposer'.left : s \in Sessions /\ closing[s] \notin {"none", "made"}
  <2>1. CASE DisposeMap /\ disposer.map < MapCount
    BY <2>1 DEF DisposeMap, DisposeInv
  <2>2. CASE disposer' = [disposer EXCEPT !.pc = "wait"]
    BY <2>2 DEF DisposeInv, RestShape
  <2>3. CASE disposer' = [disposer EXCEPT !.pc = "done"]
    BY <2>3 DEF DisposeInv, RestShape
  <2>. QED  BY <2>1, <2>2, <2>3 DEF DisposeMap, DisposeEnd
<1>. QED  BY <1>1, <1>2 DEF WaitInv, AtEase

\* A session gets on, or Dispose finds it closed.
LEMMA WaitSessionStep ==
  ASSUME DisposeInv, ChannelInv, WaitInv, NEW s \in Sessions,
         NewSession(s) \/ PutSession(s) \/ Close(s) \/ CloseStep(s) \/ DisposeClose(s)
  PROVE  WaitInv'
<1>1. CASE CallBack(s)
  <2>. DEFINE d == [AtEase EXCEPT !.pc = "lock", !.keys = {Head(callbacks[s])}]
  <2>1. doing' = [doing EXCEPT ![s] = d] /\ d.pc = "lock"
    BY <1>1 DEF CallBack, AtEase
  <2>2. s \in Goroutines /\ ChannelShape
    BY DEF Goroutines, ChannelInv
  <2>. QED  BY <1>1, <2>1, <2>2, WaitKeeps DEF CallBack, mgrVars
<1>2. CASE UNCHANGED chanVars
  <2>1. ASSUME NEW t \in Sessions, closing[t] \notin {"none", "made"}
        PROVE  closing'[t] \notin {"none", "made"}
    BY <1>2, <2>1
       DEF NewSession, PutSession, Close, CloseStep, CloseSendChan, InvokeCloseCallbacks, CallBack,
           CallbacksEnd, DelSession, DisposeClose, DisposeInv
  <2>2. disposer'.pc = disposer.pc /\ disposer'.left \subseteq disposer.left
    BY <1>2 DEF NewSession, PutSession, Close, CloseStep, CloseSendChan, InvokeCloseCallbacks, CallBack,
           CallbacksEnd, DelSession, DisposeClose, DisposeInv, RestShape, mgrVars
  <2>. QED  BY <1>2, <2>1, <2>2 DEF WaitInv, chanVars, AtEase
<1>. QED  BY <1>1, <1>2 DEF NewSession, PutSession, Close, CloseStep, CloseSendChan,
                            InvokeCloseCallbacks, CallbacksEnd, DelSession, DisposeClose

LEMMA WaitWorkStep ==
  ASSUME ChannelInv, WaitInv, NEW w \in Workers,
         \/ \E s \in Sessions : SendTest(w, s) \/ \E k \in Keys : PutChannel(w, k, s)
         \/ \E k \in Keys : RemoveChannel(w, k)
         \/ RemoveAll(w) \/ SendPut(w)
  PROVE  WaitInv'
<1>1. w \in Goroutines /\ ChannelShape
  BY DEF Goroutines, ChannelInv
<1>2. ASSUME NEW d, BeginWork(w, d), d.pc \in {"lock", "send"}
      PROVE  WaitInv'
  BY <1>1, <1>2, WaitKeeps DEF BeginWork, mgrVars
<1>3. CASE SendPut(w)
  <2>1. \A t \in Sessions : closing[t] \notin {"none", "made"} => closing'[t] \notin {"none", "made"}
    BY <1>3 DEF SendPut, ChannelInv, ChannelShape
  <2>2. \A h \in Goroutines : doing'[h] = IF h = w THEN AtEase ELSE doing[h]
    BY <1>1, <1>3 DEF SendPut, ChannelShape
  <2>. QED  BY <1>3, <2>1, <2>2, EaseIs DEF SendPut, WaitInv, Goroutines, mgrVars
<1>4. ASSUME NEW s \in Sessions, SendTest(w, s) PROVE WaitInv'
  <2>. DEFINE d == [AtEase EXCEPT !.pc = "send", !.on = s]
  <2>1. d.pc = "send"
    BY DEF AtEase
  <2>2. BeginWork(w, d)
    BY <1>4, Zenon DEF SendTest
  <2>. HIDE DEF d
  <2>. QED  BY <1>2, <2>1, <2>2
<1>5. ASSUME NEW s \in Sessions, NEW k \in Keys, PutChannel(w, k, s) PROVE WaitInv'
  <2>. DEFINE d == [AtEase EXCEPT !.pc = "lock", !.keys = {k}, !.put = k, !.new = s]
  <2>1. d.pc = "lock"
    BY DEF AtEase
  <2>2. BeginWork(w, d)
    BY <1>5, Zenon DEF PutChannel
  <2>. HIDE DEF d
  <2>. QED  BY <1>2, <2>1, <2>2
<1>6. ASSUME NEW ks, BeginWork(w, [AtEase EXCEPT !.pc = "lock", !.keys = ks]) PROVE WaitInv'
  <2>. DEFINE d == [AtEase EXCEPT !.pc = "lock", !.keys = ks]
  <2>1. d.pc = "lock"
    BY DEF AtEase
  <2>2. BeginWork(w, d)
    BY <1>6, Zenon
  <2>. HIDE DEF d
  <2>. QED  BY <1>2, <2>1, <2>2
<1>. QED  BY <1>3, <1>4, <1>5, <1>6, Zenon DEF RemoveChannel, RemoveAll

LEMMA WaitStep ==
  DisposeInv /\ ChannelInv /\ WaitInv /\ [SessionNext]_sessionVars => WaitInv'
<1>. SUFFICES ASSUME DisposeInv, ChannelInv, WaitInv, [SessionNext]_sessionVars PROVE WaitInv'
  OBVIOUS
<1>1. CASE UNCHANGED sessionVars
  BY <1>1 DEF WaitInv, sessionVars, AtEase
<1>. QED  BY <1>1, WaitChannelStep, WaitDisposeStep, WaitSessionStep, WaitWorkStep DEF SessionNext

\* What keeps a session from getting on: the callback it is in.
LEMMA ClosingWaits ==
  ASSUME SendInv, DisposeInv, WaitInv, ~CanGoOn, NEW s \in Sessions
  PROVE  closing[s] \in {"none", "open", "done"} \/ (Invoking(s) /\ doing[s] # AtEase)
<1>1. closing[s] \in Phases
  BY DEF SendInv
<1>2. disposer.pc # "close"
  BY DEF CanGoOn, WaitInv, DisposeInv, Phases, IsClosed
<1>3. MapFree(s)
  BY <1>2 DEF MapFree
<1>4. closing[s] = "flagged" => SendingTo(s) = {}
  BY DEF CanGoOn, SendingTo, Goroutines
<1>. QED  BY <1>1, <1>3, <1>4 DEF CanGoOn, Phases, Invoking

\* Somebody who is not done is in a function of the channel.
LEMMA SomebodyWaits ==
  ASSUME SendInv, DisposeInv, WaitInv, ~CanGoOn, ~Settled
  PROVE  \E g \in Goroutines : doing[g] # AtEase
<1>. SUFFICES ASSUME \A g \in Goroutines : doing[g] = AtEase PROVE FALSE
  OBVIOUS
<1>1. \A s \in Sessions : closing[s] \in {"none", "open", "done"}
  BY ClosingWaits DEF Goroutines
<1>2. disposer.pc = "wait"
  BY <1>1 DEF Settled, DisposeInv, CanGoOn, WaitInv, Phases, IsClosed
<1>3. kept # {}
  BY <1>2, FS_EmptySet DEF CanGoOn, DisposeInv
<1>4. PICK s \in kept : TRUE
  BY <1>3
<1>5. s \in Sessions /\ closing[s] = "open"
  BY <1>1, <1>4 DEF DisposeInv
<1>6. MapOf[s] \in disposed
  BY <1>2, <1>5, LinkAssumption DEF DisposeInv
<1>. QED  BY <1>2, <1>5, <1>6 DEF DisposeInv

\* Everybody who waits, waits for the holder of the channel's mutex, and it
\* for the closeMutex of a session that waits for it.
LEMMA WaitIsCycle ==
  ASSUME SendInv, DisposeInv, ChannelInv, WaitInv, ~CanGoOn, ~Settled
  PROVE  \E g \in Goroutines : Cycle(g)
<1>1. \A g \in Goroutines : doing[g] \in Deed /\ doing[g].pc \notin {"remove", "send"}
  BY DEF CanGoOn, ChannelInv, ChannelShape
<1>2. PICK g \in Goroutines : doing[g] # AtEase
  BY SomebodyWaits
<1>3. doing[g].pc \in {"lock", "unhook", "hook"}
  BY <1>1, <1>2 DEF WaitInv, Deed, Works
<1>4. chanMutex # NoOne
  BY <1>3, GoroutineAssumption DEF CanGoOn, ChannelInv, Mutexed, Inside, Goroutines
<1>5. PICK h \in Goroutines : chanMutex = h
  BY <1>4 DEF WaitInv
<1>6. Inside(doing[h]) /\ doing[h].pc \in {"unhook", "hook"}
  BY <1>1, <1>5 DEF ChannelInv, Mutexed, Inside
<1>. DEFINE s == doing[h].on
<1>7. s \in Sessions
  BY <1>1, <1>6 DEF ChannelInv, Deeds, DeedFits, WaitInv, Deed
<1>8. Invoking(s) /\ doing[s] # AtEase /\ s \in Goroutines
  BY <1>6, <1>7, ClosingWaits DEF CanGoOn, Goroutines
<1>9. h # s
  BY <1>6, <1>7 DEF ChannelInv, Deeds, DeedFits, CallsBack, WaitInv
<1>10. doing[s].pc = "lock"
  BY <1>1, <1>5, <1>8, <1>9 DEF ChannelInv, Mutexed, Inside, WaitInv, Deed, Works
<1>. QED  BY <1>5, <1>6, <1>8, <1>10 DEF Cycle

(* A close, a function of the channel or a Dispose that has begun can get   *)
(* on, except when a goroutine that holds the mutex of the channel waits    *)
(* for the closeMutex of a session whose callbacks wait for that mutex      *)
(* (Channel.remove and Put, RemoveCloseCallback, AddCloseCallback,          *)
(* invokeCloseCallbacks): there is no other circle of waits.                *)
THEOREM OnlyEarlyTestBlocksHolds == SessionSpec => []OnlyEarlyTestBlocks
<1>1. SendInv /\ DisposeInv /\ ChannelInv /\ WaitInv => OnlyEarlyTestBlocks
  BY WaitIsCycle DEF OnlyEarlyTestBlocks
<1>. QED  BY SendInit, SendStep, DisposeInit, DisposeStep, ChannelInit, ChannelStepInv,
             WaitInit, WaitStep, <1>1, PTL DEF SessionSpec
=============================================================================
