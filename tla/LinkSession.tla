---------------------------- MODULE LinkSession ----------------------------
(***************************************************************************)
(* Sessions, the manager that closes them all, and a channel that keeps    *)
(* sessions by key until they close.  A Close runs in whoever won the flag *)
(* and ends in a goroutine that calls the callbacks with closeMutex held;  *)
(* a callback takes the mutex of the channel, whose functions hold it      *)
(* while they take the closeMutex of a session that was not closed yet.    *)
(***************************************************************************)
EXTENDS Naturals, Sequences, FiniteSets

CONSTANTS
  Sessions,
  Keys,         (* of the channel                                          *)
  Workers,      (* goroutines of the application,                          *)
  Senders,      (* and those of them that send                             *)
  NoOne,        (* no session, no holder of a lock                         *)
  MapOf,        (* per session: its map of the manager, 1..MapCount        *)
  MapCount

ASSUME LinkAssumption ==
  MapCount \in Nat /\ MapOf \in [Sessions -> 1..MapCount]

\* A closing goroutine is not one of the application, and nil is neither.
ASSUME GoroutineAssumption ==
  Workers \cap Sessions = {} /\ NoOne \notin Workers \cup Sessions

VARIABLES
  closing,      (* per session: how far it is: "none", "made", "open", and *)
                (* from the flag on: "flagged", "invoke", "callbacks",     *)
                (* "forget", "done"                                        *)
  callbacks,    (* per session: the keys of its close callbacks            *)
  channel,      (* per key: a session                                      *)
  chanMutex,    (* who holds channel.mutex: a worker, or the closing       *)
                (* goroutine of a session                                  *)
  doing,        (* per worker and closing goroutine: where it is           *)
  kept,         (* sessions in the maps of the manager                     *)
  disposed,     (* the maps that are disposed                              *)
  waitGroup,    (* disposeWait                                             *)
  disposer,     (* Manager.Dispose: the map it holds, and what is left     *)
  tardy,        (* <<key, session>>: put when its close had begun          *)
  orphans       (* <<key, session>>: removed when its close had begun      *)

sessionVars == <<closing, callbacks, channel, chanMutex, doing, kept,
              disposed, waitGroup, disposer, tardy, orphans>>
chanVars == <<callbacks, channel, chanMutex, doing, tardy, orphans>>
mgrVars  == <<kept, disposed, waitGroup, disposer>>

Goroutines == Workers \cup Sessions

\* keys: to be removed; new: to be put under the key put; on: the session
\* whose closeMutex is asked for, or that is sent to.
AtEase == [pc |-> "free", keys |-> {}, put |-> NoOne, new |-> NoOne, on |-> NoOne, key |-> NoOne]
AtRest == [pc |-> "idle", map |-> 0, left |-> {}]

SessionInit ==
  /\ closing = [s \in Sessions |-> "none"]
  /\ callbacks = [s \in Sessions |-> <<>>]
  /\ channel = [k \in Keys |-> NoOne]
  /\ chanMutex = NoOne
  /\ doing = [g \in Goroutines |-> AtEase]
  /\ kept = {} /\ disposed = {} /\ waitGroup = 0
  /\ disposer = AtRest
  /\ tardy = {} /\ orphans = {}

IsClosed(s) == closing[s] \notin {"none", "made", "open"}

\* The closeMutex of s is held while its callbacks run, from its lock to its
\* unlock; the other holders do all they do in one step.
Invoking(s) == closing[s] = "callbacks"

-----------------------------------------------------------------------------
(* Server.Serve and the manager.                                           *)

NewSession(s) ==
  /\ closing[s] = "none"
  /\ closing' = [closing EXCEPT ![s] = "made"]
  /\ UNCHANGED <<chanVars, mgrVars>>

MapFree(s) == disposer.pc # "close" \/ disposer.map # MapOf[s]

PutSession(s) ==
  /\ closing[s] = "made" /\ MapFree(s)
  /\ \/ /\ MapOf[s] \in disposed
        /\ closing' = [closing EXCEPT ![s] = "flagged"]
        /\ UNCHANGED <<kept, waitGroup>>
     \/ /\ MapOf[s] \notin disposed
        /\ closing' = [closing EXCEPT ![s] = "open"]
        /\ kept' = kept \cup {s}
        /\ waitGroup' = waitGroup + 1
  /\ UNCHANGED <<chanVars, disposed, disposer>>

DisposeMap ==
  /\ disposer.pc = "idle" \/ (disposer.pc = "close" /\ disposer.left = {})
  /\ IF disposer.map < MapCount
     THEN /\ disposed' = disposed \cup {disposer.map + 1}
          /\ disposer' = [pc |-> "close", map |-> disposer.map + 1,
                          left |-> {s \in kept : MapOf[s] = disposer.map + 1}]
     ELSE disposer' = [disposer EXCEPT !.pc = "wait"] /\ UNCHANGED disposed
  /\ UNCHANGED <<closing, chanVars, kept, waitGroup>>

\* It closes the session, or finds it closed.
DisposeClose(s) ==
  /\ disposer.pc = "close" /\ s \in disposer.left
  /\ \/ closing[s] = "open" /\ closing' = [closing EXCEPT ![s] = "flagged"]
        /\ UNCHANGED disposer
     \/ /\ IsClosed(s)
        /\ disposer' = [disposer EXCEPT !.left = @ \ {s}]
        /\ UNCHANGED closing
  /\ UNCHANGED <<chanVars, kept, disposed, waitGroup>>

DisposeEnd ==
  /\ disposer.pc = "wait" /\ waitGroup = 0
  /\ disposer' = [disposer EXCEPT !.pc = "done"]
  /\ UNCHANGED <<closing, chanVars, kept, disposed, waitGroup>>

-----------------------------------------------------------------------------
(* Session.Close.                                                          *)

\* The application, a failed Receive, or the send loop after a failed Send.
Close(s) ==
  /\ closing[s] = "open"
  /\ closing' = [closing EXCEPT ![s] = "flagged"]
  /\ UNCHANGED <<chanVars, mgrVars>>

SendingTo(s) == {w \in Workers : doing[w].pc = "send" /\ doing[w].on = s}

\* Mutant: the close does not wait for the senders.
CloseSendChanUnlocked(s) ==
  /\ closing[s] = "flagged"
  /\ closing' = [closing EXCEPT ![s] = "invoke"]
  /\ UNCHANGED <<chanVars, mgrVars>>

\* The send channel, then the codec.
CloseSendChan(s) ==
  /\ closing[s] = "flagged" /\ SendingTo(s) = {}
  /\ closing' = [closing EXCEPT ![s] = "invoke"]
  /\ UNCHANGED <<chanVars, mgrVars>>

InvokeCloseCallbacks(s) ==
  /\ closing[s] = "invoke"
  /\ closing' = [closing EXCEPT ![s] = "callbacks"]
  /\ UNCHANGED <<chanVars, mgrVars>>

\* The callback Channel.Put has added: channel.Remove(key).
CallBack(s) ==
  /\ Invoking(s) /\ doing[s] = AtEase /\ callbacks[s] # <<>>
  /\ doing' = [doing EXCEPT ![s] = [AtEase EXCEPT !.pc = "lock", !.keys = {Head(callbacks[s])}]]
  /\ callbacks' = [callbacks EXCEPT ![s] = Tail(@)]
  /\ UNCHANGED <<closing, channel, chanMutex, tardy, orphans, mgrVars>>

CallbacksEnd(s) ==
  /\ Invoking(s) /\ doing[s] = AtEase /\ callbacks[s] = <<>>
  /\ closing' = [closing EXCEPT ![s] = "forget"]
  /\ UNCHANGED <<chanVars, mgrVars>>

\* Mutant: a session the maps never had is counted off too.
DelSessionAlways(s) ==
  /\ closing[s] = "forget" /\ MapFree(s)
  /\ closing' = [closing EXCEPT ![s] = "done"]
  /\ kept' = kept \ {s}
  /\ waitGroup' = waitGroup - 1
  /\ UNCHANGED <<chanVars, disposed, disposer>>

\* Mutant: Dispose unlocks its maps when it returns, not one after the other.
DelSessionLate(s) ==
  /\ closing[s] = "forget"
  /\ disposer.pc \in {"close", "wait"} => MapOf[s] > disposer.map
  /\ closing' = [closing EXCEPT ![s] = "done"]
  /\ kept' = kept \ {s}
  /\ waitGroup' = IF s \in kept THEN waitGroup - 1 ELSE waitGroup
  /\ UNCHANGED <<chanVars, disposed, disposer>>

DelSession(s) ==
  /\ closing[s] = "forget" /\ MapFree(s)
  /\ closing' = [closing EXCEPT ![s] = "done"]
  /\ kept' = kept \ {s}
  /\ waitGroup' = IF s \in kept THEN waitGroup - 1 ELSE waitGroup
  /\ UNCHANGED <<chanVars, disposed, disposer>>

-----------------------------------------------------------------------------
(* Session.Send and the send loop.                                         *)

BeginWork(w, record) ==
  /\ doing[w] = AtEase
  /\ doing' = [doing EXCEPT ![w] = record]
  /\ UNCHANGED <<closing, callbacks, channel, chanMutex, tardy, orphans, mgrVars>>

\* The flag is tested and the message put in one critical section of readers.
SendTest(w, s) ==
  /\ w \in Senders
  /\ closing[s] = "open"
  /\ BeginWork(w, [AtEase EXCEPT !.pc = "send", !.on = s])

\* A full channel closes the session; how fast the send loop empties it is left
\* open.
SendPut(w) ==
  /\ doing[w].pc = "send"
  /\ closing' \in {closing, [closing EXCEPT ![doing[w].on] = IF @ = "open" THEN "flagged" ELSE @]}
  /\ doing' = [doing EXCEPT ![w] = AtEase]
  /\ UNCHANGED <<callbacks, channel, chanMutex, tardy, orphans, mgrVars>>

-----------------------------------------------------------------------------
(* The channel.                                                            *)

PutChannel(w, k, s) ==
  /\ closing[s] \notin {"none", "made"}
  /\ BeginWork(w, [AtEase EXCEPT !.pc = "lock", !.keys = {k}, !.put = k, !.new = s])

RemoveChannel(w, k) == BeginWork(w, [AtEase EXCEPT !.pc = "lock", !.keys = {k}])

\* Channel.Close and FetchAndRemove.
RemoveAll(w) == BeginWork(w, [AtEase EXCEPT !.pc = "lock", !.keys = Keys])

ChannelLock(g) ==
  /\ doing[g].pc = "lock" /\ chanMutex = NoOne
  /\ chanMutex' = g
  /\ doing' = [doing EXCEPT ![g].pc = "remove"]
  /\ UNCHANGED <<closing, callbacks, channel, tardy, orphans, mgrVars>>

\* Mutant: RemoveCloseCallback does not test the flag.
RemoveKeyUntested(g, k) ==
  /\ doing[g].pc = "remove" /\ k \in doing[g].keys
  /\ IF channel[k] # NoOne
     THEN /\ doing' = [doing EXCEPT ![g].pc = "unhook", ![g].key = k, ![g].on = channel[k]]
          /\ UNCHANGED <<channel, orphans>>
     ELSE /\ doing' = [doing EXCEPT ![g].keys = @ \ {k}]
          /\ UNCHANGED <<channel, orphans>>
  /\ UNCHANGED <<closing, callbacks, chanMutex, tardy, mgrVars>>

\* RemoveCloseCallback leaves a closed session alone, and otherwise waits for
\* its closeMutex.
RemoveKey(g, k) ==
  /\ doing[g].pc = "remove" /\ k \in doing[g].keys
  /\ IF channel[k] # NoOne /\ ~IsClosed(channel[k])
     THEN /\ doing' = [doing EXCEPT ![g].pc = "unhook", ![g].key = k, ![g].on = channel[k]]
          /\ UNCHANGED <<channel, orphans>>
     ELSE /\ doing' = [doing EXCEPT ![g].keys = @ \ {k}]
          /\ channel' = [channel EXCEPT ![k] = NoOne]
          /\ orphans' = IF channel[k] = NoOne THEN orphans
                        ELSE orphans \cup {<<k, channel[k]>>}
  /\ UNCHANGED <<closing, callbacks, chanMutex, tardy, mgrVars>>

First(S) == CHOOSE i \in S : \A j \in S : i <= j
WithoutCallback(seq, k) ==
  LET At == {i \in DOMAIN seq : seq[i] = k}
  IN  IF At = {} THEN seq
      ELSE SubSeq(seq, 1, First(At) - 1) \o SubSeq(seq, First(At) + 1, Len(seq))

\* Mutant: the callback stays.
UnhookKeeps(g) ==
  /\ doing[g].pc = "unhook" /\ ~Invoking(doing[g].on)
  /\ channel' = [channel EXCEPT ![doing[g].key] = NoOne]
  /\ orphans' = IF IsClosed(doing[g].on)
                 THEN orphans \cup {<<doing[g].key, doing[g].on>>} ELSE orphans
  /\ doing' = [doing EXCEPT ![g].pc = "remove", ![g].keys = @ \ {doing[g].key},
                            ![g].key = NoOne, ![g].on = NoOne]
  /\ UNCHANGED <<closing, callbacks, chanMutex, tardy, mgrVars>>

Unhook(g) ==
  /\ doing[g].pc = "unhook" /\ ~Invoking(doing[g].on)
  /\ LET k == doing[g].key
     IN /\ callbacks' = [callbacks EXCEPT ![doing[g].on] = WithoutCallback(@, k)]
        /\ channel' = [channel EXCEPT ![k] = NoOne]
        /\ orphans' = IF IsClosed(doing[g].on)
                      THEN orphans \cup {<<k, doing[g].on>>} ELSE orphans
        /\ doing' = [doing EXCEPT ![g].pc = "remove", ![g].keys = @ \ {k},
                                  ![g].key = NoOne, ![g].on = NoOne]
  /\ UNCHANGED <<closing, chanMutex, tardy, mgrVars>>

RemoveEnd(g) ==
  /\ doing[g].pc = "remove" /\ doing[g].keys = {} /\ doing[g].new = NoOne
  /\ doing' = [doing EXCEPT ![g] = AtEase]
  /\ chanMutex' = NoOne
  /\ UNCHANGED <<closing, callbacks, channel, tardy, orphans, mgrVars>>

\* Channel.Put's last step: the session is in the channel and the mutex given back.
Enter(g) ==
  LET d == doing[g]
  IN /\ channel' = [channel EXCEPT ![d.put] = d.new]
     /\ tardy' = IF IsClosed(d.new) THEN tardy \cup {<<d.put, d.new>>} ELSE tardy
     /\ doing' = [doing EXCEPT ![g] = AtEase]
     /\ chanMutex' = NoOne
     /\ UNCHANGED <<closing, orphans, mgrVars>>

\* AddCloseCallback does nothing for a closed session.
PutTest(g) ==
  /\ doing[g].pc = "remove" /\ doing[g].keys = {} /\ doing[g].new # NoOne
  /\ UNCHANGED callbacks
  /\ IF IsClosed(doing[g].new) THEN Enter(g)
     ELSE /\ doing' = [doing EXCEPT ![g].pc = "hook", ![g].on = doing[g].new]
          /\ UNCHANGED <<closing, channel, chanMutex, tardy, orphans, mgrVars>>

\* Mutant: no callback is added.
HookNothing(g) ==
  /\ doing[g].pc = "hook" /\ ~Invoking(doing[g].on)
  /\ UNCHANGED callbacks
  /\ Enter(g)

Hook(g) ==
  /\ doing[g].pc = "hook" /\ ~Invoking(doing[g].on)
  /\ callbacks' = [callbacks EXCEPT ![doing[g].new] = Append(@, doing[g].put)]
  /\ Enter(g)

-----------------------------------------------------------------------------
ChannelStep(g) ==
  \/ ChannelLock(g) \/ Unhook(g) \/ RemoveEnd(g) \/ PutTest(g) \/ Hook(g)
  \/ \E k \in Keys : RemoveKey(g, k)

CloseStep(s) ==
  \/ CloseSendChan(s) \/ InvokeCloseCallbacks(s) \/ CallBack(s)
  \/ CallbacksEnd(s) \/ DelSession(s)

SessionNext ==
  \/ \E s \in Sessions :
       NewSession(s) \/ PutSession(s) \/ Close(s) \/ CloseStep(s) \/ DisposeClose(s)
  \/ DisposeMap \/ DisposeEnd
  \/ \E w \in Workers :
       \/ \E s \in Sessions : SendTest(w, s) \/ \E k \in Keys : PutChannel(w, k, s)
       \/ \E k \in Keys : RemoveChannel(w, k)
       \/ RemoveAll(w) \/ SendPut(w)
  \/ \E g \in Goroutines : ChannelStep(g)

SessionSpec == SessionInit /\ [][SessionNext]_sessionVars

-----------------------------------------------------------------------------
(* Nobody writes to a send channel that is closed (Go would panic): the     *)
(* flag is set before the lock is taken for the close, and tested under it. *)
NoSendOnClosed ==
  \A w \in Workers : doing[w].pc = "send" => closing[doing[w].on] \in {"open", "flagged"}

(* Dispose returns when every session the manager ever kept is gone, with   *)
(* its callbacks called; a session that is made too late is closed at once. *)
DisposeCovers ==
  /\ waitGroup = Cardinality(kept)
  /\ disposer.pc = "done" =>
       kept = {} /\ \A s \in Sessions : closing[s] # "open"

(* A session that has closed is in the channel only if its Put overlapped          *)
(* or followed the close: AddCloseCallback is silent about that.            *)
ChannelForgets ==
  \A k \in Keys : channel[k] # NoOne /\ closing[channel[k]] \in {"forget", "done"} =>
    <<k, channel[k]>> \in tardy

(* A session that is open leaves the channel only because the application   *)
(* removes or replaces it, or through the callback of a session that was    *)
(* closing when it lost the same key, or got it, and kept its callback.     *)
LiveStays ==
  [][\A k \in Keys : LET s == channel[k] IN
       s # NoOne /\ channel'[k] # s /\ ~IsClosed(s) =>
         \/ chanMutex \in Workers
         \/ <<k, chanMutex>> \in orphans \cup tardy]_sessionVars

\* g holds the mutex of the channel and waits for a closeMutex whose holder
\* waits for the mutex of the channel.
Cycle(g) ==
  /\ chanMutex = g /\ doing[g].pc \in {"unhook", "hook"}
  /\ Invoking(doing[g].on) /\ doing[doing[g].on].pc = "lock"

Ongoing ==
  \/ \E s \in Sessions : PutSession(s) \/ CloseStep(s) \/ DisposeClose(s)
  \/ disposer.pc # "idle" /\ DisposeMap
  \/ DisposeEnd
  \/ \E g \in Goroutines : ChannelStep(g) \/ (g \in Workers /\ SendPut(g))

Settled ==
  /\ \A s \in Sessions : closing[s] \in {"none", "open", "done"}
  /\ \A g \in Goroutines : doing[g] = AtEase
  /\ disposer.pc \in {"idle", "done"}

\* What each step of Ongoing waits for.
CanGoOn ==
  \/ \E s \in Sessions :
       \/ closing[s] \in {"made", "forget"} /\ MapFree(s)
       \/ closing[s] = "flagged" /\ SendingTo(s) = {}
       \/ closing[s] = "invoke"
       \/ Invoking(s) /\ doing[s] = AtEase
  \/ /\ disposer.pc = "close"
     /\ disposer.left = {} \/ \E s \in disposer.left : closing[s] = "open" \/ IsClosed(s)
  \/ disposer.pc = "wait" /\ waitGroup = 0
  \/ \E g \in Goroutines :
       \/ doing[g].pc = "lock" /\ chanMutex = NoOne
       \/ doing[g].pc \in {"remove", "send"}
       \/ doing[g].pc \in {"unhook", "hook"} /\ ~Invoking(doing[g].on)

(* What has begun gets on until it is over, every Close with its callbacks, *)
(* every function of the channel and Dispose, with one exception: a         *)
(* goroutine that had found a session open and then waits for the           *)
(* closeMutex that the callbacks of this session hold.                      *)
OnlyEarlyTestBlocks == Settled \/ CanGoOn \/ \E g \in Goroutines : Cycle(g)

(* These waits are all the code has: when one of them is over, a step       *)
(* follows.  No lock is kept over a wait but those that CanGoOn names: the  *)
(* manager unlocks a map before it waits for the sessions it closed there.  *)
NoOtherWait == CanGoOn => ENABLED Ongoing
=============================================================================
