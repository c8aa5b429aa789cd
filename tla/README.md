# A verification development of secs4go

secs4go speaks SECS/GEM over HSMS: `link` (session, channel, manager, server)
and `codec` move frames over TCP, `hsms` runs the HSMS connection and its
request/reply transactions, `gem` builds the GEM state models and services on
top. This directory holds TLA+ modules that model the code, TLC configurations
that check small instances of them, and TLAPS proofs of theorems that hold for
every value of the constants.

Sources are quoted as `path:line` below `src/`; `PROJECT.json` maps every
definition that models code to the lines it stands for.

## 1. Inventory

| component | state it keeps | operations | hard behaviour |
|---|---|---|---|
| transactions (`hsms/protocol.go` 285-312, 895-968, `hsms/connection.go` 72-185, `utils/queue.go`) | `systemCounter`, `systemQueues`, one `Deque` per call | `SendAndWait`, `sendSelectReq`, `sendDeselectReq`, `sendLinktestReq`, `Deque.Put`, `Deque.Get` | concurrent callers and one receive loop; a wake-up that races the wait; an answer that races T3/T6; lost connections |
| connection life cycle (`hsms/protocol.go` 153-482, 780-893, `hsms/reconnection.go`) | `enabled`, `connected`, `connectThreadRunning`, the session pointer, T7 and linktest timers, the stop flag, `p.server`, `reconnectAttempts` | `Enable`, `Disable`, the connect thread, the receiver, `startLinktestTimer`, the T7 callback | five kinds of goroutine over unlocked state; callbacks that start threads; restart while the old thread ends |
| connection state machine (`hsms/connectionStateMachine.go`) | NOT CONNECTED, NOT SELECTED, SELECTED | connect, select, deselect, disconnect, timeoutT7 | the event lock is not held during the enter callback |
| control messages (`hsms/protocol.go` 485-603) | none of its own | the eight HSMS control messages | each handler is a sequence of steps on the state above |
| data dispatch, S9 (`hsms/protocol.go` 605-778, 1075-1109, `hsms/protocol_s9_helpers.go`) | handler table, `systemQueues` | `RegisterHandler`, `handleDataMessage`, S9F3, S9F5, S9F9 | handlers run on the receive goroutine; error messages carry the system bytes of what they report |
| link (`session.go`, `channel.go`, `manager.go`, `server.go`) | close flag, close callbacks, session maps, `disposed` | `Close`, `Send`, `Put`, `Remove`, `Dispose` | lock order of channel and session; callbacks added during a close; disposal while sessions are made |
| GEM communication (`gem/handler.go` 199-673, `gem/communication_state.go`) | communication state, its timers, `handshakeInProgress`, waiters | `Enable`, `observe`, S1F13/S1F14, `WaitForCommunicating` | handshake goroutines of earlier attempts; timers that fire late |
| GEM control (`gem/control_state_machine.go`, `gem/handler.go` 385-506, 704-740) | control state, remote/local mode, `controlAttemptInProgress` | operator and host switches, S1F1 attempt | stale attempts; interplay with loss of communication |
| event reports (`gem/collection_event_handlers.go`, `gem/collection_events.go`) | variables, events, reports, links | S2F33, S2F35, S2F37, S6F15, `TriggerCollectionEvent` | messages applied entry by entry; an S6F11 built from tables the host redefines |
| variables and constants (`gem/status_*.go`, `gem/equipment_constants.go`) | two ordered tables, the values | S1F3, S1F11, S2F13, S2F15, S2F29 | values that change during an answer; a half-applied S2F15 |
| alarms (`gem/alarm*.go`) | alarm table | raise, clear, S5F1, S5F3, S5F5, S5F7 | S5F1 is sent outside the lock |
| programs, commands, clock (`gem/process_program*.go`, `gem/remote_command.go`, `gem/clock*.go`) | program store, the application's handlers | S7F3, S7F5, S2F41, S2F17, S2F31 | calls the host has given up on; codes, errors and missing handlers folded into one answer |
| SECS-II items (`lib-secs2-hsms-go/pkg/ast`, `pkg/parser/hsms`) | none | encode, decode | messages with an item without bytes; text and list lengths at 2^8 |
| SML parser, codecs | none | parse, frame | none |

How they interact: the application calls `Enable`, `Disable` and `SendAndWait`.
The connect thread dials (or listens), publishes the session and becomes the
receive loop. The loop feeds control messages to `handleHsmsRequests`, which
drives the state machine; answers to the reply queues; everything else to
message handlers, on its own goroutine. The state machine's callbacks start the
select/linktest goroutine, arm T7, and start a new connect thread. GEM polls
`Connected` and `CurrentState` every 500 ms and calls `SendAndWait`.

What makes each part correct:

* transactions: a call gets its own answer, or an error; it returns; it leaves
  nothing behind; only late answers reach the handlers;
* life cycle: one connect thread; no session without a thread that serves it;
  SELECTED only after a select transaction on this connection; redial after
  every loss; T7 ends a half-open connection; Disable releases everything;
* dispatch: an answer tells whether the request was executed; no exchange goes
  on for ever;
* link: nobody writes to a closed send channel; a closed session leaves its
  channel and an open one stays; a Dispose that returns has closed everything;
* GEM: one handshake and one online attempt at a time, an attempt's outcome
  affects only the state it was made in, waiters are not lost;
* data services: links name existing reports, whatever the host redefines; what
  one side reads is what the other held; an acknowledgement tells what was done.

## 2. Plan

The modules in the order of their importance; all of them are written.

1. `RequestReply`, `Transactions`, `Transactions_proofs`; `HsmsProtocol`,
   `HsmsProtocol_proofs`; their `MC*` modules.
2. `GemHandler`, `GemHandler_proofs`, `MCGemHandler`: communication state,
   control state and their goroutines in one module, because every hard
   behaviour crosses the two.
3. `SecsItems` (operators only), and on it `EventReports`, `EquipmentData`,
   `Alarms`, `HostCommands`: the services, each with the item it sends and what
   the receiver reads in it.
4. `DataDispatch`: two entities of the library, their handler tables and S9;
   `RemoteCalls`: what they promise the functions that call their peer.
5. `LinkSession`: sessions, channel and manager with their locks as steps.
6. `GemStack`, `MCGemStack`: the parts of 3 to 5 as one specification.
7. `EventReports_proofs`, `DataDispatch_proofs`, `LinkSession_proofs`;
   `GemServices_proofs` (alarms, data, commands); `GemStack_proofs`.

Left for further proofs: types of `DataDispatch` and `LinkSession` as theorems of
their own; their inductive invariants contain them in parts. Left for further
models: the wrap of the system counter, and clock values that would tell the two
meanings of T8 apart.

Instances stay at two or three processes, one or two connections, and two or
three calls: every hazard listed needs at most two actors and one restart.

## 3. What is modelled

### Transactions (`Transactions.tla`)

A caller is a goroutine that performs one request after another. Data callers
are in `SendAndWait`, control callers in `sendSelectReq` or `sendLinktestReq`.
A step is the code between two accesses to shared state:

| action | code |
|---|---|
| `Call` | the checks of `ensureReady` (data callers only) |
| `TakeNumber`, `CreateQueue`, `SendRequest`, `RemoveQueue` | `getNextSystemCounter`, `createQueue`, `Send`, the deferred `removeQueue` |
| `GetCheck`, `GetSelect`, `Expire`, `GetTimeout` | `Deque.Get`: look under the lock, unlock and enter the select, the deadline passes, the timer case wins |
| `SendS9F9` | `sendS9F9TransactionTimeout`, which takes a system ID and no queue |
| `RxDispatch`, `RxPush`, `RxNotify` | the queue lookup of the receive loop, `Deque.Put` under the lock, its non-blocking wake-up |
| `PeerAnswer`, `PeerStray`, `Drop`, `Reselect` | the remote entity and the network (external) |

`RequestReply.tla` is the abstract service: a call is refused, or opens with an
ID nobody ever had and closes once, with the answer to that ID or with none.

Abstractions: a message is its kind and its system ID; `up` stands for
connected, open session and SELECTED together; the counter is relative to its
random start and does not wrap (a clash would need a call that outlives 2^32
others); a lost connection takes effect between two messages; the write on the
socket succeeds when the connection is up. History variables (`sent`,
`inTime`, `unmatched`) record what the properties speak of and guard nothing
the program does.

### The connection (`HsmsProtocol.tla`)

The connect thread, the T7 callback and the application are processes whose
next shared operations are in `todo`: a handler or callback is the sequence of
operations it queues, one performed per step, so operations of different
processes interleave as in the code. Connect threads also have a position
`ct`, the lines of `startConnectThread`, `passiveConnect` and the receiver:

| definitions | code |
|---|---|
| `Enable`, `Disable`, `Farewell`, `SendDeselect`, `DeselectTimeout`, `StopServer`, `Return` | `Enable`, `Disable` of an active and of a passive entity |
| `Loop`, `ConnectFails`, `Retry`, `Served`, `Exit` | `startConnectThread` |
| `Dial`; `Listen`, `Publish`, `Accept`, `Register`, `Served`, `StopServed` | `activeConnect`; `passiveConnect` with `SingleServe` and `NewSession` |
| `TakeSession`, `ReceiveLoop`, `ReceiveMessage`, `ReceiveError`, `Unlink` | `OnConnectionEstablishedAndStartReceiver` and its deferred clean-up |
| `Handler`, `PutSelectRsp` | `handleHsmsRequests` |
| `Event`, `Transition`, `OnDisconnect`, `SetT7` | the state machine and its four callbacks |
| `SendSelect`, `SelectTimeout`, `LinktestStart`, `SendLinktest`, `Tick`, `LinktestStop` | the goroutine of `onStateConnect`, `startLinktestTimer` |
| `FireT7` | the function given to `time.AfterFunc` |
| `Send`, `CheckSession`, `CloseNow` | uses of the session pointer, with and without a nil test |
| `PeerSend`, `PeerAnswer`, `PeerClose` | the remote entity (external) |

The state machine library (looplab/fsm) is external: it decides an event and
moves the state in one step, and runs the enter callback after it has released
its lock, so the callback is a queued operation of its own. The leave callback
of NOT CONNECTED only starts a goroutine, and is part of the event.

Abstractions: the application makes one call at a time; a dereference of a nil
session, and the reject.req that cannot be built, end the process (`crashed`);
a write fails only when the session is closed or the peer is gone; the answers
to linktest.req do not matter and are left out; data messages are `other`; one
T7 callback runs at a time; the delays (T5, backoff, the 200 ms of Disable) have
no length; `onStateDisconnect` is one step (it only touches flags, and its
CompareAndSwap is what makes it safe). Two refusals in `TakeSession` and
`passiveConnect` cannot happen: `ThreadInv` proves that no session is left when
a thread takes one.

### GEM states (`GemHandler.tla`)

The processes are the monitor, the callbacks of the two wait timers, the
receive goroutine, the application, and slots for the goroutines of S1F13 and
S1F1. As in `HsmsProtocol`, each holds in `todo` the operations it still
performs, one per step:

| definitions | code |
|---|---|
| `Enable`, `EnableState`, `Start`; `Disable`, `Stop`, `DisableProtocol` | `Enable`; `Disable` |
| `Observe` | `monitorLoop`, `observe` |
| `StartHandshake`, `CheckCommunicating`, `SetWaitCRA`, `ScheduleRetry`, `ClearHandshake` | `initiateHandshake` (host), `initiateEstablishCommunication` (equipment), `scheduleRetry`, the deferred Store |
| `SendRequest`, `Accept`, `Refuse`, `ReplyTimeout` | `SendAndWait` of S1F13 and S1F1 with its outcomes |
| `FireTimers`, `OnTimeout` | `time.AfterFunc`, `onWaitCRATimeout`, `onWaitDelayTimeout` |
| `SetCommunicating`, `SetNotCommunicating`, `Notify` | `setCommunicating`, `setCommunicationState`, `onCommunicationStateChanged`, `notifyCommunicating` |
| `Operator`, `Choose`, `ControlMethod`, `Settle` | the four `SwitchControl...` methods, `transitionControl`, the methods of `ControlStateMachine`, `onControlStateTransition` |
| `InitiateAttempt`, `CheckAttempt`, `ClearAttempt` | `initiateAttemptOnline` |
| `Receive` | `onS1F13`, `onS1F14`, `onS1F15`, `onS1F17` |
| `StartWait`, `Register`, `EndWait` | `WaitForCommunicating`, `removeWaiter` |
| `LinkUp`, `LinkDown` | the connection below, which `HsmsProtocol` models (external) |

`Method` tabulates the control state machine: from which states a method moves,
in which it does nothing, where it goes; anywhere else it is an error, and
`transitionControl` returns before it looks at the state again.

Abstractions: the reads of `observe` are one step, and so is a read of `enabled`
with the write it guards; where `transitionControl` calls a method at once, its
first read is part of the method; a new monitor does not overlap the last
`observe` of an old one; S1F15 and S1F17 look at the control state when they
arrive; one waiter stands for all of them; an S1F14 that comes after T3 counts
as a message of the peer (`MaxMsgs`). A goroutine whose slots are all taken
starts when one is free.

### SECS-II items (`SecsItems.tla`)

An item is its format and its elements, as the receiver decodes it. Three facts
about the encoding reach the services and are kept:

* An item without bytes (`Empty`: a variable without a value, a bound a constant
  lacks) is a variable of the list around it, and `DataMessage.ToBytes` gives no
  bytes, not even a header, for a message with a variable
  (`lib-secs2-hsms-go/pkg/ast/list.go:105`, `ast.go:380`). A list with one such
  item, at any depth, is `Hollow`: a hollow message is never sent, and whoever
  waits for it runs into T3.
* Two such items in one list have the same name, none, and the constructor of the
  list panics (`list.go:238`): the list is `Panicked`. Nothing recovers on the
  goroutines that build messages, so the process ends.
* The decoder adds up length bytes that were shifted as bytes
  (`lib-secs2-hsms-go/pkg/parser/hsms/parser.go:146`), so that only the last one
  counts, for a text and for a list. `SentText` keeps the length of a text and
  `Arrived` that of a list modulo `Byte`, which is 256 in the code; `SentList` is
  a list of which `Arrived` comes. A cut item that is the last of its message
  ends the decoding there; what follows any other is decoded from the middle of
  it. The one such item is the program in S7F6 (`Decodings` in `HostCommands`).

`L` and `Text` are for lists and texts that the code makes short: at most six
items, and names, units, alarm texts, identifiers and times, which are assumed to
be shorter than 256 bytes. The list of variables of one report is short because
it came in a list itself. The shapes a handler accepts (`IsEntry`, `AreEntries`,
`IsAck`, `IsId`) are predicates on items.

### Event reports (`EventReports.tla`)

| definitions | code |
|---|---|
| `RegisterVariable`, `SetVariable`, `RegisterCollectionEvent` | the application of the equipment |
| `onS2F33`, `DefineAck`, `ClearAll`, `DefineNext`, `removeReport` | `onS2F33`, `handleReportDefinitions` |
| `onS2F35`, `LinkAck`, `LinkNext`, `Extended` | `onS2F35`, `handleEventReportLinks` |
| `onS2F37`, `EnableEvery`, `EnableNext` | `onS2F37` |
| `TriggerCollectionEvent`, `onS6F15`; `Lookup`, `CheckLink`, `CopyKeys`, `CollectReport`, `FinishReport` | the goroutine of `TriggerCollectionEvent`, the handler of S6F15, and the build of the reports they share |
| `onS6F11`, `ReadReports`, `ReportReturned` | the host |

A message is applied one entry a step with `reportMu` held (`Locked`); the build
takes the lock for each thing it reads, and tests the flag and the length of the
link without it. A goroutine keeps the link it found also when the table drops
it (`shared`, `link`). `on`, `ever`, `steady` and `full` are history: what was
enabled, linked and reportable since the build began, and whether every variable
of what was linked had a value.

A message is built whatever its variables hold. One without a value makes it
hollow: an S6F11 is dropped (`Deliver`), an S6F16 is not sent and the host waits
until T3. Two make a list that panics, in `CollectReport` when they are in one
report and in `Deliver` when they are not, and the equipment ends (`Die`).

### Variables and constants (`EquipmentData.tla`)

| definitions | code |
|---|---|
| `RegisterStatusVariable`, `RegisterEquipmentConstant`, `SetDataValue` | registration, values and providers |
| `onS1F3orS2F13`, `ResolveNext`, `ResolveEnd` | `onS1F3`, `onS2F13` |
| `onS1F11`, `onS2F29` | the name lists |
| `onS2F15`, `UpdateAck`, `ApplyNext`, `AcceptUpdate`, `RejectUpdate` | `onS2F15`, `ApplyValue` |
| `RequestStatusVariables` and the other calls, `ReadsValues`, `ReadInfos` | `gem/status_equipment_client.go` |

The handler holds the lock of its table, so nothing is registered meanwhile, but
values change between two of its reads. `seen`, `listed` and `before` are
history. An answer may be hollow, so that the host hears nothing, or `Panicked`,
after which no step of the part is left: an unknown status variable or one
without a value does the first in S1F4 and two of them the second; for S2F30 it
is the bounds that constants lack, and a single constant without both, or a
single unknown identifier, is enough for the second.

### Alarms (`Alarms.tla`)

`SetAlarm` is `RaiseAlarm` or `ClearAlarm` up to the unlock, `SendS5F1` and
`SendFails` what comes after; `onS5F1` is the host's handler and `view` what it
was told last; `onS5F3`, `onS5F5` and `onS5F7` are the handlers of the equipment.
`doubt` is history: the alarms whose last change was not reported or raced
another report.

### Programs, commands, clock (`HostCommands.tla`)

A call of the host puts a request on the way and waits (`Ask`); `GiveUp` is T3,
after which the request and its answer are still on the way. The equipment
handles one request at a time: `onS7F3` with `StoreUpload` after the
application's handler has accepted, `onS7F5`, `onS2F41`, `onS2F17`, `onS2F31`.
The handlers of the application may be missing (`installed`), and answer with
any code or error. A program travels as text, whose length arrives modulo 256; the
handler of S7F3 reads it back with `Size`, and a body that is no text counts as
the empty program.

In S7F6 the text is followed by the code. If it has 256 bytes or more the decoder
looks for the code in the middle of the text (`Decodings`): it may fail
(`Garbled`), and then the host's receiver drops the connection with what is on
the way (`ConnectionDropped`) and the call runs into T3; or it may find any item
there (`Misread`), a code among them. S2F41 with a parameter that has no value is
hollow, and the call waits for an answer to nothing; with two such parameters the
host panics (`Dead`). `log` is history: what the application was given.

### Dispatch (`DataDispatch.tla`)

Two entities with the handlers `NewGemHandler` registers. `SendAndWait`,
`SendDataMessage`, `CallReturns` and `CallTimesOut` are the calls; `RxReply`,
`RxHandle` and `RxUnrecognized` are what the receive goroutine does with a
message, in the order of the code: the reply queues first, then the handlers,
then S9. A handler that itself calls `SendAndWait` keeps the receive goroutine
(`serving`, `HandlerReturns`).

`RemoteCalls.tla` is what the two entities promise the functions of `gem` that
call their peer, without messages, queues, handlers or their order. A request is
underway, then executed once, refused, or taken by the peer for the answer to a
call of its own (`Mistake`); a caller is told "done" only of a request that was
executed, "refused" only of one that never will be, and "other", the answer to
somebody else's request, only while the peer has used his number too.
`CallsImplemented` maps it to `DataDispatch`: `Underway` are the requests on
their way, `CallOf` the requests of open calls, `ToldOf` what the first message
in a reply queue says. An S1F14 that comes late has a handler, and is the one
answer that is executed on behalf of its request (`Confirm`).

### Sessions (`LinkSession.tla`)

| definitions | code |
|---|---|
| `NewSession`, `PutSession`, `DelSession` | `Manager.NewSession`, `putSession`, `delSession` |
| `DisposeMap`, `DisposeClose`, `DisposeEnd` | `Manager.Dispose` |
| `Close`, `CloseSendChan`, `InvokeCloseCallbacks`, `CallBack`, `CallbacksEnd` | `Session.Close` and its goroutine |
| `SendTest`, `SendPut` | `Session.Send`, and the send loop that closes on failure |
| `PutChannel`, `RemoveChannel`, `RemoveAll`, `ChannelLock`, `RemoveKey`, `Unhook`, `RemoveEnd`, `PutTest`, `Hook` | the functions of `Channel`, `AddCloseCallback`, `RemoveCloseCallback` |

The two tests of the close flag come before the lock, as in the code:
`RemoveKey` and `PutTest` test, `Unhook` and `Hook` wait for `closeMutex`.

What waits, and for what, is stated without ENABLED: `Ongoing` are the steps of
what has begun, `CanGoOn` says what each of them waits for (a map that is not
being disposed, senders that are still inside `Send`, the mutex of the channel, a
`closeMutex`, the wait group), `Settled` that nothing is under way.

### The stack (`GemStack.tla`)

The six parts share no variable in the code: each keeps its own tables behind
its own lock. `GemStack` therefore lets the initial state pick one part, and a
behaviour is one of that part. What they would share is the connection below
and the receive goroutine, which handles one message at a time; both are in each
part, as the handler that is busy and as messages that come late.

## 4. What the runs check

| run | instance | result |
|---|---|---|
| `transactions` | 2 data callers, 1 control caller, 2 calls, 1 stray message, 1 loss | `TypeOK`, `OwnAnswer`, `IdsDistinct`, `NoQueueLeak`, `UnmatchedIsLate`, `ServiceSpec` hold |
| `transactions_live` | 1 data caller, 1 control caller | `CallsReturn` holds |
| `hsms_active` | active, all message types, denied selects, 2 connections, T7, 1 retry | `TypeOK`, `SelectedIsAgreed` hold |
| `hsms_passive` | passive, Enable-Disable, select.req and separate.req, 2 connections, T8 | `SessionIsServed`, `ListenerHasOwner` hold |
| `hsms_live` | active, enabled once, all message types, T7 | `Redials`, `HalfOpenEnds` hold |
| `hsms_disable` | active, Enable-Disable-Enable, 1 connection | `OneConnectThread`, `DisableReleases` hold |
| `gem` | host or equipment, 1 handshake, 2 attempts, 2 calls, 1 message, a waiter | `TypeOK`, `WaitersAreWoken`, `TimersBelong`, `FlagsHaveOwners` hold |
| `gem_live` | host or equipment, 2 handshakes, 1 attempt, 1 call, 1 loss | `Establishes` holds |
| `stack` | the six parts of `GemStack`: 2 reports, 2 events, 1 trigger; 2 variables, 2 constants; 3 alarms, 2 goroutines; 2 calls of the host; 2 messages between 2 entities; 2 sessions, 1 key, 2 workers | `TypeOK` and the properties of the next table hold |
| `lost_wakeup` | as `transactions_live` | `TimeoutMeansUnanswered` fails |
| `nil_session` | active, 1 connection | `NoPanic` fails |
| `enable_lost` | active, Enable-Disable-Enable | `EnabledIsServed` fails |

What `stack` shows of each part:

| part | properties | what they say |
|---|---|---|
| reports | `LinksResolve` | a link names only defined reports, also between two entries of one message |
| | `ReportsSupported`, `SteadyReportsSent` | an event message holds only what was linked and enabled while it was built, and all that was reportable throughout; it fails to come, or the equipment dies, only over a linked variable without a value |
| data | `AnswersAligned` | the host pairs values with identifiers by position, and gets values they had; it is answered if all it asked for has a value; the equipment panics only over two gaps |
| | `AckTellsApplied` | from the S2F16 code one knows how much of the update was applied |
| alarms | `HostKnows` | when all is quiet the host knows each alarm whose last change was reported and raced nothing |
| | `ListFaithful` | S5F6 and S5F8 tell the table, of 256 alarms and more its beginning |
| commands | `UploadedIsStored`, `ProgramServed` | what is acknowledged is stored, what is served as a program was stored, both modulo 256 bytes; only a program of 256 bytes or more gives an answer of another kind |
| | `AcceptedWasDone` | an acceptance means that the application was called once, with what was asked, and accepted |
| dispatch | `ExchangesEnd` | an exchange has at most three messages, and the library has a handler for all its own requests |
| | `OutcomeIsTrue` | stream 9 means not executed, an answer means executed once |
| | `CallsImplemented` | the calls are those of `RemoteCalls`: step by step, executed once or never, and told the truth |
| link | `NoSendOnClosed`, `DisposeCovers` | no send on a closed channel; Dispose waits for all and leaves none open |
| | `ChannelForgets`, `LiveStays`, `OnlyEarlyTestBlocks` | closed sessions leave the channel, open ones stay, and nobody waits for ever, each up to the races named below |
| | `NoOtherWait` | the waits that `OnlyEarlyTestBlocks` speaks of are all the code has |

The three failing runs are disagreements of the code with its own comments and
README; `PROJECT.json` lists them under `findings`:

* `Deque.Put` drops a wake-up that nobody waits for yet, and the timer case of
  `Deque.Get` does not look at the list again: a call can report T3 with its
  answer in the queue.
* Goroutines use the session pointer after the receiver has cleared it.
* Enable that comes while the old connect thread ends starts nothing.

Three more limits of the code are in the model, and shape what is claimed:

* The receive loop matches replies by system bytes alone (`PeerStray`), so a
  primary message of the peer with the number of an open request is returned
  as the reply. `OwnAnswer` therefore speaks of the number, not of the kind.
* A receiver that leaves because of Disable raises no disconnect event
  (`ReceiveLoop`). The next connection then starts from SELECTED or NOT
  SELECTED, so the runs check `SelectedIsAgreed` without a restart, and
  `HalfOpenEnds` speaks of an enabled protocol.
* Disable of a passive entity between `Listen` and the store to `p.server`
  leaves the listener and the thread, so `DisableReleases` is checked for an
  active entity. In a second window, after `passiveConnect` has set `p.server` to
  nil and before it calls `server.Stop()` (`Served`, `StopServed`), the listener is
  open and Disable does not find it either; there the thread stops it at its next
  step. `ListenerHasOwner` says what remains: a listener always has the connect
  thread that opened it, what `p.server` holds listens, and an open listener is
  unknown to Disable in these two windows only.

The GEM states have limits of the same kind; TLC reaches each of these states,
and no property claims the opposite:

* A handshake goroutine that fails after the peer's S1F13 has established
  communication moves COMMUNICATING to WAIT DELAY (`scheduleRetry` looks at
  `enabled` only). `Establishes` shows that the handler recovers.
* `observe` does not look at WAIT DELAY, so a host repeats S1F13 at the next
  tick and not after `EstablishCommunicationWait`.
* An old handshake lowers the flag of a new one, so two may run at once.
* ATTEMPT ONLINE may be left without an attempt: `initiateAttemptOnline` finds
  the flag of an attempt that is over up, just before it is lowered.
* An attempt that is answered after communication was lost still makes the
  control state ONLINE.
* A goroutine or callback that outlives Disable may leave the communication
  state other than NOT COMMUNICATING.
* `SwitchControlOnline` and the return of communication call `SwitchOnline` in
  HOST OFFLINE, which refuses it: only S1F17 leads out of HOST OFFLINE.

The services, the dispatch and the sessions have limits of this kind too. The
properties name them as their exceptions, or do not speak of them:

* A report linked twice by one S2F35 stays once when it is deleted (`twice`).
* S2F37 and S2F15 are applied entry by entry: a refusal leaves what came before
  the entry at fault.
* One variable without a value, or unknown to the equipment, and the whole S1F4,
  S2F14, S6F11 or S6F16 is never sent; with two the equipment panics. The name
  list of the constants (`gem/status_equipment_client.go:122`) comes only if every
  constant asked for has both bounds; one that has neither, or that is unknown,
  ends the equipment (`gem/status_equipment_handlers.go:271`, `286`).
* A text or list that needs more than one length byte is read modulo 256, although
  `lib-secs2-hsms-go/pkg/ast/interface.go:34` allows three length bytes: of 256
  alarms none is listed, of 256 updates none is applied and all are acknowledged,
  and a remote command with 256 parameters is done without them. The program of
  S7F6 is cut besides, or takes the connection with it.
* Two goroutines that raise and clear one alarm may send S5F1 in the other
  order, and a failed send is not repeated (`doubt`).
* S9F3 and S9F5 carry the system bytes of the request, so `SendAndWait` returns
  them as the reply and the application's handler for stream 9 errors
  (README.md:113) does not see them. A primary of the peer with the number of
  an open call is returned as its reply; `OutcomeIsTrue` excepts that.
* S5F1 and S6F11 ask for no reply, yet the host answers; the equipment has no
  handler for the answer and reports it with S9F5.
* A handler that calls `SendAndWait` always waits until T3.
* A worker that holds the mutex of the channel and has found a session open may
  wait for its `closeMutex` while the callbacks of that session wait for the
  channel: a deadlock (`Cycle`). A session put while it closes stays in the
  channel (`tardy`), and a callback that outlives the removal of its session
  removes the next one under the same key (`orphans`).

Bounds: two connections let an old goroutine, timer or pointer meet a new
connection; three toggles are the shortest Disable/Enable race; one message in
flight suffices because the receiver handles messages one by one, and every
type is tried. `MaxCalls`, `MaxStray`, `MaxDrops`, `MaxConns`, `MaxMsgs`,
`MaxInbox` and `MaxToggles` bound a behaviour; they stand in the guards. Runs
use `CHECK_DEADLOCK FALSE`, since at these bounds, after Disable and after a
panic the system rightly stops. Symmetry is used for connect threads in safety
runs only.

T8 is on in `hsms_passive` only: the code cuts any silent peer with it, so that
`HalfOpenEnds` would no longer depend on T7.

For `GemHandler`, one goroutine of an earlier handshake, attempt or timer and one
of the current is what every hazard needs. `gem` has Enable with one more call of
any kind, and one message; `gem_live` a second handshake slot and a lost or
deselected connection.

Fairness: weak fairness of each goroutine, timer and of the application's code
inside Disable. Go schedules every runnable goroutine, timers fire, and reads
return when the socket is closed. Nothing is assumed of the peer, of the
network, or that anybody calls, with one exception: `Establishes` is about a
peer that does its part, so `FairSpec` of `GemHandler` has strong fairness of
`Accept` (a request that is asked again and again is accepted at last), and the
property speaks of behaviours in which the connection ends up selected.

For `stack`, two entries per message, two goroutines per table and two calls are
what each hazard needs: one report deleted while a link with another is read,
one refused update after an accepted one, one late answer while the next call
waits, one callback of a closing session against one worker on the same key.
`Byte` is 3 in `stack`, so that a list or a text of three is the one that 256
makes in the code: an S1F3, an S2F15, an S2F41 and a link of an event have such
lists, programs are 2 or 4 bytes long, three alarms are none, and the proofs are
for any `Byte`. While the third alarm is registered the constraint
`ThirdIsQuiet` of the cfg keeps the raisers at rest: that alarm is there for the
lists. The text of S2F31 and S2F18 has sixteen bytes and is not cut.
`MaxWire`, `MaxCalls`, `MaxSent` and `MapCount` bound a behaviour; the bodies a
peer may send are a small set per message with the good, the malformed and the
half-good ones. The reply of `Alarms` and `EquipmentData` is taken at once: the
properties read it in the state in which it was made. Deadlock is not checked
because sessions end; `OnlyEarlyTestBlocks` states what may
block, and `NoOtherWait` that nothing else does.

Every property of a passing run has a mutant: an operator that changes one
mapped definition as a plausible bug would (`mutants` in `PROJECT.json`), under
which TLC finds the property violated.

## 5. What is proved

`Transactions_proofs.tla`, from `TransactionsAssumption` alone (callers and
bounds arbitrary):

* `TypeCorrect`: the type invariant, strengthened by `HasNumber` (a caller that
  uses its ID has one) and `QueueExists` (queues exist where they are used);
* `DistinctIds` and `QueuesDoNotLeak`, from `IdInv`: removing a queue is safe
  only because IDs are distinct, so the two are proved together;
* `AnswersAreOwn`, from `AnswerInv`: a queue holds only messages with its own
  ID (`OwnQueue`), and a call has no answer before it has an ID;
* `UnmatchedAnswersAreLate`, from `LateInv`: an ID on the wire belongs to a
  call past its Send (`SentOnce`), replies answer IDs on the wire, and an
  unmatched reply belongs to no call that is under way;
* `ServiceImplemented`: Transactions implements `RequestReply` under the
  mapping `Status`, `AnswerSeen`; each action is a step of the service or a
  stutter.

`HsmsProtocol_proofs.tla`. From no assumption on the constants:
`OneConnectThreadHolds` and `SessionIsServedHolds`. The invariant `ThreadInv`
adds `Released`: a thread without a connection records none, and one that has
left the receiver has closed and unlinked its session. `NoMove`, `OneMove`,
`OneSpawn` and `OneConnection` are the shapes steps come in; every action is an
instance of one of them or has a lemma of its own. From `HsmsAssumption`:

* `SelectedIsAgreedHolds`: from the first Enable until Enable is called a second
  time (`toggles <= 2`), SELECTED is claimed only on an agreed connection. Beyond
  that it is false of the code, as section 4 says of `ReceiveLoop`. `AgreedInv`
  adds that only a receiver in its loop, on an agreed connection, has the event
  select in its queue (`Selects`), and that between two connections of an enabled
  protocol the state machine has left SELECTED or the disconnect event is still
  queued (`Between`). It needs `OneConnectThread`: the thread that takes the next
  connection is the one that served the last. What the operations of a process do
  to its queue is stated once (`ThenIs`, `Settled`), and a step of the thread is
  an instance of `AgreedSteps` or `AgreedMove`.
* `TypeOKHolds`, in four parts (`Flags`, `Places`, `Bounded`, `TodoTyped`) and
  `ThreadInv`;
* `ListenerHasOwnerHolds`, from `ListenerInv`: a published server listens, a
  thread about to publish one has a listener that no other server hides, and a
  thread about to stop one has withdrawn it. Every
  step that moves the thread keeps it among the lines that serve the listener
  (`ListenerStays`), and that no second thread listens is `OneConnectThread`.

`GemHandler_proofs.tla`. From no assumption: `TimersBelongHolds`, because every
change of the state stops the timers in the same critical section; and
`WaitersAreWokenHolds`, from `WakeInv`. The only step that sets COMMUNICATING
queues the notification in the same step (`EstablishingOperation`), a
registration looks at the state again, and a queued notification stays first in
line whatever other processes do (`Notifiers`). From `SlotAssumption` (the slots
of the goroutines are told apart):

* `FlagsHaveOwnersHolds`, from `FlagInv`. What a process has left to do is part
  of its own line (`Part`: a method is followed by `settle`, the calls of the
  application are its own, requests belong to request goroutines) and a request
  goroutine ends with the step that lowers its flag (`Ending`): this is what the
  deferred Store in the code gives, whichever way the goroutine takes.
* `TypeOKHolds`, with `GemAssumption`. That only request goroutines await an
  answer follows from `Lines`.

`EventReports_proofs.tla`, from `ReportsAssumption` and `EnableAssumption` (a body
of S2F33, S2F35 or S2F37 that has the shape the parser accepts lists
identifiers):

* `LinksResolveHolds`. The invariant `LinksInv` adds the shape of the tables and
  of the message being applied, that the entries still to be linked were checked
  against the reports as they are (`Checked`; nothing else deletes a report
  meanwhile, because the lock is held), and that a report outside `twice` is once
  in a link (`Single`), so that taking its first occurrence away takes all
  (`WithoutFirstKeeps`).
* `ReportsSupportedHolds` and `SteadyReportsSentHolds`, from `ReportsInv`, which
  adds what a goroutine that builds an event message has seen so far
  (`BuildersInv`: the names it still has to collect were linked when it looked,
  what it has collected was, and a report linked throughout is in one of the
  two; and while `full` holds no item it has collected is hollow or panics, so
  that a message that is not sent, or the end of the equipment, is the doing of a
  variable without a value).
* `ReportsTypeOKHolds`.

`GemServices_proofs.tla`:

* `HostKnowsHolds` and `ListFaithfulHolds`, from `AlarmAssumption` (an
  identifier is a positive number) and `ByteAssumption`. `AlarmsInv` says where
  the last change of an alarm outside `doubt` is: about to be sent, on the wire
  as the last message about it, or with the host (`Reported`).
* `AnswersAlignedHolds` and `AckTellsAppliedHolds`, from `DataAssumption` (the two
  tables have different identifiers, a driven constant is not a fixed one, and
  lists hold identifiers and values). `DataInv` relates the half-built answer to
  the identifiers asked for so far (`IsRest`, `Fits`) and the half-applied update
  to the constants before it (`Applying`).
* `UploadedIsStoredHolds`, `ProgramServedHolds` and `AcceptedWasDoneHolds`, from
  `CommandAssumption` and `UploadAssumption` (sizes and codes are numbers; an
  odd request that reads as an upload names a program of the model). In
  `CommandsInv`, a call is in one place at a time and calls come in order
  (`Places`), nothing is logged for a call that has not been handled (`Logged`),
  and only the call that still waits says what an answer means (`OwnCall`): an
  answer to a call that was given up tells the host nothing.

`DataDispatch_proofs.tla`, from `DispatchAssumption` (counters start with a
number, and a request of the application has an odd function and not stream 9):

* `ExchangesEndHolds`. The invariant `DispatchInv` classifies what is on the way
  to an entity (`Sound`): a request its peer makes, an answer, a report of T3, an
  error message about a request nobody handles, or one about an answer; a handler
  is registered for primaries and S1F14 only, and what a handler waits with is a
  request.
* `OutcomeIsTrueHolds`. In `OutcomeInv` a request is on its way to the peer, or
  served there, or its answer is on the way back, or waits in the reply queue, and
  the four exclude each other (`Apart`); it was executed once when its handler has
  run and not before, and its answer tells which (`Ran`). What is on the way to an
  entity, and what it serves, belongs to that entity or its peer (`Placed`,
  `Handed`), each message is on the way once (`OnceEach`), and open calls and
  executed requests have numbers already given out (`Opened`, `Recorded`).
* `CallsImplementedHolds`, `DataDispatch` implements `RemoteCalls`. One lemma per
  action says which step of a remote call it is (`SendAndWaitCalls`,
  `RxHandleExecutes`, `RxUnrecognizedRefuses`, `CallTimesOutTimesOut`, ...).
  It needs `NumbersInv` beside `OutcomeInv`: a message has the number of the
  request it belongs to, or one that its sender has used, so that a reply which
  is told to the wrong call meets a number both entities have given out, and a
  request taken for a reply is the other's request with the number of the call.

`LinkSession_proofs.tla`, from `LinkAssumption` (every session has a map) and
`GoroutineAssumption` (goroutines are told apart):

* `NoSendOnClosedHolds`, from `SendInv` (who is between test and put holds the
  lock the close waits for), and `DisposeCoversHolds`, from `DisposeInv`: a map
  is disposed when Dispose has come to it, and an open session is kept by its
  map, or in what Dispose still has to close.
* `ChannelForgetsHolds` and `LiveStaysHolds`, from `ChannelInv`: whoever is inside
  the functions of the channel holds its mutex (`Mutexed`), a deed fits the
  channel it was begun on (`Deeds`), and a session is in the channel exactly if
  its close callback for that key is due, up to the keys in `tardy` and `orphans`
  (`Tied`).
* `OnlyEarlyTestBlocksHolds`, from these three invariants and `WaitInv`: nobody waits for his own
  `closeMutex`, and Dispose goes through sessions its maps have had. The proof
  follows the waits: whoever holds the mutex of the channel can go on, or waits
  for a session whose callbacks can go on or wait for the channel (the cycle that
  is excepted); without a holder the first in line takes it; a Dispose that waits
  has a session left to forget, or the wait group is zero.

`GemStack_proofs.tla`: `PartsImplemented`, the stack implements the specification
of each of its six parts, so that all of the above holds of the stack; and
`StackTypeOKHolds`, from the invariants of the four services. It rests on the
assumptions of the parts.

The assumptions on constants say what the identities and message bodies of an
instance are; TLC evaluates them on every run.

Only model-checked: `NoOtherWait`, which speaks of ENABLED, and the liveness
properties (`CallsReturn`, `Redials`, `HalfOpenEnds`, `DisableReleases`,
`Establishes`), both out of the prover's reach. Every other property of a passing
run is a theorem here; for `SelectedIsAgreed` up to the restart named above. The
three failing properties are refuted by TLC on small instances, which is enough.

## 6. What is not modelled

The parts without a module are in `PROJECT.json` with the reason: the SML parser
and the codecs are text and byte transformations without concurrent state; the
examples, the legacy handler table and the log helpers change nothing the
protocol depends on. Within the modelled parts: the bytes of messages, the
adoption of a foreign session ID, logging, the lengths of delays and the floating
point backoff, the wrap of the system counter (it needs 2^32 calls), the parsing
of time strings (left open in `onS2F31`), the accept loop of `Server.Serve`
beyond making sessions, and `api.go`. README.md:106 of the repository says that
S9F1, S9F7 and S9F11 are sent automatically; no code calls their senders, so
there is nothing to model.
