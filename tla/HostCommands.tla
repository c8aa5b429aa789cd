---------------------------- MODULE HostCommands ----------------------------
(***************************************************************************)
(* Process programs (S7F3, S7F5), remote commands (S2F41) and the clock of *)
(* the equipment (S2F17, S2F31): what a host asks, the application of the  *)
(* equipment decides and the answer reports.  Requests travel in order and *)
(* the equipment handles one at a time; a host that waited T3 gives up and *)
(* may ask again while its request is still on the way or being handled.   *)
(***************************************************************************)
EXTENDS SecsItems

CONSTANTS
  Ppids, Sizes,       (* programs: identifiers, and their lengths in bytes *)
  Commands,           (* remote commands: [name, params]                   *)
  Absent,             (* no value                                          *)
  Acks,               (* codes the application answers with                *)
  OddRequests,        (* [fn, body] of a host that is not this library     *)
  Misread,            (* items the decoder may find in the middle of a text*)
  MaxCalls            (* bound: calls of the host                          *)

ASSUME CommandAssumption ==
  /\ Sizes \subseteq Nat /\ Acks \subseteq Nat /\ MaxCalls \in Nat
  /\ Absent \notin Nat
  /\ \A cmd \in Commands : cmd.params \in Seq(Elems(cmd.params))

VARIABLES
  store,      (* processStore: PPID -> length of the program                *)
  installed,  (* the handlers of the application that are installed         *)
  host,       (* the call of the host that waits                            *)
  calls,      (* calls so far; a call is numbered                           *)
  requests,   (* on the way to the equipment                                *)
  upload,     (* an upload its handler accepted and that is to be stored   *)
  answers,    (* on the way to the host                                     *)
  log         (* per call: what the application was given and whether it    *)
              (* accepted it                                                *)

commandVars == <<store, installed, host, calls, requests, upload, answers, log>>

Handlers == {"upload", "request", "remote", "clock"}

\* held: what the store had of the PPID since the call began; local: the
\* application has stored one meanwhile.
Idle == [id |-> 0, fn |-> "none", args |-> <<>>, held |-> {}, local |-> FALSE]
Dead == [Idle EXCEPT !.fn = "dead"]
NoUpload == [id |-> 0, ppid |-> Absent, size |-> 0]

CommandsInit ==
  /\ store = [pp \in Ppids |-> Absent]
  /\ installed = {}
  /\ host = Idle /\ calls = 0
  /\ requests = <<>> /\ upload = NoUpload /\ answers = <<>>
  /\ log = [i \in 1..MaxCalls |-> <<>>]

-----------------------------------------------------------------------------
(* The host.                                                               *)

\* A hollow message is not sent: the call waits for nothing.  One that panics
\* ends the host.
Ask(fn, args, held, body) ==
  /\ host = Idle /\ calls < MaxCalls
  /\ calls' = calls + 1
  /\ \/ body = Panicked /\ host' = Dead /\ UNCHANGED requests
     \/ /\ body # Panicked
        /\ host' = [id |-> calls + 1, fn |-> fn, args |-> args, held |-> held, local |-> FALSE]
        /\ requests' = IF body = Hollow THEN requests
                       ELSE Append(requests, [id |-> calls + 1, fn |-> fn, body |-> body])
  /\ UNCHANGED <<store, installed, upload, answers, log>>

UploadProcessProgram(pp, n) ==
  Ask("S7F3", <<pp, n>>, {store[pp]}, L(<<Id(pp), SentText(n)>>))

RequestProcessProgram(pp) == Ask("S7F5", <<pp>>, {store[pp]}, Id(pp))

\* itemNodeFromValue: no value is an item without bytes.
ParamItem(v) == IF v = Absent THEN Empty ELSE Id(v)
Given(params) == [i \in DOMAIN params |->
                    [name |-> params[i].name, value |-> ParamItem(params[i].value)]]

\* buildS2F41.
SendRemoteCommand(cmd) ==
  LET params == Given(cmd.params)
  IN  Ask("S2F41", <<cmd.name, params>>, {},
          L(<<Id(cmd.name), SentList([i \in DOMAIN params |->
                                        L(<<Id(params[i].name), params[i].value>>)])>>))

RequestDateTime == Ask("S2F17", <<>>, {}, L(<<>>))
SetDateTime     == Ask("S2F31", <<16>>, {}, Text(16))

\* T3: the call returns an error.
GiveUp ==
  /\ host \notin {Idle, Dead}
  /\ host' = Idle
  /\ UNCHANGED <<store, installed, calls, requests, upload, answers, log>>

\* A body that the decoder cannot read.
Garbled == <<"?", <<>>>>

\* The answer to the call that waits ends it; a late one is dropped.
CommandReturned ==
  /\ answers # <<>> /\ Head(answers).body # Garbled /\ host # Dead
  /\ answers' = Tail(answers)
  /\ host' = IF Head(answers).id = host.id THEN Idle ELSE host
  /\ UNCHANGED <<store, installed, calls, requests, upload, log>>

\* A garbled body ends the connection: the answers on their way are lost, and
\* of the requests those written last.  The call that waits runs into T3.
ConnectionDropped ==
  /\ answers # <<>> /\ Head(answers).body = Garbled /\ host # Dead
  /\ answers' = <<>>
  /\ \E k \in 0..Len(requests) : requests' = SubSeq(requests, 1, k)
  /\ UNCHANGED <<store, installed, host, calls, upload, log>>

-----------------------------------------------------------------------------
(* The application of the equipment.                                       *)

Install(h) ==
  /\ h \notin installed
  /\ installed' = installed \cup {h}
  /\ UNCHANGED <<store, host, calls, requests, upload, answers, log>>

\* processProgramStore.put; the host's call sees the change.
Put(pp, n, local) ==
  /\ store' = [store EXCEPT ![pp] = n]
  /\ host' = IF host.fn \in {"S7F3", "S7F5"} /\ host.args # <<>> /\ host.args[1] = pp
             THEN [host EXCEPT !.held = @ \cup {n}, !.local = @ \/ local]
             ELSE host

RegisterProcessProgram(pp, n) ==
  /\ store[pp] # n
  /\ Put(pp, n, TRUE)
  /\ UNCHANGED <<installed, calls, requests, upload, answers, log>>

-----------------------------------------------------------------------------
(* The handlers of the equipment.                                          *)

Request == Head(requests)

Take(fn) ==
  /\ upload = NoUpload /\ requests # <<>> /\ Request.fn = fn
  /\ requests' = Tail(requests)
  /\ UNCHANGED <<installed, calls>>

Answer(id, body) ==
  answers' = IF body = Hollow THEN answers ELSE Append(answers, [id |-> id, body |-> body])

\* The application's handler was called with what the request gave.
Call(given, ok) ==
  log' = [log EXCEPT ![Request.id] = Append(@, [given |-> given, ok |-> ok])]

IsUpload(body) ==
  IsList(body) /\ Len(Elements(body)) >= 2 /\ IsId(Elements(body)[1])

\* A body that is no text counts as the empty program.
Size(item) == IF Format(item) = "A" THEN Elements(item)[1] ELSE 0

\* Whatever an odd host uploads, it is one of the programs of the model.
ASSUME UploadAssumption ==
  \A r \in OddRequests : r.fn = "S7F3" /\ IsUpload(r.body) =>
    /\ Name(Elements(r.body)[1]) \in Ppids
    /\ Size(Elements(r.body)[2]) \in Nat

onS7F3 ==
  /\ Take("S7F3")
  /\ UNCHANGED <<store, host>>
  /\ LET body  == Request.body
         given == <<Name(Elements(body)[1]), Size(Elements(body)[2])>>
     IN \/ /\ ~IsUpload(body)
           /\ Answer(Request.id, Bin(1))
           /\ UNCHANGED <<upload, log>>
        \/ /\ IsUpload(body)
           /\ \E ack \in IF "upload" \in installed THEN Acks ELSE {0} :
                /\ IF "upload" \in installed THEN Call(given, ack = 0) ELSE UNCHANGED log
                /\ IF ack = 0
                   THEN /\ upload' = [id |-> Request.id, ppid |-> given[1], size |-> given[2]]
                        /\ UNCHANGED answers
                   ELSE Answer(Request.id, Bin(ack)) /\ UNCHANGED upload

\* Mutant: a program that is there is kept.
StoreUploadNew ==
  /\ upload # NoUpload
  /\ Put(upload.ppid, IF store[upload.ppid] = Absent THEN upload.size ELSE store[upload.ppid], FALSE)
  /\ Answer(upload.id, Bin(0))
  /\ upload' = NoUpload
  /\ UNCHANGED <<installed, calls, requests, log>>

StoreUpload ==
  /\ upload # NoUpload
  /\ Put(upload.ppid, upload.size, FALSE)
  /\ Answer(upload.id, Bin(0))
  /\ upload' = NoUpload
  /\ UNCHANGED <<installed, calls, requests, log>>

\* The items after a text of 256 bytes or more are decoded from the middle of
\* it: that may fail, or give any item.
Decodings(sent, n) ==
  IF n < Byte THEN {L(sent)}
  ELSE {Garbled} \cup {ListOf(sent, <<sent[1], SentText(n), item>>) : item \in Misread}

\* Mutant: the code is always 0.
ProgramBodiesFine(ppid, n, ack) == Decodings(<<ppid, Text(n), Bin(0)>>, n)

\* buildS7F6, as the host may decode it.
ProgramBodies(ppid, n, ack) ==
  LET size == IF ack = 0 THEN n ELSE 0
  IN  Decodings(<<ppid, Text(size), Bin(ack)>>, size)

onS7F5 ==
  /\ Take("S7F5")
  /\ UNCHANGED <<store, host, upload, log>>
  /\ LET item == IF IsList(Request.body) /\ Elements(Request.body) # <<>>
                 THEN Elements(Request.body)[1] ELSE Request.body
         pp   == Name(item)
         held == IF pp \in Ppids THEN store[pp] ELSE Absent
         programs ==
           IF ~IsId(item) THEN ProgramBodies(Empty, 0, 1)
           ELSE IF "request" \in installed
           THEN UNION {ProgramBodies(item, n, ack) : n \in Sizes, ack \in Acks}
           ELSE IF held = Absent THEN ProgramBodies(item, 0, 1)
           ELSE ProgramBodies(item, held, 0)
     IN \E body \in programs : Answer(Request.id, body)

\* parseRemoteCommand: entries that are no named list are skipped.
IsParam(item) == IsList(item) /\ Elements(item) # <<>> /\ IsId(Elements(item)[1])

Parameter(item) ==
  [name  |-> Name(Elements(item)[1]),
   value |-> IF Len(Elements(item)) > 1 THEN Elements(item)[2] ELSE Empty]

Params(body) ==
  IF Len(Elements(body)) < 2 \/ ~IsList(Elements(body)[2]) THEN <<>>
  ELSE LET items == Elements(Elements(body)[2])
           named == InOrder({i \in DOMAIN items : IsParam(items[i])})
       IN  [i \in DOMAIN named |-> Parameter(items[named[i]])]

IsCommand(body) == IsList(body) /\ Elements(body) # <<>> /\ IsId(Elements(body)[1])

\* Mutant: a code that is out of range is taken for an acceptance.
NormalAccepts(hcack) == IF hcack > 6 THEN 0 ELSE hcack

\* HCACKCode.normalized.
Normal(hcack) == IF hcack > 6 THEN 1 ELSE hcack

\* buildS2F42; the acknowledgements of the parameters are left out.
CommandAck(hcack) == L(<<Bin(Normal(hcack)), L(<<>>)>>)

onS2F41 ==
  /\ Take("S2F41")
  /\ UNCHANGED <<store, host, upload>>
  /\ LET body == Request.body
     IN \/ /\ ~IsCommand(body) \/ "remote" \notin installed
           /\ Answer(Request.id, CommandAck(1))
           /\ UNCHANGED log
        \/ /\ IsCommand(body) /\ "remote" \in installed
           /\ \E hcack \in Acks, fails \in BOOLEAN :
                /\ Call(<<Name(Elements(body)[1]), Params(body)>>, hcack = 0 /\ ~fails)
                /\ Answer(Request.id, CommandAck(IF fails /\ hcack = 0 THEN 2 ELSE hcack))

\* GetFormattedTime: sixteen digits.
onS2F17 ==
  /\ Take("S2F17")
  /\ Answer(Request.id, Text(16))
  /\ UNCHANGED <<store, host, upload, log>>

\* Whether fourteen digits are a time is left open.
onS2F31 ==
  /\ Take("S2F31")
  /\ UNCHANGED <<store, host, upload>>
  /\ \/ Answer(Request.id, Bin(1)) /\ UNCHANGED log
     \/ /\ Format(Request.body) = "A" /\ Size(Request.body) >= 14
        /\ "clock" \in installed
        /\ \E tiack \in Acks, fails \in BOOLEAN :
             /\ Call(<<Size(Request.body)>>, tiack = 0 /\ ~fails)
             /\ Answer(Request.id, Bin(IF fails THEN 1 ELSE tiack))

-----------------------------------------------------------------------------
CommandsNext ==
  \/ \E pp \in Ppids, n \in Sizes : UploadProcessProgram(pp, n) \/ RegisterProcessProgram(pp, n)
  \/ \E pp \in Ppids : RequestProcessProgram(pp)
  \/ \E cmd \in Commands : SendRemoteCommand(cmd)
  \/ RequestDateTime \/ SetDateTime
  \/ \E r \in OddRequests : Ask(r.fn, <<>>, {}, r.body)
  \/ GiveUp \/ CommandReturned \/ ConnectionDropped
  \/ \E h \in Handlers : Install(h)
  \/ onS7F3 \/ StoreUpload \/ onS7F5 \/ onS2F41 \/ onS2F17 \/ onS2F31

CommandsSpec == CommandsInit /\ [][CommandsNext]_commandVars

-----------------------------------------------------------------------------
\* The call of the host is answered in this step, with this body.
Returns == /\ answers # <<>> /\ Head(answers).id = host.id
           /\ answers' = Tail(answers) /\ Head(answers).body # Garbled
Read    == Head(answers).body

\* What the host takes for an acceptance: readBinaryAck, parseRemoteCommandAck.
Accepted == IsAck(Read) /\ Ack(Read) = 0

\* What a text of n bytes is read as, and whether that is all of it.
Cut(n)   == n % Byte
Short(n) == n < Byte

(* A program whose upload was acknowledged with 0 is the one the equipment *)
(* keeps, unless its application has replaced it since: also after uploads *)
(* the host gave up on.  One of 256 bytes or more is kept cut.             *)
UploadedIsStored ==
  [][Returns /\ host.fn = "S7F3" /\ host.args # <<>> /\ Accepted /\ ~host.local =>
       store[host.args[1]] = Cut(host.args[2])]_commandVars

\* parseProcessProgramResponse.
IsProgram(body) ==
  /\ IsList(body) /\ Len(Elements(body)) >= 3
  /\ Format(Elements(body)[2]) = "A"
  /\ Format(Elements(body)[3]) = "B" /\ Elements(Elements(body)[3]) # <<>>

(* A host that asks for a program reads one the equipment had meanwhile, a *)
(* long one cut, or that there was none.  While a long one is there it may *)
(* read anything else about it: nothing, or a code the equipment never     *)
(* gave; but a text it takes for the program is never made up.             *)
ProgramServed ==
  [][Returns /\ host.fn = "S7F5" /\ host.args # <<>> /\ "request" \notin installed =>
       LET kept   == host.held \ {Absent}
           misled == \E n \in kept : ~Short(n)
       IN  IF ~IsProgram(Read) THEN misled
           ELSE IF Elements(Elements(Read)[3])[1] = 0
           THEN \E n \in kept : Elements(Elements(Read)[2])[1] = Cut(n)
           ELSE Absent \in host.held \/ misled]_commandVars

\* What of the call's arguments a list brings to the equipment.
Conveyed ==
  IF host.fn = "S2F41" THEN <<host.args[1], Arrived(host.args[2])>> ELSE host.args

(* The host reads that a command was done, or a time set, only if the      *)
(* application was called for it, once, with what the host asked, and      *)
(* accepted it: no code, error or lost parameter turns into an acceptance, *)
(* except for those that a list of 256 parameters or more loses on its way.*)
AcceptedWasDone ==
  [][Returns /\ host.fn \in {"S2F41", "S2F31"} /\ host.args # <<>> /\ Accepted =>
       log[host.id] = <<[given |-> Conveyed, ok |-> TRUE]>>]_commandVars

CommandsTypeOK ==
  /\ installed \subseteq Handlers
  /\ calls \in 0..MaxCalls /\ host.id \in 0..calls
  /\ DOMAIN store = Ppids
  /\ upload # NoUpload => upload.ppid \in Ppids /\ upload.id \in 1..calls
  /\ \A i \in DOMAIN answers : answers[i].id \in 1..calls
=============================================================================
