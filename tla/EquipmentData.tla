---------------------------- MODULE EquipmentData ----------------------------
(***************************************************************************)
(* Status variables and equipment constants: the host asks for values      *)
(* (S1F3, S2F13), for name lists (S1F11, S2F29) and sets constants         *)
(* (S2F15).  The handler holds the lock of the table, so that nothing is   *)
(* registered meanwhile, but reads and writes the values one at a time     *)
(* while the application changes them.                                     *)
(***************************************************************************)
EXTENDS SecsItems

CONSTANTS
  Svids, Ecids,       (* identifiers                                       *)
  Values,             (* what a variable or constant may hold              *)
  None,               (* no value, or a provider that fails                *)
  Default,            (* the default value of the constants                *)
  Driven, Fixed,      (* constants whose provider gives the value: with an *)
                      (* updater that changes it, and without              *)
  WithMin, WithMax,   (* constants that are given a minimum, a maximum     *)
  Valid,              (* per constant: the values its validator lets pass  *)
  IdLists,            (* identifiers the host asks for                     *)
  UpdateLists,        (* updates the host sends: [id, value]               *)
  OddBodies           (* bodies of a host that is not this library         *)

ASSUME DataAssumption ==
  /\ Svids \cap Ecids = {} /\ Default \in Values
  /\ None \notin Values \cup Svids \cup Ecids
  /\ Driven \cup Fixed \cup WithMin \cup WithMax \subseteq Ecids
  /\ Driven \cap Fixed = {}
  /\ Valid \in [Ecids -> SUBSET Values]
  /\ \A ids \in IdLists : ids \in Seq(Svids \cup Ecids)
  /\ \A us \in UpdateLists : us \in Seq([id : Svids \cup Ecids, value : Values])
  /\ \A body \in OddBodies : IsList(body) =>
       Elements(body) \in Seq(Elems(Elements(body))) /\ Len(Elements(body)) < Byte

VARIABLES
  order,    (* statusOrder and ecOrder: what is registered, in order       *)
  value,    (* what Value() of each variable and constant returns          *)
  request   (* the request of the host and how far it is handled; its reply *)
            (* is taken at once, or T3 runs out: nothing depends on when   *)

dataVars == <<order, value, request>>

Tables == {"status", "constant"}
Table(id) == IF id \in Svids THEN "status" ELSE "constant"
Registered(id) == id \in Svids \cup Ecids /\ id \in Elems(order[Table(id)])

\* ids: what the host asked for; rest: what is still to be resolved or applied;
\* out: the items so far.  seen: the values each identifier had since the
\* request came; before, listed: the values and the order when it came.  A
\* hollow reply is not sent, and one that panicked is the end of the equipment.
Calm == [pc |-> "idle", fn |-> 0, ids |-> <<>>, rest |-> <<>>, out |-> <<>>,
         body |-> Empty, seen |-> <<>>, before |-> <<>>, listed |-> <<>>]

DataInit ==
  /\ order = [t \in Tables |-> <<>>]
  /\ value = [id \in Svids \cup Ecids |-> IF id \in Svids THEN None ELSE Default]
  /\ request = Calm

-----------------------------------------------------------------------------
(* The application.                                                        *)

Resolving(t) == request.pc \in {"resolve", "apply"} /\ request.fn \in
                  (IF t = "status" THEN {4} ELSE {14, 16})

\* The host takes a reply before anything else happens.
Undisturbed == request.pc # "reply"

\* Mutant: a second registration is not refused.
RegisterStatusVariableAgain(sv) ==
  /\ ~Resolving("status") /\ Len(order["status"]) < 2
  /\ Undisturbed
  /\ order' = [order EXCEPT !["status"] = Append(@, sv)]
  /\ UNCHANGED <<value, request>>

RegisterStatusVariable(sv) ==
  /\ ~Registered(sv) /\ ~Resolving("status")
  /\ Undisturbed
  /\ order' = [order EXCEPT !["status"] = Append(@, sv)]
  /\ UNCHANGED <<value, request>>

RegisterEquipmentConstant(ec) ==
  /\ ~Registered(ec)
  /\ ~Resolving("constant")
  /\ Undisturbed
  /\ order' = [order EXCEPT !["constant"] = Append(@, ec)]
  /\ UNCHANGED <<value, request>>

SeenToo(id, v) == [request.seen EXCEPT ![id] = @ \cup {v}]

\* SetDataValue of a variable, or what a provider gives from now on.
SetDataValue(id, v) ==
  /\ Undisturbed
  /\ id \in Svids \cup Driven \cup Fixed
  /\ id \in Ecids => v # None
  /\ value[id] # v
  /\ value' = [value EXCEPT ![id] = v]
  /\ request' = IF request.pc = "resolve" /\ id \in DOMAIN request.seen
                THEN [request EXCEPT !.seen = SeenToo(id, v)]
                ELSE request
  /\ UNCHANGED order

-----------------------------------------------------------------------------
(* Requests for values.                                                    *)

IdBody(ids) == SentList([i \in DOMAIN ids |-> Id(ids[i])])

Respond(fn, body) ==
  request' = [request EXCEPT !.pc = "reply", !.fn = fn, !.body = body,
                             !.rest = <<>>, !.out = <<>>]

\* parseIDRequestList: an item that is no identifier is kept, marked.
RequestedIds(body) == [i \in DOMAIN Elements(body) |->
                      IF IsId(Elements(body)[i]) THEN Name(Elements(body)[i]) ELSE None]

\* What to resolve: the requested ones, or all in the order of registration.
Wanted(t, body) == IF Elements(body) = <<>> THEN order[t] ELSE RequestedIds(body)

onS1F3orS2F13(t, fn, ids, body) ==
  /\ request = Calm
  /\ UNCHANGED <<order, value>>
  /\ \/ /\ ~IsList(body)
        /\ Respond(fn, L(<<>>))
     \/ /\ IsList(body)
        /\ request' = [Calm EXCEPT !.pc = "resolve", !.fn = fn, !.ids = ids,
                         !.rest = Wanted(t, body), !.listed = order[t],
                         !.seen = [id \in Elems(ids) |-> {value[id]}]]

\* Mutant: a provider that fails reads as the default.
ValueItemDefault(t, id) ==
  IF id \in Elems(order[t]) THEN Id(IF value[id] = None THEN Default ELSE value[id])
  ELSE Empty

ValueItem(t, id) ==
  IF id \in Elems(order[t]) /\ value[id] # None THEN Id(value[id]) ELSE Empty

ResolveNext ==
  /\ request.pc = "resolve" /\ request.rest # <<>>
  /\ request' = [request EXCEPT
                   !.rest = Tail(@),
                   !.out = Append(@, ValueItem(IF request.fn = 4 THEN "status" ELSE "constant",
                                               Head(request.rest)))]
  /\ UNCHANGED <<order, value>>

ResolveEnd ==
  /\ request.pc = "resolve" /\ request.rest = <<>>
  /\ Respond(request.fn, SentList(request.out))
  /\ UNCHANGED <<order, value>>

\* The host requires at least one identifier.
RequestStatusVariables(ids) == ids # <<>> /\ onS1F3orS2F13("status", 4, ids, IdBody(ids))
RequestEquipmentConstants(ids) ==
  ids # <<>> /\ onS1F3orS2F13("constant", 14, ids, IdBody(ids))

-----------------------------------------------------------------------------
(* Requests for name lists.                                                *)

StatusInfoItem(id) ==
  IF id = None THEN L(<<Empty, Text(0), Text(0)>>)
  ELSE IF id \in Elems(order["status"]) THEN L(<<Id(id), Text(5), Text(2)>>)
  ELSE L(<<Id(id), Text(0), Text(0)>>)

Bound(ec, S) == IF ec \in S THEN Id("bound") ELSE Empty

ConstantInfoItem(id) ==
  IF id \in Elems(order["constant"])
  THEN L(<<Id(id), Text(5), Bound(id, WithMin), Bound(id, WithMax), Id("default"), Text(2)>>)
  ELSE L(<<IF id = None THEN Empty ELSE Id(id), Text(0), Empty, Empty, Empty, Text(0)>>)

onS1F11(ids, body) ==
  /\ request = Calm
  /\ LET infos == [i \in DOMAIN Wanted("status", body) |->
                     StatusInfoItem(Wanted("status", body)[i])]
     IN request' = [Calm EXCEPT !.pc = "reply", !.fn = 12, !.ids = ids,
                      !.listed = order["status"],
                      !.body = IF IsList(body) THEN SentList(infos) ELSE L(<<>>)]
  /\ UNCHANGED <<order, value>>

onS2F29(ids, body) ==
  /\ request = Calm
  /\ LET infos == [i \in DOMAIN Wanted("constant", body) |->
                     ConstantInfoItem(Wanted("constant", body)[i])]
     IN request' = [Calm EXCEPT !.pc = "reply", !.fn = 30, !.ids = ids,
                      !.listed = order["constant"],
                      !.body = IF IsList(body) THEN SentList(infos) ELSE L(<<>>)]
  /\ UNCHANGED <<order, value>>

RequestStatusVariableInfo(ids)    == onS1F11(ids, IdBody(ids))
RequestEquipmentConstantInfo(ids) == onS2F29(ids, IdBody(ids))

-----------------------------------------------------------------------------
(* Setting constants.                                                      *)

UpdateBody(updates) ==
  SentList([i \in DOMAIN updates |-> L(<<Id(updates[i].id), Id(updates[i].value)>>)])

IsUpdate(item) ==
  IsList(item) /\ Len(Elements(item)) >= 2 /\ IsId(Elements(item)[1])

Updates(body) ==
  [i \in DOMAIN Elements(body) |->
     IF IsUpdate(Elements(body)[i])
     THEN [id |-> Name(Elements(Elements(body)[i])[1]),
           value |-> Elements(Elements(Elements(body)[i])[2])[1]]
     ELSE [id |-> None, value |-> None]]

\* The first entry that is malformed or unknown refuses the message.
UpdateAck(us) ==
  LET Bad == {i \in DOMAIN us : us[i].id \notin Elems(order["constant"])}
  IN  IF Bad = {} THEN 0 ELSE IF us[Least(Bad)].id = None THEN 2 ELSE 1

onS2F15(body) ==
  /\ request = Calm
  /\ UNCHANGED <<order, value>>
  /\ \/ ~IsList(body) /\ Respond(16, Bin(2))
     \/ /\ IsList(body)
        /\ LET us == Updates(body)
               now == [Calm EXCEPT !.fn = 16, !.ids = us, !.before = value]
           IN \/ /\ UpdateAck(us) # 0 \/ us = <<>>
                 /\ request' = [now EXCEPT !.pc = "reply", !.body = Bin(UpdateAck(us))]
              \/ /\ UpdateAck(us) = 0 /\ us # <<>>
                 /\ request' = [now EXCEPT !.pc = "apply", !.rest = us]

SendEquipmentConstantValues(updates) == updates # <<>> /\ onS2F15(UpdateBody(updates))

\* ApplyValue of the next constant: its validator, then its updater, then the
\* stored value unless a provider gives it.
AcceptUpdate(u) ==
  /\ u.value \in Valid[u.id]
  /\ value' = IF u.id \in Fixed THEN value ELSE [value EXCEPT ![u.id] = u.value]
  /\ IF Len(request.rest) = 1 THEN Respond(16, Bin(0))
     ELSE request' = [request EXCEPT !.rest = Tail(@)]

\* Mutant: an update that is refused is passed over.
RejectUpdateSkips(u) ==
  /\ u.value \notin Valid[u.id] \/ u.id \in Driven
  /\ IF Len(request.rest) = 1 THEN Respond(16, Bin(0))
     ELSE request' = [request EXCEPT !.rest = Tail(@)]
  /\ UNCHANGED value

RejectUpdate(u) ==
  /\ u.value \notin Valid[u.id] \/ u.id \in Driven
  /\ Respond(16, Bin(3))
  /\ UNCHANGED value

ApplyNext ==
  /\ request.pc = "apply"
  /\ AcceptUpdate(Head(request.rest)) \/ RejectUpdate(Head(request.rest))
  /\ UNCHANGED order

-----------------------------------------------------------------------------
\* The host function returns what it reads in the reply, or that there is none.
DataReturned ==
  /\ request.pc = "reply" /\ request.body # Panicked
  /\ request' = Calm
  /\ UNCHANGED <<order, value>>

Foreign(body) ==
  \/ onS1F3orS2F13("status", 4, <<>>, body)
  \/ onS1F3orS2F13("constant", 14, <<>>, body)
  \/ onS1F11(<<None>>, body) \/ onS2F29(<<None>>, body)
  \/ onS2F15(body)

DataNext ==
  \/ \E sv \in Svids : RegisterStatusVariable(sv)
  \/ \E ec \in Ecids : RegisterEquipmentConstant(ec)
  \/ \E id \in Svids \cup Ecids, v \in Values \cup {None} : SetDataValue(id, v)
  \/ \E ids \in IdLists :
       \/ RequestStatusVariables(ids) \/ RequestEquipmentConstants(ids)
       \/ RequestStatusVariableInfo(ids) \/ RequestEquipmentConstantInfo(ids)
  \/ \E us \in UpdateLists : SendEquipmentConstantValues(us)
  \/ \E body \in OddBodies : Foreign(body)
  \/ ResolveNext \/ ResolveEnd \/ ApplyNext
  \/ DataReturned

DataSpec == DataInit /\ [][DataNext]_dataVars

-----------------------------------------------------------------------------
\* parseStatusValueResponse: one item for each identifier, or an error.
ReadsValues == IsList(request.body) /\ Len(Elements(request.body)) = Len(request.ids)

(* The host pairs the items of S1F4 and S2F14 with its identifiers by      *)
(* position: each value is one the variable had during the request.  If    *)
(* all it asked for, fewer than 256, are registered and have a value       *)
(* throughout, it gets them; the equipment panics only if two are not.     *)
ValuesAligned ==
  request.pc = "reply" /\ request.fn \in {4, 14} /\ request.ids # <<>> =>
    LET ids == request.ids
        Steady == {i \in DOMAIN ids : /\ ids[i] \in Elems(request.listed)
                                     /\ None \notin request.seen[ids[i]]}
    IN  /\ ReadsValues => \A i \in DOMAIN ids :
             /\ ids[i] \in Elems(request.listed)
             /\ Name(Elements(request.body)[i]) \in request.seen[ids[i]]
        /\ Len(ids) < Byte =>
             /\ DOMAIN ids \subseteq Steady => ReadsValues
             /\ request.body = Panicked => \E i, j \in DOMAIN ids \ Steady : i # j

\* The identifiers a host reads in S1F12 or S2F30.
ReadInfos(width) ==
  LET body == request.body
  IN  IF IsList(body) /\ \A e \in Elems(Elements(body)) :
           IsList(e) /\ Len(Elements(e)) >= width /\ IsId(Elements(e)[1])
      THEN [i \in DOMAIN Elements(body) |-> Name(Elements(Elements(body)[i])[1])]
      ELSE <<None>>

\* The bounds that the listed constants lack.
Gaps ==
  ((Elems(request.listed) \ WithMin) \X {"min"})
    \cup ((Elems(request.listed) \ WithMax) \X {"max"})

(* A request without identifiers is answered with all that is registered,  *)
(* in the order of registration, of 256 and more with what is left modulo  *)
(* 256.  One bound that one constant lacks silences S2F30, and two end the *)
(* equipment.                                                              *)
NamelistsComplete ==
  request.pc = "reply" /\ request.ids = <<>> =>
    /\ request.fn = 12 => ReadInfos(3) = Arrived(request.listed)
    /\ request.fn = 30 =>
         /\ Gaps = {} => ReadInfos(6) = Arrived(request.listed)
         /\ Gaps # {} => request.body \in {Hollow, Panicked}
         /\ request.body = Panicked <=> \E g, h \in Gaps : g # h

(* What the host reads in an answer belongs to what it asked for: it has   *)
(* nothing but positions to tell values and names apart.                   *)
AnswersAligned == ValuesAligned /\ NamelistsComplete

\* The constants an update leaves, after its first k entries.
After(k, ec) ==
  LET Own == {i \in 1..k : request.ids[i].id = ec}
  IN  IF Own = {} THEN request.before[ec]
      ELSE request.ids[CHOOSE i \in Own : \A j \in Own : j <= i].value

(* S2F15 is not atomic: the reply tells how much of it was applied only    *)
(* roughly.  Accepted means all of it, a malformed or unknown entry means  *)
(* nothing, and a value that is refused means exactly the entries before.  *)
(* (Of 256 and more updates the first ones arrive, modulo 256.)            *)
AckTellsApplied ==
  request.pc = "reply" /\ request.fn = 16 /\ request.ids # <<>> =>
    LET n == Len(request.ids)
        ack == Ack(request.body)
    IN  \E k \in 0..n :
          /\ ack = 0 => k = n /\ \A i \in 1..n : request.ids[i].value \in Valid[request.ids[i].id]
          /\ ack \in {1, 2} => k = 0
          /\ ack = 3 => k < n /\ (\/ request.ids[k + 1].value \notin Valid[request.ids[k + 1].id]
                                 \/ request.ids[k + 1].id \in Driven)
          /\ \A ec \in Ecids \ (Driven \cup Fixed) : value[ec] = After(k, ec)

DataTypeOK ==
  /\ \A t \in Tables : \A i, j \in DOMAIN order[t] : order[t][i] = order[t][j] => i = j
  /\ Elems(order["status"]) \subseteq Svids /\ Elems(order["constant"]) \subseteq Ecids
  /\ value \in [Svids \cup Ecids -> Values \cup {None}]
  /\ \A ec \in Ecids : value[ec] # None
  /\ request.pc \in {"idle", "resolve", "apply", "reply"}
  /\ request.pc = "apply" => request.rest # <<>>
=============================================================================
