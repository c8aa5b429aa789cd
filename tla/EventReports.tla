----------------------------- MODULE EventReports -----------------------------
(***************************************************************************)
(* Collection events of the equipment: the host defines reports (S2F33),   *)
(* links them to events (S2F35) and enables the events (S2F37); a          *)
(* triggered event sends its reports (S6F11) from a goroutine of its own,  *)
(* and S6F15 asks for them.                                                *)
(*                                                                         *)
(* The receive goroutine "rx" handles one message at a time and holds      *)
(* reportMu while it applies one, an entry a step.  A goroutine that       *)
(* builds a message takes the lock for each thing it reads, and tests the  *)
(* enabled flag and the length of the link without it.                     *)
(***************************************************************************)
EXTENDS SecsItems, FiniteSets

CONSTANTS
  Vids, Rptids, Ceids,    (* identifiers                                   *)
  Triggers,               (* slots for goroutines of sendCollectionEvent   *)
  DefineBodies,           (* bodies of S2F33 a host may send,              *)
  LinkBodies,             (* of S2F35,                                     *)
  EnableBodies,           (* of S2F37                                      *)
  ReportBodies            (* and of S6F15, as they arrive                  *)

DefineEntry == [id : Rptids, ids : Seq(Vids)]
LinkEntry   == [id : Ceids, ids : Seq(Rptids)]

ASSUME ReportsAssumption ==
  /\ \A body \in DefineBodies : AreEntries(body) =>
       /\ Entries(body) \in Seq(DefineEntry)
       /\ \A i \in DOMAIN Entries(body) : Len(Entries(body)[i].ids) < Byte
  /\ \A body \in LinkBodies : AreEntries(body) => Entries(body) \in Seq(LinkEntry)

VARIABLES
  variables,   (* per VID: absent, or a variable that is silent or valued   *)
  events,      (* g.collectionEvents                                       *)
  reports,     (* g.reports: RPTID -> VIDs                                 *)
  eventLinks,  (* g.eventLinks: CEID -> its reports and its enabled flag   *)
  rx,          (* the message being applied and what is left of it, or the *)
               (* reply                                                    *)
  builders,    (* per goroutine: the message it builds                     *)
  twice        (* RPTIDs some link was given twice                         *)

reportTables == <<reports, eventLinks, twice>>
reportVars   == <<variables, events, reportTables, rx, builders>>

Builders == Triggers \cup {"rx"}

With(f, k, v) == [x \in DOMAIN f \cup {k} |-> IF x = k THEN v ELSE f[x]]
Without(f, k) == [x \in DOMAIN f \ {k} |-> f[x]]

\* The first occurrence of key leaves the list (collectionEventLink.removeReport).
WithoutFirst(s, key) ==
  IF key \notin Elems(s) THEN s
  ELSE LET k == Least({i \in DOMAIN s : s[i] = key})
       IN  SubSeq(s, 1, k - 1) \o SubSeq(s, k + 1, Len(s))

Waiting == [pc |-> "idle", rest |-> <<>>, enable |-> FALSE, fn |-> 0, body |-> Empty]

NoLink == [reports |-> <<>>, enabled |-> FALSE]

\* shared: the goroutine holds the link of its event in the table; else link is
\* the one it found, which the table has dropped.  on: the link was enabled at
\* some instant since the start; ever: the reports linked at some instant;
\* steady: those reportable at every instant; full: at no instant a variable of
\* a report linked so far was without a value.
Parked == [pc |-> "idle", ceid |-> "none", shared |-> FALSE, link |-> NoLink,
           keys |-> <<>>, out |-> <<>>, on |-> FALSE, ever |-> {}, steady |-> {},
           full |-> TRUE]

\* No variable of these reports, as rs defines them, lacks a value.
Filled(S, rs, vs) ==
  \A r \in S \cap DOMAIN rs : \A v \in Elems(rs[r]) : vs[v] = "valued"

ReportsInit ==
  /\ variables = [v \in Vids |-> "absent"]
  /\ events = {}
  /\ reports = <<>> /\ eventLinks = <<>>
  /\ rx = Waiting
  /\ builders = [b \in Builders |-> Parked]
  /\ twice = {}

-----------------------------------------------------------------------------
(* What the application registers and stores.                              *)

RegisterVariable(v) ==
  /\ variables[v] = "absent"
  /\ variables' = [variables EXCEPT ![v] = "silent"]
  /\ UNCHANGED <<events, reportTables, rx, builders>>

\* A value is stored, or a provider starts or ceases to give one.
SetVariable(v) ==
  /\ variables[v] # "absent"
  /\ variables' = [variables EXCEPT ![v] = IF @ = "valued" THEN "silent" ELSE "valued"]
  /\ builders' = [b \in Builders |->
                    [builders[b] EXCEPT !.full = @ /\ Filled(builders[b].ever, reports, variables')]]
  /\ UNCHANGED <<events, reportTables, rx>>

RegisterCollectionEvent(ce) ==
  /\ ce \notin events
  /\ events' = events \cup {ce}
  /\ UNCHANGED <<variables, reportTables, rx, builders>>

-----------------------------------------------------------------------------
(* The lock, and what the building goroutines can have seen of the tables. *)

Locked == rx.pc \in {"define", "link", "enable"}

LinkedTo(ce, els) == IF ce \in DOMAIN els THEN Elems(els[ce].reports) ELSE {}
IsOn(ce, els)     == ce \in DOMAIN els /\ els[ce].enabled
Reportable(ce, rs, els) ==
  IF IsOn(ce, els) THEN LinkedTo(ce, els) \cap DOMAIN rs ELSE {}

\* The tables change under a goroutine; a link that leaves the table keeps its
\* last contents.
Watched(b, rs, els, last) ==
  [b EXCEPT !.shared = @ /\ b.ceid \in DOMAIN els,
            !.link = IF b.shared /\ b.ceid \notin DOMAIN els THEN last[b.ceid] ELSE @,
            !.on = @ \/ IsOn(b.ceid, els),
            !.ever = @ \cup LinkedTo(b.ceid, els),
            !.steady = @ \cap Reportable(b.ceid, rs, els),
            !.full = @ /\ Filled(b.ever \cup LinkedTo(b.ceid, els), rs, variables)]

Watch(last) ==
  builders' = [b \in Builders |->
                 IF builders[b].pc = "idle" THEN builders[b]
                 ELSE Watched(builders[b], reports', eventLinks', last)]

\* The handler ends and its reply is on the way.
ReplyReport(fn, body) ==
  rx' = [Waiting EXCEPT !.pc = "reply", !.fn = fn, !.body = body]

\* The calling function of the host returns; rx takes the next message.
ReportReturned ==
  /\ rx.pc = "reply"
  /\ rx' = Waiting
  /\ UNCHANGED <<variables, events, reportTables, builders>>

Refuse(fn, ack) ==
  /\ rx = Waiting
  /\ ReplyReport(fn, Bin(ack))
  /\ UNCHANGED <<variables, events, reportTables, builders>>

\* The loop that applies a message: after its last entry it answers with 0.
Continue(fn) ==
  IF Len(rx.rest) = 1 THEN ReplyReport(fn, Bin(0))
  ELSE rx' = [rx EXCEPT !.rest = Tail(@)]

Start(pc, rest, enable) ==
  /\ rx = Waiting
  /\ rx' = [Waiting EXCEPT !.pc = pc, !.rest = rest, !.enable = enable]
  /\ UNCHANGED <<variables, events, reportTables, builders>>

-----------------------------------------------------------------------------
(* S2F33: define reports.                                                  *)

vidExists(v) == variables[v] # "absent"

DefineAck(es) ==
  IF \E i \in DOMAIN es : es[i].id \in DOMAIN reports /\ es[i].ids # <<>> THEN 3
  ELSE IF \E i \in DOMAIN es : \E v \in Elems(es[i].ids) : ~vidExists(v) THEN 4
  ELSE 0

ClearAll ==
  /\ rx = Waiting
  /\ eventLinks' = <<>> /\ reports' = <<>>
  /\ ReplyReport(34, Bin(0))
  /\ UNCHANGED <<variables, events, twice>>
  /\ Watch(eventLinks)

onS2F33(body) ==
  \/ ~AreEntries(body) /\ Refuse(34, 2)
  \/ AreEntries(body) /\ Entries(body) = <<>> /\ ClearAll
  \/ /\ AreEntries(body) /\ Entries(body) # <<>>
     /\ \/ DefineAck(Entries(body)) # 0 /\ Refuse(34, DefineAck(Entries(body)))
        \/ DefineAck(Entries(body)) = 0 /\ Start("define", Entries(body), FALSE)

\* A report leaves the table and every link; a link without reports goes.
Shorter(key) ==
  [ce \in DOMAIN eventLinks |->
     [eventLinks[ce] EXCEPT !.reports = WithoutFirst(@, key)]]

\* Mutant: the links keep the report.
removeReportOnly(key) ==
  /\ reports' = Without(reports, key)
  /\ UNCHANGED eventLinks
  /\ Watch(eventLinks)

removeReport(key) ==
  /\ reports' = Without(reports, key)
  /\ eventLinks' = [ce \in {c \in DOMAIN eventLinks : Shorter(key)[c].reports # <<>>} |->
                      Shorter(key)[ce]]
  /\ Watch(Shorter(key))

DefineNext ==
  /\ rx.pc = "define"
  /\ Continue(34)
  /\ UNCHANGED <<variables, events, twice>>
  /\ \/ Head(rx.rest).ids = <<>> /\ removeReport(Head(rx.rest).id)
     \/ /\ Head(rx.rest).ids # <<>>
        /\ reports' = With(reports, Head(rx.rest).id, Head(rx.rest).ids)
        /\ UNCHANGED eventLinks
        /\ Watch(eventLinks)

-----------------------------------------------------------------------------
(* S2F35: link reports to events.  The check is made against the tables as *)
(* they are before the first entry is applied.                             *)

LinkFault(e) ==
  LET Bad == {j \in DOMAIN e.ids : \/ e.ids[j] \notin DOMAIN reports
                                   \/ e.ids[j] \in LinkedTo(e.id, eventLinks)}
  IN  IF e.id \notin events THEN 4
      ELSE IF Bad = {} THEN 0
      ELSE IF e.ids[Least(Bad)] \notin DOMAIN reports THEN 5 ELSE 3

LinkAck(es) ==
  LET Bad == {i \in DOMAIN es : LinkFault(es[i]) # 0}
  IN  IF Bad = {} THEN 0 ELSE LinkFault(es[Least(Bad)])

onS2F35(body) ==
  \/ ~AreEntries(body) /\ Refuse(36, 2)
  \/ /\ AreEntries(body)
     /\ \/ LinkAck(Entries(body)) # 0 /\ Refuse(36, LinkAck(Entries(body)))
        \/ Entries(body) = <<>> /\ Refuse(36, 0)
        \/ /\ Entries(body) # <<>> /\ LinkAck(Entries(body)) = 0
           /\ Start("link", Entries(body), FALSE)

Repeated(s) == {x \in Elems(s) : Cardinality({i \in DOMAIN s : s[i] = x}) > 1}

\* The link with the reports of entry e added: a new one is enabled.
Extended(e) ==
  IF e.id \in DOMAIN eventLinks
  THEN [eventLinks[e.id] EXCEPT !.reports = @ \o e.ids]
  ELSE [reports |-> e.ids, enabled |-> TRUE]

LinkNext ==
  /\ rx.pc = "link"
  /\ Continue(36)
  /\ LET e == Head(rx.rest)
     IN \/ /\ e.ids = <<>>
           /\ eventLinks' = Without(eventLinks, e.id)
           /\ UNCHANGED twice
        \/ /\ e.ids # <<>>
           /\ eventLinks' = With(eventLinks, e.id, Extended(e))
           /\ twice' = twice \cup Repeated(Extended(e).reports)
  /\ UNCHANGED <<variables, events, reports>>
  /\ Watch(eventLinks)

-----------------------------------------------------------------------------
(* S2F37: enable or disable.  It applies one CEID after the other and ends *)
(* at the first one without a link.                                        *)

IsCeed(item) == Format(item) \in {"B", "T"} /\ Elements(item) # <<>>
Ceed(item)   == IF Format(item) = "B" THEN Elements(item)[1] # 0 ELSE Elements(item)[1]

IsEventEnable(body) ==
  /\ IsList(body) /\ Len(Elements(body)) >= 2
  /\ IsCeed(Elements(body)[1])
  /\ IsList(Elements(body)[2]) /\ AreIds(Elements(body)[2])

ASSUME EnableAssumption ==
  \A body \in EnableBodies :
    IsEventEnable(body) => Names(Elements(body)[2]) \in Seq(Ceids)

EnableEvery(enable) ==
  /\ rx = Waiting
  /\ eventLinks' = [ce \in DOMAIN eventLinks |-> [eventLinks[ce] EXCEPT !.enabled = enable]]
  /\ ReplyReport(38, Bin(0))
  /\ UNCHANGED <<variables, events, reports, twice>>
  /\ Watch(eventLinks)

onS2F37(body) ==
  \/ ~IsEventEnable(body) /\ Refuse(38, 1)
  \/ /\ IsEventEnable(body) /\ Names(Elements(body)[2]) = <<>>
     /\ EnableEvery(Ceed(Elements(body)[1]))
  \/ /\ IsEventEnable(body) /\ Names(Elements(body)[2]) # <<>>
     /\ Start("enable", Names(Elements(body)[2]), Ceed(Elements(body)[1]))

EnableNext ==
  /\ rx.pc = "enable"
  /\ \/ /\ Head(rx.rest) \in DOMAIN eventLinks
        /\ eventLinks' = [eventLinks EXCEPT ![Head(rx.rest)].enabled = rx.enable]
        /\ Continue(38)
     \/ /\ Head(rx.rest) \notin DOMAIN eventLinks
        /\ ReplyReport(38, Bin(1))
        /\ UNCHANGED eventLinks
  /\ UNCHANGED <<variables, events, reports, twice>>
  /\ Watch(eventLinks)

-----------------------------------------------------------------------------
(* Building the reports of an event, for S6F11 and for S6F16.              *)

At(b, pc) == builders[b].pc = pc

Go(b, new) ==
  /\ builders' = [builders EXCEPT ![b] = new]
  /\ UNCHANGED <<variables, events, reportTables>>

Building(ce) ==
  [Parked EXCEPT
     !.pc = "lookup", !.ceid = ce, !.on = IsOn(ce, eventLinks),
     !.ever = LinkedTo(ce, eventLinks),
     !.steady = Reportable(ce, reports, eventLinks),
     !.full = Filled(LinkedTo(ce, eventLinks), reports, variables)]

TriggerCollectionEvent(b, ce) ==
  /\ At(b, "idle")
  /\ Go(b, Building(ce))
  /\ UNCHANGED rx

\* The identifier S6F15 asks for: the body, or the first item of a list.
RequestedEvent(body) ==
  IF IsList(body) /\ Elements(body) # <<>> THEN Elements(body)[1] ELSE body

EventItem(dataID, ce, out) == L(<<Id(dataID), ce, SentList(out)>>)

onS6F15(body) ==
  /\ rx = Waiting
  /\ \/ /\ ~IsId(RequestedEvent(body))
        /\ ReplyReport(616, EventItem(1, Empty, <<>>))
        /\ UNCHANGED <<variables, events, reportTables, builders>>
     \/ /\ IsId(RequestedEvent(body))
        /\ rx' = [Waiting EXCEPT !.pc = "report"]
        /\ Go("rx", Building(Name(RequestedEvent(body))))

\* Two variables without a value panic, and the equipment ends.
Die ==
  /\ rx' = [Waiting EXCEPT !.pc = "dead"]
  /\ UNCHANGED <<variables, events, reportTables, builders>>

\* The build is over: the handler answers in any case, a goroutine sends what
\* it has, or nothing without a report.  A hollow message is not sent.
Deliver(b, dataID, out) ==
  LET item == EventItem(dataID, Id(builders[b].ceid), out)
  IN  \/ item = Panicked /\ Die
      \/ /\ item # Panicked /\ b = "rx"
         /\ Go(b, Parked) /\ ReplyReport(616, item)
      \/ /\ item # Panicked /\ b # "rx"
         /\ Go(b, IF out = <<>> \/ item = Hollow THEN Parked
                  ELSE [builders[b] EXCEPT !.pc = "sent"])
         /\ UNCHANGED rx

Lookup(b) ==
  /\ At(b, "lookup") /\ ~Locked
  /\ LET ce == builders[b].ceid
     IN \/ ce \notin events /\ Deliver(b, 1, <<>>)
        \/ ce \in events /\ ce \notin DOMAIN eventLinks /\ Deliver(b, 0, <<>>)
        \/ /\ ce \in events /\ ce \in DOMAIN eventLinks
           /\ Go(b, [builders[b] EXCEPT !.pc = "check", !.shared = TRUE])
           /\ UNCHANGED rx

Held(b) == IF builders[b].shared THEN eventLinks[builders[b].ceid] ELSE builders[b].link

\* Mutant: the flag is not tested.
CheckLinkUnflagged(b) ==
  /\ At(b, "check")
  /\ \/ Held(b).reports = <<>> /\ Deliver(b, 0, <<>>)
     \/ /\ Held(b).reports # <<>>
        /\ Go(b, [builders[b] EXCEPT !.pc = "copy"])
        /\ UNCHANGED rx

\* Without the lock.
CheckLink(b) ==
  /\ At(b, "check")
  /\ \/ (~Held(b).enabled \/ Held(b).reports = <<>>) /\ Deliver(b, 0, <<>>)
     \/ /\ Held(b).enabled /\ Held(b).reports # <<>>
        /\ Go(b, [builders[b] EXCEPT !.pc = "copy"])
        /\ UNCHANGED rx

CopyKeys(b) ==
  /\ At(b, "copy") /\ ~Locked
  /\ Go(b, [builders[b] EXCEPT !.pc = "collect", !.keys = Held(b).reports,
                               !.shared = FALSE, !.link = NoLink])
  /\ UNCHANGED rx

ReportItem(r) ==
  L(<<Id(r), L([i \in DOMAIN reports[r] |->
                  IF variables[reports[r][i]] = "valued" THEN Id("value") ELSE Empty])>>)

\* Mutant: the first report that is gone ends the message.
CollectReportStops(b) ==
  /\ At(b, "collect") /\ ~Locked /\ builders[b].keys # <<>>
  /\ LET r   == Head(builders[b].keys)
         out == IF r \in DOMAIN reports THEN Append(builders[b].out, ReportItem(r))
                ELSE builders[b].out
     IN  \/ Panicked \in Elems(out) /\ Die
         \/ /\ Panicked \notin Elems(out)
            /\ Go(b, [builders[b] EXCEPT
                        !.keys = IF r \in DOMAIN reports THEN Tail(@) ELSE <<>>, !.out = out])
            /\ UNCHANGED rx

CollectReport(b) ==
  /\ At(b, "collect") /\ ~Locked /\ builders[b].keys # <<>>
  /\ LET r   == Head(builders[b].keys)
         out == IF r \in DOMAIN reports THEN Append(builders[b].out, ReportItem(r))
                ELSE builders[b].out
     IN  \/ Panicked \in Elems(out) /\ Die
         \/ /\ Panicked \notin Elems(out)
            /\ Go(b, [builders[b] EXCEPT !.keys = Tail(@), !.out = out])
            /\ UNCHANGED rx

FinishReport(b) ==
  /\ At(b, "collect") /\ builders[b].keys = <<>>
  /\ Deliver(b, IF builders[b].out = <<>> THEN 0 ELSE 1, builders[b].out)

\* The host takes the S6F11 of a goroutine.
onS6F11(b) ==
  /\ At(b, "sent")
  /\ Go(b, Parked)
  /\ UNCHANGED rx

\* What parseEventReportMessage makes of a body: the RPTIDs, or nothing when
\* the body is malformed and the host answers with 1.
IsReport(item) ==
  /\ IsList(item) /\ Len(Elements(item)) >= 3
  /\ IsId(Elements(item)[2])
  /\ IsList(Elements(item)[3])
  /\ \A e \in Elems(Elements(Elements(item)[3])) :
       IsList(e) /\ Len(Elements(e)) >= 2 /\ IsId(Elements(e)[1]) /\ IsList(Elements(e)[2])

ReadReports(item) ==
  IF IsReport(item) THEN {Name(Elements(e)[1]) : e \in Elems(Elements(Elements(item)[3]))}
  ELSE {}

-----------------------------------------------------------------------------
Application ==
  \/ \E v \in Vids : RegisterVariable(v) \/ SetVariable(v)
  \/ \E ce \in Ceids : RegisterCollectionEvent(ce)
  \/ \E b \in Triggers, ce \in Ceids : TriggerCollectionEvent(b, ce)

Receiver ==
  \/ \E body \in DefineBodies : onS2F33(body)
  \/ \E body \in LinkBodies : onS2F35(body)
  \/ \E body \in EnableBodies : onS2F37(body)
  \/ \E body \in ReportBodies : onS6F15(body)
  \/ DefineNext \/ LinkNext \/ EnableNext \/ ReportReturned

Build(b) == Lookup(b) \/ CheckLink(b) \/ CopyKeys(b) \/ CollectReport(b) \/ FinishReport(b)

ReportsNext ==
  /\ rx.pc # "dead"
  /\ \/ Application
     \/ Receiver
     \/ \E b \in Builders : Build(b) \/ onS6F11(b)

ReportsSpec == ReportsInit /\ [][ReportsNext]_reportVars

-----------------------------------------------------------------------------
(* Every link is of a registered event, has reports, and each of them is   *)
(* defined, also between the entries of one message.  A report that one    *)
(* S2F35 gave a link twice is the exception: its removal takes one only.   *)
LinksResolve ==
  \A ce \in DOMAIN eventLinks :
    /\ ce \in events
    /\ eventLinks[ce].reports # <<>>
    /\ Elems(eventLinks[ce].reports) \ twice \subseteq DOMAIN reports

\* What the host reads in the message of b when its build ends or it arrives.
Ends(b)  == ~At(b, "idle") /\ At(b, "idle")'
Heard(b) == ReadReports(EventItem(1, Id(builders[b].ceid), builders[b].out))

(* What the host reads in S6F11 and S6F16 was linked to the event while    *)
(* the message was built, and there is something only if the event was     *)
(* enabled then: an event triggered after a disable was acknowledged is    *)
(* silent.                                                                 *)
ReportsSupported ==
  [][\A b \in Builders : Ends(b) /\ Heard(b) # {} =>
       Heard(b) \subseteq builders[b].ever /\ builders[b].on]_reportVars

(* If all the while no report linked to the event had a variable without a *)
(* value, the message reaches the host and has every report that was       *)
(* defined, linked and enabled all the while, whatever else the host       *)
(* redefines; and the equipment dies only of a build that met such a       *)
(* variable.  (Of 256 reports or more the first ones arrive, modulo 256.)  *)
SteadyReportsSent ==
  [][/\ \A b \in Builders :
          Ends(b) /\ builders[b].full /\ Len(builders[b].out) < Byte =>
            builders[b].steady \subseteq Heard(b)
     /\ rx'.pc = "dead" => \E b \in Builders : ~builders[b].full]_reportVars

ReportsTypeOK ==
  /\ variables \in [Vids -> {"absent", "silent", "valued"}]
  /\ events \subseteq Ceids
  /\ DOMAIN reports \subseteq Rptids
  /\ \A r \in DOMAIN reports : reports[r] # <<>> /\ Elems(reports[r]) \subseteq Vids
  /\ \A ce \in DOMAIN eventLinks : Elems(eventLinks[ce].reports) \subseteq Rptids
  /\ rx.pc \in {"idle", "define", "link", "enable", "report", "reply", "dead"}
  /\ Locked => rx.rest # <<>>
  /\ \A b \in Builders : builders[b].shared => builders[b].ceid \in DOMAIN eventLinks
=============================================================================
