------------------------------- MODULE Alarms -------------------------------
(***************************************************************************)
(* Alarms: the application of the equipment raises and clears them from    *)
(* any goroutine.  The state changes under alarmMu; the S5F1 is built and  *)
(* sent after the lock is given back.  The host keeps what the last S5F1   *)
(* said, enables and disables alarms (S5F3) and asks for the lists (S5F5,  *)
(* S5F7).                                                                  *)
(***************************************************************************)
EXTENDS SecsItems

CONSTANTS
  Alids,         (* alarm identifiers, numbers                             *)
  Raisers,       (* goroutines of the application                          *)
  AlarmBodies,   (* bodies of S5F3 as they arrive                          *)
  MaxWire        (* bound: S5F1 messages on their way                      *)

ASSUME AlarmAssumption == Alids \subseteq Nat \ {0} /\ MaxWire \in Nat

VARIABLES
  alarms,   (* g.alarms: ALID -> set, enabled                              *)
  raisers,  (* per goroutine: the S5F1 it is about to send, or none        *)
  wire,     (* S5F1 messages in the order they were written                *)
  view,     (* per ALID: what the host was told last                       *)
  query,    (* what the last step answered to the host, which takes it at  *)
            (* once: nothing else depends on when                          *)
  doubt     (* alarms whose last change the host need not know: it was not *)
            (* reported, or two reports were under way at once             *)

alarmVars == <<alarms, raisers, wire, view, query, doubt>>

NoMessage == [alid |-> 0, set |-> FALSE]
Quiet == [fn |-> 0, body |-> Empty, was |-> <<>>]

AlarmsInit ==
  /\ alarms = <<>>
  /\ raisers = [p \in Raisers |-> NoMessage]
  /\ wire = <<>>
  /\ view = [a \in Alids |-> FALSE]
  /\ query = Quiet
  /\ doubt = {}

-----------------------------------------------------------------------------
(* The equipment's application.                                            *)

Pending(a) == \E p \in Raisers : raisers[p].alid = a

\* Registering an alarm again replaces it, and tells nobody.
RegisterAlarm(a, set) ==
  /\ alarms' = [x \in DOMAIN alarms \cup {a} |->
                  IF x = a THEN [set |-> set, enabled |-> TRUE] ELSE alarms[x]]
  /\ doubt' = doubt \cup {a}
  /\ query' = Quiet
  /\ UNCHANGED <<raisers, wire, view>>

\* RaiseAlarm and ClearAlarm up to the unlock.
SetAlarm(p, a, set) ==
  /\ raisers[p] = NoMessage
  /\ a \in DOMAIN alarms
  /\ alarms' = [alarms EXCEPT ![a].set = set]
  /\ raisers' = [raisers EXCEPT ![p] = IF alarms[a].enabled
                                       THEN [alid |-> a, set |-> set] ELSE NoMessage]
  /\ doubt' = IF Pending(a) \/ ~alarms[a].enabled THEN doubt \cup {a} ELSE doubt \ {a}
  /\ query' = Quiet
  /\ UNCHANGED <<wire, view>>

AlarmItem(m) == L(<<Bin(IF m.set THEN 1 ELSE 0), Id(m.alid), Text(5)>>)

SendS5F1(p) ==
  /\ raisers[p] # NoMessage
  /\ Len(wire) < MaxWire
  /\ wire' = Append(wire, AlarmItem(raisers[p]))
  /\ raisers' = [raisers EXCEPT ![p] = NoMessage]
  /\ query' = Quiet
  /\ UNCHANGED <<alarms, view, doubt>>

\* The connection is not ready: the alarm stays as it was set.
SendFails(p) ==
  /\ raisers[p] # NoMessage
  /\ doubt' = doubt \cup {raisers[p].alid}
  /\ raisers' = [raisers EXCEPT ![p] = NoMessage]
  /\ query' = Quiet
  /\ UNCHANGED <<alarms, wire, view>>

SwitchAlarm(a, enabled) ==
  /\ a \in DOMAIN alarms
  /\ alarms' = [alarms EXCEPT ![a].enabled = enabled]
  /\ query' = Quiet
  /\ UNCHANGED <<raisers, wire, view, doubt>>

-----------------------------------------------------------------------------
(* The host's handler of S5F1.                                             *)

\* parseAlarmMessage.
IsAlarm(item) ==
  /\ IsList(item) /\ Len(Elements(item)) >= 2
  /\ Format(Elements(item)[1]) = "B" /\ Elements(Elements(item)[1]) # <<>>
  /\ Format(Elements(item)[2]) \in {"U", "I"}

\* Mutant: only bit 7 counts.
onS5F1Bit ==
  /\ wire # <<>>
  /\ LET item == Head(wire)
     IN view' = IF IsAlarm(item)
                THEN [view EXCEPT ![Name(Elements(item)[2])] = Elements(Elements(item)[1])[1] >= 128]
                ELSE view
  /\ wire' = Tail(wire)
  /\ query' = Quiet
  /\ UNCHANGED <<alarms, raisers, doubt>>

onS5F1 ==
  /\ wire # <<>>
  /\ LET item == Head(wire)
     IN view' = IF IsAlarm(item)
                THEN [view EXCEPT ![Name(Elements(item)[2])] = Elements(Elements(item)[1])[1] # 0]
                ELSE view
  /\ wire' = Tail(wire)
  /\ query' = Quiet
  /\ UNCHANGED <<alarms, raisers, doubt>>

-----------------------------------------------------------------------------
(* S5F3, S5F5 and S5F7.                                                    *)

ReplyAlarm(fn, body, was) == query' = [fn |-> fn, body |-> body, was |-> was]

\* SendEnableAlarm, as a host of this library builds it.
AlarmBody(alids, enable) ==
  L(<<Bin(IF enable THEN 128 ELSE 0), SentList([i \in DOMAIN alids |-> Id(alids[i])])>>)

IsAlarmEnable(body) ==
  /\ IsList(body) /\ Len(Elements(body)) >= 2
  /\ IsAck(Elements(body)[1])
  /\ IsList(Elements(body)[2])
  /\ \A i \in DOMAIN Elements(Elements(body)[2]) :
       Format(Elements(Elements(body)[2])[i]) \in {"U", "I"}

\* An integer item without a value counts as alarm 0.
Alid(item) == IF Elements(item) = <<>> THEN 0 ELSE Name(item)

onS5F3(body) ==
  /\ LET asked == IF IsAlarmEnable(body)
                  THEN {Alid(Elements(Elements(body)[2])[i]) : i \in DOMAIN Elements(Elements(body)[2])}
                  ELSE {}
         good  == IsAlarmEnable(body) /\ asked \subseteq DOMAIN alarms
     IN /\ alarms' = IF good
                     THEN [a \in DOMAIN alarms |->
                             IF a \in asked
                             THEN [alarms[a] EXCEPT !.enabled = Ack(Elements(body)[1]) = 128]
                             ELSE alarms[a]]
                     ELSE alarms
        /\ ReplyAlarm(4, Bin(IF good THEN 0 ELSE 1), <<>>)
  /\ UNCHANGED <<raisers, wire, view, doubt>>

\* Mutant: the two bits are swapped.
ListItemSwapped(a) ==
  L(<<Bin((IF alarms[a].set THEN 64 ELSE 0) + (IF alarms[a].enabled THEN 128 ELSE 0)),
      Id(a), Text(5)>>)

\* ALCD: bit 7 is the state, bit 6 the enabled flag.
ListItem(a) ==
  L(<<Bin((IF alarms[a].set THEN 128 ELSE 0) + (IF alarms[a].enabled THEN 64 ELSE 0)),
      Id(a), Text(5)>>)

ListBody(S) == SentList([i \in DOMAIN InOrder(S) |-> ListItem(InOrder(S)[i])])

EnabledAlarms == {a \in DOMAIN alarms : alarms[a].enabled}

onS5F5 ==
  /\ ReplyAlarm(6, ListBody(DOMAIN alarms), alarms)
  /\ UNCHANGED <<alarms, raisers, wire, view, doubt>>

onS5F7 ==
  /\ ReplyAlarm(8, ListBody(EnabledAlarms), [a \in EnabledAlarms |-> alarms[a]])
  /\ UNCHANGED <<alarms, raisers, wire, view, doubt>>

\* parseAlarmListResponse: malformed entries are skipped.
IsListed(item) ==
  /\ IsList(item) /\ Len(Elements(item)) >= 3
  /\ IsAck(Elements(item)[1])
  /\ Format(Elements(item)[2]) \in {"U", "I"}

ReadList(body) ==
  {[alid |-> Alid(Elements(e)[2]),
    set |-> (Ack(Elements(e)[1]) \div 128) % 2 = 1,
    enabled |-> (Ack(Elements(e)[1]) \div 64) % 2 = 1] :
     e \in {Elements(body)[i] : i \in {j \in DOMAIN Elements(body) : IsListed(Elements(body)[j])}}}

-----------------------------------------------------------------------------
AlarmsNext ==
  \/ \E a \in Alids, b \in BOOLEAN : RegisterAlarm(a, b) \/ SwitchAlarm(a, b)
  \/ \E p \in Raisers :
       \/ \E a \in Alids, set \in BOOLEAN : SetAlarm(p, a, set)
       \/ SendS5F1(p) \/ SendFails(p)
  \/ onS5F1
  \/ \E body \in AlarmBodies : onS5F3(body)
  \/ onS5F5 \/ onS5F7

AlarmsSpec == AlarmsInit /\ [][AlarmsNext]_alarmVars

-----------------------------------------------------------------------------
(* When nothing is under way the host believes of every alarm what the     *)
(* equipment holds, except where its last change was not reported or raced *)
(* another report of the same alarm: S5F1 is sent after the lock is given  *)
(* back, so that two goroutines may send in the other order.               *)
HostKnows ==
  wire = <<>> /\ (\A p \in Raisers : raisers[p] = NoMessage) =>
    \A a \in DOMAIN alarms \ doubt : view[a] = alarms[a].set

(* The host reads in S5F6 and S5F8 the alarms that the equipment held, or  *)
(* held enabled, when it answered, in ascending order and each as it was:  *)
(* all of them if they are fewer than 256, else the first ones, as many as *)
(* there are modulo 256.                                                   *)
ListFaithful ==
  query.fn \in {6, 8} =>
    /\ ReadList(query.body) =
         {[alid |-> a, set |-> query.was[a].set, enabled |-> query.was[a].enabled] :
            a \in Elems(Arrived(InOrder(DOMAIN query.was)))}
    /\ \A i, j \in DOMAIN Elements(query.body) :
         i < j => Alid(Elements(Elements(query.body)[i])[2])
                    < Alid(Elements(Elements(query.body)[j])[2])

AlarmsTypeOK ==
  /\ DOMAIN alarms \subseteq Alids
  /\ \A a \in DOMAIN alarms : alarms[a] \in [set : BOOLEAN, enabled : BOOLEAN]
  /\ \A p \in Raisers : raisers[p] = NoMessage \/ raisers[p].alid \in DOMAIN alarms
  /\ Len(wire) <= MaxWire
  /\ view \in [Alids -> BOOLEAN]
  /\ doubt \subseteq Alids
=============================================================================
