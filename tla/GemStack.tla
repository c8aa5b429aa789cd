------------------------------ MODULE GemStack ------------------------------
(***************************************************************************)
(* The parts around the HSMS and GEM state machines: the services of the   *)
(* equipment, the dispatch of data messages to them, and the sessions      *)
(* below.  They share no variable: each keeps tables of its own behind     *)
(* locks of its own, and one receive goroutine runs their handlers one     *)
(* after the other.  A behaviour is one of the part that Init picks.       *)
(***************************************************************************)
EXTENDS EventReports, EquipmentData, Alarms, HostCommands, DataDispatch, LinkSession

CONSTANT Parts   (* the parts that run *)

ASSUME PartsAssumption ==
  Parts \subseteq {"reports", "data", "alarms", "commands", "dispatch", "link"}

VARIABLE part

vars == <<part, reportVars, dataVars, alarmVars, commandVars, dispatchVars, sessionVars>>

Init ==
  /\ part \in Parts
  /\ ReportsInit /\ DataInit /\ AlarmsInit /\ CommandsInit /\ DispatchInit /\ SessionInit

Next ==
  /\ UNCHANGED part
  /\ \/ /\ part = "reports" /\ ReportsNext
        /\ UNCHANGED <<dataVars, alarmVars, commandVars, dispatchVars, sessionVars>>
     \/ /\ part = "data" /\ DataNext
        /\ UNCHANGED <<reportVars, alarmVars, commandVars, dispatchVars, sessionVars>>
     \/ /\ part = "alarms" /\ AlarmsNext
        /\ UNCHANGED <<reportVars, dataVars, commandVars, dispatchVars, sessionVars>>
     \/ /\ part = "commands" /\ CommandsNext
        /\ UNCHANGED <<reportVars, dataVars, alarmVars, dispatchVars, sessionVars>>
     \/ /\ part = "dispatch" /\ DispatchNext
        /\ UNCHANGED <<reportVars, dataVars, alarmVars, commandVars, sessionVars>>
     \/ /\ part = "link" /\ SessionNext
        /\ UNCHANGED <<reportVars, dataVars, alarmVars, commandVars, dispatchVars>>

Spec == Init /\ [][Next]_vars

(* The tables, requests and messages of every part keep their shape.       *)
TypeOK == ReportsTypeOK /\ DataTypeOK /\ AlarmsTypeOK /\ CommandsTypeOK
=============================================================================
