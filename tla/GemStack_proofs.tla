--------------------------- MODULE GemStack_proofs ---------------------------
(***************************************************************************)
(* GemStack implements the specification of each of its parts, so what is  *)
(* proved of a part holds of the stack; and the type invariant of the      *)
(* services, from the invariants of the four.                              *)
(***************************************************************************)
EXTENDS GemStack, EventReports_proofs, GemServices_proofs

\* A step of the stack is a step of one part, and leaves the tables of the
\* others alone: each service has tables and locks of its own (gem/handler.go:128
\* to 137), and so have the link sessions.
THEOREM PartsImplemented ==
  Spec => /\ ReportsSpec /\ DataSpec /\ AlarmsSpec
          /\ CommandsSpec /\ DispatchSpec /\ SessionSpec
<1>1. Init => /\ ReportsInit /\ DataInit /\ AlarmsInit
              /\ CommandsInit /\ DispatchInit /\ SessionInit
  BY DEF Init
<1>2. [Next]_vars => [ReportsNext]_reportVars
  BY DEF Next, vars
<1>3. [Next]_vars => [DataNext]_dataVars
  BY DEF Next, vars
<1>4. [Next]_vars => [AlarmsNext]_alarmVars
  BY DEF Next, vars
<1>5. [Next]_vars => [CommandsNext]_commandVars
  BY DEF Next, vars
<1>6. [Next]_vars => [DispatchNext]_dispatchVars
  BY DEF Next, vars
<1>7. [Next]_vars => [SessionNext]_sessionVars
  BY DEF Next, vars
<1>. QED
  BY <1>1, <1>2, <1>3, <1>4, <1>5, <1>6, <1>7, PTL
     DEF Spec, ReportsSpec, DataSpec, AlarmsSpec, CommandsSpec, DispatchSpec, SessionSpec

\* The tables, the messages on their way and what the application was called
\* with keep their shape, whichever part runs.
THEOREM StackTypeOKHolds == Spec => []TypeOK
<1>1. DataSpec => []DataTypeOK
  BY DataStart, DataStep, DataTyped, PTL DEF DataSpec
<1>2. AlarmsSpec => []AlarmsTypeOK
  BY AlarmsStart, AlarmsStep, AlarmsTyped, PTL DEF AlarmsSpec
<1>3. CommandsSpec => []CommandsTypeOK
  BY CommandsStart, CommandsStep, CommandsTyped, PTL DEF CommandsSpec
<1>. QED
  BY PartsImplemented, ReportsTypeOKHolds, <1>1, <1>2, <1>3, PTL DEF TypeOK
=============================================================================
