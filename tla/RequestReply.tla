---------------------------- MODULE RequestReply ----------------------------
(***************************************************************************)
(* What the transaction layer promises its callers: a call is refused, or  *)
(* it opens with an ID no call or error report ever had and closes once,   *)
(* with the answer to that very ID or with none.  Nothing is said of       *)
(* queues, timers or the wire.                                             *)
(***************************************************************************)
EXTENDS Naturals

CONSTANTS Callers, Ids

VARIABLES
  used,    (* the IDs taken so far                                          *)
  id,      (* per caller: the ID of its current or last call, 0 for none    *)
  status,  (* per caller: idle, open or closed                              *)
  answer   (* per caller: the ID the answer carried, 0 without an answer    *)

vars == <<used, id, status, answer>>

Init ==
  /\ used = {}
  /\ id = [c \in Callers |-> 0]
  /\ status = [c \in Callers |-> "idle"]
  /\ answer = [c \in Callers |-> 0]

\* A new call, or one that is refused before it has an ID.
Begin(c, outcome) ==
  /\ status[c] # "open"
  /\ outcome \in {"idle", "closed"}
  /\ status' = [status EXCEPT ![c] = outcome]
  /\ id' = [id EXCEPT ![c] = 0]
  /\ answer' = [answer EXCEPT ![c] = 0]
  /\ UNCHANGED used

Open(c, i) ==
  /\ status[c] = "idle"
  /\ i \in Ids \ used
  /\ used' = used \cup {i}
  /\ id' = [id EXCEPT ![c] = i]
  /\ status' = [status EXCEPT ![c] = "open"]
  /\ UNCHANGED answer

\* An error report uses an ID up.
Burn(i) ==
  /\ i \in Ids \ used
  /\ used' = used \cup {i}
  /\ UNCHANGED <<id, status, answer>>

Close(c, a) ==
  /\ status[c] = "open"
  /\ a \in {id[c], 0}
  /\ status' = [status EXCEPT ![c] = "closed"]
  /\ answer' = [answer EXCEPT ![c] = a]
  /\ UNCHANGED <<used, id>>

Next ==
  \/ \E c \in Callers :
       \/ \E o \in {"idle", "closed"} : Begin(c, o)
       \/ \E i \in used' : Open(c, i)
       \/ Close(c, id[c]) \/ Close(c, 0)
  \/ \E i \in used' : Burn(i)

Spec == Init /\ [][Next]_vars
=============================================================================
