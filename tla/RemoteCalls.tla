---------------------------- MODULE RemoteCalls ----------------------------
(***************************************************************************)
(* What the two entities of a link promise the functions that call their   *)
(* peer: a request is executed once or never; a caller who is told that it *)
(* was, or was not, is told the truth; and he may be told something that   *)
(* belongs to another request only where the peer has used his number for  *)
(* one of its own.  Nothing is said of messages, their order, queues or    *)
(* handlers.                                                               *)
(***************************************************************************)
EXTENDS Naturals, Sequences

CONSTANTS
  Entities,
  Callers,     (* <<entity, caller>>                                       *)
  Confirmed,   (* the request whose answer has a handler of its own        *)
  None         (* no request                                               *)

VARIABLES
  count,       (* per entity: the last number it has used                  *)
  pending,     (* requests neither executed nor lost                       *)
  executed,    (* the requests executed, in order                          *)
  call,        (* per caller: the request of its open call                 *)
  told         (* per caller: what it is told                              *)

vars == <<count, pending, executed, call, told>>

\* A request: who asks, its number, and what for.
Asker(i)  == i[1]
NumOf(i)  == i[2]
Kind(i)   == i[3]

Done == {executed[k] : k \in DOMAIN executed}

Init ==
  /\ count \in [Entities -> Nat]
  /\ pending = {} /\ executed = <<>>
  /\ call = [c \in Callers |-> None]
  /\ told = [c \in Callers |-> "nothing"]

IsCalling(c) == call[c] # None

-----------------------------------------------------------------------------
Issue(i) ==
  /\ Asker(i) \in Entities /\ NumOf(i) = count[Asker(i)] + 1
  /\ count' = [count EXCEPT ![Asker(i)] = NumOf(i)]
  /\ pending' = pending \cup {i}

Notify(i) == Issue(i) /\ UNCHANGED <<executed, call, told>>

Call(c, i) ==
  /\ ~IsCalling(c) /\ Asker(i) = c[1]
  /\ Issue(i)
  /\ call' = [call EXCEPT ![c] = i]
  /\ UNCHANGED <<executed, told>>

Execute(i) ==
  /\ i \in pending
  /\ pending' = pending \ {i}
  /\ executed' = Append(executed, i)
  /\ UNCHANGED <<count, call, told>>

\* The asker handles a late answer, on behalf of a request that was executed.
Confirm(i) ==
  /\ i \in Done /\ Kind(i) = Confirmed
  /\ executed' = Append(executed, i)
  /\ UNCHANGED <<count, pending, call, told>>

\* The peer has no handler for it.
Refuse(i) ==
  /\ i \in pending
  /\ pending' = pending \ {i}
  /\ UNCHANGED <<count, executed, call, told>>

\* The peer takes it for the answer to an open call of its own with that number.
Mistake(c, i) ==
  /\ i \in pending /\ IsCalling(c)
  /\ Asker(i) # c[1] /\ NumOf(i) = NumOf(call[c])
  /\ pending' = pending \ {i}
  /\ told' = [told EXCEPT ![c] = IF @ = "nothing" THEN "other" ELSE @]
  /\ UNCHANGED <<count, executed, call>>

\* An answer arrives.
Tell(c, what) ==
  /\ told[c] = "nothing"
  /\ what = "done" => call[c] \in Done
  /\ what = "refused" => call[c] \notin Done \cup pending
  /\ what = "other" => \E e \in Entities \ {c[1]} : NumOf(call[c]) <= count[e]
  /\ told' = [told EXCEPT ![c] = what]
  /\ UNCHANGED <<count, pending, executed, call>>

HangUp(c) ==
  /\ call' = [call EXCEPT ![c] = None]
  /\ told' = [told EXCEPT ![c] = "nothing"]
  /\ UNCHANGED <<pending, executed>>

Return(c) == told[c] # "nothing" /\ HangUp(c) /\ UNCHANGED count

\* The report of a call that timed out takes a number too.
TimeOut(c) ==
  /\ told[c] = "nothing" /\ HangUp(c)
  /\ count' = [count EXCEPT ![c[1]] = @ + 1]

-----------------------------------------------------------------------------
Next ==
  \/ \E i \in pending' : Notify(i) \/ \E c \in Callers : Call(c, i)
  \/ \E i \in pending : Execute(i) \/ Refuse(i) \/ \E c \in Callers : Mistake(c, i)
  \/ \E i \in Done : Confirm(i)
  \/ \E c \in Callers :
       /\ IsCalling(c)
       /\ \/ \E what \in {"done", "refused", "other"} : Tell(c, what)
          \/ Return(c) \/ TimeOut(c)

Spec == Init /\ [][Next]_vars
=============================================================================
