------------------------------ MODULE MqttDelivery ------------------------------
(***************************************************************************)
(* What QoS 2 promises in one direction: a message that was handed over    *)
(* reaches the other side at most once, and the sender is told so only     *)
(* after it has.  Nothing is promised of a message that stays on its way.  *)
(***************************************************************************)
EXTENDS Integers

CONSTANT Ids

VARIABLES
  given,      \* the messages handed over for transmission
  count,      \* how often each one was passed on by the receiving side
  confirmed   \* the messages whose sender was told that they arrived

vars == <<given, count, confirmed>>

Init ==
  /\ given = {}
  /\ count = [i \in Ids |-> 0]
  /\ confirmed = {}

Give(i) ==
  /\ i \notin given
  /\ given' = given \union {i}
  /\ UNCHANGED <<count, confirmed>>

Deliver(i) ==
  /\ i \in given /\ count[i] = 0
  /\ count' = [count EXCEPT ![i] = 1]
  /\ UNCHANGED <<given, confirmed>>

Confirm(i) ==
  /\ count[i] = 1 /\ i \notin confirmed
  /\ confirmed' = confirmed \union {i}
  /\ UNCHANGED <<given, count>>

Next == \E i \in Ids : Give(i) \/ Deliver(i) \/ Confirm(i)

Spec == Init /\ [][Next]_vars

=============================================================================
