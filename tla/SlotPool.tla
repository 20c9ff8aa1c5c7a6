------------------------------ MODULE SlotPool ------------------------------
(***************************************************************************)
(* What RequestGate promises to the mirror client, without saying how: a   *)
(* pool of at most Capacity slots.  A client is outside, wants a slot,     *)
(* holds one, or is gone.  There is no counter and no queue here: the      *)
(* occupancy is the set of holders itself, and whoever is let in next is   *)
(* left open.  RequestGate, with its counter `active`, its waiter array    *)
(* and its handoff in release(), is shown to implement this module.        *)
(***************************************************************************)
EXTENDS Integers, FiniteSets

CONSTANTS Clients,    \* the callers of the pool
          Capacity    \* the number of slots

VARIABLE status       \* status[c]: where client c stands

vars == <<status>>

Status == {"out", "wanting", "in", "gone"}

In(s)      == {c \in Clients : s[c] = "in"}
Wanting(s) == {c \in Clients : s[c] = "wanting"}

Init == status = [c \in Clients |-> "out"]

(* A newcomer enters at once only when a slot is free and nobody wants it. *)
Enter(c) == /\ status[c] = "out"
            /\ Wanting(status) = {}
            /\ Cardinality(In(status)) < Capacity
            /\ status' = [status EXCEPT ![c] = "in"]

(* Otherwise it waits; it may be made to wait only when the pool is full.  *)
Want(c) == /\ status[c] = "out"
           /\ Cardinality(In(status)) = Capacity
           /\ status' = [status EXCEPT ![c] = "wanting"]

(* A leaving client frees its slot, or passes it on when somebody wants it.*)
Leave(c) == /\ status[c] = "in"
            /\ Wanting(status) = {}
            /\ status' = [status EXCEPT ![c] = "gone"]

Pass(c) == /\ status[c] = "in"
           /\ \E d \in Wanting(status) :
                 status' = [status EXCEPT ![c] = "gone", ![d] = "in"]

Next == \E c \in Clients : Enter(c) \/ Want(c) \/ Leave(c) \/ Pass(c)

Spec == Init /\ [][Next]_vars
=============================================================================
