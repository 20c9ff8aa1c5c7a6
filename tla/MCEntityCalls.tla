---------------------------- MODULE MCEntityCalls ----------------------------
(* Three transactions: one makes the entity, one changes it or schedules a *)
(* change, one signs the schedule or clears what was set.  One of them is  *)
(* given an unusual option.                                                *)
EXTENDS EntityCalls

Changes(types, usual) ==
    UNION {{With(n, v) : v \in Values(types[n])} : n \in DOMAIN types}
    \cup {With(n, "undefined") : n \in DOMAIN usual}
OneOdd(types, usual) == {Over(c, usual) : c \in Changes(types, usual)}
=============================================================================
