-------------------------- MODULE KeysetPaginator ---------------------------
(***************************************************************************)
(* packages/mirror/src/utils/KeysetPaginator.ts: bidirectional paging over *)
(* a listing of the mirror node, which only pages forward.  The paginator  *)
(* keeps a window of rows and rebuilds "previous" with an inverted query.  *)
(*                                                                         *)
(* The listing lives on the node and may change between any two queries,   *)
(* also while a call waits for its answer.  Calls are awaited one after    *)
(* the other, as the class requires.  A row is its key.                    *)
(*                                                                         *)
(* External: the `load` adapter and the node behind it (Load), modelled as *)
(* KeysetLoad specifies them; a query may also fail.                       *)
(***************************************************************************)
EXTENDS Integers, Sequences, FiniteSets, SequencesExt

CONSTANTS Keys,          \* the sort keys a row may have
          MaxLimit,      \* bound on the page size
          MaxChanges     \* bound on the changes of the listing

ASSUME PaginatorAssumption == /\ Keys \subseteq Nat /\ IsFiniteSet(Keys)
                              /\ MaxLimit \in Nat \ {0}
                              /\ MaxChanges \in Nat

NoKey == 0 - 1
Orders == {"asc", "desc"}
Operators == {"gt", "gte", "lt", "lte"}

VARIABLES listing,    \* the keys on the node
          changes,    \* how often it changed
          order, limit,                                \* of the paginator
          window, started, atStart, atEnd, headKey,    \* its state
          pending,    \* the awaited load: its caller, bound and order
          stable      \* history: the listing is as first() last found it

cursor == <<window, started, atStart, atEnd, headKey>>
vars   == <<listing, changes, order, limit, cursor, pending, stable>>

Idle == [op |-> "none", key |-> NoKey, operator |-> "gt", order |-> "asc"]

Init == /\ listing \in SUBSET Keys
        /\ changes = 0
        /\ order \in Orders
        /\ limit \in 1..MaxLimit
        /\ window = <<>> /\ started = FALSE /\ atStart = TRUE /\ atEnd = FALSE
        /\ headKey = NoKey
        /\ pending = Idle
        /\ stable = FALSE

hasPrevious == started /\ ~atStart
hasNext     == ~started \/ ~atEnd

-----------------------------------------------------------------------------
(* a is listed ahead of b.                                                 *)
Ahead(ord, a, b) == IF ord = "desc" THEN a > b ELSE a < b

Inverted(ord) == IF ord = "desc" THEN "asc" ELSE "desc"

Satisfies(k, operator, key) == CASE operator = "gt"  -> k > key
                                 [] operator = "gte" -> k >= key
                                 [] operator = "lt"  -> k < key
                                 [] operator = "lte" -> k <= key

Within(query) == {k \in listing : \/ query.key = NoKey
                                  \/ Satisfies(k, query.operator, query.key)}

Pages == BoundedSeq(Keys, MaxLimit)

(* load(bound, order, limit): at most limit rows within the bound, sorted, *)
(* and a row that is left out only comes after a full page.  For every     *)
(* query there is exactly one such page.                                   *)
Load(query) ==
    {rows \in Pages :
        /\ Len(rows) <= limit
        /\ \A i \in 1..Len(rows) : rows[i] \in Within(query)
        /\ \A i, j \in 1..Len(rows) : i < j => Ahead(query.order, rows[i], rows[j])
        /\ \A k \in Within(query) :
              \/ \E i \in 1..Len(rows) : rows[i] = k
              \/ Len(rows) = limit /\ Ahead(query.order, Last(rows), k)}

(* Faulty: the last row shown is shown again.                              *)
ForwardInclusive == IF order = "desc" THEN "lte" ELSE "gte"

ForwardOperator  == IF order = "desc" THEN "lt" ELSE "gt"
BackwardOperator == IF order = "desc" THEN "gt" ELSE "lt"

(* Faulty: the rows of the inverted query are shown as they came.          *)
AsFetched(rows) == rows

Displayed(rows) == Reverse(rows)

(* Faulty: page one is recognised by a short fetch alone.                  *)
ShortFetch(rows) == Len(rows) < limit

BackAtStart(rows) == \/ headKey # NoKey /\ Displayed(rows)[1] = headKey
                     \/ Len(rows) < limit

-----------------------------------------------------------------------------
Ask(op, key, operator, ord) ==
    /\ pending.op = "none"
    /\ pending' = [op |-> op, key |-> key, operator |-> operator, order |-> ord]

(* The part of each call up to its load.  next() before anything is loaded *)
(* is first(); next() on an empty window, and previous() at the start, are *)
(* answered without a query.                                               *)
CallFirst == /\ Ask("first", NoKey, "gt", order)
             /\ UNCHANGED <<listing, changes, order, limit, cursor, stable>>

CallNext ==
    /\ \/ /\ ~started
          /\ Ask("first", NoKey, "gt", order)
          /\ UNCHANGED atEnd
       \/ /\ started /\ window = <<>> /\ pending.op = "none"
          /\ atEnd' = TRUE
          /\ UNCHANGED pending
       \/ /\ started /\ window # <<>>
          /\ Ask("next", Last(window), ForwardOperator, order)
          /\ UNCHANGED atEnd
    /\ UNCHANGED <<listing, changes, order, limit, window, started, atStart, headKey, stable>>

CallPrevious == /\ hasPrevious /\ window # <<>>
                /\ Ask("previous", window[1], BackwardOperator, Inverted(order))
                /\ UNCHANGED <<listing, changes, order, limit, cursor, stable>>

(* The part after the load.                                                *)
Answered(op) == /\ pending.op = op
                /\ pending' = Idle
                /\ UNCHANGED <<listing, changes, order, limit>>

AnswerFirst ==
    /\ Answered("first")
    /\ \E rows \in Load(pending) :
          /\ window' = rows
          /\ atEnd' = (Len(rows) < limit)
          /\ headKey' = IF rows = <<>> THEN NoKey ELSE rows[1]
    /\ started' = TRUE /\ atStart' = TRUE
    /\ stable' = TRUE

(* Faulty: the page is appended to what is shown.                          *)
AnswerNextAppending ==
    /\ Answered("next")
    /\ \E rows \in Load(pending) :
          \/ /\ rows = <<>>
             /\ atEnd' = TRUE /\ UNCHANGED <<window, atStart>>
          \/ /\ rows # <<>>
             /\ window' = window \o rows
             /\ atStart' = FALSE
             /\ atEnd' = (Len(rows) < limit)
    /\ UNCHANGED <<started, headKey, stable>>

AnswerNext ==
    /\ Answered("next")
    /\ \E rows \in Load(pending) :
          \/ /\ rows = <<>>
             /\ atEnd' = TRUE /\ UNCHANGED <<window, atStart>>
          \/ /\ rows # <<>>
             /\ window' = rows
             /\ atStart' = FALSE
             /\ atEnd' = (Len(rows) < limit)
    /\ UNCHANGED <<started, headKey, stable>>

(* Faulty: atEnd survives the step back.                                   *)
AnswerPreviousKeepingEnd ==
    /\ Answered("previous")
    /\ \E rows \in Load(pending) :
          \/ rows = <<>> /\ atStart' = TRUE /\ UNCHANGED window
          \/ rows # <<>> /\ window' = Displayed(rows) /\ atStart' = BackAtStart(rows)
    /\ UNCHANGED <<started, atEnd, headKey, stable>>

AnswerPrevious ==
    /\ Answered("previous")
    /\ \E rows \in Load(pending) :
          \/ /\ rows = <<>>
             /\ atStart' = TRUE /\ UNCHANGED <<window, atEnd>>
          \/ /\ rows # <<>>
             /\ window' = Displayed(rows)
             /\ atEnd' = FALSE
             /\ atStart' = BackAtStart(rows)
    /\ UNCHANGED <<started, headKey, stable>>

(* The query fails: the call rejects, the cursor stays where it was.       *)
LoadFails == /\ pending.op # "none"
             /\ pending' = Idle
             /\ UNCHANGED <<listing, changes, order, limit, cursor, stable>>

(* External: a row appears on the node or disappears from it.              *)
Change == /\ changes < MaxChanges
          /\ \E k \in Keys : listing' = IF k \in listing THEN listing \ {k} ELSE listing \cup {k}
          /\ changes' = changes + 1
          /\ stable' = FALSE
          /\ UNCHANGED <<order, limit, cursor, pending>>

Next == \/ CallFirst \/ CallNext \/ CallPrevious
        \/ AnswerFirst \/ AnswerNext \/ AnswerPrevious \/ LoadFails
        \/ Change

Spec == Init /\ [][Next]_vars

-----------------------------------------------------------------------------
TypeOK == /\ listing \subseteq Keys /\ changes \in 0..MaxChanges
          /\ order \in Orders /\ limit \in 1..MaxLimit
          /\ window \in Pages /\ Len(window) <= limit
          /\ {started, atStart, atEnd, stable} \subseteq BOOLEAN
          /\ headKey \in Keys \cup {NoKey}
          /\ pending \in [op : {"none", "first", "next", "previous"},
                          key : Keys \cup {NoKey}, operator : Operators, order : Orders]

Before(k) == {j \in listing : Ahead(order, j, k)}
After(k)  == {j \in listing : Ahead(order, k, j)}

(* hasPrevious is "exact for a stable listing".                            *)
HasPreviousExact ==
    stable /\ window # <<>> => (hasPrevious <=> Before(window[1]) # {})

(* hasNext is never wrongly false, and wrongly true only while a full page *)
(* happens to end the listing and nobody has looked past it.               *)
HasNextHonest ==
    stable /\ window # <<>> =>
        /\ ~hasNext => After(Last(window)) = {}
        /\ hasNext /\ After(Last(window)) = {} => Len(window) = limit

(* Both flags together: what a pager's buttons may be enabled by.          *)
FlagsHonest == HasPreviousExact /\ HasNextHonest

(* Over a stable listing every window is one of the pages a forward drain  *)
(* would show, whichever way it was reached: stepping back after stepping  *)
(* forward shows the same page again.                                      *)
PagesAligned ==
    stable /\ window # <<>> =>
        /\ Cardinality(Before(window[1])) % limit = 0
        /\ \A i \in 1..Len(window) :
              Cardinality(Before(window[i])) = Cardinality(Before(window[1])) + i - 1
        /\ Len(window) < limit => After(Last(window)) = {}

(* Across a page boundary no row is skipped and none is shown twice, even  *)
(* when the listing changes: what lies between the old and the new window  *)
(* at the moment of the query is nothing.                                  *)
PagesAdjoin ==
    [][window' # window /\ window # <<>> /\ window' # <<>> =>
          /\ pending.op = "next" =>
                /\ Ahead(order, Last(window), window'[1])
                /\ After(Last(window)) \cap Before(window'[1]) = {}
          /\ pending.op = "previous" =>
                /\ Ahead(order, Last(window'), window[1])
                /\ After(Last(window')) \cap Before(window[1]) = {}]_vars
=============================================================================
