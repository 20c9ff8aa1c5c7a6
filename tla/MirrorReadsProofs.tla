--------------------------- MODULE MirrorReadsProofs ---------------------------
(***************************************************************************)
(* Theorems about the reads of MirrorReads, for a listing of any length,   *)
(* pages of any size and any caps: WalkExact, while rows come and go at    *)
(* the node between two requests, and TypeOK, FiltersSent and              *)
(* AnswersFaithful, for every endpoint.                                    *)
(*                                                                         *)
(* WalkInv is the inductive invariant.  WalkExact alone is not inductive:  *)
(* that the next page continues where the last one ended needs the cursor  *)
(* (next, and the one in the request under way) to be the last row that    *)
(* came, and that the end of the links means nothing steady was left out.  *)
(*                                                                         *)
(* FiltersSent holds of a request that was built of what an endpoint hears *)
(* and is inductive given WalkInv.  What an endpoint hears is shown of one *)
(* endpoint after the other: its options have parameters, and a parameter  *)
(* tells which option it stands for, so that no two options share one.     *)
(*                                                                         *)
(* AnswersFaithful follows from AnswerInv (the answer is the body, as      *)
(* converted) and from what is shown of every endpoint, Kept: its three    *)
(* tables fit (Fits: wire type, converter, public type), and what is       *)
(* asserted of a body holds of every one that conforms.  A table is a      *)
(* function on the paths of fields.  What suits a field is shown once for  *)
(* each converter and sort of literals (Suits); a table without objects    *)
(* fits field by field (FitsFlat), any other when the table beneath each   *)
(* of its objects and lists does (FitsNested).                             *)
(***************************************************************************)
EXTENDS MirrorReads, FiniteSetTheorems, SequenceTheorems, TLAPS

(* The state of the walk, typed.                                           *)
WalkTypes ==
    /\ stage \in {"asked", "sent", "page", "settled"}
    /\ listing \subseteq 1..Rows /\ steady \subseteq listing
    /\ out \in Seq(1..Rows) /\ pages \in Nat /\ next \in {End} \cup 0..Rows
    /\ stage # "asked" => call.maxItems \in Nat /\ call.maxPages \in Nat
    /\ request = [arguments |-> request.arguments, parts |-> request.parts,
                  cursor |-> request.cursor]

Ascending(s) == \A i, j \in DOMAIN s : i < j => s[i] < s[j]

(* No steady row was passed by: one that has not come lies ahead.          *)
NonePassed == \A r \in steady : r \in ToSet(out) \/ \A i \in DOMAIN out : out[i] < r

(* Where the walk stands between two requests.                             *)
Linked == IF next = End THEN steady \subseteq ToSet(out)
          ELSE out # <<>> /\ next = out[Len(out)]

WithinCaps == /\ Len(out) < call.maxItems + PageSize \/ pages = 1
              /\ pages <= call.maxPages \/ pages = 1

(* A request under way asks for the first page, or goes on from the last   *)
(* one because neither its links nor a cap ended the walk.                 *)
Requested == \/ pages = 0 /\ request.cursor = 0
             \/ pages > 0 /\ request.cursor = next /\ next # End /\ ~Capped

WalkInv ==
    /\ WalkTypes
    /\ Ascending(out)
    /\ NonePassed
    /\ pages = 0 => out = <<>>
    /\ stage = "asked" => pages = 0 /\ outcome = "none"
    /\ stage = "page" => pages > 0
    /\ stage \in {"sent", "page"} => outcome = "none"
    /\ pages > 0 => Linked /\ WithinCaps
    /\ stage = "sent" => Requested
    /\ outcome = "answered" /\ Endpoint.page =>
          stage = "settled" /\ pages > 0 /\ (call.use = "collectAll" => next = End \/ Capped)

-----------------------------------------------------------------------------
(* What a page is, and what appending it makes of the rows collected.      *)
LEMMA PageIsSequence ==
    ASSUME NEW cursor, NEW rows \in PageOf(cursor)
    PROVE  rows \in Seq(1..Rows) /\ Len(rows) <= PageSize /\ Len(rows) \in Nat
<1>1. PICK m \in 0..PageSize : rows \in [1..m -> 1..Rows]
  BY DEF PageOf, BoundedSeq, SeqOf
<1>2. m \in Nat /\ m <= PageSize BY RowsAssumption
<1>3. rows \in Seq(1..Rows) /\ Len(rows) = m
  <2>1. \A S : rows \in [1..m -> S] => rows \in Seq(S) /\ Len(rows) = m BY <1>2, SeqDef
  <2>2. QED BY <1>1, <2>1
<1>4. QED BY <1>2, <1>3

Appends(u, S, s, t) ==
    /\ u \in Seq(S) /\ Len(u) = Len(s) + Len(t)
    /\ \A i \in 1..Len(s) : u[i] = s[i]
    /\ \A i \in (Len(s) + 1)..(Len(s) + Len(t)) :
          u[i] = t[i - Len(s)] /\ i - Len(s) \in 1..Len(t)
    /\ \A i \in 1..Len(t) : i + Len(s) \in 1..(Len(s) + Len(t)) /\ u[i + Len(s)] = t[i]
    /\ ToSet(u) = ToSet(s) \cup ToSet(t)

LEMMA Appended ==
    ASSUME NEW S, NEW s \in Seq(S), NEW t \in Seq(S)
    PROVE  Appends(s \o t, S, s, t)
<1>0. Len(s) \in Nat /\ Len(t) \in Nat OBVIOUS
<1>1. /\ s \o t \in Seq(S) /\ Len(s \o t) = Len(s) + Len(t)
      /\ \A i \in 1..(Len(s) + Len(t)) : (s \o t)[i] = IF i <= Len(s) THEN s[i] ELSE t[i - Len(s)]
  BY ConcatProperties
<1> DEFINE u == s \o t
<1> HIDE DEF u
<1>2. /\ u \in Seq(S) /\ Len(u) = Len(s) + Len(t)
      /\ \A i \in 1..(Len(s) + Len(t)) : u[i] = IF i <= Len(s) THEN s[i] ELSE t[i - Len(s)]
  BY <1>1 DEF u
<1>3. \A i \in 1..Len(s) : u[i] = s[i] BY <1>0, <1>2
<1>4. \A i \in (Len(s) + 1)..(Len(s) + Len(t)) : u[i] = t[i - Len(s)] /\ i - Len(s) \in 1..Len(t)
  BY <1>0, <1>2
<1>5. \A i \in 1..Len(t) : i + Len(s) \in 1..(Len(s) + Len(t)) /\ u[i + Len(s)] = t[i]
  <2> TAKE i \in 1..Len(t)
  <2>1. i + Len(s) \in 1..(Len(s) + Len(t)) /\ ~(i + Len(s) <= Len(s))
        /\ (i + Len(s)) - Len(s) = i
    BY <1>0
  <2>2. QED BY <1>2, <2>1
<1>6. ToSet(u) = ToSet(s) \cup ToSet(t)
  <2>1. ASSUME NEW x \in ToSet(u) PROVE x \in ToSet(s) \cup ToSet(t)
    <3>1. PICK i \in 1..(Len(s) + Len(t)) : x = u[i] BY <1>2 DEF ToSet
    <3>2. CASE i \in 1..Len(s) BY <1>3, <3>1, <3>2 DEF ToSet
    <3>3. CASE i \in (Len(s) + 1)..(Len(s) + Len(t)) BY <1>4, <3>1, <3>3 DEF ToSet
    <3>4. QED BY <1>0, <3>2, <3>3
  <2>2. ASSUME NEW x \in ToSet(s) PROVE x \in ToSet(u)
    <3>1. PICK i \in 1..Len(s) : x = s[i] BY DEF ToSet
    <3>2. i \in 1..(Len(s) + Len(t)) BY <1>0
    <3>3. DOMAIN u = 1..(Len(s) + Len(t)) /\ u[i] = x BY <1>0, <1>2, <1>3, <3>1
    <3>4. QED BY <3>2, <3>3 DEF ToSet
  <2>3. ASSUME NEW x \in ToSet(t) PROVE x \in ToSet(u)
    <3>1. PICK i \in 1..Len(t) : x = t[i] BY DEF ToSet
    <3>2. i + Len(s) \in 1..(Len(s) + Len(t)) /\ x = u[i + Len(s)] BY <1>5, <3>1
    <3>3. DOMAIN u = 1..(Len(s) + Len(t)) BY <1>0, <1>2
    <3>4. QED BY <3>2, <3>3 DEF ToSet
  <2>4. QED BY <2>1, <2>2, <2>3
<1>7. QED BY <1>2, <1>3, <1>4, <1>5, <1>6 DEF u, Appends

(* The step that matters: a page of what lies after the last row continues *)
(* the walk, whatever the listing holds by then.                           *)
LEMMA PageContinues ==
    ASSUME WalkInv, stage = "sent", NEW rows \in PageOf(request.cursor),
           NEW all, all = out \o rows
    PROVE  /\ all \in Seq(1..Rows) /\ Len(all) = Len(out) + Len(rows)
           /\ Ascending(all)
           /\ \A r \in steady : r \in ToSet(all) \/ \A i \in DOMAIN all : all[i] < r
           /\ LinkOf(rows) \in {End} \cup 0..Rows
           /\ IF LinkOf(rows) = End THEN steady \subseteq ToSet(all)
              ELSE all # <<>> /\ LinkOf(rows) = all[Len(all)]
<1> DEFINE k == request.cursor
<1>0. /\ out \in Seq(1..Rows) /\ Len(out) \in Nat /\ DOMAIN out = 1..Len(out)
      /\ rows \in Seq(1..Rows) /\ Len(rows) \in Nat /\ DOMAIN rows = 1..Len(rows)
      /\ Len(rows) <= PageSize /\ PageSize \in Nat /\ PageSize > 0
      /\ listing \subseteq 1..Rows /\ steady \subseteq listing /\ Rows \in Nat
  BY PageIsSequence, RowsAssumption DEF WalkInv, WalkTypes
<1>1. /\ \A i, j \in 1..Len(rows) : i < j => rows[i] < rows[j]
      /\ \A i \in 1..Len(rows) : rows[i] \in 1..Rows /\ rows[i] > k
      /\ \A r \in listing : r > k =>
            r \in ToSet(rows) \/ (Len(rows) = PageSize /\ \A i \in 1..Len(rows) : rows[i] < r)
  BY <1>0 DEF PageOf
<1>2. /\ k \in 0..Rows
      /\ \A i \in 1..Len(out) : out[i] \in 1..Rows /\ out[i] <= k
      /\ \A r \in 1..Rows : (\A i \in 1..Len(out) : out[i] < r) => r > k
  <2>1. CASE pages = 0
    <3>1. out = <<>> /\ k = 0 BY <2>1 DEF WalkInv, Requested
    <3>2. QED BY <1>0, <3>1
  <2>2. CASE pages # 0
    <3>1. pages > 0 /\ k = next /\ next # End BY <2>2 DEF WalkInv, Requested
    <3>2. out # <<>> /\ k = out[Len(out)] BY <3>1 DEF WalkInv, Linked
    <3>3. Len(out) \in 1..Len(out) BY <1>0, <3>2
    <3>4. \A i \in 1..Len(out) : i < Len(out) => out[i] < out[Len(out)]
      BY <1>0, <3>3 DEF WalkInv, Ascending
    <3>6. \A i \in 1..Len(out) : out[i] \in 1..Rows BY <1>0
    <3>7. ASSUME NEW i \in 1..Len(out) PROVE out[i] <= k
      <4>1. CASE i = Len(out) BY <3>2, <3>3, <3>6, <4>1
      <4>2. CASE i < Len(out) BY <3>2, <3>3, <3>4, <3>6, <4>2
      <4>3. \A n \in Nat : i \in 1..n => i = n \/ i < n OBVIOUS
      <4>4. i = Len(out) \/ i < Len(out) BY <1>0, <4>3
      <4>5. QED BY <4>1, <4>2, <4>4
    <3>8. QED BY <3>2, <3>3, <3>6, <3>7
  <2>3. QED BY <2>1, <2>2
<1> HIDE DEF k
<1>3. /\ all \in Seq(1..Rows) /\ Len(all) = Len(out) + Len(rows)
      /\ \A i \in 1..Len(out) : all[i] = out[i]
      /\ \A i \in (Len(out) + 1)..(Len(out) + Len(rows)) :
            all[i] = rows[i - Len(out)] /\ i - Len(out) \in 1..Len(rows)
      /\ \A i \in 1..Len(rows) :
            i + Len(out) \in 1..(Len(out) + Len(rows)) /\ all[i + Len(out)] = rows[i]
      /\ ToSet(all) = ToSet(out) \cup ToSet(rows)
  <2>1. Appends(all, 1..Rows, out, rows) BY <1>0, Appended
  <2>2. QED BY <2>1 DEF Appends
<1>4. DOMAIN all = 1..(Len(out) + Len(rows)) BY <1>3
<1>5. Ascending(all)
  <2> SUFFICES ASSUME NEW i \in 1..(Len(out) + Len(rows)), NEW j \in 1..(Len(out) + Len(rows)), i < j
               PROVE  all[i] < all[j]
    BY <1>4 DEF Ascending
  <2>1. CASE j <= Len(out)
    <3>1. i \in 1..Len(out) /\ j \in 1..Len(out) BY <1>0, <2>1
    <3>2. out[i] < out[j] BY <1>0, <3>1 DEF WalkInv, Ascending
    <3>3. QED BY <1>3, <3>1, <3>2
  <2>2. CASE i <= Len(out) /\ ~(j <= Len(out))
    <3>1. i \in 1..Len(out) /\ j \in (Len(out) + 1)..(Len(out) + Len(rows)) BY <1>0, <2>2
    <3>2. all[i] = out[i] /\ all[j] = rows[j - Len(out)] /\ j - Len(out) \in 1..Len(rows)
      BY <1>3, <3>1
    <3>3. /\ out[i] \in Int /\ out[i] <= k BY <1>0, <1>2, <3>1
    <3>4. /\ rows[j - Len(out)] \in Int /\ rows[j - Len(out)] > k BY <1>1, <3>2
    <3>5. k \in Int BY <1>0, <1>2
    <3>6. \A x, y, z \in Int : x <= y /\ z > y => x < z OBVIOUS
    <3>7. QED BY <3>2, <3>3, <3>4, <3>5, <3>6
  <2>3. CASE ~(i <= Len(out))
    <3>1. i \in (Len(out) + 1)..(Len(out) + Len(rows)) /\ j \in (Len(out) + 1)..(Len(out) + Len(rows))
      BY <1>0, <2>3
    <3>2. /\ all[i] = rows[i - Len(out)] /\ i - Len(out) \in 1..Len(rows)
          /\ all[j] = rows[j - Len(out)] /\ j - Len(out) \in 1..Len(rows)
      BY <1>3, <3>1
    <3>3. i - Len(out) < j - Len(out) BY <1>0
    <3>4. QED BY <1>1, <3>2, <3>3
  <2>4. QED BY <1>0, <2>1, <2>2, <2>3
<1>6. \A r \in steady : \/ r \in ToSet(all)
                        \/ Len(rows) = PageSize /\ \A i \in DOMAIN all : all[i] < r
  <2> TAKE r \in steady
  <2>1. CASE r \in ToSet(out) BY <1>3, <2>1
  <2>2. CASE r \notin ToSet(out)
    <3>1. \A i \in 1..Len(out) : out[i] < r BY <1>0, <2>2 DEF WalkInv, NonePassed
    <3>2. r \in listing /\ r \in 1..Rows BY <1>0
    <3>3. r > k BY <1>2, <3>1, <3>2
    <3>4. r \in ToSet(rows) \/ (Len(rows) = PageSize /\ \A i \in 1..Len(rows) : rows[i] < r)
      BY <1>1, <3>2, <3>3
    <3>5. CASE r \in ToSet(rows) BY <1>3, <3>5
    <3>6. CASE Len(rows) = PageSize /\ \A i \in 1..Len(rows) : rows[i] < r
      <4>1. ASSUME NEW i \in DOMAIN all PROVE all[i] < r
        <5>1. CASE i \in 1..Len(out) BY <1>3, <3>1, <5>1
        <5>2. CASE i \in (Len(out) + 1)..(Len(out) + Len(rows)) BY <1>3, <3>6, <5>2
        <5>3. QED BY <1>0, <1>4, <5>1, <5>2
      <4>2. QED BY <3>6, <4>1
    <3>7. QED BY <3>4, <3>5, <3>6
  <2>3. QED BY <2>1, <2>2
<1>7. CASE Len(rows) = PageSize
  <2>1. Len(rows) \in 1..Len(rows) BY <1>0, <1>7
  <2>2. LinkOf(rows) = rows[Len(rows)] BY <1>7 DEF LinkOf
  <2>3. rows[Len(rows)] \in 1..Rows /\ rows[Len(rows)] = all[Len(rows) + Len(out)]
    BY <1>1, <1>3, <2>1
  <2>4. LinkOf(rows) # End /\ LinkOf(rows) \in 0..Rows
    <3>1. \A n \in 1..Rows : n # -1 /\ n \in 0..Rows BY <1>0
    <3>2. QED BY <2>2, <2>3, <3>1 DEF End
  <2>5. Len(all) = Len(rows) + Len(out) /\ Len(all) > 0 BY <1>0, <1>3, <1>7
  <2>6. all # <<>> BY <2>5
  <2>7. QED BY <1>3, <1>5, <1>6, <2>2, <2>3, <2>4, <2>5, <2>6
<1>8. CASE Len(rows) # PageSize
  <2>1. LinkOf(rows) = End BY <1>8 DEF LinkOf
  <2>2. steady \subseteq ToSet(all) BY <1>6, <1>8
  <2>3. QED BY <1>3, <1>5, <1>6, <2>1, <2>2
<1>9. QED BY <1>7, <1>8

-----------------------------------------------------------------------------
LEMMA InitWalk == Init => WalkInv
<1> SUFFICES ASSUME Init PROVE WalkInv OBVIOUS
<1>1. WalkTypes BY RowsAssumption DEF Init, WalkTypes, NoRequest
<1>2. Ascending(out) /\ NonePassed BY DEF Init, Ascending, NonePassed
<1>3. QED BY <1>1, <1>2 DEF Init, WalkInv

(* A read that is sent has a first request, at the start of the listing.   *)
LEMMA AskKeepsWalk ==
    ASSUME WalkInv, NEW repository, NEW method, Ask(repository, method)
    PROVE  WalkInv'
<1>0. stage = "asked" /\ pages = 0 /\ outcome = "none" /\ out = <<>>
      /\ UNCHANGED <<listing, steady, out, pages, next>>
  BY DEF Ask, WalkInv
<1>1. call'.maxItems \in Nat /\ call'.maxPages \in Nat
  <2> DEFINE endpoint == createMirrorRepositories[repository][method]
  <2>1. PICK options \in Queries(endpoint.query), arguments \in ArgumentLists(endpoint.path),
             use \in Uses(endpoint) : \E maxItems, maxPages \in CapsOf(use, options) :
           call' = [repository |-> repository, method |-> method, options |-> options,
                    arguments |-> arguments, use |-> use, maxItems |-> maxItems,
                    maxPages |-> maxPages]
    BY SMT DEF Ask
  <2>2. CapsOf(use, options) \subseteq Nat BY RowsAssumption DEF CapsOf, Caps
  <2>3. QED BY <2>1, <2>2
<1>2. \/ stage' = "settled" /\ outcome' = "ConfigInvalid" /\ request' = request
      \/ /\ stage' = "sent" /\ outcome' = "none" /\ request'.cursor = 0
         /\ request' = [arguments |-> request'.arguments, parts |-> request'.parts,
                        cursor |-> request'.cursor]
  <2> DEFINE endpoint == createMirrorRepositories[repository][method]
  <2>1. PICK arguments, options :
           IF Refuses(method, arguments)
           THEN /\ stage' = "settled" /\ outcome' = "ConfigInvalid" /\ UNCHANGED request
           ELSE /\ request' = [arguments |-> [i \in DOMAIN arguments |->
                                                 PathSegment(endpoint.path[i], arguments[i])],
                               parts |-> appendQuery(endpoint.keys, Given(endpoint, options)),
                               cursor |-> 0]
                /\ stage' = "sent" /\ UNCHANGED outcome
    BY Zenon DEF Ask
  <2>2. QED BY <1>0, <2>1
<1>3. WalkTypes' BY <1>0, <1>1, <1>2 DEF WalkInv, WalkTypes
<1>4. Ascending(out)' /\ NonePassed' BY <1>0 DEF WalkInv, Ascending, NonePassed
<1>5. stage' = "sent" => Requested' BY <1>0, <1>2 DEF Requested
<1>6. stage' \in {"sent", "settled"} /\ outcome' \in {"none", "ConfigInvalid"}
      /\ (stage' = "sent" => outcome' = "none")
  BY <1>2
<1>7. QED BY <1>0, <1>3, <1>4, <1>5, <1>6 DEF WalkInv

(* A read that settles keeps what it collected.                            *)
LEMMA SettlingKeepsWalk ==
    ASSUME WalkInv, stage # "asked", stage' = "settled",
           UNCHANGED <<call, request, listing, steady, out, pages, next>>,
           outcome' = "answered" /\ Endpoint.page =>
              pages > 0 /\ (call.use = "collectAll" => next = End \/ Capped)
    PROVE  WalkInv'
<1>1. WalkTypes' BY DEF WalkInv, WalkTypes
<1>2. Ascending(out)' /\ NonePassed' BY DEF WalkInv, Ascending, NonePassed
<1>3. pages' > 0 => Linked' /\ WithinCaps' BY DEF WalkInv, Linked, WithinCaps
<1>4. Endpoint' = Endpoint BY DEF Endpoint
<1>5. Capped' = Capped BY DEF Capped
<1>6. QED BY <1>1, <1>2, <1>3, <1>4, <1>5 DEF WalkInv

LEMMA EndingKeepsWalk ==
    ASSUME WalkInv, stage # "asked",
           Fails \/ NoRows \/ Stops \/ \E field : LookedUp(Endpoint, field)
    PROVE  WalkInv'
<1>1. CASE Fails
  <2>1. PICK code \in {"NotFound", "MirrorNodeHttpError", "TimedOut"} : outcome' = orNull(code)
    BY <1>1 DEF Fails, Settle
  <2>2. outcome' # "answered" BY <2>1 DEF orNull
  <2>3. QED BY <1>1, <2>2, SettlingKeepsWalk DEF Fails, Settle
<1>2. CASE NoRows BY <1>2, SettlingKeepsWalk DEF NoRows, Settle
<1>3. CASE Stops
  <2>1. pages > 0 BY <1>3 DEF WalkInv, Stops
  <2>2. call.use = "collectAll" => next = End \/ Capped BY <1>3 DEF Stops, Follows
  <2>3. QED BY <1>3, <2>1, <2>2, SettlingKeepsWalk DEF Stops, Settle
<1>4. CASE \E field : LookedUp(Endpoint, field)
  <2>1. PICK field : LookedUp(Endpoint, field) BY <1>4
  <2>2. /\ stage' = "settled" /\ ~Endpoint.page
        /\ UNCHANGED <<call, request, listing, steady, out, pages, next>>
    BY <2>1 DEF LookedUp, Settle
  <2>3. QED BY <2>2, SettlingKeepsWalk
<1>5. QED BY <1>1, <1>2, <1>3, <1>4

(* The next request carries the cursor that the last page linked to.       *)
LEMMA FollowKeepsWalk ==
    ASSUME WalkInv, FollowNext
    PROVE  WalkInv'
<1>1. /\ UNCHANGED <<call, listing, steady, out, pages, next, outcome>>
      /\ stage = "page" /\ stage' = "sent" /\ next # End /\ ~Capped
      /\ request' = [request EXCEPT !.cursor = next]
  BY DEF FollowNext, Follows, Send
<1>2. /\ request' = [arguments |-> request'.arguments, parts |-> request'.parts,
                     cursor |-> request'.cursor]
      /\ request'.cursor = next
  <2>1. request = [arguments |-> request.arguments, parts |-> request.parts,
                   cursor |-> request.cursor]
    BY DEF WalkInv, WalkTypes
  <2>2. QED BY <1>1, <2>1
<1>3. WalkTypes' BY <1>1, <1>2 DEF WalkInv, WalkTypes
<1>4. Ascending(out)' /\ NonePassed' BY <1>1 DEF WalkInv, Ascending, NonePassed
<1>5. pages' > 0 /\ outcome' = "none" BY <1>1 DEF WalkInv
<1>6. Linked' /\ WithinCaps' BY <1>1, <1>5 DEF WalkInv, Linked, WithinCaps
<1>7. ~Capped' BY <1>1 DEF Capped
<1>8. Requested' BY <1>1, <1>2, <1>5, <1>7 DEF Requested
<1>9. pages' = 0 => out' = <<>> BY <1>1 DEF WalkInv
<1>10. QED BY <1>1, <1>3, <1>4, <1>5, <1>6, <1>8, <1>9 DEF WalkInv

(* Rows come and go: what left is steady no more, what came back neither.  *)
LEMMA ChangeKeepsWalk ==
    ASSUME WalkInv, Change
    PROVE  WalkInv'
<1>1. /\ UNCHANGED <<call, stage, request, out, pages, next, outcome>>
      /\ listing' \subseteq 1..Rows /\ steady' \subseteq listing' /\ steady' \subseteq steady
  BY DEF WalkInv, WalkTypes, Change
<1>2. WalkTypes' BY <1>1 DEF WalkInv, WalkTypes
<1>3. Ascending(out)' /\ NonePassed' BY <1>1 DEF WalkInv, Ascending, NonePassed
<1>4. pages' > 0 => Linked' /\ WithinCaps' BY <1>1 DEF WalkInv, Linked, WithinCaps
<1>5. Endpoint' = Endpoint /\ Capped' = Capped BY <1>1 DEF Endpoint, Capped
<1>6. stage' = "sent" => Requested' BY <1>1, <1>5 DEF WalkInv, Requested
<1>7. QED BY <1>1, <1>2, <1>3, <1>4, <1>5, <1>6 DEF WalkInv

LEMMA PageKeepsWalk ==
    ASSUME WalkInv, NEW field, getPage(Endpoint, field)
    PROVE  WalkInv'
<1>1. PICK rows \in PageOf(request.cursor) :
         \/ /\ stage' = "settled" /\ outcome' = "SchemaMismatch"
            /\ UNCHANGED <<out, pages, next>>
         \/ /\ out' = out \o rows /\ pages' = pages + 1 /\ next' = LinkOf(rows)
            /\ stage' = "page" /\ UNCHANGED outcome
  BY DEF getPage, Settle
<1>2. stage = "sent" /\ UNCHANGED <<call, request, listing, steady>> BY DEF getPage
<1>3. CASE stage' = "settled" BY <1>1, <1>2, <1>3, SettlingKeepsWalk
<1>4. CASE stage' # "settled"
  <2>1. /\ out' = out \o rows /\ pages' = pages + 1 /\ next' = LinkOf(rows)
        /\ stage' = "page" /\ UNCHANGED outcome
    BY <1>1, <1>4
  <2>2. /\ out' \in Seq(1..Rows) /\ Len(out') = Len(out) + Len(rows)
        /\ Ascending(out')
        /\ \A r \in steady : r \in ToSet(out') \/ \A i \in DOMAIN out' : out'[i] < r
        /\ next' \in {End} \cup 0..Rows
        /\ IF next' = End THEN steady \subseteq ToSet(out')
           ELSE out' # <<>> /\ next' = out'[Len(out')]
    <3>1. \A all : all = out \o rows =>
            /\ all \in Seq(1..Rows) /\ Len(all) = Len(out) + Len(rows)
            /\ Ascending(all)
            /\ \A r \in steady : r \in ToSet(all) \/ \A i \in DOMAIN all : all[i] < r
            /\ LinkOf(rows) \in {End} \cup 0..Rows
            /\ IF LinkOf(rows) = End THEN steady \subseteq ToSet(all)
               ELSE all # <<>> /\ LinkOf(rows) = all[Len(all)]
      BY <1>2, PageContinues
    <3>2. QED BY <2>1, <3>1
  <2>3. pages \in Nat /\ pages' \in Nat /\ pages' > 0 BY <2>1 DEF WalkInv, WalkTypes
  <2>4. WalkTypes' BY <1>2, <2>1, <2>2, <2>3 DEF WalkInv, WalkTypes
  <2>5. Ascending(out)' BY <2>2 DEF Ascending
  <2>6. NonePassed' BY <1>2, <2>2 DEF NonePassed
  <2>7. Linked' BY <1>2, <2>2 DEF Linked
  <2>8. WithinCaps'
    <3>1. CASE pages = 0 BY <2>1, <3>1 DEF WithinCaps
    <3>2. CASE pages # 0
      <4>1. ~Capped BY <1>2, <3>2 DEF WalkInv, Requested
      <4>2. /\ Len(out) \in Nat /\ Len(rows) \in Nat /\ Len(rows) <= PageSize /\ PageSize \in Nat
            /\ call.maxItems \in Nat /\ call.maxPages \in Nat
        BY <1>2, PageIsSequence, RowsAssumption DEF WalkInv, WalkTypes
      <4>3. Len(out) < call.maxItems /\ pages < call.maxPages BY <2>3, <4>1, <4>2 DEF Capped
      <4>4. Len(out') < call.maxItems + PageSize BY <2>2, <4>2, <4>3
      <4>5. pages' <= call.maxPages BY <2>1, <2>3, <4>2, <4>3
      <4>6. QED BY <1>2, <4>4, <4>5 DEF WithinCaps
    <3>3. QED BY <3>1, <3>2
  <2>9. outcome' = "none" BY <1>2, <2>1 DEF WalkInv
  <2>10. QED BY <2>1, <2>3, <2>4, <2>5, <2>6, <2>7, <2>8, <2>9 DEF WalkInv
<1>5. QED BY <1>3, <1>4

LEMMA NextKeepsWalk == WalkInv /\ [Next]_vars => WalkInv'
<1> SUFFICES ASSUME WalkInv, [Next]_vars PROVE WalkInv' OBVIOUS
<1>1. CASE UNCHANGED vars
  <2>1. UNCHANGED <<call, stage, request, listing, steady, out, pages, next, outcome>>
    BY <1>1 DEF vars
  <2>2. WalkTypes' BY <2>1 DEF WalkInv, WalkTypes
  <2>3. Ascending(out)' /\ NonePassed' BY <2>1 DEF WalkInv, Ascending, NonePassed
  <2>4. pages' > 0 => Linked' /\ WithinCaps' BY <2>1 DEF WalkInv, Linked, WithinCaps
  <2>5. Endpoint' = Endpoint /\ Capped' = Capped BY <2>1 DEF Endpoint, Capped
  <2>6. stage' = "sent" => Requested' BY <2>1, <2>5 DEF WalkInv, Requested
  <2>7. QED BY <2>1, <2>2, <2>3, <2>4, <2>5, <2>6 DEF WalkInv
<1>2. ASSUME NEW repository, NEW method, Ask(repository, method) PROVE WalkInv'
  BY <1>2, AskKeepsWalk
<1>3. ASSUME stage # "asked", Fails \/ NoRows \/ Stops \/ \E field : LookedUp(Endpoint, field)
      PROVE  WalkInv'
  BY <1>3, EndingKeepsWalk
<1>4. ASSUME NEW field, getPage(Endpoint, field) PROVE WalkInv' BY <1>4, PageKeepsWalk
<1>5. CASE FollowNext \/ Change BY <1>5, FollowKeepsWalk, ChangeKeepsWalk
<1>6. QED BY <1>1, <1>2, <1>3, <1>4, <1>5 DEF Next

-----------------------------------------------------------------------------
(* Pagination: the walk stands where its cursor says, after every step.    *)
THEOREM ReadsWalkInvariant == Spec => []WalkInv
BY InitWalk, NextKeepsWalk, PTL DEF Spec

(* collectAll and paginate: a listing of any length is walked exactly      *)
(* once, in order and within the caps, whatever comes and goes meanwhile.  *)
THEOREM ReadsWalkExact == Spec => []WalkExact
<1>1. WalkInv => WalkExact
  <2> SUFFICES ASSUME WalkInv PROVE WalkExact OBVIOUS
  <2>1. \A i, j \in DOMAIN out : i < j => out[i] < out[j] BY DEF WalkInv, Ascending
  <2>2. pages > 0 => /\ \A r \in steady : r \in ToSet(out) \/ \A i \in DOMAIN out : out[i] < r
                     /\ out # <<>> => Len(out) < call.maxItems + PageSize \/ pages = 1
                     /\ pages <= call.maxPages \/ pages = 1
    BY DEF WalkInv, NonePassed, WithinCaps
  <2>3. outcome = "answered" /\ Endpoint.page /\ call.use = "collectAll" =>
           \/ steady \subseteq ToSet(out)
           \/ Len(out) >= call.maxItems
           \/ pages >= call.maxPages
    BY DEF WalkInv, Linked, Capped
  <2>4. QED BY <2>1, <2>2, <2>3 DEF WalkExact
<1>2. QED BY <1>1, ReadsWalkInvariant, PTL
-----------------------------------------------------------------------------
(* What goes out with a request.                                           *)
(*                                                                         *)
(* Spreading one object over another, as far as the proofs need it: what   *)
(* has a value, and which one.                                             *)
LEMMA OverDomain ==
    ASSUME NEW f, NEW g, NEW n
    PROVE  n \in DOMAIN (f ++ g) <=> n \in DOMAIN f \/ n \in DOMAIN g
<1>1. f ++ g = Over(f, g) BY DEF ++
<1> QED BY <1>1 DEF Over

LEMMA OverAt ==
    ASSUME NEW f, NEW g, NEW n
    PROVE  (f ++ g)[n] = IF n \in DOMAIN f THEN f[n]
                         ELSE IF n \in DOMAIN g THEN g[n] ELSE (f ++ g)[n]
<1>1. f ++ g = Over(f, g) BY DEF ++
<1> QED BY <1>1 DEF Over

LEMMA OptionsDomain ==
    ASSUME NEW S, NEW v, NEW n
    PROVE  n \in DOMAIN Options(S, v) <=> n \in S
BY DEF Options

LEMMA PageQueryNames ==
    ASSUME NEW n
    PROVE  n \in DOMAIN PageQuery <=> n \in {"limit", "order"}
BY OverDomain, OptionsDomain DEF PageQuery

(* The parameter that an option goes by, and the option that a parameter   *)
(* stands for.  Two options are called account.balance on the wire, never  *)
(* at one endpoint: b is the one that is meant.                            *)
KeyName(o) == IF o \in DOMAIN KeyOf THEN KeyOf[o] ELSE o
Own == {"limit", "order", "timestamp", "name", "type", "owner", "mode",
        "result", "nonce", "scheduled", "key", "from", "internal", "slot", "index",
        "topic0", "topic1", "topic2", "topic3", "stack", "memory", "storage"}
Dotted == {"accountId", "tokenId", "spenderId", "senderId", "receiverId", "scheduleId", "nodeId",
           "fileId", "contractId", "hookId", "registeredNodeId", "serialNumber",
           "sequenceNumber", "includeBalance", "includeTransactions", "publicKey",
           "transactionType", "blockNumber", "blockHash", "transactionIndex", "transactionHash",
           "highVolumeThrottle"}
OptionOf(k, b) ==
    CASE k = "account.id" -> "accountId"
      [] k = "token.id" -> "tokenId"
      [] k = "spender.id" -> "spenderId"
      [] k = "sender.id" -> "senderId"
      [] k = "receiver.id" -> "receiverId"
      [] k = "schedule.id" -> "scheduleId"
      [] k = "node.id" -> "nodeId"
      [] k = "file.id" -> "fileId"
      [] k = "contract.id" -> "contractId"
      [] k = "hook.id" -> "hookId"
      [] k = "registerednode.id" -> "registeredNodeId"
      [] k = "serialnumber" -> "serialNumber"
      [] k = "sequencenumber" -> "sequenceNumber"
      [] k = "account.balance" -> b
      [] k = "balance" -> "includeBalance"
      [] k = "transactions" -> "includeTransactions"
      [] k \in {"account.publickey", "publickey"} -> "publicKey"
      [] k = "transactiontype" -> "transactionType"
      [] k = "block.number" -> "blockNumber"
      [] k = "block.hash" -> "blockHash"
      [] k = "transaction.index" -> "transactionIndex"
      [] k = "transaction.hash" -> "transactionHash"
      [] k = "high_volume_throttle" -> "highVolumeThrottle"
      [] OTHER -> k

LEMMA NameBack ==
    ASSUME NEW b, NEW o \in Own \cup Dotted
    PROVE  OptionOf(KeyName(o), b) = o
<1>1. CASE o \in Own
  <2>1. o \notin DOMAIN KeyOf BY <1>1 DEF KeyOf, Own
  <2>2. OptionOf(o, b) = o BY <1>1 DEF OptionOf, Own
  <2> QED BY <2>1, <2>2 DEF KeyName
<1>2. CASE o \in Dotted
  <2>1. o \in DOMAIN KeyOf BY <1>2 DEF KeyOf, Dotted
  <2>2. OptionOf(KeyOf[o], b) = o BY <1>2 DEF OptionOf, Dotted, KeyOf
  <2> QED BY <2>1, <2>2 DEF KeyName
<1> QED BY <1>1, <1>2

LEMMA BalanceBack ==
    ASSUME NEW o \in {"balance", "accountBalance"}
    PROVE  OptionOf(KeyName(o), o) = o
<1>1. KeyName(o) = "account.balance" BY DEF KeyName, KeyOf
<1> QED BY <1>1 DEF OptionOf

LEMMA KeysOf ==
    ASSUME NEW S, NEW o
    PROVE  (o \in DOMAIN Keys(S) <=> o \in S) /\ (o \in S => Keys(S)[o] = KeyName(o))
BY DEF Keys, KeyName

LEMMA PageKeysOf ==
    ASSUME NEW S, NEW o
    PROVE  /\ o \in DOMAIN PageKeys(S) <=> o \in S \cup {"limit", "order"}
           /\ o \in S \cup {"limit", "order"} => PageKeys(S)[o] = KeyName(o)
BY KeysOf DEF PageKeys

(* An endpoint hears an option when it sends it as a parameter and as none *)
(* that stands for another option.  It tells a method of all it is asked,  *)
(* but for the options that the query type itself excepts.                 *)
OptionsOf(e) == DOMAIN e.query \cup e.fixed
Heard(e, m, o, b) ==
    /\ <<m, o>> \in OneSided \/ o \in DOMAIN e.keys
    /\ o \in DOMAIN e.keys => OptionOf(e.keys[o], b) = o
Telling(e, m) == \E b : \A o \in OptionsOf(e) : Heard(e, m, o, b)

(* Every endpoint of MirrorNodeClient, each against its own query type.    *)
LEMMA queryAccountHears ==
    ASSUME NEW m, NEW o \in OptionsOf(queryAccount)
    PROVE  Heard(queryAccount, m, o, "balance")
BY OverDomain, OverAt, OptionsDomain, PageQueryNames, PageKeysOf, KeysOf, NameBack, BalanceBack
   DEF queryAccount, Lookup, AccountQuery, OptionsOf, Heard, Own, Dotted

LEMMA queryAccountBalanceHears ==
    ASSUME NEW m, NEW o \in OptionsOf(queryAccountBalance)
    PROVE  Heard(queryAccountBalance, m, o, "balance")
BY OverDomain, OverAt, OptionsDomain, PageQueryNames, PageKeysOf, KeysOf, NameBack, BalanceBack
   DEF queryAccountBalance, Lookup, AccountQuery, OptionsOf, Heard, Own, Dotted

LEMMA queryAccountTokensHears ==
    ASSUME NEW m, NEW o \in OptionsOf(queryAccountTokens)
    PROVE  Heard(queryAccountTokens, m, o, "balance")
BY OverDomain, OverAt, OptionsDomain, PageQueryNames, PageKeysOf, KeysOf, NameBack, BalanceBack
   DEF queryAccountTokens, Listing, AccountTokensQuery, OptionsOf, Heard, Own, Dotted

LEMMA queryAccountsHears ==
    ASSUME NEW m, NEW o \in OptionsOf(queryAccounts)
    PROVE  Heard(queryAccounts, m, o, "balance")
BY OverDomain, OverAt, OptionsDomain, PageQueryNames, PageKeysOf, KeysOf, NameBack, BalanceBack
   DEF queryAccounts, Listing, AccountListQuery, OptionsOf, Heard, Own, Dotted

LEMMA queryNftsByAccountHears ==
    ASSUME NEW m, NEW o \in OptionsOf(queryNftsByAccount)
    PROVE  Heard(queryNftsByAccount, m, o, "balance")
BY OverDomain, OverAt, OptionsDomain, PageQueryNames, PageKeysOf, KeysOf, NameBack, BalanceBack
   DEF queryNftsByAccount, Listing, AccountNftsQuery, OptionsOf, Heard, Own, Dotted

LEMMA queryNftsByTokenIdHears ==
    ASSUME NEW m, NEW o \in OptionsOf(queryNftsByTokenId)
    PROVE  Heard(queryNftsByTokenId, m, o, "balance")
BY OverDomain, OverAt, OptionsDomain, PageQueryNames, PageKeysOf, KeysOf, NameBack, BalanceBack
   DEF queryNftsByTokenId, Listing, TokenNftsQuery, OptionsOf, Heard, Own, Dotted

LEMMA queryNftsByTokenIdAndSerialHears ==
    ASSUME NEW m, NEW o \in OptionsOf(queryNftsByTokenIdAndSerial)
    PROVE  Heard(queryNftsByTokenIdAndSerial, m, o, "balance")
BY OverDomain, OverAt, OptionsDomain, PageQueryNames, PageKeysOf, KeysOf, NameBack, BalanceBack
   DEF queryNftsByTokenIdAndSerial, Lookup, NoQuery, OptionsOf, Heard, Own, Dotted

LEMMA queryTokenByIdHears ==
    ASSUME NEW m, NEW o \in OptionsOf(queryTokenById)
    PROVE  Heard(queryTokenById, m, o, "balance")
BY OverDomain, OverAt, OptionsDomain, PageQueryNames, PageKeysOf, KeysOf, NameBack, BalanceBack
   DEF queryTokenById, Lookup, TokenQuery, OptionsOf, Heard, Own, Dotted

LEMMA queryTokensHears ==
    ASSUME NEW m, NEW o \in OptionsOf(queryTokens)
    PROVE  Heard(queryTokens, m, o, "balance")
<1> DEFINE rest == PageKeys({"accountId", "name", "tokenId", "type"})
<1>1. o \in {"accountId", "name", "publicKey", "type", "tokenId", "limit", "order"}
  BY OverDomain, OptionsDomain, PageQueryNames DEF queryTokens, Listing, OptionsOf, TokensQuery
<1>2. queryTokens.keys = [publicKey |-> "publickey"] ++ rest
  BY DEF queryTokens, Listing
<1>3. CASE o = "publicKey"
  <2>1. o \in DOMAIN queryTokens.keys /\ queryTokens.keys[o] = "publickey"
    BY <1>2, <1>3, OverDomain, OverAt
  <2> QED
    BY <1>3, <2>1 DEF Heard, OptionOf
<1>4. CASE o # "publicKey"
  <2>1. o \in DOMAIN rest /\ rest[o] = KeyName(o) /\ o \in Own \cup Dotted
    BY <1>1, <1>4, PageKeysOf DEF Own, Dotted
  <2> HIDE DEF rest
  <2>2. o \in DOMAIN queryTokens.keys /\ queryTokens.keys[o] = KeyName(o)
    BY <1>2, <1>4, <2>1, OverDomain, OverAt
  <2> QED
    BY <2>1, <2>2, NameBack DEF Heard
<1> QED
  BY <1>3, <1>4

LEMMA queryTokenBalancesHears ==
    ASSUME NEW m, NEW o \in OptionsOf(queryTokenBalances)
    PROVE  Heard(queryTokenBalances, m, o, "accountBalance")
BY OverDomain, OverAt, OptionsDomain, PageQueryNames, PageKeysOf, KeysOf, NameBack, BalanceBack
   DEF queryTokenBalances, Listing, TokenBalancesQuery, OptionsOf, Heard, Own, Dotted

LEMMA queryTopicMessagesHears ==
    ASSUME NEW m, NEW o \in OptionsOf(queryTopicMessages)
    PROVE  Heard(queryTopicMessages, m, o, "balance")
BY OverDomain, OverAt, OptionsDomain, PageQueryNames, PageKeysOf, KeysOf, NameBack, BalanceBack
   DEF queryTopicMessages, Listing, TopicMessagesQuery, OptionsOf, Heard, Own, Dotted

LEMMA queryTopicMessageBySequenceHears ==
    ASSUME NEW m, NEW o \in OptionsOf(queryTopicMessageBySequence)
    PROVE  Heard(queryTopicMessageBySequence, m, o, "balance")
BY OverDomain, OverAt, OptionsDomain, PageQueryNames, PageKeysOf, KeysOf, NameBack, BalanceBack
   DEF queryTopicMessageBySequence, Lookup, NoQuery, OptionsOf, Heard, Own, Dotted

LEMMA queryTopicMessageByTimestampHears ==
    ASSUME NEW m, NEW o \in OptionsOf(queryTopicMessageByTimestamp)
    PROVE  Heard(queryTopicMessageByTimestamp, m, o, "balance")
BY OverDomain, OverAt, OptionsDomain, PageQueryNames, PageKeysOf, KeysOf, NameBack, BalanceBack
   DEF queryTopicMessageByTimestamp, Lookup, NoQuery, OptionsOf, Heard, Own, Dotted

LEMMA queryTransactionsHears ==
    ASSUME NEW m, NEW o \in OptionsOf(queryTransactions)
    PROVE  Heard(queryTransactions, m, o, "balance")
BY OverDomain, OverAt, OptionsDomain, PageQueryNames, PageKeysOf, KeysOf, NameBack, BalanceBack
   DEF queryTransactions, Listing, TransactionQuery, OptionsOf, Heard, Own, Dotted

LEMMA queryTransactionRowsHears ==
    ASSUME NEW m, NEW o \in OptionsOf(queryTransactionRows)
    PROVE  Heard(queryTransactionRows, m, o, "balance")
BY OverDomain, OverAt, OptionsDomain, PageQueryNames, PageKeysOf, KeysOf, NameBack, BalanceBack
   DEF queryTransactionRows, Lookup, TransactionLookupQuery, OptionsOf, Heard, Own, Dotted

LEMMA queryExchangeRatesHears ==
    ASSUME NEW m, NEW o \in OptionsOf(queryExchangeRates)
    PROVE  Heard(queryExchangeRates, m, o, "balance")
BY OverDomain, OverAt, OptionsDomain, PageQueryNames, PageKeysOf, KeysOf, NameBack, BalanceBack
   DEF queryExchangeRates, Lookup, ExchangeRateQuery, OptionsOf, Heard, Own, Dotted

LEMMA queryNetworkSuppliesHears ==
    ASSUME NEW m, NEW o \in OptionsOf(queryNetworkSupplies)
    PROVE  Heard(queryNetworkSupplies, m, o, "balance")
BY OverDomain, OverAt, OptionsDomain, PageQueryNames, PageKeysOf, KeysOf, NameBack, BalanceBack
   DEF queryNetworkSupplies, Lookup, NetworkSupplyQuery, OptionsOf, Heard, Own, Dotted

LEMMA queryNetworkStakeHears ==
    ASSUME NEW m, NEW o \in OptionsOf(queryNetworkStake)
    PROVE  Heard(queryNetworkStake, m, o, "balance")
BY OverDomain, OverAt, OptionsDomain, PageQueryNames, PageKeysOf, KeysOf, NameBack, BalanceBack
   DEF queryNetworkStake, Lookup, NoQuery, OptionsOf, Heard, Own, Dotted

LEMMA queryNetworkNodesHears ==
    ASSUME NEW m, NEW o \in OptionsOf(queryNetworkNodes)
    PROVE  Heard(queryNetworkNodes, m, o, "balance")
BY OverDomain, OverAt, OptionsDomain, PageQueryNames, PageKeysOf, KeysOf, NameBack, BalanceBack
   DEF queryNetworkNodes, Listing, NetworkNodesQuery, OptionsOf, Heard, Own, Dotted

LEMMA queryStakingRewardsHears ==
    ASSUME NEW m, NEW o \in OptionsOf(queryStakingRewards)
    PROVE  Heard(queryStakingRewards, m, o, "balance")
BY OverDomain, OverAt, OptionsDomain, PageQueryNames, PageKeysOf, KeysOf, NameBack, BalanceBack
   DEF queryStakingRewards, Listing, StakingRewardsQuery, OptionsOf, Heard, Own, Dotted

LEMMA queryFeeEstimateHears ==
    ASSUME NEW m, NEW o \in OptionsOf(queryFeeEstimate)
    PROVE  Heard(queryFeeEstimate, m, o, "balance")
BY OverDomain, OverAt, OptionsDomain, PageQueryNames, PageKeysOf, KeysOf, NameBack, BalanceBack
   DEF queryFeeEstimate, Lookup, FeeEstimateQuery, OptionsOf, Heard, Own, Dotted

LEMMA queryBalancesHears ==
    ASSUME NEW m, NEW o \in OptionsOf(queryBalances)
    PROVE  Heard(queryBalances, m, o, "balance")
BY OverDomain, OverAt, OptionsDomain, PageQueryNames, PageKeysOf, KeysOf, NameBack, BalanceBack
   DEF queryBalances, Listing, BalancesQuery, OptionsOf, Heard, Own, Dotted

LEMMA queryPendingAirdropsHears ==
    ASSUME NEW o \in OptionsOf(queryPendingAirdrops)
    PROVE  Heard(queryPendingAirdrops, "findPendingAirdrops", o, "balance")
BY OverDomain, OverAt, OptionsDomain, PageQueryNames, PageKeysOf, KeysOf, NameBack, BalanceBack
   DEF queryPendingAirdrops, Listing, AirdropsQuery, OneSided, OptionsOf, Heard, Own, Dotted

LEMMA queryOutstandingAirdropsHears ==
    ASSUME NEW o \in OptionsOf(queryOutstandingAirdrops)
    PROVE  Heard(queryOutstandingAirdrops, "findOutstandingAirdrops", o, "balance")
BY OverDomain, OverAt, OptionsDomain, PageQueryNames, PageKeysOf, KeysOf, NameBack, BalanceBack
   DEF queryOutstandingAirdrops, Listing, AirdropsQuery, OneSided, OptionsOf, Heard, Own, Dotted

LEMMA queryCryptoAllowancesHears ==
    ASSUME NEW o \in OptionsOf(queryCryptoAllowances)
    PROVE  Heard(queryCryptoAllowances, "findCryptoAllowances", o, "balance")
BY OverDomain, OverAt, OptionsDomain, PageQueryNames, PageKeysOf, KeysOf, NameBack, BalanceBack
   DEF queryCryptoAllowances, Listing, AllowancesQuery, OneSided, OptionsOf, Heard, Own, Dotted

LEMMA queryTokenAllowancesHears ==
    ASSUME NEW m, NEW o \in OptionsOf(queryTokenAllowances)
    PROVE  Heard(queryTokenAllowances, m, o, "balance")
BY OverDomain, OverAt, OptionsDomain, PageQueryNames, PageKeysOf, KeysOf, NameBack, BalanceBack
   DEF queryTokenAllowances, Listing, AllowancesQuery, OptionsOf, Heard, Own, Dotted

LEMMA queryNftAllowancesHears ==
    ASSUME NEW m, NEW o \in OptionsOf(queryNftAllowances)
    PROVE  Heard(queryNftAllowances, m, o, "balance")
BY OverDomain, OverAt, OptionsDomain, PageQueryNames, PageKeysOf, KeysOf, NameBack, BalanceBack
   DEF queryNftAllowances, Listing, NftAllowancesQuery, OptionsOf, Heard, Own, Dotted

LEMMA querySchedulesHears ==
    ASSUME NEW m, NEW o \in OptionsOf(querySchedules)
    PROVE  Heard(querySchedules, m, o, "balance")
BY OverDomain, OverAt, OptionsDomain, PageQueryNames, PageKeysOf, KeysOf, NameBack, BalanceBack
   DEF querySchedules, Listing, SchedulesQuery, OptionsOf, Heard, Own, Dotted

LEMMA queryScheduleHears ==
    ASSUME NEW m, NEW o \in OptionsOf(querySchedule)
    PROVE  Heard(querySchedule, m, o, "balance")
BY OverDomain, OverAt, OptionsDomain, PageQueryNames, PageKeysOf, KeysOf, NameBack, BalanceBack
   DEF querySchedule, Lookup, NoQuery, OptionsOf, Heard, Own, Dotted

LEMMA queryTopicHears ==
    ASSUME NEW m, NEW o \in OptionsOf(queryTopic)
    PROVE  Heard(queryTopic, m, o, "balance")
BY OverDomain, OverAt, OptionsDomain, PageQueryNames, PageKeysOf, KeysOf, NameBack, BalanceBack
   DEF queryTopic, Lookup, NoQuery, OptionsOf, Heard, Own, Dotted

LEMMA queryNetworkFeesHears ==
    ASSUME NEW m, NEW o \in OptionsOf(queryNetworkFees)
    PROVE  Heard(queryNetworkFees, m, o, "balance")
BY OverDomain, OverAt, OptionsDomain, PageQueryNames, PageKeysOf, KeysOf, NameBack, BalanceBack
   DEF queryNetworkFees, Lookup, NetworkFeesQuery, OptionsOf, Heard, Own, Dotted

LEMMA queryNftTransactionsHears ==
    ASSUME NEW m, NEW o \in OptionsOf(queryNftTransactions)
    PROVE  Heard(queryNftTransactions, m, o, "balance")
BY OverDomain, OverAt, OptionsDomain, PageQueryNames, PageKeysOf, KeysOf, NameBack, BalanceBack
   DEF queryNftTransactions, Listing, NftTransactionsQuery, OptionsOf, Heard, Own, Dotted

LEMMA queryBlocksHears ==
    ASSUME NEW m, NEW o \in OptionsOf(queryBlocks)
    PROVE  Heard(queryBlocks, m, o, "balance")
BY OverDomain, OverAt, OptionsDomain, PageQueryNames, PageKeysOf, KeysOf, NameBack, BalanceBack
   DEF queryBlocks, Listing, BlocksQuery, OptionsOf, Heard, Own, Dotted

LEMMA queryBlockHears ==
    ASSUME NEW m, NEW o \in OptionsOf(queryBlock)
    PROVE  Heard(queryBlock, m, o, "balance")
BY OverDomain, OverAt, OptionsDomain, PageQueryNames, PageKeysOf, KeysOf, NameBack, BalanceBack
   DEF queryBlock, Lookup, NoQuery, OptionsOf, Heard, Own, Dotted

LEMMA queryHooksHears ==
    ASSUME NEW m, NEW o \in OptionsOf(queryHooks)
    PROVE  Heard(queryHooks, m, o, "balance")
BY OverDomain, OverAt, OptionsDomain, PageQueryNames, PageKeysOf, KeysOf, NameBack, BalanceBack
   DEF queryHooks, Listing, HooksQuery, OptionsOf, Heard, Own, Dotted

LEMMA queryHookStorageHears ==
    ASSUME NEW m, NEW o \in OptionsOf(queryHookStorage)
    PROVE  Heard(queryHookStorage, m, o, "balance")
BY OverDomain, OverAt, OptionsDomain, PageQueryNames, PageKeysOf, KeysOf, NameBack, BalanceBack
   DEF queryHookStorage, Listing, HookStorageQuery, OptionsOf, Heard, Own, Dotted

LEMMA queryRegisteredNodesHears ==
    ASSUME NEW m, NEW o \in OptionsOf(queryRegisteredNodes)
    PROVE  Heard(queryRegisteredNodes, m, o, "balance")
BY OverDomain, OverAt, OptionsDomain, PageQueryNames, PageKeysOf, KeysOf, NameBack, BalanceBack
   DEF queryRegisteredNodes, Listing, RegisteredNodesQuery, OptionsOf, Heard, Own, Dotted

LEMMA queryContractsHears ==
    ASSUME NEW m, NEW o \in OptionsOf(queryContracts)
    PROVE  Heard(queryContracts, m, o, "balance")
BY OverDomain, OverAt, OptionsDomain, PageQueryNames, PageKeysOf, KeysOf, NameBack, BalanceBack
   DEF queryContracts, Listing, ContractsQuery, OptionsOf, Heard, Own, Dotted

LEMMA queryContractHears ==
    ASSUME NEW m, NEW o \in OptionsOf(queryContract)
    PROVE  Heard(queryContract, m, o, "balance")
BY OverDomain, OverAt, OptionsDomain, PageQueryNames, PageKeysOf, KeysOf, NameBack, BalanceBack
   DEF queryContract, Lookup, ContractQuery, OptionsOf, Heard, Own, Dotted

LEMMA queryContractResultsHears ==
    ASSUME NEW m, NEW o \in OptionsOf(queryContractResults)
    PROVE  Heard(queryContractResults, m, o, "balance")
BY OverDomain, OverAt, OptionsDomain, PageQueryNames, PageKeysOf, KeysOf, NameBack, BalanceBack
   DEF queryContractResults, Listing, ContractResultsQuery, contractResultsQueryParams,
       OptionsOf, Heard, Own, Dotted

LEMMA queryAllContractResultsHears ==
    ASSUME NEW m, NEW o \in OptionsOf(queryAllContractResults)
    PROVE  Heard(queryAllContractResults, m, o, "balance")
BY OverDomain, OverAt, OptionsDomain, PageQueryNames, PageKeysOf, KeysOf, NameBack, BalanceBack
   DEF queryAllContractResults, Listing, ContractResultsQuery, contractResultsQueryParams,
       OptionsOf, Heard, Own, Dotted

LEMMA queryContractResultByTimestampHears ==
    ASSUME NEW m, NEW o \in OptionsOf(queryContractResultByTimestamp)
    PROVE  Heard(queryContractResultByTimestamp, m, o, "balance")
BY OverDomain, OverAt, OptionsDomain, PageQueryNames, PageKeysOf, KeysOf, NameBack, BalanceBack
   DEF queryContractResultByTimestamp, Lookup, NoQuery, OptionsOf, Heard, Own, Dotted

LEMMA queryContractResultHears ==
    ASSUME NEW m, NEW o \in OptionsOf(queryContractResult)
    PROVE  Heard(queryContractResult, m, o, "balance")
BY OverDomain, OverAt, OptionsDomain, PageQueryNames, PageKeysOf, KeysOf, NameBack, BalanceBack
   DEF queryContractResult, Lookup, ContractResultQuery, OptionsOf, Heard, Own, Dotted

LEMMA queryContractActionsHears ==
    ASSUME NEW m, NEW o \in OptionsOf(queryContractActions)
    PROVE  Heard(queryContractActions, m, o, "balance")
BY OverDomain, OverAt, OptionsDomain, PageQueryNames, PageKeysOf, KeysOf, NameBack, BalanceBack
   DEF queryContractActions, Listing, ContractActionsQuery, OptionsOf, Heard, Own, Dotted

LEMMA queryContractOpcodesHears ==
    ASSUME NEW m, NEW o \in OptionsOf(queryContractOpcodes)
    PROVE  Heard(queryContractOpcodes, m, o, "balance")
BY OverDomain, OverAt, OptionsDomain, PageQueryNames, PageKeysOf, KeysOf, NameBack, BalanceBack
   DEF queryContractOpcodes, Lookup, OpcodesQuery, OptionsOf, Heard, Own, Dotted

LEMMA queryContractStateHears ==
    ASSUME NEW m, NEW o \in OptionsOf(queryContractState)
    PROVE  Heard(queryContractState, m, o, "balance")
BY OverDomain, OverAt, OptionsDomain, PageQueryNames, PageKeysOf, KeysOf, NameBack, BalanceBack
   DEF queryContractState, Listing, ContractStateQuery, OptionsOf, Heard, Own, Dotted

LEMMA queryContractLogsHears ==
    ASSUME NEW o \in OptionsOf(queryContractLogs)
    PROVE  Heard(queryContractLogs, "findLogs", o, "balance")
BY OverDomain, OverAt, OptionsDomain, PageQueryNames, PageKeysOf, KeysOf, NameBack, BalanceBack
   DEF queryContractLogs, Listing, ContractLogsQuery, contractLogsQueryParams, OneSided,
       OptionsOf, Heard, Own, Dotted

LEMMA queryAllContractLogsHears ==
    ASSUME NEW m, NEW o \in OptionsOf(queryAllContractLogs)
    PROVE  Heard(queryAllContractLogs, m, o, "balance")
BY OverDomain, OverAt, OptionsDomain, PageQueryNames, PageKeysOf, KeysOf, NameBack, BalanceBack
   DEF queryAllContractLogs, Listing, ContractLogsQuery, contractLogsQueryParams, OptionsOf,
       Heard, Own, Dotted

LEMMA queryContractCallHears ==
    ASSUME NEW m, NEW o \in OptionsOf(queryContractCall)
    PROVE  Heard(queryContractCall, m, o, "balance")
BY OverDomain, OverAt, OptionsDomain, PageQueryNames, PageKeysOf, KeysOf, NameBack, BalanceBack
   DEF queryContractCall, Lookup, NoQuery, OptionsOf, Heard, Own, Dotted

LEMMA queryNftsByAccountAndTokenIdHears ==
    ASSUME NEW m, NEW o \in OptionsOf(queryNftsByAccountAndTokenId)
    PROVE  Heard(queryNftsByAccountAndTokenId, m, o, "balance")
BY OverDomain, OverAt, OptionsDomain, PageQueryNames, PageKeysOf, KeysOf, NameBack, BalanceBack
   DEF queryNftsByAccountAndTokenId, queryNftsByAccount, Listing, AccountNftsQuery,
       OptionsOf, Heard, Own, Dotted

LEMMA queryTokensByAccountIdHears ==
    ASSUME NEW m, NEW o \in OptionsOf(queryTokensByAccountId)
    PROVE  Heard(queryTokensByAccountId, m, o, "balance")
<1>1. o \in OptionsOf(queryTokens) /\ queryTokensByAccountId.keys = queryTokens.keys
  BY OverDomain, OptionsDomain DEF queryTokensByAccountId, queryTokens, Listing, OptionsOf,
      TokensQuery
<1>2. Heard(queryTokens, m, o, "balance")
  BY <1>1, queryTokensHears
<1> QED
  BY <1>1, <1>2 DEF Heard

LEMMA queryTransactionsByAccountHears ==
    ASSUME NEW m, NEW o \in OptionsOf(queryTransactionsByAccount)
    PROVE  Heard(queryTransactionsByAccount, m, o, "balance")
BY OverDomain, OverAt, OptionsDomain, PageQueryNames, PageKeysOf, KeysOf, NameBack, BalanceBack
   DEF queryTransactionsByAccount, queryTransactions, Listing, TransactionQuery, OptionsOf,
       Heard, Own, Dotted

(* Every method of the repositories.                                       *)
LEMMA AccountRepositoryTells ==
    ASSUME NEW m \in DOMAIN AccountRepository
    PROVE  Telling(AccountRepository[m], m)
BY queryAccountHears, queryAccountBalanceHears, queryAccountTokensHears,
   queryStakingRewardsHears, queryAccountsHears, queryBalancesHears, queryPendingAirdropsHears,
   queryOutstandingAirdropsHears, queryCryptoAllowancesHears, queryTokenAllowancesHears,
   queryNftAllowancesHears, queryHooksHears, queryHookStorageHears
   DEF AccountRepository, Telling

LEMMA NftRepositoryTells ==
    ASSUME NEW m \in DOMAIN NftRepository
    PROVE  Telling(NftRepository[m], m)
BY queryNftsByAccountHears, queryNftsByTokenIdHears, queryNftsByTokenIdAndSerialHears,
   queryNftTransactionsHears, queryNftsByAccountAndTokenIdHears
   DEF NftRepository, Telling

LEMMA TokenRepositoryTells ==
    ASSUME NEW m \in DOMAIN TokenRepository
    PROVE  Telling(TokenRepository[m], m)
BY queryTokenByIdHears, queryTokensHears, queryTokensByAccountIdHears, queryTokenBalancesHears
   DEF TokenRepository, Telling

LEMMA TopicRepositoryTells ==
    ASSUME NEW m \in DOMAIN TopicRepository
    PROVE  Telling(TopicRepository[m], m)
BY queryTopicHears, queryTopicMessagesHears, queryTopicMessageBySequenceHears,
   queryTopicMessageByTimestampHears
   DEF TopicRepository, Telling

LEMMA TransactionRepositoryTells ==
    ASSUME NEW m \in DOMAIN TransactionRepository
    PROVE  Telling(TransactionRepository[m], m)
BY queryTransactionsHears, queryTransactionsByAccountHears, queryTransactionRowsHears
   DEF TransactionRepository, Telling

LEMMA NetworkRepositoryTells ==
    ASSUME NEW m \in DOMAIN NetworkRepository
    PROVE  Telling(NetworkRepository[m], m)
BY queryExchangeRatesHears, queryNetworkSuppliesHears, queryNetworkStakeHears,
   queryNetworkNodesHears, queryNetworkFeesHears, queryRegisteredNodesHears,
   queryFeeEstimateHears
   DEF NetworkRepository, Telling

LEMMA ScheduleRepositoryTells ==
    ASSUME NEW m \in DOMAIN ScheduleRepository
    PROVE  Telling(ScheduleRepository[m], m)
BY querySchedulesHears, queryScheduleHears
   DEF ScheduleRepository, Telling

LEMMA BlockRepositoryTells ==
    ASSUME NEW m \in DOMAIN BlockRepository
    PROVE  Telling(BlockRepository[m], m)
BY queryBlocksHears, queryBlockHears
   DEF BlockRepository, Telling

LEMMA ContractRepositoryTells ==
    ASSUME NEW m \in DOMAIN ContractRepository
    PROVE  Telling(ContractRepository[m], m)
BY queryContractsHears, queryContractHears, queryContractResultsHears,
   queryAllContractResultsHears, queryContractResultByTimestampHears, queryContractResultHears,
   queryContractActionsHears, queryContractOpcodesHears, queryContractStateHears,
   queryContractLogsHears, queryAllContractLogsHears, queryContractCallHears
   DEF ContractRepository, Telling

LEMMA EveryMethodTells ==
    ASSUME NEW repository \in DOMAIN createMirrorRepositories,
           NEW method \in DOMAIN createMirrorRepositories[repository]
    PROVE  Telling(createMirrorRepositories[repository][method], method)
BY AccountRepositoryTells, NftRepositoryTells, TokenRepositoryTells, TopicRepositoryTells,
   TransactionRepositoryTells, NetworkRepositoryTells, ScheduleRepositoryTells,
   BlockRepositoryTells, ContractRepositoryTells
   DEF createMirrorRepositories
-----------------------------------------------------------------------------
(* What appendQuery makes of what an endpoint is given.                    *)
(* One value is one part of the query, a list or a range two.              *)
LEMMA PairCounts ==
    ASSUME NEW a, NEW b, a # b
    PROVE  Cardinality({a, b}) = 2
<1>1. IsFiniteSet({b}) /\ Cardinality({b}) = 1
  BY FS_Singleton
<1>2. Cardinality({b} \cup {a}) = 2
  BY <1>1, FS_AddElement
<1>3. {b} \cup {a} = {a, b}
  OBVIOUS
<1> QED
  BY <1>2, <1>3

LEMMA PartsOfOne ==
    ASSUME NEW key, NEW v
    PROVE  /\ \A part \in Parts(key, v) : part[1] = key
           /\ Cardinality(Parts(key, v)) = BoundsOf(v)
           /\ BoundsOf(v) = 1 => <<key, v>> \in Parts(key, v)
<1>1. CASE v = "list"
  <2>1. Parts(key, v) = {<<key, "first">>, <<key, "second">>}
    BY <1>1 DEF Parts
  <2>2. <<key, "first">> # <<key, "second">>
    OBVIOUS
  <2>3. Cardinality({<<key, "first">>, <<key, "second">>}) = 2
    BY <2>2, PairCounts
  <2> QED
    BY <1>1, <2>1, <2>3 DEF BoundsOf
<1>2. CASE v = "range"
  <2>1. Parts(key, v) = {<<key, "gte:">>, <<key, "lt:">>}
    BY <1>2 DEF Parts
  <2>2. <<key, "gte:">> # <<key, "lt:">>
    OBVIOUS
  <2>3. Cardinality({<<key, "gte:">>, <<key, "lt:">>}) = 2
    BY <2>2, PairCounts
  <2> QED
    BY <1>2, <2>1, <2>3 DEF BoundsOf
<1>3. CASE v = "nothing"
  <2>1. Parts(key, v) = {} /\ BoundsOf(v) = 0
    BY <1>3 DEF Parts, BoundsOf
  <2> QED
    BY <2>1, FS_EmptySet
<1>4. CASE v \notin {"list", "range", "nothing"}
  <2>1. Parts(key, v) = {<<key, v>>} /\ BoundsOf(v) = 1
    BY <1>4 DEF Parts, BoundsOf
  <2>2. Cardinality({<<key, v>>}) = 1
    BY FS_Singleton
  <2>3. \A part \in {<<key, v>>} : part[1] = key
    OBVIOUS
  <2> QED
    BY <2>1, <2>2, <2>3
<1> QED
  BY <1>1, <1>2, <1>3, <1>4

(* No two options of an endpoint share a parameter.                        *)
LEMMA NamesApart ==
    ASSUME NEW e, NEW m, Telling(e, m), NEW o \in OptionsOf(e), NEW p \in OptionsOf(e),
           o \in DOMAIN e.keys, p \in DOMAIN e.keys, e.keys[o] = e.keys[p]
    PROVE  o = p
<1>1. PICK b : \A n \in OptionsOf(e) : Heard(e, m, n, b)
  BY DEF Telling
<1>2. OptionOf(e.keys[o], b) = o /\ OptionOf(e.keys[p], b) = p
  BY <1>1 DEF Heard
<1> QED
  BY <1>2

(* So an option that is given is told: under its own name, no part of its  *)
(* query is another option's, and none of its own is missing.              *)
LEMMA OptionTold ==
    ASSUME NEW e, NEW m, Telling(e, m), NEW given, DOMAIN given \subseteq OptionsOf(e),
           NEW o \in DOMAIN given
    PROVE  Told(e, m, given, appendQuery(e.keys, given), o)
<1> DEFINE parts == appendQuery(e.keys, given)
<1>1. SUFFICES ASSUME <<m, o>> \notin OneSided
               PROVE  Told(e, m, given, parts, o)
  BY DEF Told
<1>2. o \in OptionsOf(e) /\ o \in DOMAIN e.keys
  <2>1. o \in OptionsOf(e)
    OBVIOUS
  <2>2. PICK b : \A n \in OptionsOf(e) : Heard(e, m, n, b)
    BY DEF Telling
  <2>3. Heard(e, m, o, b)
    BY <2>1, <2>2
  <2>4. <<m, o>> \in OneSided \/ o \in DOMAIN e.keys
    BY <2>3 DEF Heard
  <2> QED
    BY <1>1, <2>1, <2>4
<1>3. \A p \in DOMAIN given \ {o} : p \in DOMAIN e.keys => e.keys[p] # e.keys[o]
  BY <1>2, NamesApart
<1>4. {part \in parts : part[1] = e.keys[o]} = Parts(e.keys[o], given[o])
  <2>1. ASSUME NEW part \in parts, part[1] = e.keys[o]
        PROVE  part \in Parts(e.keys[o], given[o])
    <3>1. PICK p \in DOMAIN given \cap DOMAIN e.keys : part \in Parts(e.keys[p], given[p])
      BY DEF appendQuery
    <3>2. part[1] = e.keys[p]
      BY <3>1, PartsOfOne
    <3>3. p = o
      BY <1>3, <2>1, <3>2
    <3> QED
      BY <3>1, <3>3
  <2>2. ASSUME NEW part \in Parts(e.keys[o], given[o])
        PROVE  part \in parts /\ part[1] = e.keys[o]
    <3>1. part \in parts
      BY <1>2 DEF appendQuery
    <3> QED
      BY <3>1, PartsOfOne
  <2> QED
    BY <2>1, <2>2
<1>5. BoundsOf(given[o]) = 1 => <<e.keys[o], given[o]>> \in parts
  BY <1>2, PartsOfOne DEF appendQuery
<1> HIDE DEF parts
<1> QED
  BY <1>2, <1>3, <1>4, <1>5, PartsOfOne DEF Told

(* No argument leaves its segment of the path, and no id goes out in the   *)
(* form of the SDK.                                                        *)
LEMMA SegmentSafe ==
    ASSUME NEW type, NEW a \in Arguments(type)
    PROVE  PathSegment(type, a) \notin {"slashed", "sdkId"}
<1>1. CASE type = "transaction"
  BY <1>1 DEF Arguments, PathSegment, transactionIdSegment, segment
<1>2. CASE type # "transaction"
  BY <1>2 DEF Arguments, PathSegment, segment
<1> QED
  BY <1>1, <1>2

(* A method is given options of its query type, and arguments for some.    *)
LEMMA GivenOptions ==
    ASSUME NEW e, NEW options \in Queries(e.query)
    PROVE  DOMAIN Given(e, options) \subseteq OptionsOf(e)
<1> DEFINE query == e.query
<1>1. DOMAIN options \subseteq DOMAIN query
  <2>1. CASE options = <<>>
    BY <2>1
  <2>2. CASE options \in OneOf(query)
    <3>1. PICK o \in DOMAIN query : options \in {[n \in {o} |-> v] : v \in query[o]}
      BY <2>2 DEF OneOf
    <3>2. PICK v \in query[o] : options = [n \in {o} |-> v]
      BY <3>1
    <3> QED
      BY <3>2
  <2>3. CASE options = AllOf(query)
    BY <2>3 DEF AllOf
  <2> HIDE DEF query
  <2>4. options \in Queries(query)
    BY DEF query
  <2> QED
    BY <2>1, <2>2, <2>3, <2>4 DEF Queries
<1>2. ASSUME NEW n \in DOMAIN Given(e, options)
      PROVE  n \in OptionsOf(e)
  <2>1. n \in DOMAIN [o \in e.fixed |-> "argument"] \/ n \in DOMAIN options
    BY OverDomain DEF Given
  <2> QED
    BY <1>1, <2>1 DEF OptionsOf
<1> QED
  BY <1>2
-----------------------------------------------------------------------------
LEMMA InitSends == Init => FiltersSent
BY DEF Init, FiltersSent

(* A request is built of all that the method was called with.              *)
LEMMA AskSends ==
    ASSUME NEW repository \in DOMAIN createMirrorRepositories,
           NEW method \in DOMAIN createMirrorRepositories[repository], Ask(repository, method)
    PROVE  FiltersSent'
<1> DEFINE e == createMirrorRepositories[repository][method]
<1>1. PICK options \in Queries(e.query), arguments \in ArgumentLists(e.path), use \in Uses(e) :
         \E maxItems, maxPages \in CapsOf(use, options) :
            /\ stage = "asked"
            /\ call' = [repository |-> repository, method |-> method, options |-> options,
                        arguments |-> arguments, use |-> use, maxItems |-> maxItems,
                        maxPages |-> maxPages]
            /\ IF Refuses(method, arguments)
               THEN /\ stage' = "settled" /\ outcome' = "ConfigInvalid" /\ UNCHANGED request
               ELSE /\ request' = [arguments |-> [i \in DOMAIN arguments |->
                                                    PathSegment(e.path[i], arguments[i])],
                                  parts |-> appendQuery(e.keys, Given(e, options)),
                                  cursor |-> 0]
                    /\ stage' = "sent" /\ UNCHANGED outcome
            /\ UNCHANGED <<listing, steady, odd, answer, out, pages, next>>
  BY Zenon DEF Ask
<1>2. call'.repository = repository /\ call'.method = method /\ call'.options = options
  BY <1>1
<1>3. Endpoint' = e
  BY <1>2 DEF Endpoint
<1>4. Telling(e, method)
  BY EveryMethodTells
<1>5. SUFFICES ASSUME outcome' # "ConfigInvalid"
               PROVE  FiltersSent'
  BY DEF FiltersSent
<1> DEFINE given == Given(e, options)
           parts == appendQuery(e.keys, given)
<1>6. /\ request'.parts = parts
      /\ request'.arguments = [i \in DOMAIN arguments |-> PathSegment(e.path[i], arguments[i])]
  BY <1>1, <1>5
<1>7. DOMAIN given \subseteq OptionsOf(e)
  BY GivenOptions
<1> HIDE DEF e
<1>8. ASSUME NEW i \in DOMAIN request'.arguments
      PROVE  request'.arguments[i] \notin {"slashed", "sdkId"}
  <2>1. i \in DOMAIN e.path /\ arguments[i] \in Arguments(e.path[i])
    BY <1>6 DEF ArgumentLists
  <2>2. request'.arguments[i] = PathSegment(e.path[i], arguments[i])
    BY <1>6, <1>8
  <2> QED
    BY <2>1, <2>2, SegmentSafe
<1> HIDE DEF given
<1>9. ASSUME NEW o \in DOMAIN given
      PROVE  Told(e, method, given, parts, o)
  BY <1>4, <1>7, OptionTold
<1> HIDE DEF parts
<1>10. Given(Endpoint, call.options)' = given
  BY <1>2, <1>3 DEF given
<1> QED
  BY <1>2, <1>3, <1>6, <1>8, <1>9, <1>10 DEF FiltersSent

(* Nothing after that touches what was sent but the cursor.                *)
LEMMA StepKeepsSent ==
    ASSUME WalkInv, FiltersSent, stage \in {"sent", "page"}, call' = call,
           request'.arguments = request.arguments, request'.parts = request.parts
    PROVE  FiltersSent'
<1>1. outcome # "ConfigInvalid"
  BY DEF WalkInv
<1>2. Endpoint' = Endpoint
  BY DEF Endpoint
<1> QED
  BY <1>1, <1>2 DEF FiltersSent

LEMMA NextKeepsSent ==
    ASSUME WalkInv, FiltersSent, [Next]_vars
    PROVE  FiltersSent'
<1>1. CASE UNCHANGED vars
  <2>1. call' = call /\ request' = request /\ outcome' = outcome
    BY <1>1 DEF vars
  <2>2. Endpoint' = Endpoint
    BY <2>1 DEF Endpoint
  <2> QED
    BY <2>1, <2>2 DEF FiltersSent
<1>2. ASSUME NEW repository \in DOMAIN createMirrorRepositories,
             NEW method \in DOMAIN createMirrorRepositories[repository],
             Ask(repository, method)
      PROVE  FiltersSent'
  BY <1>2, AskSends
<1>3. CASE Fails \/ NoRows \/ Stops \/ Change
  BY <1>3, StepKeepsSent DEF Fails, NoRows, Stops, Change
<1>4. CASE FollowNext
  <2>1. stage = "page" /\ call' = call /\ request' = [request EXCEPT !.cursor = next]
    BY <1>4 DEF FollowNext, Send
  <2>2. request'.arguments = request.arguments /\ request'.parts = request.parts
    BY <2>1 DEF WalkInv, WalkTypes
  <2> QED
    BY <2>1, <2>2, StepKeepsSent
<1>5. ASSUME NEW field, LookedUp(Endpoint, field) \/ getPage(Endpoint, field)
      PROVE  FiltersSent'
  <2>1. stage = "sent" /\ call' = call /\ request' = request
    BY <1>5 DEF LookedUp, getPage
  <2> QED
    BY <2>1, StepKeepsSent
<1> QED
  BY <1>1, <1>2, <1>3, <1>4, <1>5 DEF Next

(* appendQuery and the endpoints: with every request, the first and those  *)
(* of the pages that follow, goes out all that the application asked for,  *)
(* whichever endpoint answers, and however long its listing is.            *)
THEOREM ReadsFiltersSent == Spec => []FiltersSent
<1>1. Init /\ WalkInv => FiltersSent
  BY InitSends
<1>2. WalkInv /\ FiltersSent /\ [Next]_vars => FiltersSent'
  BY NextKeepsSent
<1> QED
  BY <1>1, <1>2, InitSends, ReadsWalkInvariant, PTL DEF Spec
-----------------------------------------------------------------------------
(* The paths of fields.                                                    *)
IsPath(f) == \E S : f \in Seq(S)
Deep(f) == IsPath(f) /\ f # <<>>
Table(t) == \A f \in DOMAIN t : Deep(f)
Path(n, g) == <<n>> \o g

(* What a path is made of.                                                 *)
LEMMA OneName ==
    ASSUME NEW S, NEW n \in S
    PROVE  <<n>> \in Seq(S) /\ Len(<<n>>) = 1 /\ <<n>>[1] = n
<1>1. <<n>> = Append(<<>>, n) /\ <<>> \in Seq(S)
  OBVIOUS
<1>2. <<n>> \in Seq(S)
  BY <1>1, AppendProperties
<1> QED
  BY <1>2

LEMMA PathIn ==
    ASSUME NEW n, NEW g, IsPath(g)
    PROVE  \E S : n \in S /\ g \in Seq(S)
<1>1. PICK S : g \in Seq(S)
  BY DEF IsPath
<1>2. g \in Seq(S \cup {n})
  BY <1>1
<1> QED
  BY <1>2

LEMMA PathParts ==
    ASSUME NEW n, NEW g, IsPath(g)
    PROVE  /\ Deep(Path(n, g)) /\ Len(Path(n, g)) = Len(g) + 1 /\ Len(g) \in Nat
           /\ Path(n, g)[1] = n /\ Tail(Path(n, g)) = g
           /\ Len(g) = 0 => g = <<>>
<1> DEFINE p == Path(n, g)
           l == Len(g)
           one == <<n>>
<1>0. PICK S : n \in S /\ g \in Seq(S)
  BY PathIn
<1>1. one \in Seq(S) /\ Len(one) = 1 /\ one[1] = n
  BY <1>0, OneName
<1>2. g \in Seq(S) /\ p = one \o g /\ l \in Nat /\ l = Len(g) /\ (l = 0 => g = <<>>)
  BY <1>0 DEF Path
<1> HIDE DEF p, one
<1>3. /\ p \in Seq(S) /\ Len(p) = 1 + l
      /\ \A i \in 1..(1 + l) : p[i] = IF i <= 1 THEN one[i] ELSE g[i - 1]
  <2>1. /\ one \o g \in Seq(S) /\ Len(one \o g) = Len(one) + Len(g)
        /\ \A i \in 1..(Len(one) + Len(g)) :
              (one \o g)[i] = IF i <= Len(one) THEN one[i] ELSE g[i - Len(one)]
    BY <1>1, <1>2, ConcatProperties
  <2> QED
    BY <1>1, <1>2, <2>1
<1> HIDE DEF l
<1>4. p[1] = n
  <2>1. 1 \in 1..(1 + l)
    BY <1>2
  <2>2. p[1] = one[1]
    BY <1>3, <2>1
  <2> QED
    BY <1>1, <2>2
<1>5. p # <<>>
  <2>1. Len(p) # 0
    BY <1>2, <1>3
  <2> QED
    BY <2>1
<1>6. Tail(p) = g
  <2>1. /\ Tail(p) \in Seq(S) /\ Len(Tail(p)) = Len(p) - 1
        /\ \A i \in 1..Len(Tail(p)) : Tail(p)[i] = p[i + 1]
    BY <1>3, <1>5, HeadTailProperties
  <2>2. Len(Tail(p)) = l
    BY <1>2, <1>3, <2>1
  <2>3. ASSUME NEW i \in 1..l
        PROVE  Tail(p)[i] = g[i]
    <3>1. i \in 1..Len(Tail(p)) /\ i + 1 \in 1..(1 + l) /\ ~(i + 1 <= 1) /\ (i + 1) - 1 = i
      BY <1>2, <2>2
    <3>2. Tail(p)[i] = p[i + 1] /\ p[i + 1] = g[(i + 1) - 1]
      BY <1>3, <2>1, <3>1
    <3> QED
      BY <3>1, <3>2
  <2> QED
    BY <1>2, <2>1, <2>2, <2>3, SeqEqual
<1>7. l + 1 = 1 + l
  BY <1>2
<1> QED
  BY <1>2, <1>3, <1>4, <1>5, <1>6, <1>7 DEF IsPath, Deep, p

LEMMA PathOnce ==
    ASSUME NEW n, NEW g, IsPath(g), NEW m, NEW h, IsPath(h), Path(n, g) = Path(m, h)
    PROVE  n = m /\ g = h
BY PathParts

LEMMA PathOne ==
    ASSUME NEW n
    PROVE  Path(n, <<>>) = <<n>> /\ IsPath(<<>>)
<1>1. <<n>> \in Seq({n}) /\ <<>> \in Seq({n})
  BY OneName
<1> QED
  BY <1>1, ConcatEmptySeq DEF Path, IsPath

LEMMA PathMade ==
    ASSUME NEW f, Deep(f)
    PROVE  \E n, g : IsPath(g) /\ f = Path(n, g)
<1>0. PICK S : f \in Seq(S)
  BY DEF Deep, IsPath
<1>1. f \in Seq(S) /\ f # <<>> /\ Len(f) \in Nat
  BY <1>0 DEF Deep
<1>2. Len(f) \in 1..Len(f) /\ 1 \in 1..Len(f)
  BY <1>1
<1>3. SubSeq(f, 1, Len(f)) = <<f[1]>> \o SubSeq(f, 2, Len(f))
  BY <1>1, <1>2, SubSeqRecursiveFirst
<1>4. SubSeq(f, 1, Len(f)) = f
  BY <1>1, SubSeqFull
<1>5. SubSeq(f, 2, Len(f)) \in Seq(S)
  BY <1>1, SubSeqProperties
<1> QED
  BY <1>3, <1>4, <1>5 DEF Path, IsPath

(* What holds a field of an object: the object, and what holds that.       *)
LEMMA HoldersAt ==
    ASSUME NEW n, NEW g, IsPath(g)
    PROVE  /\ g = <<>> => Holders(Path(n, g)) = {}
           /\ g # <<>> =>
                 Holders(Path(n, g)) = {Path(n, <<>>)} \cup {Path(n, h) : h \in Holders(g)}
<1> DEFINE p == Path(n, g)
           one == <<n>>
<1>0. PICK S : n \in S /\ g \in Seq(S)
  BY PathIn
<1>2. p = one \o g /\ one \in Seq(S) /\ Len(one) = 1 /\ p[1] = n
  BY <1>0, OneName, PathParts DEF Path
<1>1. p \in Seq(S) /\ Len(p) = Len(g) + 1 /\ Len(g) \in Nat /\ g \in Seq(S)
  BY <1>0, <1>2, ConcatProperties, PathParts
<1> HIDE DEF p, one
<1>3. Holders(p) = {SubSeq(p, 1, k) : k \in 1..Len(g)}
  BY <1>1 DEF Holders
<1>4. CASE g = <<>>
  BY <1>3, <1>4 DEF p
<1>5. CASE g # <<>>
  <2>1. Len(g) > 0
    BY <1>1, <1>5
  <2>2. ASSUME NEW k \in 1..Len(g)
        PROVE  SubSeq(p, 1, k) = Path(n, SubSeq(p, 2, k))
    <3>1. k \in 1..Len(p) /\ 1 \in 1..Len(p) /\ 1 + 1 = 2
      BY <1>1
    <3>2. SubSeq(p, 1, k) = <<p[1]>> \o SubSeq(p, 1 + 1, k)
      BY <1>1, <3>1, SubSeqRecursiveFirst
    <3> QED
      BY <1>2, <3>1, <3>2 DEF Path
  <2>3. SubSeq(p, 1, 1) = Path(n, <<>>)
    <3>1. SubSeq(p, 2, 1) = <<>>
      BY SubSeqEmpty
    <3>2. 1 \in 1..Len(g)
      BY <1>1, <2>1
    <3>3. SubSeq(p, 1, 1) = Path(n, SubSeq(p, 2, 1))
      BY <2>2, <3>2
    <3> QED
      BY <3>1, <3>3
  <2>4. ASSUME NEW k \in 1..Len(g), k # 1
        PROVE  k - 1 \in 1..(Len(g) - 1) /\ SubSeq(p, 1, k) = Path(n, SubSeq(g, 1, k - 1))
    <3>1. /\ 2 \in Len(one) + 1..Len(one) + Len(g) /\ k \in Len(one) + 1..Len(one) + Len(g)
          /\ 2 - Len(one) = 1 /\ k - Len(one) = k - 1 /\ k - 1 \in 1..(Len(g) - 1)
      BY <1>1, <1>2, <2>4
    <3>2. SubSeq(one \o g, 2, k) = SubSeq(g, 2 - Len(one), k - Len(one))
      BY <1>1, <1>2, <3>1, SubSeqOfConcat2
    <3> QED
      BY <1>2, <2>2, <3>1, <3>2
  <2>5. ASSUME NEW q \in Holders(p)
        PROVE  q = Path(n, <<>>) \/ \E h \in Holders(g) : q = Path(n, h)
    <3>1. PICK k \in 1..Len(g) : q = SubSeq(p, 1, k)
      BY <1>3
    <3>2. CASE k = 1
      BY <2>3, <3>1, <3>2
    <3>3. CASE k # 1
      BY <2>4, <3>1, <3>3 DEF Holders
    <3> QED
      BY <3>2, <3>3
  <2>6. Path(n, <<>>) \in Holders(p)
    <3>1. 1 \in 1..Len(g)
      BY <1>1, <2>1
    <3> QED
      BY <1>3, <2>3, <3>1
  <2>7. ASSUME NEW h \in Holders(g)
        PROVE  Path(n, h) \in Holders(p)
    <3>1. PICK k \in 1..(Len(g) - 1) : h = SubSeq(g, 1, k)
      BY DEF Holders
    <3>2. k + 1 \in 1..Len(g) /\ k + 1 # 1 /\ (k + 1) - 1 = k
      BY <1>1
    <3>3. SubSeq(p, 1, k + 1) = Path(n, SubSeq(g, 1, (k + 1) - 1))
      BY <2>4, <3>2
    <3> QED
      BY <1>3, <3>1, <3>2, <3>3
  <2> QED
    BY <1>5, <2>5, <2>6, <2>7 DEF p
<1> QED
  BY <1>4, <1>5

LEMMA HoldersDeep ==
    ASSUME NEW f, IsPath(f), NEW q \in Holders(f)
    PROVE  Deep(q)
<1>1. PICK S : f \in Seq(S)
  BY DEF IsPath
<1>2. PICK k \in 1..(Len(f) - 1) : q = SubSeq(f, 1, k)
  BY DEF Holders
<1>3. k \in Int /\ 1 <= k /\ Len(f) \in Nat /\ \A i \in 1..k : f[i] \in S
  BY <1>1
<1>4. SubSeq(f, 1, k) \in Seq(S) /\ Len(SubSeq(f, 1, k)) = k - 1 + 1
  BY <1>3, SubSeqProperties
<1>5. SubSeq(f, 1, k) # <<>>
  BY <1>3, <1>4
<1> QED
  BY <1>2, <1>4, <1>5 DEF Deep, IsPath

(* What the operators of the tables make, field by field.                  *)
LEMMA FieldsAt ==
    ASSUME NEW n, NEW g, IsPath(g), NEW names, NEW S
    PROVE  /\ Path(n, g) \in DOMAIN Fields(names, S) <=> g = <<>> /\ n \in names
           /\ g = <<>> /\ n \in names => Fields(names, S)[Path(n, g)] = S
<1>1. DOMAIN Fields(names, S) = {<<m>> : m \in names}
  BY DEF Fields
<1>2. ASSUME NEW m \in names, Path(n, g) = <<m>>
      PROVE  g = <<>> /\ n = m
  <2>1. Len(<<m>>) = 1 /\ <<m>>[1] = m
    OBVIOUS
  <2>2. Len(g) + 1 = 1 /\ n = m /\ Len(g) \in Nat /\ (Len(g) = 0 => g = <<>>)
    BY <1>2, <2>1, PathParts
  <2> QED
    BY <2>2
<1>3. g = <<>> /\ n \in names => Path(n, g) \in DOMAIN Fields(names, S)
  BY <1>1, PathOne
<1>4. Path(n, g) \in DOMAIN Fields(names, S) => Fields(names, S)[Path(n, g)] = S
  BY DEF Fields
<1> QED
  BY <1>1, <1>2, <1>3, <1>4

LEMMA InsideAt ==
    ASSUME NEW n, NEW g, IsPath(g), NEW m, NEW t, Table(t)
    PROVE  /\ Path(n, g) \in DOMAIN Inside(m, t) <=> n = m /\ g \in DOMAIN t
           /\ n = m /\ g \in DOMAIN t => Inside(m, t)[Path(n, g)] = t[g]
<1>1. DOMAIN Inside(m, t) = {<<m>> \o h : h \in DOMAIN t}
  BY DEF Inside
<1>2. ASSUME NEW h \in DOMAIN t, Path(n, g) = <<m>> \o h
      PROVE  n = m /\ g = h
  BY <1>2, PathOnce DEF Path, Table, Deep
<1>3. n = m /\ g \in DOMAIN t => Path(n, g) \in DOMAIN Inside(m, t)
  BY <1>1 DEF Path
<1>4. Path(n, g) \in DOMAIN Inside(m, t) => Inside(m, t)[Path(n, g)] = t[Tail(Path(n, g))]
  BY DEF Inside
<1> QED
  BY <1>1, <1>2, <1>3, <1>4, PathParts

LEMMA NestedAt ==
    ASSUME NEW n, NEW g, IsPath(g), NEW m, NEW S, NEW t, Table(t)
    PROVE  /\ Path(n, g) \in DOMAIN Nested(m, S, t) <=> n = m /\ (g = <<>> \/ g \in DOMAIN t)
           /\ n = m /\ g = <<>> => Nested(m, S, t)[Path(n, g)] = S
           /\ n = m /\ g \in DOMAIN t => Nested(m, S, t)[Path(n, g)] = t[g]
<1>1. g \in DOMAIN t => g # <<>>
  BY DEF Table, Deep
<1> QED
  BY <1>1, OverDomain, OverAt, FieldsAt, InsideAt DEF Nested

LEMMA NamedAt ==
    ASSUME NEW n, NEW g, IsPath(g), NEW names
    PROVE  Path(n, g) \in Named(names) <=> g = <<>> /\ n \in names
<1>1. Named(names) = DOMAIN Fields(names, 0)
  BY DEF Named, Fields
<1> QED
  BY <1>1, FieldsAt

LEMMA SameAt ==
    ASSUME NEW w, NEW f
    PROVE  /\ f \in DOMAIN Same(w) <=> f \in DOMAIN w
           /\ f \in DOMAIN w => Same(w)[f] = "same"
BY DEF Same

LEMMA AsWireAt ==
    ASSUME NEW w, NEW f
    PROVE  /\ f \in DOMAIN AsWire(w) <=> f \in DOMAIN w
           /\ f \in DOMAIN w => AsWire(w)[f] = TypeOf(w[f])
BY DEF AsWire

Less(T) == T \ {"null"}
Sure(T) == T \ {"null", "undefined"}
LEMMA NeverNullAt ==
    ASSUME NEW names, NEW P, NEW f
    PROVE  /\ f \in DOMAIN NeverNull(names, P) <=> f \in DOMAIN P
           /\ f \in DOMAIN P /\ f \in Named(names) => NeverNull(names, P)[f] = Less(P[f])
           /\ f \in DOMAIN P /\ f \notin Named(names) => NeverNull(names, P)[f] = P[f]
BY DEF NeverNull, Less

LEMMA AlwaysAt ==
    ASSUME NEW names, NEW P, NEW f
    PROVE  /\ f \in DOMAIN Always(names, P) <=> f \in DOMAIN P
           /\ f \in DOMAIN P /\ f \in Named(names) => Always(names, P)[f] = Sure(P[f])
           /\ f \in DOMAIN P /\ f \notin Named(names) => Always(names, P)[f] = P[f]
BY DEF Always, Sure

LEMMA HaveAt ==
    ASSUME NEW names, NEW T, NEW P, NEW f
    PROVE  /\ f \in DOMAIN Have(names, T, P) <=> f \in DOMAIN P
           /\ f \in DOMAIN P /\ f \in Named(names) => Have(names, T, P)[f] = T
           /\ f \in DOMAIN P /\ f \notin Named(names) => Have(names, T, P)[f] = P[f]
BY DEF Have

LEMMA HideAt ==
    ASSUME NEW names, NEW P, NEW f
    PROVE  /\ f \in DOMAIN Hide(names, P) <=> f \in DOMAIN P /\ f \notin Named(names)
           /\ f \in DOMAIN P /\ f \notin Named(names) => Hide(names, P)[f] = P[f]
BY DEF Hide

LEMMA FractionAt ==
    ASSUME NEW P, NEW n, NEW g, IsPath(g)
    PROVE  /\ Path(n, g) \in DOMAIN FractionOf(P) <=> Path(n, g) \in DOMAIN P
           /\ Path(n, g) \in DOMAIN P /\ Len(g) = 1 /\ n = "amount" =>
                 FractionOf(P)[Path(n, g)] = Undefined(P[Path(n, g)])
           /\ Path(n, g) \in DOMAIN P /\ (Len(g) # 1 \/ n # "amount") =>
                 FractionOf(P)[Path(n, g)] = P[Path(n, g)]
<1>1. Len(g) \in Nat /\ Len(Path(n, g)) = Len(g) + 1 /\ Path(n, g)[1] = n
  BY PathParts
<1>2. \A k \in Nat : k + 1 = 2 <=> k = 1
  OBVIOUS
<1>3. Len(Path(n, g)) = 2 <=> Len(g) = 1
  BY <1>1, <1>2
<1> QED
  BY <1>1, <1>3 DEF FractionOf

(* They make tables of tables.                                             *)
LEMMA FieldsTable ==
    ASSUME NEW names, NEW S
    PROVE  Table(Fields(names, S))
<1>1. ASSUME NEW m \in names
      PROVE  Deep(<<m>>)
  BY PathOne, PathParts
<1> QED
  BY <1>1 DEF Table, Fields

LEMMA InsideTable ==
    ASSUME NEW m, NEW t, Table(t)
    PROVE  Table(Inside(m, t))
<1>1. ASSUME NEW h \in DOMAIN t
      PROVE  Deep(<<m>> \o h)
  BY PathParts DEF Path, Table, Deep
<1> QED
  BY <1>1 DEF Table, Inside

LEMMA OverTable ==
    ASSUME NEW t, NEW u, Table(t), Table(u)
    PROVE  Table(t ++ u)
BY OverDomain DEF Table

LEMMA NestedTable ==
    ASSUME NEW m, NEW S, NEW t, Table(t)
    PROVE  Table(Nested(m, S, t))
BY FieldsTable, InsideTable, OverTable DEF Nested

LEMMA TablesOf ==
    ASSUME NEW t, Table(t)
    PROVE  /\ Table(Same(t)) /\ Table(AsWire(t)) /\ Table(FractionOf(t))
           /\ \A names : Table(NeverNull(names, t)) /\ Table(Always(names, t)) /\ Table(Hide(names, t))
           /\ \A names, T : Table(Have(names, T, t))
BY DEF Table, Same, AsWire, FractionOf, NeverNull, Always, Hide, Have
-----------------------------------------------------------------------------
(* One literal, parsed and converted.                                      *)
Exact == {"amountString", "amountNumber", "balanceOrZero"}
Becomes(w, x, T) == \/ w = Throws /\ x = "large" /\ "number" \in T
                    \/ w # Throws /\ w.js \in T /\ (x \in MirrorAmount => w.of = x)
Suits(how, S, T) ==
    /\ IsAmount(S) => how \in Exact
    /\ \A x \in S : Becomes(Convert(how, parseLossless(x)), x, T)
Sort(S) == S \subseteq Literals /\ \E x \in Plain : x \in S
Safe(S) == Sort(S) /\ ~IsAmount(S) /\ "key" \notin S

LEMMA Parsed ==
    /\ parseLossless("small") = Value("number", "small")
    /\ parseLossless("safe") = Value("string", "safe")
    /\ parseLossless("large") = Value("string", "large")
    /\ parseLossless("quoted") = Value("string", "quoted")
    /\ parseLossless("text") = Value("string", "text")
    /\ parseLossless("flag") = Value("boolean", "flag")
    /\ parseLossless("key") = Value("object", "key")
    /\ parseLossless("range") = Value("object", "range")
    /\ parseLossless("object") = Value("object", "object")
    /\ parseLossless("list") = Value("array", "list")
    /\ parseLossless("null") = Value("null", "null")
    /\ parseLossless("absent") = Value("undefined", "absent")
    /\ parseLossless("fraction") = Value("number", "fraction")
    /\ parseLossless("exponent") = Value("number", "rounded")
    /\ parseLossless("words") = Value("string", "words")
BY DEF parseLossless, quoteLargeIntegers, JsOf

LEMMA JsAre ==
    /\ JsOf("small") = "number" /\ JsOf("safe") = "string" /\ JsOf("large") = "string"
    /\ JsOf("quoted") = "string" /\ JsOf("text") = "string" /\ JsOf("flag") = "boolean"
    /\ JsOf("key") = "object" /\ JsOf("range") = "object" /\ JsOf("object") = "object"
    /\ JsOf("list") = "array" /\ JsOf("null") = "null" /\ JsOf("absent") = "undefined"
    /\ JsOf("fraction") = "number" /\ JsOf("exponent") = "number" /\ JsOf("words") = "string"
BY DEF JsOf

LEMMA ParsedKeeps ==
    ASSUME NEW x \in Literals
    PROVE  /\ parseLossless(x) # Throws /\ parseLossless(x).js = JsOf(x)
           /\ x \in MirrorAmount => parseLossless(x).of = x
BY Parsed, JsAre DEF Literals, Throws, Value, MirrorAmount

LEMMA SafeSame ==
    ASSUME NEW S, Safe(S)
    PROVE  Suits("same", S, TypeOf(S))
<1>1. \A x \in S : Convert("same", parseLossless(x)) = parseLossless(x)
  BY DEF Convert
<1>2. TypeOf(S) = {JsOf(x) : x \in S}
  BY DEF Safe, TypeOf, IsAmount
<1>3. \A x \in S : x \in Literals
  BY DEF Safe, Sort
<1> QED
  BY <1>1, <1>2, <1>3, ParsedKeeps DEF Suits, Safe, Becomes

Bases == {Text, Count, Flag, Period, Object, List}
LEMMA SafeSorts ==
    ASSUME NEW S \in Bases
    PROVE  Safe(S) /\ Safe(Nullable(S)) /\ Safe(Optional(S)) /\ Safe(Maybe(S))
<1>1. PICK b \in {"text", "small", "flag", "range", "object", "list"} : S = {b}
  BY DEF Bases, Text, Count, Flag, Period, Object, List
<1>2. ASSUME NEW T, b \in T, T \subseteq {b, "null", "absent"}
      PROVE  Safe(T)
  <2>1. T \subseteq Literals /\ b \in Plain /\ "key" \notin T /\ "quoted" \notin T
    BY <1>2 DEF Literals, Plain
  <2> QED
    BY <1>2, <2>1 DEF Safe, Sort, IsAmount, MirrorAmount
<1> QED
  BY <1>1, <1>2 DEF Nullable, Optional, Maybe

-----------------------------------------------------------------------------
(* A field of a table: it is made of one that the wire has and suits the   *)
(* type that is promised; what holds it opens, or leaves it out as a       *)
(* public type allows.  A table fits when each of its fields does.         *)
Fit(c, w, p, f) ==
    /\ f \in DOMAIN c <=> f \in DOMAIN p
    /\ f \in DOMAIN w => Sort(w[f])
    /\ f \in DOMAIN c => f \in DOMAIN w /\ Suits(c[f], w[f], p[f])
Keeps(how, S) ==
    \A x \in S \ {"absent"} :
       IF x = "null" THEN Convert(how, parseLossless(x)).js \notin {"array", "object"}
       ELSE /\ x \in {"object", "list"}
            /\ Convert(how, parseLossless(x)).js \in {"array", "object"}
Never(S) == S \cap {"null", "absent"} = {}
Held(c, w, p, f) ==
    f \in DOMAIN c => \A q \in Holders(f) :
        /\ q \in DOMAIN w
        /\ IF q \in DOMAIN c THEN Keeps(c[q], w[q])
           ELSE \/ Never(w[q])
                \/ Suits(c[f], {"absent"}, p[f])
                \/ \E r \in Holders(f) \cap DOMAIN c : q \in Holders(r)
Fits(c, w, p) ==
    /\ Table(c) /\ Table(w) /\ Table(p)
    /\ \A f : Deep(f) => Fit(c, w, p, f) /\ Held(c, w, p, f)

LEMMA FitsBy ==
    ASSUME NEW c, NEW w, NEW p, Table(c), Table(w), Table(p),
           \A n, g : IsPath(g) =>
              Fit(c, w, p, Path(n, g)) /\ Held(c, w, p, Path(n, g))
    PROVE  Fits(c, w, p)
BY PathMade DEF Fits

AgreeAt(t, n, u, h) ==
    /\ Path(n, h) \in DOMAIN t <=> h \in DOMAIN u
    /\ h \in DOMAIN u => t[Path(n, h)] = u[h]
Opens(c, w, n, d, p) ==
    /\ <<n>> \in DOMAIN w
    /\ IF <<n>> \in DOMAIN c THEN Keeps(c[<<n>>], w[<<n>>])
       ELSE \/ Never(w[<<n>>])
            \/ \A h \in DOMAIN d : \/ Suits(d[h], {"absent"}, p[h])
                                   \/ Holders(h) \cap DOMAIN d # {}

LEMMA Beneath ==
    ASSUME NEW c, NEW w, NEW p, NEW d, NEW v, NEW o, NEW n, NEW g, Deep(g),
           Fits(d, v, o), Opens(c, w, n, d, o),
           \A h : Deep(h) => AgreeAt(c, n, d, h) /\ AgreeAt(w, n, v, h) /\ AgreeAt(p, n, o, h)
    PROVE  Fit(c, w, p, Path(n, g)) /\ Held(c, w, p, Path(n, g))
<1> DEFINE f == Path(n, g)
<1>1. Fit(d, v, o, g) /\ Held(d, v, o, g) /\ IsPath(g) /\ g # <<>>
  BY DEF Fits, Deep
<1>2. AgreeAt(c, n, d, g) /\ AgreeAt(w, n, v, g) /\ AgreeAt(p, n, o, g)
  OBVIOUS
<1>3. Fit(c, w, p, f)
  BY <1>1, <1>2 DEF Fit, AgreeAt
<1>4. ASSUME f \in DOMAIN c, NEW q \in Holders(f)
      PROVE  /\ q \in DOMAIN w
             /\ IF q \in DOMAIN c THEN Keeps(c[q], w[q])
                ELSE \/ Never(w[q])
                     \/ Suits(c[f], {"absent"}, p[f])
                     \/ \E r \in Holders(f) \cap DOMAIN c : q \in Holders(r)
  <2>1. Holders(f) = {<<n>>} \cup {Path(n, h) : h \in Holders(g)} /\ \A h \in Holders(g) : Deep(h)
    BY <1>1, HoldersAt, PathOne, HoldersDeep
  <2>2. g \in DOMAIN d /\ c[f] = d[g] /\ p[f] = o[g]
    BY <1>1, <1>2, <1>3, <1>4 DEF AgreeAt, Fit
  <2>3. ASSUME NEW r \in Holders(g) \cap DOMAIN d
        PROVE  /\ Path(n, r) \in Holders(f) \cap DOMAIN c
               /\ Holders(Path(n, r)) = {<<n>>} \cup {Path(n, h) : h \in Holders(r)}
    <3>1. Deep(r) /\ IsPath(r) /\ r # <<>>
      BY <2>1 DEF Deep
    <3> QED
      BY <2>1, <3>1, HoldersAt, PathOne DEF AgreeAt
  <2>4. CASE q = <<n>>
    <3>1. CASE <<n>> \in DOMAIN c \/ Never(w[<<n>>])
      BY <2>4, <3>1 DEF Opens
    <3>2. CASE Holders(g) \cap DOMAIN d # {}
      BY <2>3, <2>4, <3>2 DEF Opens
    <3>3. CASE Suits(d[g], {"absent"}, o[g])
      BY <2>2, <2>4, <3>3 DEF Opens
    <3> QED
      BY <2>2, <3>1, <3>2, <3>3 DEF Opens
  <2>5. CASE q # <<n>>
    <3>1. PICK h \in Holders(g) : q = Path(n, h)
      BY <2>1, <2>5
    <3>2. Deep(h) /\ AgreeAt(c, n, d, h) /\ AgreeAt(w, n, v, h)
      BY <2>1
    <3>3. /\ h \in DOMAIN v
          /\ IF h \in DOMAIN d THEN Keeps(d[h], v[h])
             ELSE \/ Never(v[h])
                  \/ Suits(d[g], {"absent"}, o[g])
                  \/ \E r \in Holders(g) \cap DOMAIN d : h \in Holders(r)
      BY <1>1, <2>2 DEF Held
    <3>4. q \in DOMAIN w /\ w[q] = v[h] /\ (q \in DOMAIN c <=> h \in DOMAIN d)
          /\ (h \in DOMAIN d => c[q] = d[h])
      BY <3>1, <3>2, <3>3 DEF AgreeAt
    <3>5. (\E r \in Holders(g) \cap DOMAIN d : h \in Holders(r))
             => \E r \in Holders(f) \cap DOMAIN c : q \in Holders(r)
      BY <2>3, <3>1
    <3> QED
      BY <2>2, <3>3, <3>4, <3>5
  <2> QED
    BY <2>4, <2>5
<1> QED
  BY <1>3, <1>4 DEF Held

(* The sorts of amounts and of keys that bodies have.                      *)
Amounts == {MirrorAmount, Nullable(MirrorAmount), Optional(MirrorAmount), Maybe(MirrorAmount)}
Keyed == {Key, Nullable(Key), Optional(Key), MaybeKey}

LEMMA SuitsMore ==
    ASSUME NEW how, NEW S, NEW T, NEW U, Suits(how, S, T), T \subseteq U
    PROVE  Suits(how, S, U)
BY DEF Suits, Becomes

LEMMA AmountSorts ==
    ASSUME NEW S \in Amounts
    PROVE  /\ Sort(S) /\ IsAmount(S) /\ S \subseteq MirrorAmount \cup {"null", "absent"}
           /\ "string" \in TypeOf(S)
           /\ "null" \in S => "null" \in TypeOf(S)
           /\ "absent" \in S => "undefined" \in TypeOf(S)
<1>1. MirrorAmount \subseteq S /\ S \subseteq MirrorAmount \cup {"null", "absent"}
  BY DEF Amounts, Nullable, Optional, Maybe
<1>2. Sort(S)
  BY <1>1 DEF Sort, MirrorAmount, Literals, Plain
<1>3. TypeOf(S) = {JsOf(x) : x \in S \ {"small"}} /\ "safe" \in S \ {"small"}
  BY <1>1 DEF TypeOf, MirrorAmount
<1> QED
  BY <1>1, <1>2, <1>3, JsAre DEF IsAmount

(* amountString: the digits as they came, whatever they came as.           *)
LEMMA StringOf ==
    /\ amountString(Value("number", "small")) = Value("string", "small")
    /\ amountString(Value("string", "safe")) = Value("string", "safe")
    /\ amountString(Value("string", "large")) = Value("string", "large")
    /\ amountString(Value("string", "quoted")) = Value("string", "quoted")
    /\ amountString(Value("null", "null")) = Value("null", "null")
    /\ amountString(Value("undefined", "absent")) = Value("undefined", "absent")
BY DEF amountString, None, assertAmountArms, isDigits, isSafeInteger, Value

LEMMA SuitsString ==
    ASSUME NEW S \in Amounts
    PROVE  Suits("amountString", S, TypeOf(S))
<1>1. \A v : Convert("amountString", v) = amountString(v)
  BY DEF Convert
<1>2. ASSUME NEW x \in S
      PROVE  Becomes(amountString(parseLossless(x)), x, TypeOf(S))
  <2>1. x \in {"small", "safe", "large", "quoted", "null", "absent"}
    BY AmountSorts DEF MirrorAmount
  <2>2. /\ x \in {"small", "safe", "large", "quoted"} =>
              amountString(parseLossless(x)) = Value("string", x)
        /\ x = "null" => amountString(parseLossless(x)) = Value("null", "null")
        /\ x = "absent" => amountString(parseLossless(x)) = Value("undefined", "absent")
    BY Parsed, StringOf
  <2>3. /\ "string" \in TypeOf(S) /\ ("null" \in S => "null" \in TypeOf(S))
        /\ "absent" \in S => "undefined" \in TypeOf(S)
    BY AmountSorts
  <2> QED
    BY <2>1, <2>2, <2>3 DEF Becomes, Value, Throws, MirrorAmount
<1> QED
  BY <1>1, <1>2 DEF Suits, Exact

(* amountNumber: what a double holds as it came, and no other.             *)
LEMMA NumberOf ==
    /\ amountNumber(Value("number", "small")) = Value("number", "small")
    /\ amountNumber(Value("string", "safe")) = Value("number", "safe")
    /\ amountNumber(Value("string", "large")) = Throws
    /\ amountNumber(Value("string", "quoted")) = Value("number", "quoted")
    /\ amountNumber(Value("null", "null")) = Value("null", "null")
    /\ amountNumber(Value("undefined", "absent")) = Value("undefined", "absent")
BY DEF amountNumber, Narrowed, None, assertAmountArms, isDigits, isSafeInteger, Value

LEMMA SuitsNumber ==
    ASSUME NEW S \in Amounts, NEW T, "number" \in T, "null" \in S => "null" \in T,
           "absent" \in S => "undefined" \in T
    PROVE  Suits("amountNumber", S, T)
<1>1. \A v : Convert("amountNumber", v) = amountNumber(v)
  BY DEF Convert
<1>2. ASSUME NEW x \in S
      PROVE  Becomes(amountNumber(parseLossless(x)), x, T)
  <2>1. x \in {"small", "safe", "large", "quoted", "null", "absent"}
    BY AmountSorts DEF MirrorAmount
  <2>2. /\ x \in {"small", "safe", "quoted"} =>
              amountNumber(parseLossless(x)) = Value("number", x)
        /\ x = "large" => amountNumber(parseLossless(x)) = Throws
        /\ x = "null" => amountNumber(parseLossless(x)) = Value("null", "null")
        /\ x = "absent" => amountNumber(parseLossless(x)) = Value("undefined", "absent")
    BY Parsed, NumberOf
  <2> QED
    BY <2>1, <2>2 DEF Becomes, Value, Throws, MirrorAmount
<1> QED
  BY <1>1, <1>2 DEF Suits, Exact

(* The balance of an account, zero when the node knows none.               *)
LEMMA SuitsBalance ==
    Suits("balanceOrZero", MirrorAmount, {"string"}) /\ Suits("balanceOrZero", {"absent"}, {"string"})
<1>1. \A v : Convert("balanceOrZero", v) = amountString(Or(v, Value("number", "small")))
  BY DEF Convert
<1>2. /\ \A v : v.js \in {"number", "string"} => Or(v, Value("number", "small")) = v
      /\ Or(Value("undefined", "absent"), Value("number", "small")) = Value("number", "small")
  BY DEF Or, None, Value
<1>3. ASSUME NEW x \in MirrorAmount
      PROVE  amountString(Or(parseLossless(x), Value("number", "small"))) = Value("string", x)
  <2>1. parseLossless(x) \in {Value("number", "small"), Value("string", "safe"),
                              Value("string", "large"), Value("string", "quoted")}
    BY Parsed DEF MirrorAmount
  <2>2. parseLossless(x).js \in {"number", "string"}
    BY <2>1 DEF Value
  <2>3. amountString(parseLossless(x)) = Value("string", x)
    BY Parsed, StringOf DEF MirrorAmount
  <2> QED
    BY <1>2, <2>2, <2>3
<1>4. Suits("balanceOrZero", MirrorAmount, {"string"})
  <2>1. ASSUME NEW x \in MirrorAmount
        PROVE  Convert("balanceOrZero", parseLossless(x)) = Value("string", x)
    BY <1>1, <1>3
  <2>2. \A x : Becomes(Value("string", x), x, {"string"})
    BY DEF Becomes, Value, Throws
  <2> QED
    BY <2>1, <2>2 DEF Suits, Exact
<1>5. amountString(Or(parseLossless("absent"), Value("number", "small"))) = Value("string", "small")
  BY <1>2, Parsed, StringOf
<1> QED
  BY <1>1, <1>4, <1>5 DEF Suits, Exact, Becomes, Value, Throws, MirrorAmount

(* convertKey, orUndefined and the like: what there is stays, and what     *)
(* there is not becomes what the types promise.                            *)
LEMMA KeySorts ==
    ASSUME NEW S \in Keyed
    PROVE  /\ Sort(S) /\ ~IsAmount(S) /\ S \subseteq {"key", "null", "absent"}
           /\ "object" \in TypeOf(S) /\ (S # {"key"} => "undefined" \in TypeOf(S))
<1>1. "key" \in S /\ S \subseteq {"key", "null", "absent"}
  BY DEF Keyed, MaybeKey, Key, Nullable, Optional, Maybe
<1>2. Sort(S) /\ ~IsAmount(S)
  BY <1>1 DEF Sort, Literals, Plain, IsAmount, MirrorAmount
<1>3. TypeOf(S) = {IF x = "key" THEN "object" ELSE "undefined" : x \in S}
  BY <1>1 DEF TypeOf
<1> QED
  BY <1>1, <1>2, <1>3

LEMMA Others ==
    /\ \A v : Convert("convertKey", v) = IF None(v) THEN Undef ELSE v
    /\ \A v : Convert("orUndefined", v) = IF None(v) THEN Undef ELSE v
    /\ \A v : Convert("orNull", v) = IF None(v) THEN Value("null", "null") ELSE v
    /\ \A v : Convert("orFalse", v) = IF None(v) THEN Value("boolean", "flag") ELSE v
    /\ \A v : Convert("orZero", v) = IF None(v) THEN Value("number", "small") ELSE v
    /\ \A v : Convert("orBlank", v) = IF None(v) THEN Value("string", "text") ELSE v
    /\ \A v : Convert("orEmpty", v) = IF None(v) THEN Value("array", "list") ELSE v
    /\ \A v : Convert("list", v) = Value("array", "list")
    /\ \A v : Convert("String", v) = Value("string", v.of)
    /\ \A v : Convert("parseInt", v) = Value("number", v.of)
    /\ \A v : Convert("same", v) = v
BY DEF Convert, convertKey, Or

LEMMA Nones ==
    ASSUME NEW x \in Literals
    PROVE  None(parseLossless(x)) <=> x \in {"null", "absent"}
BY ParsedKeeps, JsAre DEF None, Literals

LEMMA SuitsKey ==
    ASSUME NEW S \in Keyed
    PROVE  Suits("convertKey", S, TypeOf(S))
<1>1. ASSUME NEW x \in S
      PROVE  Becomes(Convert("convertKey", parseLossless(x)), x, TypeOf(S))
  <2>1. x \in {"key", "null", "absent"} /\ x \in Literals
    BY KeySorts DEF Literals
  <2>2. CASE x = "key"
    <3>1. Convert("convertKey", parseLossless(x)) = Value("object", "key")
      BY <2>1, <2>2, Others, Nones, Parsed
    <3> QED
      BY <2>2, <3>1, KeySorts DEF Becomes, Value, Throws, MirrorAmount
  <2>3. CASE x # "key"
    <3>1. Convert("convertKey", parseLossless(x)) = Undef
      BY <2>1, <2>3, Others, Nones
    <3>2. "undefined" \in TypeOf(S)
      BY <2>3, KeySorts
    <3> QED
      BY <2>1, <2>3, <3>1, <3>2 DEF Becomes, Value, Throws, MirrorAmount, Undef
  <2> QED
    BY <2>2, <2>3
<1> QED
  BY <1>1, KeySorts DEF Suits

(* What a field that is not there becomes.                                 *)
Instead(how) == IF how = "orNull" THEN Value("null", "null")
                ELSE IF how = "orFalse" THEN Value("boolean", "flag")
                ELSE IF how = "orZero" THEN Value("number", "small")
                ELSE IF how = "orBlank" THEN Value("string", "text")
                ELSE IF how = "orEmpty" THEN Value("array", "list")
                ELSE Undef
Filling == {"orUndefined", "orNull", "orFalse", "orZero", "orBlank", "orEmpty"}
LEMMA SuitsFilled ==
    ASSUME NEW how \in Filling, NEW S, Safe(S), NEW T,
           \A x \in S \ {"null", "absent"} : JsOf(x) \in T,
           Instead(how).js \in T \/ S \cap {"null", "absent"} = {}
    PROVE  Suits(how, S, T)
<1>1. ASSUME NEW x \in S
      PROVE  Becomes(Convert(how, parseLossless(x)), x, T)
  <2>1. x \in Literals
    BY DEF Safe, Sort
  <2>2. Convert(how, parseLossless(x)) =
           IF x \in {"null", "absent"} THEN Instead(how) ELSE parseLossless(x)
    BY <2>1, Others, Nones DEF Filling, Instead
  <2>3. CASE x \in {"null", "absent"}
    BY <2>2, <2>3 DEF Becomes, Value, Throws, MirrorAmount, Undef, Instead
  <2>4. CASE x \notin {"null", "absent"}
    BY <2>1, <2>2, <2>4, ParsedKeeps DEF Becomes
  <2> QED
    BY <2>3, <2>4
<1> QED
  BY <1>1 DEF Suits, Safe

(* The fields at the top of a table, and those beneath one of them.        *)
LEMMA FieldsTop ==
    ASSUME NEW n, NEW names, NEW S
    PROVE  /\ <<n>> \in DOMAIN Fields(names, S) <=> n \in names
           /\ n \in names => Fields(names, S)[<<n>>] = S
BY FieldsAt, PathOne

LEMMA InsideTop ==
    ASSUME NEW n, NEW m, NEW t, Table(t)
    PROVE  <<n>> \notin DOMAIN Inside(m, t)
<1>1. <<>> \notin DOMAIN t
  BY DEF Table, Deep
<1>2. Path(n, <<>>) = <<n>> /\ IsPath(<<>>)
  BY PathOne
<1> QED
  BY <1>1, <1>2, InsideAt

LEMMA NestedTop ==
    ASSUME NEW n, NEW m, NEW S, NEW t, Table(t)
    PROVE  /\ <<n>> \in DOMAIN Nested(m, S, t) <=> n = m
           /\ n = m => Nested(m, S, t)[<<n>>] = S
<1>1. Path(n, <<>>) = <<n>> /\ IsPath(<<>>)
  BY PathOne
<1> QED
  BY <1>1, NestedAt

LEMMA NamedTop ==
    ASSUME NEW n, NEW names
    PROVE  <<n>> \in Named(names) <=> n \in names
BY NamedAt, PathOne

LEMMA FractionTop ==
    ASSUME NEW P, NEW n
    PROVE  /\ <<n>> \in DOMAIN FractionOf(P) <=> <<n>> \in DOMAIN P
           /\ <<n>> \in DOMAIN P => FractionOf(P)[<<n>>] = P[<<n>>]
<1>1. Len(<<>>) # 1
  OBVIOUS
<1>2. Path(n, <<>>) = <<n>> /\ IsPath(<<>>)
  BY PathOne
<1> QED
  BY <1>1, <1>2, FractionAt

(* Beneath the top.                                                        *)
LEMMA FieldsDeep ==
    ASSUME NEW n, NEW g, Deep(g), NEW names, NEW S
    PROVE  Path(n, g) \notin DOMAIN Fields(names, S)
BY FieldsAt DEF Deep

LEMMA InsideDeep ==
    ASSUME NEW n, NEW g, Deep(g), NEW m, NEW t, Table(t)
    PROVE  /\ Path(n, g) \in DOMAIN Inside(m, t) <=> n = m /\ g \in DOMAIN t
           /\ n = m /\ g \in DOMAIN t => Inside(m, t)[Path(n, g)] = t[g]
BY InsideAt DEF Deep

LEMMA NestedDeep ==
    ASSUME NEW n, NEW g, Deep(g), NEW m, NEW S, NEW t, Table(t)
    PROVE  /\ Path(n, g) \in DOMAIN Nested(m, S, t) <=> n = m /\ g \in DOMAIN t
           /\ n = m /\ g \in DOMAIN t => Nested(m, S, t)[Path(n, g)] = t[g]
BY NestedAt DEF Deep

LEMMA NamedDeep ==
    ASSUME NEW n, NEW g, Deep(g), NEW names
    PROVE  Path(n, g) \notin Named(names)
BY NamedAt DEF Deep

(* A table without objects.                                                *)
Flat(t) == \A f \in DOMAIN t : \E n : f = <<n>>

LEMMA FlatFields ==
    ASSUME NEW names, NEW S
    PROVE  Flat(Fields(names, S))
BY DEF Flat, Fields

LEMMA FlatOver ==
    ASSUME NEW t, NEW u, Flat(t), Flat(u)
    PROVE  Flat(t ++ u)
BY OverDomain DEF Flat

LEMMA FlatOf ==
    ASSUME NEW t, Flat(t)
    PROVE  /\ Flat(Same(t)) /\ Flat(AsWire(t))
           /\ \A names : Flat(NeverNull(names, t)) /\ Flat(Always(names, t))
           /\ \A names, T : Flat(Have(names, T, t))
BY DEF Flat, Same, AsWire, NeverNull, Always, Have

LEMMA FitsFlat ==
    ASSUME NEW c, NEW w, NEW p, Flat(c), Flat(w), Flat(p), \A n : Fit(c, w, p, <<n>>)
    PROVE  Fits(c, w, p)
<1>1. \A n : Deep(<<n>>)
  BY PathOne, PathParts
<1>2. Table(c) /\ Table(w) /\ Table(p)
  BY <1>1 DEF Flat, Table
<1>3. ASSUME NEW f, Deep(f)
      PROVE  Fit(c, w, p, f) /\ Held(c, w, p, f)
  <2>1. CASE \E n : f = <<n>>
    <3>1. PICK n : f = <<n>>
      BY <2>1
    <3>2. Holders(Path(n, <<>>)) = {} /\ Path(n, <<>>) = <<n>>
      BY HoldersAt, PathOne
    <3> QED
      BY <3>1, <3>2 DEF Held
  <2>2. CASE ~\E n : f = <<n>>
    BY <2>2 DEF Flat, Fit, Held
  <2> QED
    BY <2>1, <2>2
<1> QED
  BY <1>2, <1>3 DEF Fits

LEMMA FitsDeep ==
    ASSUME NEW c, NEW w, NEW p, Table(c), Table(w), Table(p), \A n : Fit(c, w, p, <<n>>),
           \A n, g : Deep(g) => Fit(c, w, p, Path(n, g)) /\ Held(c, w, p, Path(n, g))
    PROVE  Fits(c, w, p)
<1>1. ASSUME NEW n, NEW g, IsPath(g)
      PROVE  Fit(c, w, p, Path(n, g)) /\ Held(c, w, p, Path(n, g))
  <2>1. CASE g = <<>>
    <3>1. Holders(Path(n, <<>>)) = {} /\ Path(n, <<>>) = <<n>>
      BY HoldersAt, PathOne
    <3> QED
      BY <2>1, <3>1 DEF Held
  <2>2. CASE g # <<>>
    BY <1>1, <2>2 DEF Deep
  <2> QED
    BY <2>1, <2>2
<1> QED
  BY <1>1, FitsBy

(* Fields that may be left out.                                            *)
Gap(S) == Safe(S) /\ "absent" \in S

LEMMA GapSorts ==
    ASSUME NEW S \in Bases
    PROVE  Gap(Optional(S)) /\ Gap(Maybe(S))
BY SafeSorts DEF Gap, Optional, Maybe

LEMMA SafeTypes ==
    ASSUME NEW S, Safe(S)
    PROVE  TypeOf(S) = {JsOf(x) : x \in S}
BY DEF Safe, TypeOf, IsAmount

LEMMA SuitsUndefined ==
    ASSUME NEW S, Gap(S)
    PROVE  Suits("orUndefined", S, Less(TypeOf(S))) /\ Suits("orUndefined", S, TypeOf(S))
<1>1. Safe(S) /\ "absent" \in S /\ TypeOf(S) = {JsOf(x) : x \in S}
  BY SafeTypes DEF Gap
<1>2. \A x \in S \ {"null", "absent"} : JsOf(x) \in TypeOf(S) /\ JsOf(x) # "null"
  BY <1>1, JsAre DEF Safe, Sort, Literals
<1>3. "undefined" \in TypeOf(S)
  BY <1>1, JsAre
<1>4. Suits("orUndefined", S, TypeOf(S) \ {"null"})
  BY <1>1, <1>2, <1>3, SuitsFilled DEF Filling, Instead, Undef, Value
<1> QED
  BY <1>4, SuitsMore DEF Less

(* How one field is made of one of the wire: an amount, a key, one that    *)
(* may be left out, one of its own, any other as it is.                    *)
Entry(how, S, T) ==
    \/ S \in Amounts /\ how = "amountString" /\ T = TypeOf(S)
    \/ S \in Keyed /\ how = "convertKey" /\ T = TypeOf(S)
    \/ Gap(S) /\ how = "orUndefined" /\ T \in {TypeOf(S), Less(TypeOf(S))}
    \/ Safe(S) /\ how = "same" /\ T = TypeOf(S)
    \/ Sort(S) /\ Suits(how, S, T)
Entries(c, w, p, n) ==
    /\ <<n>> \in DOMAIN c <=> <<n>> \in DOMAIN p
    /\ <<n>> \in DOMAIN c => <<n>> \in DOMAIN w /\ Entry(c[<<n>>], w[<<n>>], p[<<n>>])
    /\ <<n>> \in DOMAIN w => <<n>> \in DOMAIN c \/ Sort(w[<<n>>])
LEMMA EntrySuits ==
    ASSUME NEW how, NEW S, NEW T, Entry(how, S, T)
    PROVE  Sort(S) /\ Suits(how, S, T)
<1>1. CASE S \in Amounts /\ how = "amountString" /\ T = TypeOf(S)
  BY <1>1, SuitsString, AmountSorts
<1>2. CASE S \in Keyed /\ how = "convertKey" /\ T = TypeOf(S)
  BY <1>2, SuitsKey, KeySorts
<1>3. CASE Gap(S) /\ how = "orUndefined" /\ T \in {TypeOf(S), Less(TypeOf(S))}
  BY <1>3, SuitsUndefined DEF Gap, Safe
<1>4. CASE Safe(S) /\ how = "same" /\ T = TypeOf(S)
  BY <1>4, SafeSame DEF Safe
<1> QED
  BY <1>1, <1>2, <1>3, <1>4 DEF Entry

LEMMA EntryFit ==
    ASSUME NEW c, NEW w, NEW p, NEW n, Entries(c, w, p, n)
    PROVE  Fit(c, w, p, <<n>>)
BY EntrySuits DEF Entries, Fit

(* Amounts that are promised as numbers.                                   *)
LEMMA SuitsGas ==
    /\ Sort(MirrorAmount) /\ Suits("amountNumber", MirrorAmount, {"number"})
    /\ Sort(Nullable(MirrorAmount)) /\ Suits("amountNumber", Nullable(MirrorAmount), {"number", "null"})
    /\ Sort(Maybe(MirrorAmount))
    /\ Suits("amountNumber", Maybe(MirrorAmount), {"number", "null", "undefined"})
    /\ Suits("amountNumber", Nullable(MirrorAmount), {"number", "null", "undefined"})
<1>1. /\ MirrorAmount \in Amounts /\ Nullable(MirrorAmount) \in Amounts
      /\ Maybe(MirrorAmount) \in Amounts
      /\ MirrorAmount \cap {"null", "absent"} = {} /\ "absent" \notin Nullable(MirrorAmount)
  BY DEF Amounts, MirrorAmount, Nullable
<1> QED
  BY <1>1, AmountSorts, SuitsNumber

LEMMA SafeSort ==
    ASSUME NEW S, Safe(S)
    PROVE  Sort(S)
BY DEF Safe

LEMMA OtherSorts ==
    /\ Safe({"quoted"}) /\ Safe({"small", "fraction"}) /\ Sort(Maybe({"small", "safe", "large", "text"}))
BY DEF Safe, Sort, IsAmount, MirrorAmount, Literals, Plain, Maybe
(* Fields that are filled in, and those with a converter of their own.     *)
LEMMA FillingSuits ==
    /\ Sort(Maybe(Count)) /\ Sort(Maybe(Text)) /\ Sort(Optional(Flag)) /\ Sort(Text)
    /\ Sort(List) /\ Sort(Optional(List)) /\ Sort(Maybe(Object))
    /\ Suits("orZero", Maybe(Count), Less(TypeOf(Maybe(Count))))
    /\ Suits("orNull", Maybe(Text), {"string", "null"})
    /\ Suits("orFalse", Optional(Flag), Sure(TypeOf(Optional(Flag))))
    /\ Suits("orBlank", Text, TypeOf(Text))
    /\ Suits("orEmpty", List, TypeOf(List))
    /\ Suits("orEmpty", List, {"array"})
    /\ Suits("orEmpty", Optional(List), Sure(TypeOf(Optional(List))))
    /\ Suits("orUndefined", Maybe(Object), Less(TypeOf(Maybe(Object))))
<1>1. \A S \in Bases : /\ Safe(S) /\ Safe(Optional(S)) /\ Safe(Maybe(S))
  BY SafeSorts
<1>2. /\ TypeOf(Maybe(Count)) \ {"null"} = {"number", "undefined"}
      /\ TypeOf(Optional(Flag)) \ {"null", "undefined"} = {"boolean"}
      /\ TypeOf(Text) = {"string"} /\ TypeOf(List) = {"array"}
      /\ TypeOf(Optional(List)) \ {"null", "undefined"} = {"array"}
      /\ TypeOf(Maybe(Object)) \ {"null"} = {"object", "undefined"}
  BY <1>1, SafeTypes, JsAre DEF Bases, Maybe, Optional, Count, Flag, Text, List, Object
<1>3. /\ Instead("orZero").js = "number" /\ Instead("orNull").js = "null"
      /\ Instead("orFalse").js = "boolean" /\ Instead("orBlank").js = "string"
      /\ Instead("orEmpty").js = "array" /\ Instead("orUndefined").js = "undefined"
  BY DEF Instead, Value, Undef
<1>4. \A how \in Filling : \A S \in Bases : \A T :
         (\A x \in S : JsOf(x) \in T) /\ Instead(how).js \in T
            => Suits(how, S, T) /\ Suits(how, Optional(S), T) /\ Suits(how, Maybe(S), T)
  BY <1>1, SuitsFilled DEF Optional, Maybe
<1>5. /\ Count \in Bases /\ Text \in Bases /\ Flag \in Bases /\ List \in Bases /\ Object \in Bases
      /\ "orZero" \in Filling /\ "orNull" \in Filling /\ "orFalse" \in Filling
      /\ "orBlank" \in Filling /\ "orEmpty" \in Filling /\ "orUndefined" \in Filling
  BY DEF Bases, Filling
<1>6. /\ \A x \in Count : JsOf(x) = "number"
      /\ \A x \in Text : JsOf(x) = "string"
      /\ \A x \in Flag : JsOf(x) = "boolean"
      /\ \A x \in List : JsOf(x) = "array"
      /\ \A x \in Object : JsOf(x) = "object"
  BY JsAre DEF Count, Text, Flag, List, Object
<1> QED
  BY <1>1, <1>2, <1>3, <1>4, <1>5, <1>6, SafeSort DEF Less, Sure
LEMMA SpecialSuits ==
    /\ Suits("String", Count, {"string"})
    /\ Suits("parseInt", {"quoted"}, {"number"})
    /\ Suits("list", Optional(Object), {"array"})
    /\ Suits("normalizeTokenExpiry", Maybe({"small", "safe", "large", "text"}), {"string", "undefined"})
    /\ Suits("same", MaybeKey, {"object", "null", "undefined"})
    /\ Suits("same", Maybe(Text), {"string", "null", "undefined"})
<1>1. ~IsAmount(Count) /\ ~IsAmount({"quoted"}) /\ ~IsAmount(Optional(Object))
      /\ ~IsAmount(Maybe({"small", "safe", "large", "text"})) /\ ~IsAmount(MaybeKey)
  BY DEF IsAmount, MirrorAmount, Count, Optional, Object, Maybe, MaybeKey, Key
<1>2. Suits("String", Count, {"string"})
  BY <1>1, Others, Parsed DEF Suits, Becomes, Count, Value, Throws
<1>3. Suits("parseInt", {"quoted"}, {"number"})
  BY <1>1, Others, Parsed DEF Suits, Becomes, Value, Throws
<1>4. Suits("list", Optional(Object), {"array"})
  BY <1>1, Others DEF Suits, Becomes, Optional, Object, Value, Throws, MirrorAmount
<1>5. Suits("normalizeTokenExpiry", Maybe({"small", "safe", "large", "text"}), {"string", "undefined"})
  <2>1. \A v : Convert("normalizeTokenExpiry", v) = normalizeTokenExpiry(v)
    BY DEF Convert
  <2>2. /\ normalizeTokenExpiry(Value("number", "small")) = Value("string", "small")
        /\ normalizeTokenExpiry(Value("string", "safe")) = Value("string", "safe")
        /\ normalizeTokenExpiry(Value("string", "large")) = Value("string", "large")
        /\ normalizeTokenExpiry(Value("string", "text")) = Value("string", "text")
        /\ normalizeTokenExpiry(Value("null", "null")) = Undef
        /\ normalizeTokenExpiry(Value("undefined", "absent")) = Undef
    BY DEF normalizeTokenExpiry, None, isSafeInteger, Value
  <2>3. ASSUME NEW x \in {"small", "safe", "large", "text", "null", "absent"}
        PROVE  Becomes(Convert("normalizeTokenExpiry", parseLossless(x)), x, {"string", "undefined"})
    BY <2>1, <2>2, Parsed DEF Becomes, Value, Throws, Undef, MirrorAmount
  <2> QED
    BY <1>1, <2>3 DEF Suits, Maybe
<1>6. Suits("same", MaybeKey, {"object", "null", "undefined"})
  BY <1>1, Others, Parsed DEF Suits, Becomes, MaybeKey, Maybe, Key, Value, Throws, MirrorAmount
<1>7. Suits("same", Maybe(Text), {"string", "null", "undefined"})
  <2>1. Safe(Maybe(Text))
    BY SafeSorts DEF Bases
  <2>2. TypeOf(Maybe(Text)) \subseteq {"string", "null", "undefined"}
    BY <2>1, SafeTypes, JsAre DEF Maybe, Text
  <2> QED
    BY <2>1, <2>2, SafeSame, SuitsMore
<1> QED
  BY <1>2, <1>3, <1>4, <1>5, <1>6, <1>7

LEMMA AbsentSuits ==
    /\ Suits("same", {"absent"}, {"string", "null", "undefined"})
    /\ Suits("amountString", {"absent"}, {"undefined"})
    /\ Suits("orEmpty", {"absent"}, {"array"})
    /\ Suits("balanceOrZero", {"absent"}, {"string"})
<1>1. ~IsAmount({"absent"})
  BY DEF IsAmount, MirrorAmount
<1>2. Convert("amountString", Value("undefined", "absent")) = Value("undefined", "absent")
  BY StringOf DEF Convert
<1> QED
  BY <1>1, <1>2, Others, Parsed, SuitsBalance DEF Suits, Becomes, None, Value, Throws, MirrorAmount

(* What becomes of the objects and lists that hold fields.                 *)
LEMMA HoldersKept ==
    /\ \A S \in {Object, List} : /\ Keeps("same", S) /\ Keeps("same", Optional(S))
                                 /\ Keeps("same", Nullable(S)) /\ Keeps("same", Maybe(S))
    /\ Keeps("orEmpty", List) /\ Keeps("orEmpty", Optional(List))
    /\ Keeps("orUndefined", Maybe(Object)) /\ Keeps("list", Optional(Object))
<1>1. \A v : v.js \in {"array", "object"} => ~None(v)
  BY DEF None
<1> QED
  BY <1>1, Others, Parsed DEF Keeps, Object, List, Optional, Nullable, Maybe, Value, None, Undef

(* What a table holds beneath one of its names: nothing, or another table. *)
Bare(t, n) == \A g : Deep(g) => Path(n, g) \notin DOMAIN t
Nests(t, n, u) == \A h : Deep(h) => AgreeAt(t, n, u, h)

(* From its top and what lies beneath its names a table fits.              *)
LEMMA FitsNested ==
    ASSUME NEW c, NEW w, NEW p, Table(c), Table(w), Table(p), \A n : Entries(c, w, p, n),
           \A n : \/ Bare(c, n) /\ Bare(w, n) /\ Bare(p, n)
                  \/ \E d, v, o : /\ Fits(d, v, o) /\ Opens(c, w, n, d, o)
                                  /\ Nests(c, n, d) /\ Nests(w, n, v) /\ Nests(p, n, o)
    PROVE  Fits(c, w, p)
<1>1. \A n : Fit(c, w, p, <<n>>)
  BY EntryFit
<1>2. ASSUME NEW n, NEW g, Deep(g)
      PROVE  Fit(c, w, p, Path(n, g)) /\ Held(c, w, p, Path(n, g))
  <2>1. CASE Bare(c, n) /\ Bare(w, n) /\ Bare(p, n)
    BY <1>2, <2>1 DEF Bare, Fit, Held
  <2>2. CASE \E d, v, o : /\ Fits(d, v, o) /\ Opens(c, w, n, d, o)
                          /\ Nests(c, n, d) /\ Nests(w, n, v) /\ Nests(p, n, o)
    <3>1. PICK d, v, o : /\ Fits(d, v, o) /\ Opens(c, w, n, d, o)
                         /\ Nests(c, n, d) /\ Nests(w, n, v) /\ Nests(p, n, o)
      BY <2>2
    <3> QED
      BY <1>2, <3>1, Beneath DEF Nests
  <2> QED
    BY <2>1, <2>2
<1> QED
  BY <1>1, <1>2, FitsDeep

(* What a hidden object holds, when it is left out.                        *)
Lasts(d, o, m) ==
    /\ <<m>> \in DOMAIN d => Suits(d[<<m>>], {"absent"}, o[<<m>>])
    /\ \A g : Deep(g) /\ Path(m, g) \in DOMAIN d => <<m>> \in DOMAIN d
LEMMA OpensHidden ==
    ASSUME NEW c, NEW w, NEW n, NEW d, NEW o, Table(d), <<n>> \in DOMAIN w,
           <<n>> \notin DOMAIN c, \A m : Lasts(d, o, m)
    PROVE  Opens(c, w, n, d, o)
<1>1. ASSUME NEW h \in DOMAIN d
      PROVE  Suits(d[h], {"absent"}, o[h]) \/ Holders(h) \cap DOMAIN d # {}
  <2>1. PICK m, g : IsPath(g) /\ h = Path(m, g)
    BY PathMade DEF Table
  <2>2. CASE g = <<>>
    BY <2>1, <2>2, PathOne DEF Lasts
  <2>3. CASE g # <<>>
    <3>1. <<m>> \in DOMAIN d
      BY <2>1, <2>3 DEF Lasts, Deep
    <3>2. <<m>> \in Holders(h)
      BY <2>1, <2>3, HoldersAt, PathOne
    <3> QED
      BY <3>1, <3>2
  <2> QED
    BY <2>2, <2>3
<1> QED
  BY <1>1 DEF Opens

LEMMA SameText == Sort(Text) /\ Suits("same", Text, {"string"})
<1>1. Safe(Text) /\ TypeOf(Text) = {"string"}
  BY SafeSorts, SafeTypes, JsAre DEF Bases, Text
<1> QED
  BY <1>1, SafeSame, SafeSort

LEMMA SameAbsent ==
    ASSUME NEW T, "undefined" \in T
    PROVE  Suits("same", {"absent"}, T) /\ Suits("amountString", {"absent"}, T)
<1>1. Suits("same", {"absent"}, {"undefined"})
  <2>1. ~IsAmount({"absent"})
    BY DEF IsAmount, MirrorAmount
  <2> QED
    BY <2>1, Others, Parsed DEF Suits, Becomes, Value, Throws, MirrorAmount
<1> QED
  BY <1>1, AbsentSuits, SuitsMore

(* Tables without objects.                                                 *)
LEMMA NftFits == Fits(convertNft, MirrorNft, Nft)
<1>1. ASSUME NEW n
      PROVE  Entries(convertNft, MirrorNft, Nft, n)
  BY FieldsTop, OverDomain, OverAt, SameAt, AsWireAt, SafeSorts, NeverNullAt, NamedTop, GapSorts
  DEF Entries, Entry, convertNft, MirrorNft, Nft, To, Bases
<1> QED
  BY <1>1, EntryFit, FitsFlat, FlatFields, FlatOver, FlatOf
  DEF convertNft, MirrorNft, Nft, To

LEMMA TokenHolderFits == Fits(convertTokenHolder, MirrorTokenHolderBalance, TokenHolder)
<1>1. ASSUME NEW n
      PROVE  Entries(convertTokenHolder, MirrorTokenHolderBalance, TokenHolder, n)
  BY FieldsTop, OverDomain, OverAt, SameAt, AsWireAt, SafeSorts, NeverNullAt, NamedTop, GapSorts
  DEF Entries, Entry, convertTokenHolder, MirrorTokenHolderBalance, TokenHolder, Amount, To,
      Bases, Amounts
<1> QED
  BY <1>1, EntryFit, FitsFlat, FlatFields, FlatOver, FlatOf
  DEF convertTokenHolder, MirrorTokenHolderBalance, TokenHolder, Amount, To

LEMMA AccountTokenBalanceFits == Fits(convertAccountTokenBalance,
                                      MirrorAccountTokenBalance,
                                      TokenBalance)
<1>1. ASSUME NEW n
      PROVE  Entries(convertAccountTokenBalance, MirrorAccountTokenBalance, TokenBalance, n)
  BY FieldsTop, OverDomain, OverAt, SameAt, AsWireAt, SafeSorts, NeverNullAt, NamedTop, GapSorts,
     FillingSuits
  DEF Entries, Entry, convertAccountTokenBalance, MirrorAccountTokenBalance, MirrorTokenBalance,
      TokenBalance, Amount, To, Bases, Amounts
<1> QED
  BY <1>1, EntryFit, FitsFlat, FlatFields, FlatOver, FlatOf
  DEF convertAccountTokenBalance, MirrorAccountTokenBalance, MirrorTokenBalance, TokenBalance,
      Amount, To

LEMMA TokenSummaryFits == Fits(convertTokenSummary, MirrorTokenListRow, TokenSummary)
<1>1. ASSUME NEW n
      PROVE  Entries(convertTokenSummary, MirrorTokenListRow, TokenSummary, n)
  BY FieldsTop, OverDomain, OverAt, SameAt, AsWireAt, SafeSorts
  DEF Entries, Entry, convertTokenSummary, MirrorTokenListRow, TokenSummary, To, Bases, Keyed
<1> QED
  BY <1>1, EntryFit, FitsFlat, FlatFields, FlatOver, FlatOf
  DEF convertTokenSummary, MirrorTokenListRow, TokenSummary, To

LEMMA StakingRewardFits == Fits(convertStakingReward, MirrorStakingReward, StakingReward)
<1>1. ASSUME NEW n
      PROVE  Entries(convertStakingReward, MirrorStakingReward, StakingReward, n)
  BY FieldsTop, OverDomain, OverAt, SameAt, AsWireAt, SafeSorts
  DEF Entries, Entry, convertStakingReward, MirrorStakingReward, StakingReward, Amount, To,
      Bases, Amounts
<1> QED
  BY <1>1, EntryFit, FitsFlat, FlatFields, FlatOver, FlatOf
  DEF convertStakingReward, MirrorStakingReward, StakingReward, Amount, To

LEMMA AirdropFits == Fits(convertAirdrop, MirrorAirdrop, Airdrop)
<1>1. ASSUME NEW n
      PROVE  Entries(convertAirdrop, MirrorAirdrop, Airdrop, n)
  BY FieldsTop, OverDomain, OverAt, SameAt, AsWireAt, SafeSorts
  DEF Entries, Entry, convertAirdrop, MirrorAirdrop, Airdrop, Amount, To, Bases, Amounts
<1> QED
  BY <1>1, EntryFit, FitsFlat, FlatFields, FlatOver, FlatOf
  DEF convertAirdrop, MirrorAirdrop, Airdrop, Amount, To

LEMMA HookFits == Fits(convertHook, MirrorHook, Hook)
<1>1. ASSUME NEW n
      PROVE  Entries(convertHook, MirrorHook, Hook, n)
  BY FieldsTop, OverDomain, OverAt, SameAt, AsWireAt, SafeSorts
  DEF Entries, Entry, convertHook, MirrorHook, Hook, Amount, To, Bases, Amounts, Keyed, MaybeKey
<1> QED
  BY <1>1, EntryFit, FitsFlat, FlatFields, FlatOver, FlatOf
  DEF convertHook, MirrorHook, Hook, Amount, To

LEMMA HookStorageSlotFits == Fits(convertHookStorageSlot,
                                  MirrorHookStorageSlot,
                                  HookStorageSlot)
<1>1. ASSUME NEW n
      PROVE  Entries(convertHookStorageSlot, MirrorHookStorageSlot, HookStorageSlot, n)
  BY FieldsTop, OverDomain, OverAt, SameAt, AsWireAt, SafeSorts
  DEF Entries, Entry, convertHookStorageSlot, MirrorHookStorageSlot, HookStorageSlot, Bases
<1> QED
  BY <1>1, EntryFit, FitsFlat, FlatFields, FlatOver, FlatOf
  DEF convertHookStorageSlot, MirrorHookStorageSlot, HookStorageSlot

LEMMA CryptoAllowanceFits == Fits(convertCryptoAllowance,
                                  MirrorCryptoAllowance,
                                  CryptoAllowance)
<1>1. ASSUME NEW n
      PROVE  Entries(convertCryptoAllowance, MirrorCryptoAllowance, CryptoAllowance, n)
  BY FieldsTop, OverDomain, OverAt, SameAt, AsWireAt, SafeSorts
  DEF Entries, Entry, convertCryptoAllowance, MirrorCryptoAllowance, CryptoAllowance, Amount, To,
      Bases, Amounts
<1> QED
  BY <1>1, EntryFit, FitsFlat, FlatFields, FlatOver, FlatOf
  DEF convertCryptoAllowance, MirrorCryptoAllowance, CryptoAllowance, Amount, To

LEMMA TokenAllowanceFits == Fits(convertTokenAllowance, MirrorTokenAllowance, TokenAllowance)
<1>1. ASSUME NEW n
      PROVE  Entries(convertTokenAllowance, MirrorTokenAllowance, TokenAllowance, n)
  BY FieldsTop, OverDomain, OverAt, SameAt, AsWireAt, SafeSorts
  DEF Entries, Entry, convertTokenAllowance, convertCryptoAllowance, MirrorTokenAllowance,
      MirrorCryptoAllowance, TokenAllowance, Amount, To, Bases, Amounts
<1> QED
  BY <1>1, EntryFit, FitsFlat, FlatFields, FlatOver, FlatOf
  DEF convertTokenAllowance, convertCryptoAllowance, MirrorTokenAllowance, MirrorCryptoAllowance,
      TokenAllowance, Amount, To

LEMMA NftAllowanceFits == Fits(convertNftAllowance, MirrorNftAllowance, NftAllowance)
<1>1. ASSUME NEW n
      PROVE  Entries(convertNftAllowance, MirrorNftAllowance, NftAllowance, n)
  BY FieldsTop, OverDomain, OverAt, SameAt, AsWireAt, SafeSorts
  DEF Entries, Entry, convertNftAllowance, MirrorNftAllowance, NftAllowance, Bases
<1> QED
  BY <1>1, EntryFit, FitsFlat, FlatFields, FlatOver, FlatOf
  DEF convertNftAllowance, MirrorNftAllowance, NftAllowance

LEMMA NftTransactionFits == Fits(convertNftTransaction, MirrorNftTransaction, NftTransaction)
<1>1. ASSUME NEW n
      PROVE  Entries(convertNftTransaction, MirrorNftTransaction, NftTransaction, n)
  BY FieldsTop, OverDomain, OverAt, SameAt, AsWireAt, SafeSorts
  DEF Entries, Entry, convertNftTransaction, MirrorNftTransaction, NftTransaction, Bases
<1> QED
  BY <1>1, EntryFit, FitsFlat, FlatFields, FlatOver, FlatOf
  DEF convertNftTransaction, MirrorNftTransaction, NftTransaction

LEMMA NetworkSuppliesFits == Fits(Same(MirrorNetworkSupplyResponse),
                                  MirrorNetworkSupplyResponse,
                                  NetworkSupplies)
<1>1. ASSUME NEW n
      PROVE  Entries(Same(MirrorNetworkSupplyResponse),
                     MirrorNetworkSupplyResponse,
                     NetworkSupplies,
                     n)
  BY FieldsTop, OverDomain, OverAt, SameAt, AsWireAt, SafeSorts, OtherSorts
  DEF Entries, Entry, MirrorNetworkSupplyResponse, NetworkSupplies, Bases
<1> QED
  BY <1>1, EntryFit, FitsFlat, FlatFields, FlatOver, FlatOf
  DEF MirrorNetworkSupplyResponse, NetworkSupplies

LEMMA NetworkStakeFits == Fits(convertNetworkStake, MirrorNetworkStakeResponse, NetworkStake)
<1>1. ASSUME NEW n
      PROVE  Entries(convertNetworkStake, MirrorNetworkStakeResponse, NetworkStake, n)
  BY FieldsTop, OverDomain, OverAt, SameAt, AsWireAt, SafeSorts, OtherSorts
  DEF Entries, Entry, convertNetworkStake, MirrorNetworkStakeResponse, NetworkStake, Amount, To,
      Bases, Amounts
<1> QED
  BY <1>1, EntryFit, FitsFlat, FlatFields, FlatOver, FlatOf
  DEF convertNetworkStake, MirrorNetworkStakeResponse, NetworkStake, Amount, To

LEMMA BlockFits == Fits(convertBlock, MirrorBlock, Block)
<1>1. ASSUME NEW n
      PROVE  Entries(convertBlock, MirrorBlock, Block, n)
  BY FieldsTop, OverDomain, OverAt, SameAt, AsWireAt, SafeSorts, HaveAt, NamedTop, SuitsGas
  DEF Entries, Entry, convertBlock, MirrorBlock, Block, Gas, To, Bases
<1> QED
  BY <1>1, EntryFit, FitsFlat, FlatFields, FlatOver, FlatOf
  DEF convertBlock, MirrorBlock, Block, Gas, To

LEMMA ContractEntries ==
    ASSUME NEW n
    PROVE  Entries(convertContract, MirrorContractRaw, MirrorContract, n)
<1> DEFINE sorts == {Text, Nullable(Text), Nullable(Count), Flag, Nullable(Flag), Period}
<1>1. /\ <<n>> \in DOMAIN MirrorContractRaw /\ n \notin {"admin_key", "proxy_account_id"} =>
            MirrorContractRaw[<<n>>] \in sorts
      /\ n = "admin_key" =>
            <<n>> \in DOMAIN MirrorContractRaw /\ MirrorContractRaw[<<n>>] = MaybeKey
      /\ n = "proxy_account_id" =>
            <<n>> \in DOMAIN MirrorContractRaw /\ MirrorContractRaw[<<n>>] = Maybe(Text)
  BY FieldsTop, OverDomain, OverAt DEF MirrorContractRaw
<1>2. /\ <<n>> \in DOMAIN convertContract <=> <<n>> \in DOMAIN MirrorContractRaw
      /\ <<n>> \in DOMAIN MirrorContractRaw /\ n \notin {"admin_key", "proxy_account_id"} =>
            convertContract[<<n>>] = "same"
      /\ n = "admin_key" => convertContract[<<n>>] = "convertKey"
      /\ n = "proxy_account_id" => convertContract[<<n>>] = "orNull"
  BY <1>1, FieldsTop, OverDomain, OverAt, SameAt DEF convertContract, To
<1>3. /\ <<n>> \in DOMAIN MirrorContract <=> <<n>> \in DOMAIN MirrorContractRaw
      /\ <<n>> \in DOMAIN MirrorContractRaw /\ n # "proxy_account_id" =>
            MirrorContract[<<n>>] = TypeOf(MirrorContractRaw[<<n>>])
      /\ n = "proxy_account_id" => MirrorContract[<<n>>] = {"string", "null"}
  BY <1>1, AsWireAt, HaveAt, NamedTop DEF MirrorContract
<1>4. /\ \A S \in sorts : Entry("same", S, TypeOf(S))
      /\ Entry("convertKey", MaybeKey, TypeOf(MaybeKey))
      /\ Entry("orNull", Maybe(Text), {"string", "null"})
  BY SafeSorts, FillingSuits DEF Entry, Bases, Keyed, MaybeKey
<1> QED
  BY <1>1, <1>2, <1>3, <1>4 DEF Entries

LEMMA ContractFits == Fits(convertContract, MirrorContractRaw, MirrorContract)
BY ContractEntries, EntryFit, FitsFlat, FlatFields, FlatOver, FlatOf
DEF convertContract, MirrorContractRaw, MirrorContract, To

LEMMA ContractDetailFits ==
    Fits(convertContractDetail, MirrorContractResponse, MirrorContractDetail)
<1>1. ASSUME NEW n, <<n>> \in DOMAIN MirrorContractRaw
      PROVE  /\ <<n>> \in DOMAIN convertContract /\ <<n>> \in DOMAIN convertContractDetail
             /\ <<n>> \in DOMAIN MirrorContractResponse /\ <<n>> \in DOMAIN MirrorContractDetail
             /\ convertContractDetail[<<n>>] = convertContract[<<n>>]
             /\ MirrorContractResponse[<<n>>] = MirrorContractRaw[<<n>>]
             /\ MirrorContractDetail[<<n>>] = MirrorContract[<<n>>]
  <2>1. <<n>> \in DOMAIN convertContract
    BY <1>1, OverDomain, SameAt DEF convertContract
  <2>2. /\ <<n>> \in DOMAIN MirrorContractResponse
        /\ MirrorContractResponse[<<n>>] = MirrorContractRaw[<<n>>]
    BY <1>1, OverDomain, OverAt DEF MirrorContractResponse
  <2>3. /\ <<n>> \in DOMAIN MirrorContractDetail
        /\ MirrorContractDetail[<<n>>] = MirrorContract[<<n>>]
    BY <1>1, <2>2, HaveAt, AsWireAt DEF MirrorContractDetail, MirrorContract
  <2> QED
    BY <1>1, <2>1, <2>2, <2>3, OverDomain, OverAt DEF convertContractDetail
<1>2. ASSUME NEW n, <<n>> \notin DOMAIN MirrorContractRaw
      PROVE  Entries(convertContractDetail, MirrorContractResponse, MirrorContractDetail, n)
  <2>1. n \notin {"admin_key", "proxy_account_id"}
    BY <1>2, FieldsTop, OverDomain DEF MirrorContractRaw
  <2>2. <<n>> \notin DOMAIN convertContract
    BY <1>2, <2>1, FieldsTop, OverDomain, SameAt DEF convertContract, To
  <2> QED
    BY <1>2, <2>1, <2>2, FieldsTop, OverDomain, OverAt, SameAt, AsWireAt, SafeSorts, HaveAt,
       NamedTop
    DEF Entries, Entry, convertContractDetail, MirrorContractResponse, MirrorContractDetail, Bases
<1>3. ASSUME NEW n
      PROVE  Entries(convertContractDetail, MirrorContractResponse, MirrorContractDetail, n)
  BY <1>1, <1>2, ContractEntries DEF Entries
<1> QED
  BY <1>3, EntryFit, FitsFlat, FlatFields, FlatOver, FlatOf
  DEF convertContractDetail, convertContract, MirrorContractResponse, MirrorContractRaw,
      MirrorContractDetail, To

LEMMA ContractActionFits == Fits(convertContractAction, MirrorContractAction, ContractAction)
<1>1. ASSUME NEW n
      PROVE  Entries(convertContractAction, MirrorContractAction, ContractAction, n)
  BY FieldsTop, OverDomain, OverAt, SameAt, AsWireAt, SafeSorts, HaveAt, NamedTop, SuitsGas
  DEF Entries, Entry, convertContractAction, MirrorContractAction, ContractAction, Amount, To,
      Gas, Bases, Amounts
<1> QED
  BY <1>1, EntryFit, FitsFlat, FlatFields, FlatOver, FlatOf
  DEF convertContractAction, MirrorContractAction, ContractAction, Amount, To, Gas

LEMMA ContractStateFits == Fits(convertContractState, MirrorContractState, ContractStateEntry)
<1>1. ASSUME NEW n
      PROVE  Entries(convertContractState, MirrorContractState, ContractStateEntry, n)
  BY FieldsTop, OverDomain, OverAt, SameAt, AsWireAt, SafeSorts
  DEF Entries, Entry, convertContractState, MirrorContractState, ContractStateEntry, Bases
<1> QED
  BY <1>1, EntryFit, FitsFlat, FlatFields, FlatOver, FlatOf
  DEF convertContractState, MirrorContractState, ContractStateEntry

LEMMA ContractLogFits == Fits(convertContractLog, MirrorContractLog, ContractLog)
<1>1. ASSUME NEW n
      PROVE  Entries(convertContractLog, MirrorContractLog, ContractLog, n)
  <2>1. /\ <<n>> \in DOMAIN MirrorContractLog /\ n # "topics" =>
              MirrorContractLog[<<n>>] \in {Text, Count, Maybe(Text), Nullable(Text), Nullable(Count)}
        /\ n = "topics" =>
              <<n>> \in DOMAIN MirrorContractLog /\ MirrorContractLog[<<n>>] = List
        /\ <<n>> \in DOMAIN MirrorContractResultLog => <<n>> \in DOMAIN MirrorContractLog
    BY FieldsTop, OverDomain, OverAt DEF MirrorContractLog, MirrorContractResultLog
  <2>2. /\ <<n>> \in DOMAIN convertContractLog <=> <<n>> \in DOMAIN MirrorContractLog
        /\ n = "topics" => convertContractLog[<<n>>] = "orEmpty"
        /\ <<n>> \in DOMAIN MirrorContractLog /\ n # "topics" =>
              convertContractLog[<<n>>] = "same"
    BY <2>1, FieldsTop, OverDomain, OverAt, SameAt DEF convertContractLog, convertContractLogEntry, To
  <2>3. /\ Entry("orEmpty", List, TypeOf(List))
        /\ \A S \in {Text, Count, Maybe(Text), Nullable(Text), Nullable(Count)} :
              Entry("same", S, TypeOf(S))
    BY SafeSorts, FillingSuits DEF Entry, Bases
  <2> QED
    BY <2>1, <2>2, <2>3, AsWireAt DEF Entries, ContractLog
<1> QED
  BY <1>1, EntryFit, FitsFlat, FlatFields, FlatOver, FlatOf
  DEF convertContractLog, convertContractLogEntry, MirrorContractLog, MirrorContractResultLog,
      ContractLog, To

LEMMA ContractCallFits == Fits(Same(MirrorContractCallResponse),
                               MirrorContractCallResponse,
                               ContractCallResult)
<1>1. ASSUME NEW n
      PROVE  Entries(Same(MirrorContractCallResponse),
                     MirrorContractCallResponse,
                     ContractCallResult,
                     n)
  BY FieldsTop, OverDomain, OverAt, SameAt, AsWireAt, SafeSorts
  DEF Entries, Entry, MirrorContractCallResponse, ContractCallResult, Bases
<1> QED
  BY <1>1, EntryFit, FitsFlat, FlatFields, FlatOver, FlatOf
  DEF MirrorContractCallResponse, ContractCallResult

(* Balances: an account's tokens, then the account.                        *)
convertTokenRow == Amount({"balance"}) ++ Same(MirrorTokenBalance)

LEMMA TokenRowFits == Fits(convertTokenRow, MirrorTokenBalance, AsWire(MirrorTokenBalance))
<1>1. ASSUME NEW n
      PROVE  Entries(convertTokenRow, MirrorTokenBalance, AsWire(MirrorTokenBalance), n)
  BY FieldsTop, OverDomain, OverAt, SameAt, AsWireAt, SafeSorts
  DEF Entries, Entry, convertTokenRow, MirrorTokenBalance, Amount, To, Bases, Amounts
<1> QED
  BY <1>1, EntryFit, FitsFlat, FlatFields, FlatOver, FlatOf
  DEF convertTokenRow, MirrorTokenBalance, Amount, To

LEMMA AccountBalanceSnapshotFits ==
    Fits(convertAccountBalanceSnapshot, MirrorAccountBalanceSnapshot, AccountBalanceSnapshot)
<1>1. /\ Table(convertTokenRow) /\ Table(MirrorTokenBalance)
      /\ Table(AsWire(MirrorTokenBalance))
  BY TokenRowFits DEF Fits
<1>2. convertAccountBalanceSnapshot =
          Amount({"balance"}) ++ Nested("tokens", "orEmpty", convertTokenRow)
          ++ Same(MirrorAccountBalanceSnapshot)
  BY DEF convertAccountBalanceSnapshot, convertTokenRow
<1>3. Table(MirrorAccountBalanceSnapshot)
  BY <1>1, FieldsTable, NestedTable, OverTable DEF MirrorAccountBalanceSnapshot
<1>4. Table(convertAccountBalanceSnapshot) /\ Table(AccountBalanceSnapshot)
  BY <1>1, <1>2, <1>3, FieldsTable, NestedTable, OverTable, TablesOf
  DEF Amount, To, AccountBalanceSnapshot
<1>5. ASSUME NEW n
      PROVE  Entries(convertAccountBalanceSnapshot, MirrorAccountBalanceSnapshot,
                     AccountBalanceSnapshot, n)
  BY <1>1, <1>2, <1>3, FieldsTop, NestedTop, OverDomain, OverAt, SameAt, AsWireAt, AlwaysAt,
     NamedTop, SafeSorts, FillingSuits
  DEF Entries, Entry, Amount, To, MirrorAccountBalanceSnapshot, AccountBalanceSnapshot, Bases,
      Amounts
<1>6. Opens(convertAccountBalanceSnapshot, MirrorAccountBalanceSnapshot, "tokens",
            convertTokenRow, AsWire(MirrorTokenBalance))
  BY <1>1, <1>2, <1>3, FieldsTop, NestedTop, OverDomain, OverAt, SameAt, HoldersKept
  DEF Opens, Amount, To, MirrorAccountBalanceSnapshot
<1>7. Nests(MirrorAccountBalanceSnapshot, "tokens", MirrorTokenBalance)
  BY <1>1, FieldsDeep, NestedDeep, OverDomain, OverAt
  DEF Nests, AgreeAt, MirrorAccountBalanceSnapshot
<1>8. Nests(convertAccountBalanceSnapshot, "tokens", convertTokenRow)
  BY <1>1, <1>2, <1>3, <1>7, FieldsDeep, NestedDeep, OverDomain, OverAt, SameAt
  DEF Nests, AgreeAt, Amount, To, convertTokenRow
<1>9. Nests(AccountBalanceSnapshot, "tokens", AsWire(MirrorTokenBalance))
  BY <1>1, <1>2, <1>3, <1>7, AsWireAt, AlwaysAt, NamedDeep
  DEF Nests, AgreeAt, AccountBalanceSnapshot
<1>10. ASSUME NEW n, n # "tokens"
      PROVE  /\ Bare(convertAccountBalanceSnapshot, n)
             /\ Bare(MirrorAccountBalanceSnapshot, n)
             /\ Bare(AccountBalanceSnapshot, n)
  BY <1>1, <1>2, <1>3, <1>10, FieldsDeep, NestedDeep, OverDomain, SameAt, AsWireAt, AlwaysAt,
     NamedDeep
  DEF Bare, Amount, To, MirrorAccountBalanceSnapshot, AccountBalanceSnapshot
<1> QED
  BY <1>3, <1>4, <1>5, <1>6, <1>7, <1>8, <1>9, <1>10, TokenRowFits, FitsNested

(* What the balance of an account holds.                                   *)
convertHeldSums == To("balanceOrZero", {"balance"}) ++ To("same", {"timestamp"})

convertHeldTokens == Nested("tokens", "orEmpty", convertTokenRow)

convertHeld == convertHeldSums ++ convertHeldTokens

MirrorHeld ==
    Fields({"timestamp"}, Maybe(Text)) ++ Fields({"balance"}, MirrorAmount)
    ++ Nested("tokens", List, MirrorTokenBalance)

HeldBalance ==
    Fields({"balance"}, {"string"})
    ++ Fields({"timestamp"}, {"string", "null", "undefined"})
    ++ Nested("tokens", {"array"}, AsWire(MirrorTokenBalance))

LEMMA HeldTables ==
    /\ Table(convertTokenRow) /\ Table(AsWire(MirrorTokenBalance))
    /\ Table(convertHeldSums) /\ Table(convertHeldTokens)
<1>1. Table(convertTokenRow) /\ Table(AsWire(MirrorTokenBalance))
  BY TokenRowFits DEF Fits
<1> QED
  BY <1>1, FieldsTable, NestedTable, OverTable DEF convertHeldSums, convertHeldTokens, To

LEMMA HeldFits == Fits(convertHeld, MirrorHeld, HeldBalance)
<1>1. /\ Table(convertTokenRow) /\ Table(MirrorTokenBalance)
      /\ Table(AsWire(MirrorTokenBalance))
  BY TokenRowFits DEF Fits
<1>2. Table(MirrorHeld)
  BY <1>1, FieldsTable, NestedTable, OverTable DEF MirrorHeld
<1>3. Table(convertHeld) /\ Table(HeldBalance)
  BY <1>1, <1>2, FieldsTable, NestedTable, OverTable, TablesOf
  DEF convertHeld, convertHeldSums, To, convertHeldTokens, HeldBalance
<1>4. ASSUME NEW n
      PROVE  Entries(convertHeld, MirrorHeld, HeldBalance, n)
  BY <1>1, <1>2, FieldsTop, NestedTop, OverDomain, OverAt, AsWireAt, SafeSorts, FillingSuits,
     SpecialSuits, SafeSort, SuitsBalance, SuitsGas
  DEF Entries, Entry, convertHeld, convertHeldSums, To, convertHeldTokens, MirrorHeld,
      HeldBalance, Bases
<1>5. Opens(convertHeld, MirrorHeld, "tokens", convertTokenRow, AsWire(MirrorTokenBalance))
  BY <1>1, <1>2, FieldsTop, NestedTop, OverDomain, OverAt, HoldersKept
  DEF Opens, convertHeld, convertHeldSums, To, convertHeldTokens, MirrorHeld
<1>6. Nests(MirrorHeld, "tokens", MirrorTokenBalance)
  BY <1>1, FieldsDeep, NestedDeep, OverDomain, OverAt DEF Nests, AgreeAt, MirrorHeld
<1>7. Nests(convertHeld, "tokens", convertTokenRow)
  BY <1>1, <1>2, <1>6, FieldsDeep, NestedDeep, OverDomain, OverAt, SameAt
  DEF Nests, AgreeAt, convertHeld, convertHeldSums, To, convertHeldTokens, convertTokenRow,
      Amount
<1>8. Nests(HeldBalance, "tokens", AsWire(MirrorTokenBalance))
  BY <1>1, <1>2, <1>6, FieldsDeep, NestedDeep, OverDomain, OverAt, AsWireAt
  DEF Nests, AgreeAt, HeldBalance
<1>9. ASSUME NEW n, n # "tokens"
      PROVE  Bare(convertHeld, n) /\ Bare(MirrorHeld, n) /\ Bare(HeldBalance, n)
  BY <1>1, <1>2, <1>9, FieldsDeep, NestedDeep, OverDomain, AsWireAt
  DEF Bare, convertHeld, convertHeldSums, To, convertHeldTokens, MirrorHeld, HeldBalance
<1> QED
  BY <1>2, <1>3, <1>4, <1>5, <1>6, <1>7, <1>8, <1>9, TokenRowFits, FitsNested

LEMMA BalanceFits == Fits(convertBalance, MirrorAccountResponse, Balance)
<1>1. /\ Table(convertHeld) /\ Table(MirrorHeld) /\ Table(HeldBalance)
      /\ Table(convertHeldSums) /\ Table(convertHeldTokens)
  BY HeldFits, HeldTables DEF Fits
<1>2. /\ convertBalance =
             Inside("balance", convertHeldSums) ++ Inside("balance", convertHeldTokens)
             ++ To("same", {"account"})
      /\ Balance =
             Fields({"account"}, {"string"}) ++ Inside("balance", HeldBalance)
  BY DEF convertBalance, convertTokenBalances, convertHeldSums, convertHeldTokens,
         convertTokenRow, Balance, HeldBalance
<1>3. Table(MirrorAccountResponse)
  BY <1>1, FieldsTable, NestedTable, OverTable
  DEF MirrorAccountResponse, MirrorTokenBalance, MirrorHeld
<1>4. Table(convertBalance) /\ Table(Balance)
  BY <1>1, <1>2, <1>3, FieldsTable, InsideTable, OverTable DEF To, MirrorHeld
<1>5. ASSUME NEW n
      PROVE  Entries(convertBalance, MirrorAccountResponse, Balance, n)
  <2>1. /\ n = "account" =>
              <<n>> \in DOMAIN MirrorAccountResponse /\ MirrorAccountResponse[<<n>>] = Text
        /\ <<n>> \in DOMAIN MirrorAccountResponse =>
              MirrorAccountResponse[<<n>>] \in
                 {Text, Maybe(Text), Optional(Text), Optional(Key), Optional(Object),
                  Optional(Flag), Maybe(Flag), Maybe(Count), Optional(MirrorAmount)}
    BY <1>1, FieldsTop, NestedTop, OverDomain, OverAt
    DEF MirrorAccountResponse, MirrorTokenBalance, MirrorHeld
  <2>2. /\ <<n>> \in DOMAIN convertBalance <=> n = "account"
        /\ n = "account" => convertBalance[<<n>>] = "same"
    BY <1>1, <1>2, FieldsTop, InsideTop, OverDomain, OverAt DEF To
  <2>3. /\ <<n>> \in DOMAIN Balance <=> n = "account"
        /\ n = "account" => Balance[<<n>>] = {"string"}
    BY <1>1, <1>2, FieldsTop, InsideTop, OverDomain, OverAt
  <2>4. Entry("same", Text, {"string"})
    BY SafeSorts, SameText DEF Entry, Bases
  <2>5. \A S \in {Text, Maybe(Text), Optional(Text), Optional(Key), Optional(Object),
                  Optional(Flag), Maybe(Flag), Maybe(Count), Optional(MirrorAmount)} : Sort(S)
    BY SafeSorts, SafeSort, AmountSorts, KeySorts DEF Bases, Amounts, Keyed
  <2> QED
    BY <2>1, <2>2, <2>3, <2>4, <2>5 DEF Entries
<1>6. Opens(convertBalance, MirrorAccountResponse, "balance", convertHeld, HeldBalance)
  <2>1. ASSUME NEW m
        PROVE  Lasts(convertHeld, HeldBalance, m)
    BY <1>1, FieldsTop, NestedTop, OverDomain, OverAt, FieldsDeep, NestedDeep, AbsentSuits,
       SameAbsent, HeldTables
    DEF Lasts, convertHeld, convertHeldSums, convertHeldTokens, To, HeldBalance
  <2>2. <<"balance">> \in DOMAIN MirrorAccountResponse /\ <<"balance">> \notin DOMAIN convertBalance
    BY <1>1, <1>2, <1>3, FieldsTop, NestedTop, InsideTop, FieldsTable, OverDomain, OverAt
    DEF To, MirrorAccountResponse, MirrorTokenBalance, MirrorHeld
  <2> QED
    BY <1>1, <2>1, <2>2, OpensHidden
<1>7. Nests(MirrorAccountResponse, "balance", MirrorHeld)
  BY <1>1, FieldsDeep, NestedDeep, OverDomain, OverAt
  DEF Nests, AgreeAt, MirrorAccountResponse, MirrorTokenBalance, MirrorHeld
<1>8. Nests(convertBalance, "balance", convertHeld)
  BY <1>1, <1>2, <1>3, <1>7, FieldsDeep, InsideDeep, FieldsTable, OverDomain, OverAt
  DEF Nests, AgreeAt, To, convertHeld, MirrorHeld
<1>9. Nests(Balance, "balance", HeldBalance)
  BY <1>1, <1>2, <1>3, <1>7, FieldsDeep, NestedDeep, InsideDeep, FieldsTable, OverDomain, OverAt,
     AsWireAt
  DEF Nests, AgreeAt, HeldBalance, MirrorTokenBalance, MirrorHeld
<1>10. ASSUME NEW n, n # "balance"
      PROVE  Bare(convertBalance, n) /\ Bare(MirrorAccountResponse, n) /\ Bare(Balance, n)
  BY <1>1, <1>2, <1>3, <1>10, FieldsDeep, NestedDeep, InsideDeep, FieldsTable, OverDomain
  DEF Bare, To, MirrorAccountResponse, MirrorTokenBalance, MirrorHeld
<1> QED
  BY <1>3, <1>4, <1>5, <1>6, <1>7, <1>8, <1>9, <1>10, HeldFits, FitsNested

(* An account.                                                             *)
LEMMA FieldsIn ==
    ASSUME NEW f, NEW names, NEW S
    PROVE  f \in DOMAIN Fields(names, S) <=> \E n \in names : f = <<n>>
BY DEF Fields

(* A converted balance has the fields of the one that it is made of.       *)
LEMMA HeldAlike ==
    ASSUME NEW h, Deep(h)
    PROVE  /\ h \in DOMAIN convertHeld <=> h \in DOMAIN MirrorHeld
           /\ h \in DOMAIN HeldBalance <=> h \in DOMAIN MirrorHeld
<1>1. Table(MirrorTokenBalance)
  BY TokenRowFits DEF Fits
<1>2. PICK m, g : IsPath(g) /\ h = Path(m, g)
  BY PathMade
<1>3. \A k : k \in DOMAIN convertTokenRow <=> k \in DOMAIN MirrorTokenBalance
  BY FieldsIn, OverDomain, SameAt DEF convertTokenRow, MirrorTokenBalance, Amount, To
<1>4. CASE g = <<>>
  BY <1>1, <1>2, <1>4, PathOne, HeldTables, FieldsTop, NestedTop, OverDomain
  DEF convertHeld, convertHeldSums, convertHeldTokens, To, HeldBalance, MirrorHeld
<1>5. CASE g # <<>>
  <2>1. Deep(g)
    BY <1>2, <1>5 DEF Deep
  <2> QED
    BY <1>1, <1>2, <1>3, <2>1, HeldTables, FieldsDeep, NestedDeep, OverDomain, AsWireAt
    DEF convertHeld, convertHeldSums, convertHeldTokens, To, HeldBalance, MirrorHeld
<1> QED
  BY <1>4, <1>5

LEMMA AccountInfoFits == Fits(convertAccountInfo, MirrorAccountResponse, MirrorAccountInfo)
<1>1. /\ Table(convertHeld) /\ Table(MirrorHeld) /\ Table(HeldBalance)
      /\ Table(convertHeldSums) /\ Table(convertHeldTokens)
  BY HeldFits, HeldTables DEF Fits
<1>2. /\ convertBalance =
             Inside("balance", convertHeldSums) ++ Inside("balance", convertHeldTokens)
             ++ To("same", {"account"})
      /\ Balance =
             Fields({"account"}, {"string"}) ++ Inside("balance", HeldBalance)
  BY DEF convertBalance, convertTokenBalances, convertHeldSums, convertHeldTokens,
         convertTokenRow, Balance, HeldBalance
<1>3. Table(MirrorAccountResponse)
  BY <1>1, FieldsTable, NestedTable, OverTable
  DEF MirrorAccountResponse, MirrorTokenBalance, MirrorHeld
<1>4. Table(convertAccountInfo) /\ Table(MirrorAccountInfo)
  BY <1>1, <1>2, <1>3, FieldsTable, InsideTable, OverTable, TablesOf
  DEF convertAccountInfo, To, Amount, MirrorAccountInfo, MirrorHeld
<1>5. ASSUME NEW n
      PROVE  /\ <<n>> \in DOMAIN MirrorAccountResponse <=>
                        n \in {"pending_reward", "expiry_timestamp", "auto_renew_period",
                               "max_automatic_token_associations", "staked_node_id",
                               "ethereum_nonce", "receiver_sig_required", "deleted",
                               "decline_reward", "balance", "key", "alias", "evm_address",
                               "delegation_address", "memo", "staked_account_id",
                               "stake_period_start", "created_timestamp", "account"}
             /\ n = "pending_reward" => MirrorAccountResponse[<<n>>] = Optional(MirrorAmount)
             /\ n = "expiry_timestamp" => MirrorAccountResponse[<<n>>] = Optional(Text)
             /\ n \in {"auto_renew_period", "max_automatic_token_associations", "staked_node_id",
                      "ethereum_nonce"} =>
                   MirrorAccountResponse[<<n>>] = Maybe(Count)
             /\ n = "receiver_sig_required" => MirrorAccountResponse[<<n>>] = Maybe(Flag)
             /\ n \in {"deleted", "decline_reward"} =>
                   MirrorAccountResponse[<<n>>] = Optional(Flag)
             /\ n = "balance" => MirrorAccountResponse[<<n>>] = Optional(Object)
             /\ n = "key" => MirrorAccountResponse[<<n>>] = Optional(Key)
             /\ n \in {"alias", "evm_address", "delegation_address", "memo", "staked_account_id",
                      "stake_period_start", "created_timestamp"} =>
                   MirrorAccountResponse[<<n>>] = Maybe(Text)
             /\ n = "account" => MirrorAccountResponse[<<n>>] = Text
  BY <1>1, FieldsTop, NestedTop, OverDomain, OverAt
  DEF MirrorAccountResponse, MirrorTokenBalance, MirrorHeld
<1>6. ASSUME NEW n
      PROVE  /\ <<n>> \in DOMAIN convertAccountInfo <=>
                   <<n>> \in DOMAIN MirrorAccountResponse /\ n # "balance"
             /\ <<n>> \in DOMAIN convertAccountInfo
                /\ n \notin {"pending_reward", "auto_renew_period",
                             "max_automatic_token_associations", "staked_node_id", "alias",
                             "evm_address", "delegation_address", "memo", "staked_account_id",
                             "stake_period_start", "created_timestamp", "deleted", "key"} =>
                   convertAccountInfo[<<n>>] = "same"
             /\ n = "pending_reward" => convertAccountInfo[<<n>>] = "amountString"
             /\ n \in {"auto_renew_period", "max_automatic_token_associations", "staked_node_id",
                      "alias", "evm_address", "delegation_address", "memo", "staked_account_id",
                      "stake_period_start", "created_timestamp"} =>
                   convertAccountInfo[<<n>>] = "orUndefined"
             /\ n = "deleted" => convertAccountInfo[<<n>>] = "orFalse"
             /\ n = "key" => convertAccountInfo[<<n>>] = "convertKey"
  BY <1>1, <1>2, <1>3, <1>5, FieldsTop, InsideTop, FieldsTable, OverDomain, OverAt, SameAt,
     HideAt, NamedTop
  DEF convertAccountInfo, To, Amount
<1>7. ASSUME NEW n
      PROVE  /\ <<n>> \in DOMAIN MirrorAccountInfo <=>
                   <<n>> \in DOMAIN MirrorAccountResponse /\ n # "balance"
             /\ <<n>> \in DOMAIN MirrorAccountInfo
                /\ n \notin {"auto_renew_period", "max_automatic_token_associations",
                             "staked_node_id", "deleted", "alias", "evm_address",
                             "delegation_address", "memo", "staked_account_id",
                             "stake_period_start", "created_timestamp", "account"} =>
                   MirrorAccountInfo[<<n>>] = TypeOf(MirrorAccountResponse[<<n>>])
             /\ n \in {"auto_renew_period", "max_automatic_token_associations", "staked_node_id"} =>
                   MirrorAccountInfo[<<n>>] = Less(TypeOf(Maybe(Count)))
             /\ n = "deleted" => MirrorAccountInfo[<<n>>] = Sure(TypeOf(Optional(Flag)))
             /\ n \in {"alias", "evm_address", "delegation_address", "memo", "staked_account_id",
                      "stake_period_start", "created_timestamp"} =>
                   MirrorAccountInfo[<<n>>] = Less(TypeOf(Maybe(Text)))
             /\ n = "account" => MirrorAccountInfo[<<n>>] = {"string"}
  BY <1>1, <1>2, <1>3, <1>5, FieldsTop, InsideTop, FieldsTable, OverDomain, OverAt, AsWireAt,
     NeverNullAt, AlwaysAt, HideAt, NamedTop
  DEF MirrorAccountInfo
<1>8. ASSUME NEW n
      PROVE  Entries(convertAccountInfo, MirrorAccountResponse, MirrorAccountInfo, n)
  <2>1. /\ Entry("amountString", Optional(MirrorAmount), TypeOf(Optional(MirrorAmount)))
        /\ Entry("same", Optional(Text), TypeOf(Optional(Text)))
        /\ Entry("orUndefined", Maybe(Count), Less(TypeOf(Maybe(Count))))
        /\ Entry("same", Maybe(Count), TypeOf(Maybe(Count)))
        /\ Entry("same", Maybe(Flag), TypeOf(Maybe(Flag)))
        /\ Entry("orFalse", Optional(Flag), Sure(TypeOf(Optional(Flag))))
        /\ Entry("same", Optional(Flag), TypeOf(Optional(Flag)))
        /\ Sort(Optional(Object))
        /\ Entry("convertKey", Optional(Key), TypeOf(Optional(Key)))
        /\ Entry("orUndefined", Maybe(Text), Less(TypeOf(Maybe(Text))))
        /\ Entry("same", Text, {"string"})
    BY SafeSorts, SafeSort, AmountSorts, KeySorts, SameText, FillingSuits, GapSorts
    DEF Entry, Bases, Amounts, Keyed
  <2> QED
    BY <1>5, <1>6, <1>7, <2>1 DEF Entries
<1>9. Opens(convertAccountInfo, MirrorAccountResponse, "balance", convertHeld, HeldBalance)
  <2>1. ASSUME NEW m
        PROVE  Lasts(convertHeld, HeldBalance, m)
    BY <1>1, FieldsTop, NestedTop, OverDomain, OverAt, FieldsDeep, NestedDeep, AbsentSuits,
       SameAbsent, HeldTables
    DEF Lasts, convertHeld, convertHeldSums, convertHeldTokens, To, HeldBalance
  <2>2. <<"balance">> \in DOMAIN MirrorAccountResponse /\ <<"balance">> \notin DOMAIN convertAccountInfo
    BY <1>5, <1>6
  <2> QED
    BY <1>1, <2>1, <2>2, OpensHidden
<1>10. Nests(MirrorAccountResponse, "balance", MirrorHeld)
  BY <1>1, FieldsDeep, NestedDeep, OverDomain, OverAt
  DEF Nests, AgreeAt, MirrorAccountResponse, MirrorTokenBalance, MirrorHeld
<1>11. Nests(convertAccountInfo, "balance", convertHeld)
  BY <1>1, <1>2, <1>3, <1>10, FieldsDeep, InsideDeep, FieldsTable, OverDomain, OverAt, SameAt,
     HideAt, NamedDeep, HeldAlike
  DEF Nests, AgreeAt, convertAccountInfo, To, Amount, convertHeld, MirrorHeld
<1>12. Nests(MirrorAccountInfo, "balance", HeldBalance)
  BY <1>1, <1>2, <1>3, <1>10, FieldsDeep, NestedDeep, InsideDeep, FieldsTable, OverDomain,
     OverAt, AsWireAt, NeverNullAt, AlwaysAt, HideAt, NamedDeep, HeldAlike
  DEF Nests, AgreeAt, MirrorAccountInfo, HeldBalance, MirrorTokenBalance, MirrorHeld
<1>13. ASSUME NEW n, n # "balance"
      PROVE  /\ Bare(convertAccountInfo, n)
             /\ Bare(MirrorAccountResponse, n)
             /\ Bare(MirrorAccountInfo, n)
  <2>1. Bare(MirrorAccountResponse, n)
    BY <1>1, <1>13, FieldsDeep, NestedDeep, OverDomain
    DEF Bare, MirrorAccountResponse, MirrorTokenBalance, MirrorHeld
  <2>2. Bare(convertAccountInfo, n)
    BY <1>1, <1>2, <1>3, <1>13, <2>1, FieldsDeep, InsideDeep, FieldsTable, OverDomain, SameAt,
       HideAt, NamedDeep
    DEF Bare, convertAccountInfo, To, Amount
  <2>3. Bare(MirrorAccountInfo, n)
    BY <1>1, <1>2, <1>3, <1>13, <2>1, FieldsDeep, InsideDeep, FieldsTable, OverDomain, AsWireAt,
       NeverNullAt, AlwaysAt, HideAt, NamedDeep
    DEF Bare, MirrorAccountInfo
  <2> QED
    BY <2>1, <2>2, <2>3
<1> QED
  BY <1>3, <1>4, <1>8, <1>9, <1>10, <1>11, <1>12, <1>13, HeldFits, FitsNested

(* Custom fees, of each of the three kinds, and the token that has them.   *)
LEMMA FractionDeep ==
    ASSUME NEW P, NEW n, NEW g, Deep(g)
    PROVE  /\ Path(n, g) \in DOMAIN FractionOf(P) <=> Path(n, g) \in DOMAIN P
           /\ Path(n, g) \in DOMAIN P /\ Len(g) = 1 /\ n = "amount" =>
                 FractionOf(P)[Path(n, g)] = Undefined(P[Path(n, g)])
           /\ Path(n, g) \in DOMAIN P /\ (Len(g) # 1 \/ n # "amount") =>
                 FractionOf(P)[Path(n, g)] = P[Path(n, g)]
BY FractionAt DEF Deep

convertFixedFee ==
    Amount({"amount"}) ++ To("orFalse", {"all_collectors_are_exempt"})
    ++ To("orUndefined", {"denominating_token_id"}) ++ Same(MirrorFixedFeeRaw)

LEMMA FixedFeeFits == Fits(convertFixedFee, MirrorFixedFeeRaw, MirrorFixedFee)
<1>1. ASSUME NEW n
      PROVE  Entries(convertFixedFee, MirrorFixedFeeRaw, MirrorFixedFee, n)
  BY FieldsTop, OverDomain, OverAt, SameAt, AsWireAt, SafeSorts, NeverNullAt, AlwaysAt, NamedTop,
     FillingSuits, GapSorts
  DEF Entries, Entry, convertFixedFee, MirrorFixedFeeRaw, MirrorFixedFee, Amount, To, Bases,
      Amounts
<1> QED
  BY <1>1, EntryFit, FitsFlat, FlatFields, FlatOver, FlatOf
  DEF convertFixedFee, MirrorFixedFeeRaw, MirrorFixedFee, Amount, To

convertFraction == Amount({"numerator", "denominator"})

FractionParts == Fields({"numerator", "denominator"}, Undefined(TypeOf(MirrorAmount)))

LEMMA FractionSuits ==
    /\ Sort(MirrorAmount) /\ Suits("amountString", MirrorAmount, Undefined(TypeOf(MirrorAmount)))
    /\ Suits("amountString", {"absent"}, Undefined(TypeOf(MirrorAmount)))
<1>1. MirrorAmount \in Amounts
  BY DEF Amounts
<1>2. /\ TypeOf(MirrorAmount) \subseteq Undefined(TypeOf(MirrorAmount))
      /\ "undefined" \in Undefined(TypeOf(MirrorAmount))
  BY DEF Undefined
<1> QED
  BY <1>1, <1>2, AmountSorts, SuitsString, SuitsMore, SameAbsent

LEMMA FractionFits == Fits(convertFraction, FeeFraction, FractionParts)
<1>1. ASSUME NEW n
      PROVE  Entries(convertFraction, FeeFraction, FractionParts, n)
  BY FieldsTop, OverDomain, OverAt, SameAt, AsWireAt, SafeSorts, FractionSuits
  DEF Entries, Entry, convertFraction, FeeFraction, FractionParts, Amount, To, Bases, Amounts
<1> QED
  BY <1>1, EntryFit, FitsFlat, FlatFields, FlatOver, FlatOf
  DEF convertFraction, FeeFraction, FractionParts, Amount, To

LEMMA FractionAlike ==
    ASSUME NEW h
    PROVE  /\ h \in DOMAIN FractionParts <=> h \in DOMAIN FeeFraction
           /\ h \in DOMAIN convertFraction <=> h \in DOMAIN FeeFraction
           /\ h \in DOMAIN FeeFraction => /\ Len(h) = 1 /\ FeeFraction[h] = MirrorAmount
                                         /\ FractionParts[h] = Undefined(TypeOf(MirrorAmount))
<1>1. \A n : Len(<<n>>) = 1
  OBVIOUS
<1> QED
  BY <1>1 DEF Fields, FractionParts, FeeFraction, convertFraction, Amount, To

convertFractionalFee ==
    Inside("amount", convertFraction) ++ Amount({"minimum", "maximum"})
    ++ To("orFalse", {"all_collectors_are_exempt"})
    ++ Hide({"amount"}, Same(MirrorFractionalFeeRaw))

LEMMA FractionalFeeFits ==
    Fits(convertFractionalFee, MirrorFractionalFeeRaw, MirrorFractionalFee)
<1>1. Table(convertFraction) /\ Table(FeeFraction) /\ Table(FractionParts)
  BY FractionFits DEF Fits
<1>2. Table(MirrorFractionalFeeRaw)
  BY <1>1, FieldsTable, NestedTable, OverTable DEF MirrorFractionalFeeRaw
<1>3. Table(convertFractionalFee) /\ Table(MirrorFractionalFee)
  BY <1>1, <1>2, FieldsTable, InsideTable, OverTable, TablesOf
  DEF convertFractionalFee, Amount, To, MirrorFractionalFee
<1>4. ASSUME NEW n
      PROVE  /\ <<n>> \in DOMAIN MirrorFractionalFeeRaw <=>
                        n \in {"denominating_token_id", "collector_account_id",
                               "net_of_transfers", "all_collectors_are_exempt", "maximum",
                               "minimum", "amount"}
             /\ n = "denominating_token_id" => MirrorFractionalFeeRaw[<<n>>] = Maybe(Text)
             /\ n = "collector_account_id" => MirrorFractionalFeeRaw[<<n>>] = Text
             /\ n \in {"net_of_transfers", "all_collectors_are_exempt"} =>
                   MirrorFractionalFeeRaw[<<n>>] = Optional(Flag)
             /\ n = "maximum" => MirrorFractionalFeeRaw[<<n>>] = Maybe(MirrorAmount)
             /\ n = "minimum" => MirrorFractionalFeeRaw[<<n>>] = Optional(MirrorAmount)
             /\ n = "amount" => MirrorFractionalFeeRaw[<<n>>] = Optional(Object)
  BY <1>1, FieldsTop, NestedTop, OverDomain, OverAt DEF MirrorFractionalFeeRaw
<1>5. ASSUME NEW n
      PROVE  /\ <<n>> \in DOMAIN convertFractionalFee <=>
                   <<n>> \in DOMAIN MirrorFractionalFeeRaw /\ n # "amount"
             /\ <<n>> \in DOMAIN convertFractionalFee
                /\ n \notin {"all_collectors_are_exempt", "maximum", "minimum"} =>
                   convertFractionalFee[<<n>>] = "same"
             /\ n = "all_collectors_are_exempt" => convertFractionalFee[<<n>>] = "orFalse"
             /\ n \in {"maximum", "minimum"} => convertFractionalFee[<<n>>] = "amountString"
  BY <1>1, <1>2, <1>4, FieldsTop, InsideTop, FieldsTable, OverDomain, OverAt, SameAt, HideAt,
     NamedTop
  DEF convertFractionalFee, Amount, To
<1>6. ASSUME NEW n
      PROVE  /\ <<n>> \in DOMAIN MirrorFractionalFee <=>
                   <<n>> \in DOMAIN MirrorFractionalFeeRaw /\ n # "amount"
             /\ <<n>> \in DOMAIN MirrorFractionalFee /\ n # "all_collectors_are_exempt" =>
                   MirrorFractionalFee[<<n>>] = TypeOf(MirrorFractionalFeeRaw[<<n>>])
             /\ n = "all_collectors_are_exempt" =>
                   MirrorFractionalFee[<<n>>] = Sure(TypeOf(Optional(Flag)))
  BY <1>1, <1>2, <1>4, AsWireAt, AlwaysAt, HideAt, FractionTop, NamedTop
  DEF MirrorFractionalFee
<1>7. ASSUME NEW n
      PROVE  Entries(convertFractionalFee, MirrorFractionalFeeRaw, MirrorFractionalFee, n)
  <2>1. /\ Entry("same", Maybe(Text), TypeOf(Maybe(Text)))
        /\ Entry("same", Text, TypeOf(Text))
        /\ Entry("same", Optional(Flag), TypeOf(Optional(Flag)))
        /\ Entry("orFalse", Optional(Flag), Sure(TypeOf(Optional(Flag))))
        /\ Entry("amountString", Maybe(MirrorAmount), TypeOf(Maybe(MirrorAmount)))
        /\ Entry("amountString", Optional(MirrorAmount), TypeOf(Optional(MirrorAmount)))
        /\ Sort(Optional(Object))
    BY SafeSorts, FillingSuits, SafeSort DEF Entry, Bases, Amounts
  <2> QED
    BY <1>4, <1>5, <1>6, <2>1 DEF Entries
<1>8. Opens(convertFractionalFee, MirrorFractionalFeeRaw, "amount", convertFraction,
            FractionParts)
  <2>1. ASSUME NEW m
        PROVE  Lasts(convertFraction, FractionParts, m)
    BY <1>1, FieldsTop, FieldsDeep, AbsentSuits, SameAbsent, FractionSuits
    DEF Lasts, convertFraction, Amount, To, FractionParts
  <2>2. <<"amount">> \in DOMAIN MirrorFractionalFeeRaw /\ <<"amount">> \notin DOMAIN convertFractionalFee
    BY <1>4, <1>5
  <2> QED
    BY <1>1, <2>1, <2>2, OpensHidden
<1>9. Nests(MirrorFractionalFeeRaw, "amount", FeeFraction)
  BY <1>1, FieldsDeep, NestedDeep, OverDomain, OverAt
  DEF Nests, AgreeAt, MirrorFractionalFeeRaw
<1>10. Nests(convertFractionalFee, "amount", convertFraction)
  BY <1>1, <1>2, <1>9, FieldsDeep, InsideDeep, FieldsTable, OverDomain, OverAt, SameAt, HideAt,
     NamedDeep, FractionAlike
  DEF Nests, AgreeAt, convertFractionalFee, Amount, To, convertFraction
<1>11. Nests(MirrorFractionalFee, "amount", FractionParts)
  BY <1>1, <1>2, <1>9, FieldsDeep, AsWireAt, AlwaysAt, HideAt, FractionDeep, NamedDeep,
     FractionAlike
  DEF Nests, AgreeAt, MirrorFractionalFee, FractionParts
<1>12. ASSUME NEW n, n # "amount"
      PROVE  /\ Bare(convertFractionalFee, n)
             /\ Bare(MirrorFractionalFeeRaw, n)
             /\ Bare(MirrorFractionalFee, n)
  BY <1>1, <1>2, <1>12, FieldsDeep, NestedDeep, InsideDeep, FieldsTable, OverDomain, SameAt,
     AsWireAt, AlwaysAt, HideAt, FractionDeep, NamedDeep
  DEF Bare, convertFractionalFee, Amount, To, MirrorFractionalFeeRaw, MirrorFractionalFee
<1> QED
  BY <1>2, <1>3, <1>7, <1>8, <1>9, <1>10, <1>11, <1>12, FractionFits, FitsNested

(* What a royalty falls back on.                                           *)
convertFallback == Amount({"amount"}) ++ To("orUndefined", {"denominating_token_id"})

FallbackRaw ==
    Fields({"amount"}, MirrorAmount) ++ Fields({"denominating_token_id"}, Maybe(Text))

FallbackFee == Fields({"denominating_token_id"}, {"string", "undefined"}) ++ AsWire(FallbackRaw)

LEMMA TextSuits ==
    /\ Suits("orUndefined", Maybe(Text), {"string", "undefined"})
    /\ Suits("same", Optional(Text), {"string", "undefined"})
<1>1. /\ Gap(Maybe(Text)) /\ Gap(Optional(Text)) /\ Safe(Maybe(Text)) /\ Safe(Optional(Text))
  BY GapSorts DEF Bases, Gap
<1>2. /\ TypeOf(Maybe(Text)) \subseteq {"string", "null", "undefined"}
      /\ TypeOf(Optional(Text)) \subseteq {"string", "undefined"}
  BY <1>1, SafeTypes, JsAre DEF Maybe, Optional, Text
<1> QED
  BY <1>1, <1>2, SafeSame, SuitsUndefined, SuitsMore DEF Less

LEMMA FallbackFits == Fits(convertFallback, FallbackRaw, FallbackFee)
<1>1. ASSUME NEW n
      PROVE  Entries(convertFallback, FallbackRaw, FallbackFee, n)
  BY FieldsTop, OverDomain, OverAt, SameAt, AsWireAt, SafeSorts, TextSuits, SafeSort
  DEF Entries, Entry, convertFallback, FallbackRaw, FallbackFee, Amount, To, Bases, Amounts
<1> QED
  BY <1>1, EntryFit, FitsFlat, FlatFields, FlatOver, FlatOf
  DEF convertFallback, FallbackRaw, FallbackFee, Amount, To

LEMMA FallbackAlike ==
    ASSUME NEW h
    PROVE  /\ h \in DOMAIN convertFallback <=> h \in DOMAIN FallbackRaw
           /\ h \in DOMAIN FallbackFee <=> h \in DOMAIN FallbackRaw
BY OverDomain, AsWireAt, FieldsIn DEF convertFallback, FallbackRaw, FallbackFee, Amount, To

convertRoyaltyFee ==
    Inside("amount", convertFraction) ++ To("orFalse", {"all_collectors_are_exempt"})
    ++ Nested("fallback_fee", "orUndefined", convertFallback)
    ++ Hide({"amount"}, Same(MirrorRoyaltyFeeRaw))

LEMMA RoyaltyFeeFits == Fits(convertRoyaltyFee, MirrorRoyaltyFeeRaw, MirrorRoyaltyFee)
<1>1. /\ Table(convertFraction) /\ Table(FeeFraction) /\ Table(FractionParts)
      /\ Table(convertFallback) /\ Table(FallbackRaw) /\ Table(FallbackFee)
  BY FractionFits, FallbackFits DEF Fits
<1>2. MirrorRoyaltyFeeRaw =
          Nested("amount", Optional(Object), FeeFraction)
          ++ Nested("fallback_fee", Maybe(Object), FallbackRaw)
          ++ Fields({"collector_account_id"}, Text)
          ++ Fields({"all_collectors_are_exempt"}, Optional(Flag))
  BY DEF MirrorRoyaltyFeeRaw, FallbackRaw
<1>3. Table(MirrorRoyaltyFeeRaw)
  BY <1>1, <1>2, FieldsTable, NestedTable, OverTable
<1>4. Table(convertRoyaltyFee) /\ Table(MirrorRoyaltyFee)
  BY <1>1, <1>2, <1>3, FieldsTable, NestedTable, InsideTable, OverTable, TablesOf
  DEF convertRoyaltyFee, To, MirrorRoyaltyFee
<1>5. ASSUME NEW n
      PROVE  /\ <<n>> \in DOMAIN MirrorRoyaltyFeeRaw <=>
                        n \in {"all_collectors_are_exempt", "collector_account_id",
                               "fallback_fee", "amount"}
             /\ n = "all_collectors_are_exempt" => MirrorRoyaltyFeeRaw[<<n>>] = Optional(Flag)
             /\ n = "collector_account_id" => MirrorRoyaltyFeeRaw[<<n>>] = Text
             /\ n = "fallback_fee" => MirrorRoyaltyFeeRaw[<<n>>] = Maybe(Object)
             /\ n = "amount" => MirrorRoyaltyFeeRaw[<<n>>] = Optional(Object)
  BY <1>1, <1>2, FieldsTop, NestedTop, OverDomain, OverAt
<1>6. ASSUME NEW n
      PROVE  /\ <<n>> \in DOMAIN convertRoyaltyFee <=>
                   <<n>> \in DOMAIN MirrorRoyaltyFeeRaw /\ n # "amount"
             /\ <<n>> \in DOMAIN convertRoyaltyFee
                /\ n \notin {"all_collectors_are_exempt", "fallback_fee"} =>
                   convertRoyaltyFee[<<n>>] = "same"
             /\ n = "all_collectors_are_exempt" => convertRoyaltyFee[<<n>>] = "orFalse"
             /\ n = "fallback_fee" => convertRoyaltyFee[<<n>>] = "orUndefined"
  BY <1>1, <1>2, <1>3, <1>5, FieldsTop, NestedTop, InsideTop, FieldsTable, OverDomain, OverAt,
     SameAt, HideAt, NamedTop
  DEF convertRoyaltyFee, To
<1>7. ASSUME NEW n
      PROVE  /\ <<n>> \in DOMAIN MirrorRoyaltyFee <=>
                   <<n>> \in DOMAIN MirrorRoyaltyFeeRaw /\ n # "amount"
             /\ <<n>> \in DOMAIN MirrorRoyaltyFee
                /\ n \notin {"all_collectors_are_exempt", "fallback_fee"} =>
                   MirrorRoyaltyFee[<<n>>] = TypeOf(MirrorRoyaltyFeeRaw[<<n>>])
             /\ n = "all_collectors_are_exempt" =>
                   MirrorRoyaltyFee[<<n>>] = Sure(TypeOf(Optional(Flag)))
             /\ n = "fallback_fee" => MirrorRoyaltyFee[<<n>>] = Less(TypeOf(Maybe(Object)))
  BY <1>1, <1>2, <1>3, <1>5, FieldsTop, InsideTop, FieldsTable, OverDomain, OverAt, AsWireAt,
     NeverNullAt, AlwaysAt, HideAt, FractionTop, NamedTop
  DEF MirrorRoyaltyFee
<1>8. ASSUME NEW n
      PROVE  Entries(convertRoyaltyFee, MirrorRoyaltyFeeRaw, MirrorRoyaltyFee, n)
  <2>1. /\ Entry("orFalse", Optional(Flag), Sure(TypeOf(Optional(Flag))))
        /\ Entry("same", Text, TypeOf(Text))
        /\ Entry("orUndefined", Maybe(Object), Less(TypeOf(Maybe(Object))))
        /\ Sort(Optional(Object))
    BY SafeSorts, FillingSuits, SafeSort DEF Entry, Bases
  <2> QED
    BY <1>5, <1>6, <1>7, <2>1 DEF Entries
<1>9. Opens(convertRoyaltyFee, MirrorRoyaltyFeeRaw, "amount", convertFraction, FractionParts)
  <2>1. ASSUME NEW m
        PROVE  Lasts(convertFraction, FractionParts, m)
    BY <1>1, FieldsTop, FieldsDeep, AbsentSuits, SameAbsent, FractionSuits
    DEF Lasts, convertFraction, Amount, To, FractionParts
  <2>2. <<"amount">> \in DOMAIN MirrorRoyaltyFeeRaw /\ <<"amount">> \notin DOMAIN convertRoyaltyFee
    BY <1>5, <1>6
  <2> QED
    BY <1>1, <2>1, <2>2, OpensHidden
<1>10. Nests(MirrorRoyaltyFeeRaw, "amount", FeeFraction)
  BY <1>1, <1>2, FieldsDeep, NestedDeep, OverDomain, OverAt DEF Nests, AgreeAt
<1>11. Nests(convertRoyaltyFee, "amount", convertFraction)
  BY <1>1, <1>2, <1>3, <1>10, FieldsDeep, NestedDeep, InsideDeep, FieldsTable, OverDomain,
     OverAt, SameAt, HideAt, NamedDeep, FractionAlike
  DEF Nests, AgreeAt, convertRoyaltyFee, To, convertFraction, Amount
<1>12. Nests(MirrorRoyaltyFee, "amount", FractionParts)
  BY <1>1, <1>2, <1>3, <1>10, FieldsDeep, InsideDeep, FieldsTable, OverDomain, OverAt, AsWireAt,
     NeverNullAt, AlwaysAt, HideAt, FractionDeep, NamedDeep, FractionAlike
  DEF Nests, AgreeAt, MirrorRoyaltyFee, FractionParts
<1>13. Opens(convertRoyaltyFee, MirrorRoyaltyFeeRaw, "fallback_fee", convertFallback,
             FallbackFee)
  BY <1>5, <1>6, HoldersKept DEF Opens
<1>14. Nests(MirrorRoyaltyFeeRaw, "fallback_fee", FallbackRaw)
  BY <1>1, <1>2, FieldsDeep, NestedDeep, OverDomain, OverAt DEF Nests, AgreeAt
<1>15. Nests(convertRoyaltyFee, "fallback_fee", convertFallback)
  BY <1>1, <1>2, <1>3, <1>14, FieldsDeep, NestedDeep, InsideDeep, FieldsTable, OverDomain,
     OverAt, SameAt, HideAt, NamedDeep, FallbackAlike
  DEF Nests, AgreeAt, convertRoyaltyFee, To
<1>16. Nests(MirrorRoyaltyFee, "fallback_fee", FallbackFee)
  BY <1>1, <1>2, <1>3, <1>14, FieldsDeep, InsideDeep, FieldsTable, OverDomain, OverAt, AsWireAt,
     NeverNullAt, AlwaysAt, HideAt, FractionDeep, NamedDeep, FallbackAlike
  DEF Nests, AgreeAt, MirrorRoyaltyFee, FallbackFee
<1>17. ASSUME NEW n, n \notin {"amount", "fallback_fee"}
      PROVE  /\ Bare(convertRoyaltyFee, n)
             /\ Bare(MirrorRoyaltyFeeRaw, n)
             /\ Bare(MirrorRoyaltyFee, n)
  BY <1>1, <1>2, <1>3, <1>17, FieldsDeep, NestedDeep, InsideDeep, FieldsTable, OverDomain,
     SameAt, AsWireAt, NeverNullAt, AlwaysAt, HideAt, FractionDeep, NamedDeep
  DEF Bare, convertRoyaltyFee, To, MirrorRoyaltyFee
<1> QED
  BY <1>3, <1>4, <1>8, <1>9, <1>10, <1>11, <1>12, <1>13, <1>14, <1>15, <1>16, <1>17,
     FractionFits, FallbackFits, FitsNested

(* The token's own fields are those outside its fees.                      *)
LEMMA OutsideTop ==
    ASSUME NEW n, NEW name, NEW P
    PROVE  /\ <<n>> \in DOMAIN Outside(name, P) <=> <<n>> \in DOMAIN P /\ n # name
           /\ <<n>> \in DOMAIN P /\ n # name => Outside(name, P)[<<n>>] = P[<<n>>]
BY DEF Outside

LEMMA OutsideDeep ==
    ASSUME NEW n, NEW g, Deep(g), NEW name, NEW P
    PROVE  /\ Path(n, g) \in DOMAIN Outside(name, P) <=> Path(n, g) \in DOMAIN P /\ n # name
           /\ Path(n, g) \in DOMAIN P /\ n # name => Outside(name, P)[Path(n, g)] = P[Path(n, g)]
BY PathParts DEF Outside, Deep

LEMMA OutsideTable ==
    ASSUME NEW name, NEW P, Table(P)
    PROVE  Table(Outside(name, P))
BY DEF Table, Outside

convertFees ==
    To("same", {"created_timestamp"})
    ++ Nested("fixed_fees", "orEmpty", convertFixedFee)
    ++ Nested("fractional_fees", "orEmpty", convertFractionalFee)
    ++ Nested("royalty_fees", "orEmpty", convertRoyaltyFee)

FeesRaw ==
    Fields({"created_timestamp"}, Optional(Text))
    ++ Nested("fixed_fees", Optional(List), MirrorFixedFeeRaw)
    ++ Nested("fractional_fees", Optional(List), MirrorFractionalFeeRaw)
    ++ Nested("royalty_fees", Optional(List), MirrorRoyaltyFeeRaw)

CustomFees ==
    Fields({"created_timestamp"}, {"string", "undefined"})
    ++ Nested("fixed_fees", {"array"}, MirrorFixedFee)
    ++ Nested("fractional_fees", {"array"}, MirrorFractionalFee)
    ++ Nested("royalty_fees", {"array"}, MirrorRoyaltyFee)

LEMMA ListSuits == Suits("orEmpty", Optional(List), {"array"}) /\ Sort(Optional(List))
<1>1. Sure(TypeOf(Optional(List))) \subseteq {"array"}
  BY SafeSorts, SafeTypes, JsAre DEF Sure, Bases, Optional, List
<1> QED
  BY <1>1, FillingSuits, SuitsMore

LEMMA CustomFeesFit == Fits(convertFees, FeesRaw, CustomFees)
<1>1. /\ Table(convertFixedFee) /\ Table(MirrorFixedFeeRaw) /\ Table(MirrorFixedFee)
      /\ Table(convertFractionalFee) /\ Table(MirrorFractionalFeeRaw)
      /\ Table(MirrorFractionalFee) /\ Table(convertRoyaltyFee) /\ Table(MirrorRoyaltyFeeRaw)
      /\ Table(MirrorRoyaltyFee)
  BY FixedFeeFits, FractionalFeeFits, RoyaltyFeeFits DEF Fits
<1>2. Table(FeesRaw)
  BY <1>1, FieldsTable, NestedTable, OverTable DEF FeesRaw
<1>3. Table(convertFees) /\ Table(CustomFees)
  BY <1>1, <1>2, FieldsTable, NestedTable, OverTable DEF convertFees, To, CustomFees
<1>4. ASSUME NEW n
      PROVE  /\ <<n>> \in DOMAIN FeesRaw <=>
                        n \in {"royalty_fees", "fractional_fees", "fixed_fees",
                               "created_timestamp"}
             /\ n \in {"royalty_fees", "fractional_fees", "fixed_fees"} =>
                   FeesRaw[<<n>>] = Optional(List)
             /\ n = "created_timestamp" => FeesRaw[<<n>>] = Optional(Text)
  BY <1>1, FieldsTop, NestedTop, OverDomain, OverAt DEF FeesRaw
<1>5. ASSUME NEW n
      PROVE  /\ <<n>> \in DOMAIN convertFees <=> <<n>> \in DOMAIN FeesRaw
             /\ <<n>> \in DOMAIN convertFees
                /\ n \notin {"royalty_fees", "fractional_fees", "fixed_fees"} =>
                   convertFees[<<n>>] = "same"
             /\ n \in {"royalty_fees", "fractional_fees", "fixed_fees"} =>
                   convertFees[<<n>>] = "orEmpty"
  BY <1>1, <1>2, <1>4, FieldsTop, NestedTop, OverDomain, OverAt DEF convertFees, To
<1>6. ASSUME NEW n
      PROVE  /\ <<n>> \in DOMAIN CustomFees <=> <<n>> \in DOMAIN FeesRaw
             /\ n \in {"royalty_fees", "fractional_fees", "fixed_fees"} =>
                   CustomFees[<<n>>] = {"array"}
             /\ n = "created_timestamp" => CustomFees[<<n>>] = {"string", "undefined"}
  BY <1>1, <1>2, <1>4, FieldsTop, NestedTop, OverDomain, OverAt DEF CustomFees
<1>7. ASSUME NEW n
      PROVE  Entries(convertFees, FeesRaw, CustomFees, n)
  <2>1. /\ Entry("orEmpty", Optional(List), {"array"})
        /\ Entry("same", Optional(Text), {"string", "undefined"})
    BY SafeSorts, ListSuits, TextSuits, SafeSort DEF Entry, Bases
  <2> QED
    BY <1>4, <1>5, <1>6, <2>1 DEF Entries
<1>8. Opens(convertFees, FeesRaw, "fixed_fees", convertFixedFee, MirrorFixedFee)
  BY <1>4, <1>5, HoldersKept DEF Opens
<1>9. Nests(FeesRaw, "fixed_fees", MirrorFixedFeeRaw)
  BY <1>1, FieldsDeep, NestedDeep, OverDomain, OverAt DEF Nests, AgreeAt, FeesRaw
<1>10. Nests(convertFees, "fixed_fees", convertFixedFee)
  BY <1>1, <1>2, <1>9, FieldsDeep, NestedDeep, OverDomain, OverAt
  DEF Nests, AgreeAt, convertFees, To
<1>11. Nests(CustomFees, "fixed_fees", MirrorFixedFee)
  BY <1>1, <1>2, <1>9, FieldsDeep, NestedDeep, OverDomain, OverAt
  DEF Nests, AgreeAt, CustomFees
<1>12. Opens(convertFees, FeesRaw, "fractional_fees", convertFractionalFee, MirrorFractionalFee)
  BY <1>4, <1>5, HoldersKept DEF Opens
<1>13. Nests(FeesRaw, "fractional_fees", MirrorFractionalFeeRaw)
  BY <1>1, FieldsDeep, NestedDeep, OverDomain, OverAt DEF Nests, AgreeAt, FeesRaw
<1>14. Nests(convertFees, "fractional_fees", convertFractionalFee)
  BY <1>1, <1>2, <1>13, FieldsDeep, NestedDeep, OverDomain, OverAt
  DEF Nests, AgreeAt, convertFees, To
<1>15. Nests(CustomFees, "fractional_fees", MirrorFractionalFee)
  BY <1>1, <1>2, <1>13, FieldsDeep, NestedDeep, OverDomain, OverAt
  DEF Nests, AgreeAt, CustomFees
<1>16. Opens(convertFees, FeesRaw, "royalty_fees", convertRoyaltyFee, MirrorRoyaltyFee)
  BY <1>4, <1>5, HoldersKept DEF Opens
<1>17. Nests(FeesRaw, "royalty_fees", MirrorRoyaltyFeeRaw)
  BY <1>1, FieldsDeep, NestedDeep, OverDomain, OverAt DEF Nests, AgreeAt, FeesRaw
<1>18. Nests(convertFees, "royalty_fees", convertRoyaltyFee)
  BY <1>1, <1>2, <1>17, FieldsDeep, NestedDeep, OverDomain, OverAt
  DEF Nests, AgreeAt, convertFees, To
<1>19. Nests(CustomFees, "royalty_fees", MirrorRoyaltyFee)
  BY <1>1, <1>2, <1>17, FieldsDeep, NestedDeep, OverDomain, OverAt
  DEF Nests, AgreeAt, CustomFees
<1>20. ASSUME NEW n, n \notin {"fixed_fees", "fractional_fees", "royalty_fees"}
      PROVE  Bare(convertFees, n) /\ Bare(FeesRaw, n) /\ Bare(CustomFees, n)
  BY <1>1, <1>2, <1>20, FieldsDeep, NestedDeep, OverDomain
  DEF Bare, convertFees, To, FeesRaw, CustomFees
<1> QED
  BY <1>2, <1>3, <1>7, <1>8, <1>9, <1>10, <1>11, <1>12, <1>13, <1>14, <1>15, <1>16, <1>17, <1>18,
     <1>19, <1>20, FixedFeeFits, FractionalFeeFits, RoyaltyFeeFits, FitsNested

LEMMA TokenInfoFits == Fits(convertTokenInfo, MirrorTokenResponse, MirrorTokenInfo)
<1>1. Table(convertFees) /\ Table(FeesRaw) /\ Table(CustomFees)
  BY CustomFeesFit DEF Fits
<1>2. /\ convertTokenInfo =
             Nested("custom_fees", "list", convertFees) ++ To("parseInt", {"decimals"})
             ++ To("convertKey", {"admin_key", "supply_key", "freeze_key", "wipe_key", "kyc_key",
                                  "pause_key", "fee_schedule_key", "metadata_key"})
             ++ To("normalizeTokenExpiry", {"expiry_timestamp"})
             ++ Outside("custom_fees", Same(MirrorTokenResponse))
      /\ MirrorTokenInfo =
             Nested("custom_fees", {"array"}, CustomFees)
             ++ Have({"decimals"}, {"number"},
                     Have({"expiry_timestamp"}, {"string", "undefined"},
                          Outside("custom_fees", AsWire(MirrorTokenResponse))))
      /\ MirrorTokenResponse =
             Fields({"token_id", "name", "symbol", "type", "total_supply", "max_supply",
                     "treasury_account_id"}, Text)
             ++ Fields({"decimals"}, {"quoted"}) ++ Fields({"deleted"}, Flag)
             ++ Fields({"admin_key", "supply_key", "freeze_key", "wipe_key", "kyc_key", "pause_key",
                        "fee_schedule_key"}, Optional(Key))
             ++ Fields({"metadata_key"}, MaybeKey)
             ++ Fields({"pause_status", "created_timestamp", "memo", "initial_supply", "metadata",
                        "modified_timestamp", "supply_type"}, Optional(Text))
             ++ Fields({"auto_renew_account"}, Maybe(Text))
             ++ Fields({"auto_renew_period"}, Maybe(Count))
             ++ Fields({"freeze_default"}, Optional(Flag))
             ++ Fields({"expiry_timestamp"}, Maybe({"small", "safe", "large", "text"}))
             ++ Nested("custom_fees", Optional(Object), FeesRaw)
  BY DEF convertTokenInfo, convertCustomFees, convertFees, convertFixedFee, convertFractionalFee,
         convertRoyaltyFee, convertFallback, convertFraction, Fraction, MirrorTokenInfo,
         CustomFees, MirrorTokenResponse, FeesRaw
<1>3. Table(MirrorTokenResponse)
  BY <1>1, <1>2, FieldsTable, NestedTable, OverTable
<1>4. Table(convertTokenInfo) /\ Table(MirrorTokenInfo)
  BY <1>1, <1>2, <1>3, FieldsTable, NestedTable, OverTable, TablesOf, OutsideTable DEF To
<1>5. ASSUME NEW n
      PROVE  /\ <<n>> \in DOMAIN MirrorTokenResponse <=>
                        n \in {"custom_fees", "expiry_timestamp", "freeze_default",
                               "auto_renew_period", "auto_renew_account", "pause_status",
                               "created_timestamp", "memo", "initial_supply", "metadata",
                               "modified_timestamp", "supply_type", "metadata_key", "admin_key",
                               "supply_key", "freeze_key", "wipe_key", "kyc_key", "pause_key",
                               "fee_schedule_key", "deleted", "decimals", "token_id", "name",
                               "symbol", "type", "total_supply", "max_supply",
                               "treasury_account_id"}
             /\ n = "custom_fees" => MirrorTokenResponse[<<n>>] = Optional(Object)
             /\ n = "expiry_timestamp" =>
                MirrorTokenResponse[<<n>>] = Maybe({"small", "safe", "large", "text"})
             /\ n = "freeze_default" => MirrorTokenResponse[<<n>>] = Optional(Flag)
             /\ n = "auto_renew_period" => MirrorTokenResponse[<<n>>] = Maybe(Count)
             /\ n = "auto_renew_account" => MirrorTokenResponse[<<n>>] = Maybe(Text)
             /\ n \in {"pause_status", "created_timestamp", "memo", "initial_supply", "metadata",
                      "modified_timestamp", "supply_type"} =>
                   MirrorTokenResponse[<<n>>] = Optional(Text)
             /\ n = "metadata_key" => MirrorTokenResponse[<<n>>] = MaybeKey
             /\ n \in {"admin_key", "supply_key", "freeze_key", "wipe_key", "kyc_key",
                      "pause_key", "fee_schedule_key"} =>
                   MirrorTokenResponse[<<n>>] = Optional(Key)
             /\ n = "deleted" => MirrorTokenResponse[<<n>>] = Flag
             /\ n = "decimals" => MirrorTokenResponse[<<n>>] = {"quoted"}
             /\ n \in {"token_id", "name", "symbol", "type", "total_supply", "max_supply",
                      "treasury_account_id"} =>
                   MirrorTokenResponse[<<n>>] = Text
  BY <1>1, <1>2, FieldsTop, NestedTop, OverDomain, OverAt
<1>6. ASSUME NEW n
      PROVE  /\ <<n>> \in DOMAIN convertTokenInfo <=> <<n>> \in DOMAIN MirrorTokenResponse
             /\ <<n>> \in DOMAIN convertTokenInfo
                /\ n \notin {"custom_fees", "expiry_timestamp", "metadata_key", "admin_key",
                             "supply_key", "freeze_key", "wipe_key", "kyc_key", "pause_key",
                             "fee_schedule_key", "decimals"} =>
                   convertTokenInfo[<<n>>] = "same"
             /\ n = "custom_fees" => convertTokenInfo[<<n>>] = "list"
             /\ n = "expiry_timestamp" => convertTokenInfo[<<n>>] = "normalizeTokenExpiry"
             /\ n \in {"metadata_key", "admin_key", "supply_key", "freeze_key", "wipe_key",
                      "kyc_key", "pause_key", "fee_schedule_key"} =>
                   convertTokenInfo[<<n>>] = "convertKey"
             /\ n = "decimals" => convertTokenInfo[<<n>>] = "parseInt"
  BY <1>1, <1>2, <1>3, <1>5, FieldsTop, NestedTop, OverDomain, OverAt, SameAt, OutsideTop
  DEF To
<1>7. ASSUME NEW n
      PROVE  /\ <<n>> \in DOMAIN MirrorTokenInfo <=> <<n>> \in DOMAIN MirrorTokenResponse
             /\ <<n>> \in DOMAIN MirrorTokenInfo
                /\ n \notin {"custom_fees", "expiry_timestamp", "decimals"} =>
                   MirrorTokenInfo[<<n>>] = TypeOf(MirrorTokenResponse[<<n>>])
             /\ n = "custom_fees" => MirrorTokenInfo[<<n>>] = {"array"}
             /\ n = "expiry_timestamp" => MirrorTokenInfo[<<n>>] = {"string", "undefined"}
             /\ n = "decimals" => MirrorTokenInfo[<<n>>] = {"number"}
  BY <1>1, <1>2, <1>3, <1>5, NestedTop, OverDomain, OverAt, AsWireAt, HaveAt, OutsideTop,
     NamedTop
<1>8. ASSUME NEW n
      PROVE  Entries(convertTokenInfo, MirrorTokenResponse, MirrorTokenInfo, n)
  <2>1. /\ Entry("list", Optional(Object), {"array"})
        /\ Entry("normalizeTokenExpiry", Maybe({"small", "safe", "large", "text"}),
                 {"string", "undefined"})
        /\ Entry("same", Optional(Flag), TypeOf(Optional(Flag)))
        /\ Entry("same", Maybe(Count), TypeOf(Maybe(Count)))
        /\ Entry("same", Maybe(Text), TypeOf(Maybe(Text)))
        /\ Entry("same", Optional(Text), TypeOf(Optional(Text)))
        /\ Entry("convertKey", MaybeKey, TypeOf(MaybeKey))
        /\ Entry("convertKey", Optional(Key), TypeOf(Optional(Key)))
        /\ Entry("same", Flag, TypeOf(Flag))
        /\ Entry("parseInt", {"quoted"}, {"number"})
        /\ Entry("same", Text, TypeOf(Text))
    BY SafeSorts, SpecialSuits, SafeSort, OtherSorts, KeySorts
    DEF Entry, Bases, Amounts, Keyed
  <2>2. CASE n \in {"custom_fees", "expiry_timestamp", "decimals"}
    BY <1>5, <1>6, <1>7, <2>1, <2>2 DEF Entries
  <2>3. CASE n \notin  {"custom_fees", "expiry_timestamp", "decimals"}
    BY <1>5, <1>6, <1>7, <2>1, <2>3 DEF Entries
  <2> QED
    BY <2>2, <2>3
<1>9. Opens(convertTokenInfo, MirrorTokenResponse, "custom_fees", convertFees, CustomFees)
  BY <1>5, <1>6, HoldersKept DEF Opens
<1>10. Nests(MirrorTokenResponse, "custom_fees", FeesRaw)
  BY <1>1, <1>2, FieldsDeep, NestedDeep, OverDomain, OverAt DEF Nests, AgreeAt
<1>11. Nests(convertTokenInfo, "custom_fees", convertFees)
  BY <1>1, <1>2, <1>3, <1>10, FieldsDeep, NestedDeep, OverDomain, OverAt, SameAt, OutsideDeep
  DEF Nests, AgreeAt, To
<1>12. Nests(MirrorTokenInfo, "custom_fees", CustomFees)
  BY <1>1, <1>2, <1>3, <1>10, NestedDeep, OverDomain, OverAt, AsWireAt, HaveAt, OutsideDeep,
     NamedDeep
  DEF Nests, AgreeAt
<1>13. ASSUME NEW n, n # "custom_fees"
      PROVE  /\ Bare(convertTokenInfo, n)
             /\ Bare(MirrorTokenResponse, n)
             /\ Bare(MirrorTokenInfo, n)
  BY <1>1, <1>2, <1>3, <1>13, FieldsDeep, NestedDeep, OverDomain, SameAt, AsWireAt, HaveAt,
     OutsideDeep, NamedDeep
  DEF Bare, To
<1> QED
  BY <1>3, <1>4, <1>8, <1>9, <1>10, <1>11, <1>12, <1>13, CustomFeesFit, FitsNested

(* Topics and their messages.                                              *)
ChunkTransaction ==
    Fields({"account_id"}, Nullable(Text)) ++ Fields({"nonce"}, Nullable(Count))
    ++ Fields({"scheduled"}, Nullable(Flag)) ++ Fields({"transaction_valid_start"}, Text)

LEMMA ChunkTransactionFits ==
    Fits(Same(ChunkTransaction), ChunkTransaction, AsWire(ChunkTransaction))
<1>1. ASSUME NEW n
      PROVE  Entries(Same(ChunkTransaction), ChunkTransaction, AsWire(ChunkTransaction), n)
  BY FieldsTop, OverDomain, OverAt, SameAt, AsWireAt, SafeSorts
  DEF Entries, Entry, ChunkTransaction, Bases
<1> QED
  BY <1>1, EntryFit, FitsFlat, FlatFields, FlatOver, FlatOf
  DEF ChunkTransaction

LEMMA ChunkInfoFits == Fits(Same(MirrorChunkInfo), MirrorChunkInfo, AsWire(MirrorChunkInfo))
<1>1. /\ Table(Same(ChunkTransaction)) /\ Table(ChunkTransaction)
      /\ Table(AsWire(ChunkTransaction))
  BY ChunkTransactionFits DEF Fits
<1>2. MirrorChunkInfo =
          Fields({"number", "total"}, Count)
          ++ Nested("initial_transaction_id", Nullable(Object), ChunkTransaction)
  BY DEF MirrorChunkInfo, ChunkTransaction
<1>3. Table(MirrorChunkInfo)
  BY <1>1, <1>2, FieldsTable, NestedTable, OverTable
<1>4. Table(Same(MirrorChunkInfo)) /\ Table(AsWire(MirrorChunkInfo))
  BY <1>1, <1>2, <1>3, TablesOf
<1>5. ASSUME NEW n
      PROVE  Entries(Same(MirrorChunkInfo), MirrorChunkInfo, AsWire(MirrorChunkInfo), n)
  BY <1>1, <1>2, <1>3, FieldsTop, NestedTop, OverDomain, OverAt, SameAt, AsWireAt, SafeSorts
  DEF Entries, Entry, Bases
<1>6. Opens(Same(MirrorChunkInfo), MirrorChunkInfo, "initial_transaction_id",
            Same(ChunkTransaction), AsWire(ChunkTransaction))
  BY <1>1, <1>2, <1>3, FieldsTop, NestedTop, OverDomain, OverAt, SameAt, HoldersKept DEF Opens
<1>7. Nests(MirrorChunkInfo, "initial_transaction_id", ChunkTransaction)
  BY <1>1, <1>2, FieldsDeep, NestedDeep, OverDomain, OverAt DEF Nests, AgreeAt
<1>8. Nests(Same(MirrorChunkInfo), "initial_transaction_id", Same(ChunkTransaction))
  BY <1>1, <1>2, <1>3, <1>7, SameAt DEF Nests, AgreeAt
<1>9. Nests(AsWire(MirrorChunkInfo), "initial_transaction_id", AsWire(ChunkTransaction))
  BY <1>1, <1>2, <1>3, <1>7, AsWireAt DEF Nests, AgreeAt
<1>10. ASSUME NEW n, n # "initial_transaction_id"
      PROVE  /\ Bare(Same(MirrorChunkInfo), n)
             /\ Bare(MirrorChunkInfo, n)
             /\ Bare(AsWire(MirrorChunkInfo), n)
  BY <1>1, <1>2, <1>3, <1>10, FieldsDeep, NestedDeep, OverDomain, SameAt, AsWireAt DEF Bare
<1> QED
  BY <1>3, <1>4, <1>5, <1>6, <1>7, <1>8, <1>9, <1>10, ChunkTransactionFits, FitsNested

LEMMA TopicMessageFits == Fits(convertTopicMessage, MirrorTopicMessageRaw, MirrorTopicMessage)
<1>1. /\ Table(Same(MirrorChunkInfo)) /\ Table(MirrorChunkInfo)
      /\ Table(AsWire(MirrorChunkInfo))
  BY ChunkInfoFits DEF Fits
<1>2. Table(MirrorTopicMessageRaw)
  BY <1>1, FieldsTable, NestedTable, OverTable DEF MirrorTopicMessageRaw
<1>3. Table(convertTopicMessage) /\ Table(MirrorTopicMessage)
  BY <1>1, <1>2, FieldsTable, OverTable, TablesOf
  DEF convertTopicMessage, To, MirrorTopicMessage
<1>4. ASSUME NEW n
      PROVE  Entries(convertTopicMessage, MirrorTopicMessageRaw, MirrorTopicMessage, n)
  BY <1>1, <1>2, FieldsTop, NestedTop, OverDomain, OverAt, SameAt, AsWireAt, HaveAt, NamedTop,
     SafeSorts, SpecialSuits, SafeSort
  DEF Entries, Entry, convertTopicMessage, To, MirrorTopicMessageRaw, MirrorTopicMessage, Bases
<1>5. Opens(convertTopicMessage, MirrorTopicMessageRaw, "chunk_info", Same(MirrorChunkInfo),
            AsWire(MirrorChunkInfo))
  BY <1>1, <1>2, FieldsTop, NestedTop, OverDomain, OverAt, SameAt, HoldersKept
  DEF Opens, convertTopicMessage, To, MirrorTopicMessageRaw
<1>6. Nests(MirrorTopicMessageRaw, "chunk_info", MirrorChunkInfo)
  BY <1>1, FieldsDeep, NestedDeep, OverDomain, OverAt
  DEF Nests, AgreeAt, MirrorTopicMessageRaw
<1>7. Nests(convertTopicMessage, "chunk_info", Same(MirrorChunkInfo))
  BY <1>1, <1>2, <1>6, FieldsDeep, OverDomain, OverAt, SameAt
  DEF Nests, AgreeAt, convertTopicMessage, To
<1>8. Nests(MirrorTopicMessage, "chunk_info", AsWire(MirrorChunkInfo))
  BY <1>1, <1>2, <1>6, AsWireAt, HaveAt, NamedDeep DEF Nests, AgreeAt, MirrorTopicMessage
<1>9. ASSUME NEW n, n # "chunk_info"
      PROVE  /\ Bare(convertTopicMessage, n)
             /\ Bare(MirrorTopicMessageRaw, n)
             /\ Bare(MirrorTopicMessage, n)
  BY <1>1, <1>2, <1>9, FieldsDeep, NestedDeep, OverDomain, SameAt, AsWireAt, HaveAt, NamedDeep
  DEF Bare, convertTopicMessage, To, MirrorTopicMessageRaw, MirrorTopicMessage
<1> QED
  BY <1>2, <1>3, <1>4, <1>5, <1>6, <1>7, <1>8, <1>9, ChunkInfoFits, FitsNested

(* A topic's fees.                                                         *)
TopicFeeRaw ==
    Fields({"amount"}, MirrorAmount) ++ Fields({"collector_account_id"}, Text)
    ++ Fields({"denominating_token_id"}, Nullable(Text))

convertTopicFee == Amount({"amount"}) ++ Same(TopicFeeRaw)

LEMMA TopicFeeFits == Fits(convertTopicFee, TopicFeeRaw, AsWire(TopicFeeRaw))
<1>1. ASSUME NEW n
      PROVE  Entries(convertTopicFee, TopicFeeRaw, AsWire(TopicFeeRaw), n)
  BY FieldsTop, OverDomain, OverAt, SameAt, AsWireAt, SafeSorts
  DEF Entries, Entry, convertTopicFee, TopicFeeRaw, Amount, To, Bases, Amounts
<1> QED
  BY <1>1, EntryFit, FitsFlat, FlatFields, FlatOver, FlatOf
  DEF convertTopicFee, TopicFeeRaw, Amount, To

convertTopicAmounts == Inside("fixed_fees", Amount({"amount"}))

TopicFeesRaw ==
    Fields({"created_timestamp"}, Optional(Text))
    ++ Nested("fixed_fees", Optional(List), TopicFeeRaw)

convertTopicFees == convertTopicAmounts ++ Same(TopicFeesRaw)

TopicTerms ==
    Fields({"created_timestamp"}, {"string", "undefined"})
    ++ Fields({"fixed_fees"}, {"array", "undefined"})

TopicFees == TopicTerms ++ AsWire(TopicFeesRaw)

LEMMA TopicAmounts ==
    /\ Table(convertTopicAmounts) /\ Table(Amount({"amount"}))
    /\ Table(TopicTerms) /\ Table(TopicFeeRaw)
    /\ Suits("same", Optional(List), {"array", "undefined"}) /\ Sort(Optional(List))
<1>1. Safe(Optional(List)) /\ TypeOf(Optional(List)) \subseteq {"array", "undefined"}
  BY SafeSorts, SafeTypes, JsAre DEF Bases, Optional, List
<1> QED
  BY <1>1, SafeSame, SuitsMore, SafeSort, FieldsTable, InsideTable, OverTable
  DEF convertTopicAmounts, Amount, To, TopicTerms, TopicFeeRaw

LEMMA TopicFeesFit == Fits(convertTopicFees, TopicFeesRaw, TopicFees)
<1>1. /\ Table(convertTopicFee) /\ Table(TopicFeeRaw) /\ Table(AsWire(TopicFeeRaw))
      /\ Table(Amount({"amount"}))
  BY TopicFeeFits, TopicAmounts DEF Fits
<1>2. Table(TopicFeesRaw)
  BY <1>1, FieldsTable, NestedTable, OverTable DEF TopicFeesRaw
<1>3. Table(convertTopicFees) /\ Table(TopicFees)
  BY <1>1, <1>2, FieldsTable, InsideTable, OverTable, TablesOf
  DEF convertTopicFees, convertTopicAmounts, TopicFees, TopicTerms
<1>4. ASSUME NEW n
      PROVE  /\ <<n>> \in DOMAIN TopicFeesRaw <=>
                        n \in {"fixed_fees", "created_timestamp"}
             /\ n = "fixed_fees" => TopicFeesRaw[<<n>>] = Optional(List)
             /\ n = "created_timestamp" => TopicFeesRaw[<<n>>] = Optional(Text)
  BY <1>1, FieldsTop, NestedTop, OverDomain, OverAt DEF TopicFeesRaw
<1>5. ASSUME NEW n
      PROVE  /\ <<n>> \in DOMAIN convertTopicFees <=> <<n>> \in DOMAIN TopicFeesRaw
             /\ <<n>> \in DOMAIN convertTopicFees => convertTopicFees[<<n>>] = "same"
  BY <1>1, <1>2, <1>4, InsideTop, OverDomain, OverAt, SameAt
  DEF convertTopicFees, convertTopicAmounts
<1>6. ASSUME NEW n
      PROVE  /\ <<n>> \in DOMAIN TopicFees <=> <<n>> \in DOMAIN TopicFeesRaw
             /\ n = "fixed_fees" => TopicFees[<<n>>] = {"array", "undefined"}
             /\ n = "created_timestamp" => TopicFees[<<n>>] = {"string", "undefined"}
  BY <1>1, <1>2, <1>4, FieldsTop, OverDomain, OverAt, AsWireAt DEF TopicFees, TopicTerms
<1>7. ASSUME NEW n
      PROVE  Entries(convertTopicFees, TopicFeesRaw, TopicFees, n)
  <2>1. /\ Entry("same", Optional(List), {"array", "undefined"})
        /\ Entry("same", Optional(Text), {"string", "undefined"})
    BY SafeSorts, TextSuits, TopicAmounts, SafeSort DEF Entry, Bases
  <2> QED
    BY <1>4, <1>5, <1>6, <2>1 DEF Entries
<1>8. Opens(convertTopicFees, TopicFeesRaw, "fixed_fees", convertTopicFee, AsWire(TopicFeeRaw))
  BY <1>4, <1>5, HoldersKept DEF Opens
<1>9. Nests(TopicFeesRaw, "fixed_fees", TopicFeeRaw)
  BY <1>1, FieldsDeep, NestedDeep, OverDomain, OverAt DEF Nests, AgreeAt, TopicFeesRaw
<1>10. Nests(convertTopicFees, "fixed_fees", convertTopicFee)
  BY <1>1, <1>2, <1>9, InsideDeep, OverDomain, OverAt, SameAt
  DEF Nests, AgreeAt, convertTopicFees, convertTopicAmounts, convertTopicFee
<1>11. Nests(TopicFees, "fixed_fees", AsWire(TopicFeeRaw))
  BY <1>1, <1>2, <1>9, FieldsDeep, OverDomain, OverAt, AsWireAt
  DEF Nests, AgreeAt, TopicFees, TopicTerms
<1>12. ASSUME NEW n, n # "fixed_fees"
      PROVE  Bare(convertTopicFees, n) /\ Bare(TopicFeesRaw, n) /\ Bare(TopicFees, n)
  BY <1>1, <1>2, <1>12, FieldsDeep, NestedDeep, InsideDeep, FieldsTable, OverDomain, SameAt,
     AsWireAt
  DEF Bare, convertTopicFees, convertTopicAmounts, TopicFeesRaw, TopicFees, TopicTerms
<1> QED
  BY <1>2, <1>3, <1>7, <1>8, <1>9, <1>10, <1>11, <1>12, TopicFeeFits, FitsNested

LEMMA TopicInfoFits == Fits(convertTopicInfo, MirrorTopicResponse, MirrorTopicInfo)
<1>1. /\ Table(convertTopicFees) /\ Table(TopicFeesRaw) /\ Table(TopicFees)
      /\ Table(convertTopicAmounts) /\ Table(TopicTerms)
  BY TopicFeesFit, TopicAmounts DEF Fits
<1>2. /\ MirrorTopicInfo =
             Inside("custom_fees", TopicTerms)
             ++ Hide({"custom_fees"}, AsWire(MirrorTopicResponse))
      /\ convertTopicInfo =
             To("convertKey", {"admin_key", "fee_schedule_key", "submit_key"})
             ++ Inside("custom_fees", convertTopicAmounts)
             ++ Hide({"custom_fees"}, Same(MirrorTopicResponse))
      /\ MirrorTopicResponse =
             Fields({"admin_key", "fee_schedule_key", "submit_key"}, MaybeKey)
             ++ Fields({"auto_renew_account", "created_timestamp"}, Nullable(Text))
             ++ Fields({"auto_renew_period"}, Nullable(Count)) ++ Fields({"deleted"}, Nullable(Flag))
             ++ Fields({"memo", "topic_id"}, Text) ++ Fields({"timestamp"}, Optional(Period))
             ++ Fields({"fee_exempt_key_list"}, Optional(List))
             ++ Nested("custom_fees", Optional(Object), TopicFeesRaw)
  BY DEF MirrorTopicInfo, TopicTerms, convertTopicInfo, convertTopicAmounts, MirrorTopicResponse,
         TopicFeesRaw, TopicFeeRaw
<1>3. Table(MirrorTopicResponse)
  BY <1>1, <1>2, FieldsTable, NestedTable, OverTable
<1>4. Table(convertTopicInfo) /\ Table(MirrorTopicInfo)
  BY <1>1, <1>2, <1>3, FieldsTable, InsideTable, OverTable, TablesOf DEF To
<1>5. ASSUME NEW n
      PROVE  /\ <<n>> \in DOMAIN MirrorTopicResponse <=>
                        n \in {"custom_fees", "fee_exempt_key_list", "timestamp", "memo",
                               "topic_id", "deleted", "auto_renew_period", "auto_renew_account",
                               "created_timestamp", "admin_key", "fee_schedule_key",
                               "submit_key"}
             /\ n = "custom_fees" => MirrorTopicResponse[<<n>>] = Optional(Object)
             /\ n = "fee_exempt_key_list" => MirrorTopicResponse[<<n>>] = Optional(List)
             /\ n = "timestamp" => MirrorTopicResponse[<<n>>] = Optional(Period)
             /\ n \in {"memo", "topic_id"} => MirrorTopicResponse[<<n>>] = Text
             /\ n = "deleted" => MirrorTopicResponse[<<n>>] = Nullable(Flag)
             /\ n = "auto_renew_period" => MirrorTopicResponse[<<n>>] = Nullable(Count)
             /\ n \in {"auto_renew_account", "created_timestamp"} =>
                   MirrorTopicResponse[<<n>>] = Nullable(Text)
             /\ n \in {"admin_key", "fee_schedule_key", "submit_key"} =>
                   MirrorTopicResponse[<<n>>] = MaybeKey
  BY <1>1, <1>2, FieldsTop, NestedTop, OverDomain, OverAt
<1>6. ASSUME NEW n
      PROVE  /\ <<n>> \in DOMAIN convertTopicInfo <=>
                   <<n>> \in DOMAIN MirrorTopicResponse /\ n # "custom_fees"
             /\ <<n>> \in DOMAIN convertTopicInfo
                /\ n \notin {"admin_key", "fee_schedule_key", "submit_key"} =>
                   convertTopicInfo[<<n>>] = "same"
             /\ n \in {"admin_key", "fee_schedule_key", "submit_key"} =>
                   convertTopicInfo[<<n>>] = "convertKey"
  BY <1>1, <1>2, <1>3, <1>5, FieldsTop, InsideTop, FieldsTable, OverDomain, OverAt, SameAt,
     HideAt, NamedTop
  DEF To
<1>7. ASSUME NEW n
      PROVE  /\ <<n>> \in DOMAIN MirrorTopicInfo <=>
                   <<n>> \in DOMAIN MirrorTopicResponse /\ n # "custom_fees"
             /\ <<n>> \in DOMAIN MirrorTopicInfo =>
                   MirrorTopicInfo[<<n>>] = TypeOf(MirrorTopicResponse[<<n>>])
  BY <1>1, <1>2, <1>3, <1>5, InsideTop, OverDomain, OverAt, AsWireAt, HideAt, NamedTop
<1>8. ASSUME NEW n
      PROVE  Entries(convertTopicInfo, MirrorTopicResponse, MirrorTopicInfo, n)
  <2>1. /\ Sort(Optional(Object))
        /\ Entry("same", Optional(List), TypeOf(Optional(List)))
        /\ Entry("same", Optional(Period), TypeOf(Optional(Period)))
        /\ Entry("same", Text, TypeOf(Text))
        /\ Entry("same", Nullable(Flag), TypeOf(Nullable(Flag)))
        /\ Entry("same", Nullable(Count), TypeOf(Nullable(Count)))
        /\ Entry("same", Nullable(Text), TypeOf(Nullable(Text)))
        /\ Entry("convertKey", MaybeKey, TypeOf(MaybeKey))
    BY SafeSorts, KeySorts, SafeSort DEF Entry, Bases, Keyed
  <2> QED
    BY <1>5, <1>6, <1>7, <2>1 DEF Entries
<1>9. Opens(convertTopicInfo, MirrorTopicResponse, "custom_fees", convertTopicFees, TopicFees)
  <2>1. ASSUME NEW m
        PROVE  Lasts(convertTopicFees, TopicFees, m)
    BY <1>1, FieldsTop, NestedTop, InsideTop, FieldsTable, OverDomain, OverAt, SameAt, AsWireAt,
       FieldsDeep, NestedDeep, InsideDeep, AbsentSuits, SameAbsent, TopicAmounts
    DEF Lasts, convertTopicFees, convertTopicAmounts, TopicFees, TopicTerms, TopicFeesRaw
  <2>2. /\ <<"custom_fees">> \in DOMAIN MirrorTopicResponse
        /\ <<"custom_fees">> \notin DOMAIN convertTopicInfo
    BY <1>5, <1>6
  <2> QED
    BY <1>1, <2>1, <2>2, OpensHidden
<1>10. Nests(MirrorTopicResponse, "custom_fees", TopicFeesRaw)
  BY <1>1, <1>2, FieldsDeep, NestedDeep, OverDomain, OverAt DEF Nests, AgreeAt
<1>11. Nests(convertTopicInfo, "custom_fees", convertTopicFees)
  BY <1>1, <1>2, <1>3, <1>10, FieldsDeep, InsideDeep, FieldsTable, OverDomain, OverAt, SameAt,
     HideAt, NamedDeep
  DEF Nests, AgreeAt, To, convertTopicFees
<1>12. Nests(MirrorTopicInfo, "custom_fees", TopicFees)
  BY <1>1, <1>2, <1>3, <1>10, InsideDeep, OverDomain, OverAt, AsWireAt, HideAt, NamedDeep
  DEF Nests, AgreeAt, TopicFees
<1>13. ASSUME NEW n, n # "custom_fees"
      PROVE  /\ Bare(convertTopicInfo, n)
             /\ Bare(MirrorTopicResponse, n)
             /\ Bare(MirrorTopicInfo, n)
  BY <1>1, <1>2, <1>3, <1>13, FieldsDeep, NestedDeep, InsideDeep, FieldsTable, OverDomain,
     SameAt, AsWireAt, HideAt, NamedDeep
  DEF Bare, To
<1> QED
  BY <1>3, <1>4, <1>8, <1>9, <1>10, <1>11, <1>12, <1>13, TopicFeesFit, FitsNested

(* A transaction and what it transferred.                                  *)
LEMMA TransferFits == Fits(convertTransfer, MirrorTransfer, AsWire(MirrorTransfer))
<1>1. ASSUME NEW n
      PROVE  Entries(convertTransfer, MirrorTransfer, AsWire(MirrorTransfer), n)
  BY FieldsTop, OverDomain, OverAt, SameAt, AsWireAt, SafeSorts
  DEF Entries, Entry, convertTransfer, MirrorTransfer, Amount, To, Bases, Amounts
<1> QED
  BY <1>1, EntryFit, FitsFlat, FlatFields, FlatOver, FlatOf
  DEF convertTransfer, MirrorTransfer, Amount, To

LEMMA TokenTransferFits ==
    Fits(convertTokenTransfer, MirrorTokenTransfer, AsWire(MirrorTokenTransfer))
<1>1. ASSUME NEW n
      PROVE  Entries(convertTokenTransfer, MirrorTokenTransfer, AsWire(MirrorTokenTransfer), n)
  BY FieldsTop, OverDomain, OverAt, SameAt, AsWireAt, SafeSorts
  DEF Entries, Entry, convertTokenTransfer, MirrorTokenTransfer, Amount, To, Bases, Amounts
<1> QED
  BY <1>1, EntryFit, FitsFlat, FlatFields, FlatOver, FlatOf
  DEF convertTokenTransfer, MirrorTokenTransfer, Amount, To

LEMMA NftTransferFits == Fits(convertNftTransfer, MirrorNftTransfer, AsWire(MirrorNftTransfer))
<1>1. ASSUME NEW n
      PROVE  Entries(convertNftTransfer, MirrorNftTransfer, AsWire(MirrorNftTransfer), n)
  BY FieldsTop, OverDomain, OverAt, SameAt, AsWireAt, SafeSorts
  DEF Entries, Entry, convertNftTransfer, MirrorNftTransfer, Bases, Amounts
<1> QED
  BY <1>1, EntryFit, FitsFlat, FlatFields, FlatOver, FlatOf
  DEF convertNftTransfer, MirrorNftTransfer

LEMMA StakingRewardTransferFits ==
    Fits(convertStakingRewardTransfer, MirrorStakingRewardTransfer,
         AsWire(MirrorStakingRewardTransfer))
<1>1. ASSUME NEW n
      PROVE  Entries(convertStakingRewardTransfer, MirrorStakingRewardTransfer,
                     AsWire(MirrorStakingRewardTransfer), n)
  BY FieldsTop, OverDomain, OverAt, SameAt, AsWireAt, SafeSorts
  DEF Entries, Entry, convertStakingRewardTransfer, MirrorStakingRewardTransfer, Amount, To,
      Bases, Amounts
<1> QED
  BY <1>1, EntryFit, FitsFlat, FlatFields, FlatOver, FlatOf
  DEF convertStakingRewardTransfer, MirrorStakingRewardTransfer, Amount, To

convertFeeLimit == Amount({"amount"}) ++ Same(MirrorCustomFeeLimit)

LEMMA FeeLimitFits == Fits(convertFeeLimit, MirrorCustomFeeLimit, AsWire(MirrorCustomFeeLimit))
<1>1. ASSUME NEW n
      PROVE  Entries(convertFeeLimit, MirrorCustomFeeLimit, AsWire(MirrorCustomFeeLimit), n)
  BY FieldsTop, OverDomain, OverAt, SameAt, AsWireAt, SafeSorts
  DEF Entries, Entry, convertFeeLimit, MirrorCustomFeeLimit, Amount, To, Bases, Amounts
<1> QED
  BY <1>1, EntryFit, FitsFlat, FlatFields, FlatOver, FlatOf
  DEF convertFeeLimit, MirrorCustomFeeLimit, Amount, To

convertAssessedFee ==
    Amount({"amount"}) ++ To("orEmpty", {"effective_payer_account_ids"})
    ++ Same(MirrorAssessedCustomFee)

LEMMA AssessedFeeFits ==
    Fits(convertAssessedFee, MirrorAssessedCustomFee, AsWire(MirrorAssessedCustomFee))
<1>1. ASSUME NEW n
      PROVE  Entries(convertAssessedFee, MirrorAssessedCustomFee,
                     AsWire(MirrorAssessedCustomFee), n)
  BY FieldsTop, OverDomain, OverAt, SameAt, AsWireAt, SafeSorts, FillingSuits
  DEF Entries, Entry, convertAssessedFee, MirrorAssessedCustomFee, Amount, To, Bases, Amounts
<1> QED
  BY <1>1, EntryFit, FitsFlat, FlatFields, FlatOver, FlatOf
  DEF convertAssessedFee, MirrorAssessedCustomFee, Amount, To

LEMMA TransactionFits == Fits(convertTransactionInfo, MirrorTransaction, TransactionInfo)
<1>1. /\ Table(convertTransfer) /\ Table(MirrorTransfer) /\ Table(AsWire(MirrorTransfer))
      /\ Table(convertTokenTransfer) /\ Table(MirrorTokenTransfer)
      /\ Table(AsWire(MirrorTokenTransfer)) /\ Table(convertNftTransfer)
      /\ Table(MirrorNftTransfer) /\ Table(AsWire(MirrorNftTransfer))
      /\ Table(convertStakingRewardTransfer) /\ Table(MirrorStakingRewardTransfer)
      /\ Table(AsWire(MirrorStakingRewardTransfer)) /\ Table(convertFeeLimit)
      /\ Table(MirrorCustomFeeLimit) /\ Table(AsWire(MirrorCustomFeeLimit))
      /\ Table(convertAssessedFee) /\ Table(MirrorAssessedCustomFee)
      /\ Table(AsWire(MirrorAssessedCustomFee))
  BY TransferFits, TokenTransferFits, NftTransferFits, StakingRewardTransferFits, FeeLimitFits,
     AssessedFeeFits
  DEF Fits
<1>2. convertTransactionInfo =
          To("orBlank", {"name"}) ++ Amount({"charged_tx_fee"}) ++ To("orUndefined", {"memo_base64"})
          ++ Nested("transfers", "orEmpty", convertTransfer)
          ++ Nested("token_transfers", "orEmpty", convertTokenTransfer)
          ++ Nested("nft_transfers", "orEmpty", convertNftTransfer)
          ++ Nested("staking_reward_transfers", "orEmpty", convertStakingRewardTransfer)
          ++ Nested("max_custom_fees", "same", convertFeeLimit)
          ++ Nested("assessed_custom_fees", "same", convertAssessedFee)
          ++ Same(MirrorTransaction)
  BY DEF convertTransactionInfo, convertFeeLimit, convertAssessedFee
<1>3. Table(MirrorTransaction)
  BY <1>1, FieldsTable, NestedTable, OverTable DEF MirrorTransaction
<1>4. Table(convertTransactionInfo) /\ Table(TransactionInfo)
  BY <1>1, <1>2, <1>3, FieldsTable, NestedTable, OverTable, TablesOf
  DEF To, Amount, TransactionInfo
<1>5. ASSUME NEW n
      PROVE  /\ <<n>> \in DOMAIN MirrorTransaction <=>
                        n \in {"nonce", "high_volume_pricing_multiplier", "high_volume",
                               "scheduled", "bytes", "entity_id", "node",
                               "parent_consensus_timestamp", "valid_duration_seconds",
                               "batch_key", "assessed_custom_fees", "max_custom_fees",
                               "staking_reward_transfers", "nft_transfers", "token_transfers",
                               "transfers", "memo_base64", "max_fee", "transaction_hash",
                               "charged_tx_fee", "transaction_id", "result",
                               "consensus_timestamp", "valid_start_timestamp", "name"}
             /\ n = "nonce" => MirrorTransaction[<<n>>] = Optional(Count)
             /\ n = "high_volume_pricing_multiplier" => MirrorTransaction[<<n>>] = Maybe(Count)
             /\ n \in {"high_volume", "scheduled"} => MirrorTransaction[<<n>>] = Optional(Flag)
             /\ n \in {"bytes", "entity_id", "node", "parent_consensus_timestamp",
                      "valid_duration_seconds"} =>
                   MirrorTransaction[<<n>>] = Maybe(Text)
             /\ n = "batch_key" => MirrorTransaction[<<n>>] = MaybeKey
             /\ n \in {"assessed_custom_fees", "max_custom_fees"} =>
                   MirrorTransaction[<<n>>] = Optional(List)
             /\ n \in {"staking_reward_transfers", "nft_transfers", "token_transfers",
                      "transfers"} =>
                   MirrorTransaction[<<n>>] = List
             /\ n \in {"memo_base64", "max_fee", "transaction_hash"} =>
                   MirrorTransaction[<<n>>] = Optional(Text)
             /\ n = "charged_tx_fee" => MirrorTransaction[<<n>>] = MirrorAmount
             /\ n \in {"transaction_id", "result", "consensus_timestamp", "valid_start_timestamp",
                      "name"} =>
                   MirrorTransaction[<<n>>] = Text
  BY <1>1, FieldsTop, NestedTop, OverDomain, OverAt DEF MirrorTransaction
<1>6. ASSUME NEW n
      PROVE  /\ <<n>> \in DOMAIN convertTransactionInfo <=> <<n>> \in DOMAIN MirrorTransaction
             /\ <<n>> \in DOMAIN convertTransactionInfo
                /\ n \notin {"staking_reward_transfers", "nft_transfers", "token_transfers",
                             "transfers", "memo_base64", "charged_tx_fee", "name"} =>
                   convertTransactionInfo[<<n>>] = "same"
             /\ n \in {"staking_reward_transfers", "nft_transfers", "token_transfers",
                      "transfers"} =>
                   convertTransactionInfo[<<n>>] = "orEmpty"
             /\ n = "memo_base64" => convertTransactionInfo[<<n>>] = "orUndefined"
             /\ n = "charged_tx_fee" => convertTransactionInfo[<<n>>] = "amountString"
             /\ n = "name" => convertTransactionInfo[<<n>>] = "orBlank"
  BY <1>1, <1>2, <1>3, <1>5, FieldsTop, NestedTop, OverDomain, OverAt, SameAt DEF To, Amount
<1>7. ASSUME NEW n
      PROVE  /\ <<n>> \in DOMAIN TransactionInfo <=> <<n>> \in DOMAIN MirrorTransaction
             /\ <<n>> \in DOMAIN TransactionInfo /\ n # "batch_key" =>
                   TransactionInfo[<<n>>] = TypeOf(MirrorTransaction[<<n>>])
             /\ n = "batch_key" => TransactionInfo[<<n>>] = {"object", "null", "undefined"}
  BY <1>1, <1>2, <1>3, <1>5, AsWireAt, HaveAt, NamedTop DEF TransactionInfo
<1>8. ASSUME NEW n
      PROVE  Entries(convertTransactionInfo, MirrorTransaction, TransactionInfo, n)
  <2>1. /\ Entry("same", Optional(Count), TypeOf(Optional(Count)))
        /\ Entry("same", Maybe(Count), TypeOf(Maybe(Count)))
        /\ Entry("same", Optional(Flag), TypeOf(Optional(Flag)))
        /\ Entry("same", Maybe(Text), TypeOf(Maybe(Text)))
        /\ Entry("same", MaybeKey, {"object", "null", "undefined"})
        /\ Entry("same", Optional(List), TypeOf(Optional(List)))
        /\ Entry("orEmpty", List, TypeOf(List))
        /\ Entry("orUndefined", Optional(Text), TypeOf(Optional(Text)))
        /\ Entry("same", Optional(Text), TypeOf(Optional(Text)))
        /\ Entry("amountString", MirrorAmount, TypeOf(MirrorAmount))
        /\ Entry("same", Text, TypeOf(Text))
        /\ Entry("orBlank", Text, TypeOf(Text))
    BY SafeSorts, FillingSuits, SpecialSuits, GapSorts, SafeSort, KeySorts
    DEF Entry, Bases, Amounts, Keyed
  <2> QED
    BY <1>5, <1>6, <1>7, <2>1 DEF Entries
<1>9. Opens(convertTransactionInfo, MirrorTransaction, "transfers", convertTransfer,
            AsWire(MirrorTransfer))
  BY <1>5, <1>6, HoldersKept DEF Opens
<1>10. Nests(MirrorTransaction, "transfers", MirrorTransfer)
  BY <1>1, FieldsDeep, NestedDeep, OverDomain, OverAt DEF Nests, AgreeAt, MirrorTransaction
<1>11. Nests(convertTransactionInfo, "transfers", convertTransfer)
  BY <1>1, <1>2, <1>3, <1>10, FieldsDeep, NestedDeep, OverDomain, OverAt, SameAt
  DEF Nests, AgreeAt, To, Amount, convertTransfer
<1>12. Nests(TransactionInfo, "transfers", AsWire(MirrorTransfer))
  BY <1>1, <1>2, <1>3, <1>10, AsWireAt, HaveAt, NamedDeep DEF Nests, AgreeAt, TransactionInfo
<1>13. Opens(convertTransactionInfo, MirrorTransaction, "token_transfers", convertTokenTransfer,
             AsWire(MirrorTokenTransfer))
  BY <1>5, <1>6, HoldersKept DEF Opens
<1>14. Nests(MirrorTransaction, "token_transfers", MirrorTokenTransfer)
  BY <1>1, FieldsDeep, NestedDeep, OverDomain, OverAt DEF Nests, AgreeAt, MirrorTransaction
<1>15. Nests(convertTransactionInfo, "token_transfers", convertTokenTransfer)
  BY <1>1, <1>2, <1>3, <1>14, FieldsDeep, NestedDeep, OverDomain, OverAt, SameAt
  DEF Nests, AgreeAt, To, Amount, convertTokenTransfer
<1>16. Nests(TransactionInfo, "token_transfers", AsWire(MirrorTokenTransfer))
  BY <1>1, <1>2, <1>3, <1>14, AsWireAt, HaveAt, NamedDeep DEF Nests, AgreeAt, TransactionInfo
<1>17. Opens(convertTransactionInfo, MirrorTransaction, "nft_transfers", convertNftTransfer,
             AsWire(MirrorNftTransfer))
  BY <1>5, <1>6, HoldersKept DEF Opens
<1>18. Nests(MirrorTransaction, "nft_transfers", MirrorNftTransfer)
  BY <1>1, FieldsDeep, NestedDeep, OverDomain, OverAt DEF Nests, AgreeAt, MirrorTransaction
<1>19. Nests(convertTransactionInfo, "nft_transfers", convertNftTransfer)
  BY <1>1, <1>2, <1>3, <1>18, FieldsDeep, NestedDeep, OverDomain, OverAt, SameAt
  DEF Nests, AgreeAt, To, Amount, convertNftTransfer
<1>20. Nests(TransactionInfo, "nft_transfers", AsWire(MirrorNftTransfer))
  BY <1>1, <1>2, <1>3, <1>18, AsWireAt, HaveAt, NamedDeep DEF Nests, AgreeAt, TransactionInfo
<1>21. Opens(convertTransactionInfo, MirrorTransaction, "staking_reward_transfers",
             convertStakingRewardTransfer, AsWire(MirrorStakingRewardTransfer))
  BY <1>5, <1>6, HoldersKept DEF Opens
<1>22. Nests(MirrorTransaction, "staking_reward_transfers", MirrorStakingRewardTransfer)
  BY <1>1, FieldsDeep, NestedDeep, OverDomain, OverAt DEF Nests, AgreeAt, MirrorTransaction
<1>23. Nests(convertTransactionInfo, "staking_reward_transfers", convertStakingRewardTransfer)
  BY <1>1, <1>2, <1>3, <1>22, FieldsDeep, NestedDeep, OverDomain, OverAt, SameAt
  DEF Nests, AgreeAt, To, Amount, convertStakingRewardTransfer
<1>24. Nests(TransactionInfo, "staking_reward_transfers", AsWire(MirrorStakingRewardTransfer))
  BY <1>1, <1>2, <1>3, <1>22, AsWireAt, HaveAt, NamedDeep DEF Nests, AgreeAt, TransactionInfo
<1>25. Opens(convertTransactionInfo, MirrorTransaction, "max_custom_fees", convertFeeLimit,
             AsWire(MirrorCustomFeeLimit))
  BY <1>5, <1>6, HoldersKept DEF Opens
<1>26. Nests(MirrorTransaction, "max_custom_fees", MirrorCustomFeeLimit)
  BY <1>1, FieldsDeep, NestedDeep, OverDomain, OverAt DEF Nests, AgreeAt, MirrorTransaction
<1>27. Nests(convertTransactionInfo, "max_custom_fees", convertFeeLimit)
  BY <1>1, <1>2, <1>3, <1>26, FieldsDeep, NestedDeep, OverDomain, OverAt, SameAt
  DEF Nests, AgreeAt, To, Amount, convertFeeLimit
<1>28. Nests(TransactionInfo, "max_custom_fees", AsWire(MirrorCustomFeeLimit))
  BY <1>1, <1>2, <1>3, <1>26, AsWireAt, HaveAt, NamedDeep DEF Nests, AgreeAt, TransactionInfo
<1>29. Opens(convertTransactionInfo, MirrorTransaction, "assessed_custom_fees",
             convertAssessedFee, AsWire(MirrorAssessedCustomFee))
  BY <1>5, <1>6, HoldersKept DEF Opens
<1>30. Nests(MirrorTransaction, "assessed_custom_fees", MirrorAssessedCustomFee)
  BY <1>1, FieldsDeep, NestedDeep, OverDomain, OverAt DEF Nests, AgreeAt, MirrorTransaction
<1>31. Nests(convertTransactionInfo, "assessed_custom_fees", convertAssessedFee)
  BY <1>1, <1>2, <1>3, <1>30, FieldsDeep, NestedDeep, OverDomain, OverAt, SameAt
  DEF Nests, AgreeAt, To, Amount, convertAssessedFee
<1>32. Nests(TransactionInfo, "assessed_custom_fees", AsWire(MirrorAssessedCustomFee))
  BY <1>1, <1>2, <1>3, <1>30, AsWireAt, HaveAt, NamedDeep DEF Nests, AgreeAt, TransactionInfo
<1>33. ASSUME NEW n, n \notin {"transfers", "token_transfers", "nft_transfers",
                            "staking_reward_transfers", "max_custom_fees", "assessed_custom_fees"}
      PROVE  /\ Bare(convertTransactionInfo, n)
             /\ Bare(MirrorTransaction, n)
             /\ Bare(TransactionInfo, n)
  <2>1. Bare(MirrorTransaction, n)
    BY <1>1, <1>33, FieldsDeep, NestedDeep, OverDomain DEF Bare, MirrorTransaction
  <2>2. Bare(convertTransactionInfo, n)
    BY <1>1, <1>2, <1>33, <2>1, FieldsDeep, NestedDeep, OverDomain, SameAt DEF Bare, To, Amount
  <2>3. Bare(TransactionInfo, n)
    BY <1>3, <1>33, <2>1, AsWireAt, HaveAt, NamedDeep DEF Bare, TransactionInfo
  <2> QED
    BY <2>1, <2>2, <2>3
<1> QED
  BY <1>3, <1>4, <1>8, <1>9, <1>10, <1>11, <1>12, <1>13, <1>14, <1>15, <1>16, <1>17, <1>18,
     <1>19, <1>20, <1>21, <1>22, <1>23, <1>24, <1>25, <1>26, <1>27, <1>28, <1>29, <1>30, <1>31,
     <1>32, <1>33, TransferFits, TokenTransferFits, NftTransferFits, StakingRewardTransferFits,
     FeeLimitFits, AssessedFeeFits, FitsNested

(* The network.                                                            *)
ExchangeRate == Have({"expiration_time"}, {"string"}, AsWire(MirrorExchangeRate))

LEMMA ExchangeRateFits == Fits(convertExchangeRate, MirrorExchangeRate, ExchangeRate)
<1>1. ASSUME NEW n
      PROVE  Entries(convertExchangeRate, MirrorExchangeRate, ExchangeRate, n)
  BY FieldsTop, OverDomain, OverAt, SameAt, AsWireAt, SafeSorts, SpecialSuits, HaveAt, NamedTop,
     SafeSort
  DEF Entries, Entry, convertExchangeRate, MirrorExchangeRate, ExchangeRate, To, Bases, Amounts
<1> QED
  BY <1>1, EntryFit, FitsFlat, FlatFields, FlatOver, FlatOf
  DEF convertExchangeRate, MirrorExchangeRate, ExchangeRate, To

convertExchangeRates ==
    Inside("current_rate", convertExchangeRate) ++ Inside("next_rate", convertExchangeRate)
    ++ Same(MirrorExchangeRatesResponse)

LEMMA ExchangeRateAlike ==
    ASSUME NEW h
    PROVE  /\ h \in DOMAIN convertExchangeRate <=> h \in DOMAIN MirrorExchangeRate
           /\ h \in DOMAIN ExchangeRate <=> h \in DOMAIN MirrorExchangeRate
BY OverDomain, SameAt, AsWireAt, HaveAt, FieldsIn
DEF convertExchangeRate, MirrorExchangeRate, ExchangeRate, To

LEMMA ExchangeRatesFit == Fits(convertExchangeRates, MirrorExchangeRatesResponse, ExchangeRates)
<1>1. Table(convertExchangeRate) /\ Table(MirrorExchangeRate) /\ Table(ExchangeRate)
  BY ExchangeRateFits DEF Fits
<1>2. ExchangeRates =
          Inside("current_rate", ExchangeRate) ++ Inside("next_rate", ExchangeRate)
          ++ AsWire(MirrorExchangeRatesResponse)
  BY DEF ExchangeRates, ExchangeRate
<1>3. Table(MirrorExchangeRatesResponse)
  BY <1>1, FieldsTable, NestedTable, OverTable DEF MirrorExchangeRatesResponse
<1>4. Table(convertExchangeRates) /\ Table(ExchangeRates)
  BY <1>1, <1>2, <1>3, InsideTable, OverTable, TablesOf DEF convertExchangeRates
<1>5. ASSUME NEW n
      PROVE  Entries(convertExchangeRates, MirrorExchangeRatesResponse, ExchangeRates, n)
  BY <1>1, <1>2, <1>3, FieldsTop, NestedTop, InsideTop, FieldsTable, OverDomain, OverAt, SameAt,
     AsWireAt, SafeSorts
  DEF Entries, Entry, convertExchangeRates, MirrorExchangeRatesResponse, Bases
<1>6. Opens(convertExchangeRates, MirrorExchangeRatesResponse, "current_rate",
            convertExchangeRate, ExchangeRate)
  BY <1>1, <1>2, <1>3, FieldsTop, NestedTop, InsideTop, FieldsTable, OverDomain, OverAt, SameAt,
     HoldersKept
  DEF Opens, convertExchangeRates, MirrorExchangeRatesResponse
<1>7. Nests(MirrorExchangeRatesResponse, "current_rate", MirrorExchangeRate)
  BY <1>1, FieldsDeep, NestedDeep, OverDomain, OverAt
  DEF Nests, AgreeAt, MirrorExchangeRatesResponse
<1>8. Nests(convertExchangeRates, "current_rate", convertExchangeRate)
  BY <1>1, <1>2, <1>3, <1>7, InsideDeep, OverDomain, OverAt, SameAt, ExchangeRateAlike
  DEF Nests, AgreeAt, convertExchangeRates
<1>9. Nests(ExchangeRates, "current_rate", ExchangeRate)
  BY <1>1, <1>2, <1>3, <1>7, InsideDeep, OverDomain, OverAt, AsWireAt, ExchangeRateAlike
  DEF Nests, AgreeAt
<1>10. Opens(convertExchangeRates, MirrorExchangeRatesResponse, "next_rate", convertExchangeRate,
             ExchangeRate)
  BY <1>1, <1>2, <1>3, FieldsTop, NestedTop, InsideTop, FieldsTable, OverDomain, OverAt, SameAt,
     HoldersKept
  DEF Opens, convertExchangeRates, MirrorExchangeRatesResponse
<1>11. Nests(MirrorExchangeRatesResponse, "next_rate", MirrorExchangeRate)
  BY <1>1, FieldsDeep, NestedDeep, OverDomain, OverAt
  DEF Nests, AgreeAt, MirrorExchangeRatesResponse
<1>12. Nests(convertExchangeRates, "next_rate", convertExchangeRate)
  BY <1>1, <1>2, <1>3, <1>11, InsideDeep, OverDomain, OverAt, SameAt, ExchangeRateAlike
  DEF Nests, AgreeAt, convertExchangeRates
<1>13. Nests(ExchangeRates, "next_rate", ExchangeRate)
  BY <1>1, <1>2, <1>3, <1>11, InsideDeep, OverDomain, OverAt, AsWireAt, ExchangeRateAlike
  DEF Nests, AgreeAt
<1>14. ASSUME NEW n, n \notin {"current_rate", "next_rate"}
      PROVE  /\ Bare(convertExchangeRates, n)
             /\ Bare(MirrorExchangeRatesResponse, n)
             /\ Bare(ExchangeRates, n)
  BY <1>1, <1>2, <1>3, <1>14, FieldsDeep, NestedDeep, InsideDeep, FieldsTable, OverDomain,
     SameAt, AsWireAt
  DEF Bare, convertExchangeRates, MirrorExchangeRatesResponse
<1> QED
  BY <1>3, <1>4, <1>5, <1>6, <1>7, <1>8, <1>9, <1>10, <1>11, <1>12, <1>13, <1>14,
     ExchangeRateFits, FitsNested

(* Nodes.                                                                  *)
LEMMA ServiceEndpointFits ==
    Fits(Same(MirrorServiceEndpoint), MirrorServiceEndpoint, AsWire(MirrorServiceEndpoint))
<1>1. ASSUME NEW n
      PROVE  Entries(Same(MirrorServiceEndpoint), MirrorServiceEndpoint,
                     AsWire(MirrorServiceEndpoint), n)
  BY FieldsTop, OverDomain, OverAt, SameAt, AsWireAt, SafeSorts
  DEF Entries, Entry, MirrorServiceEndpoint, Bases
<1> QED
  BY <1>1, EntryFit, FitsFlat, FlatFields, FlatOver, FlatOf
  DEF MirrorServiceEndpoint

LEMMA NetworkNodeFits == Fits(convertNetworkNode, MirrorNetworkNode, NetworkNode)
<1>1. /\ Table(Same(MirrorServiceEndpoint)) /\ Table(MirrorServiceEndpoint)
      /\ Table(AsWire(MirrorServiceEndpoint))
  BY ServiceEndpointFits DEF Fits
<1>2. Table(MirrorNetworkNode)
  BY <1>1, FieldsTable, NestedTable, OverTable DEF MirrorNetworkNode
<1>3. Table(convertNetworkNode) /\ Table(NetworkNode)
  BY <1>1, <1>2, FieldsTable, OverTable, TablesOf
  DEF convertNetworkNode, Amount, To, NetworkNode
<1>4. ASSUME NEW n
      PROVE  /\ <<n>> \in DOMAIN MirrorNetworkNode <=>
                        n \in {"timestamp", "staking_period", "service_endpoints",
                               "associated_registered_nodes", "reward_rate_start",
                               "grpc_proxy_endpoint", "file_id", "memo", "node_cert_hash",
                               "public_key", "decline_reward", "admin_key", "stake", "min_stake",
                               "max_stake", "stake_rewarded", "stake_not_rewarded",
                               "node_account_id", "description", "node_id"}
             /\ n = "timestamp" => MirrorNetworkNode[<<n>>] = Optional(Period)
             /\ n = "staking_period" => MirrorNetworkNode[<<n>>] = Maybe(Period)
             /\ n \in {"service_endpoints", "associated_registered_nodes"} =>
                   MirrorNetworkNode[<<n>>] = Optional(List)
             /\ n = "reward_rate_start" => MirrorNetworkNode[<<n>>] = Maybe(MirrorAmount)
             /\ n = "grpc_proxy_endpoint" => MirrorNetworkNode[<<n>>] = Maybe(Object)
             /\ n \in {"file_id", "memo", "node_cert_hash", "public_key"} =>
                   MirrorNetworkNode[<<n>>] = Maybe(Text)
             /\ n = "decline_reward" => MirrorNetworkNode[<<n>>] = Maybe(Flag)
             /\ n = "admin_key" => MirrorNetworkNode[<<n>>] = MaybeKey
             /\ n \in {"stake", "min_stake", "max_stake", "stake_rewarded", "stake_not_rewarded"} =>
                   MirrorNetworkNode[<<n>>] = MirrorAmount
             /\ n \in {"node_account_id", "description"} => MirrorNetworkNode[<<n>>] = Text
             /\ n = "node_id" => MirrorNetworkNode[<<n>>] = Count
  BY <1>1, FieldsTop, NestedTop, OverDomain, OverAt DEF MirrorNetworkNode
<1>5. ASSUME NEW n
      PROVE  /\ <<n>> \in DOMAIN convertNetworkNode <=> <<n>> \in DOMAIN MirrorNetworkNode
             /\ <<n>> \in DOMAIN convertNetworkNode
                /\ n \notin {"reward_rate_start", "stake", "min_stake", "max_stake",
                             "stake_rewarded", "stake_not_rewarded", "admin_key"} =>
                   convertNetworkNode[<<n>>] = "same"
             /\ n \in {"reward_rate_start", "stake", "min_stake", "max_stake", "stake_rewarded",
                      "stake_not_rewarded"} =>
                   convertNetworkNode[<<n>>] = "amountString"
             /\ n = "admin_key" => convertNetworkNode[<<n>>] = "convertKey"
  BY <1>1, <1>2, <1>4, FieldsTop, OverDomain, OverAt, SameAt
  DEF convertNetworkNode, Amount, To
<1>6. ASSUME NEW n
      PROVE  /\ <<n>> \in DOMAIN NetworkNode <=> <<n>> \in DOMAIN MirrorNetworkNode
             /\ <<n>> \in DOMAIN NetworkNode =>
                   NetworkNode[<<n>>] = TypeOf(MirrorNetworkNode[<<n>>])
  BY <1>1, <1>2, <1>4, AsWireAt DEF NetworkNode
<1>7. ASSUME NEW n
      PROVE  Entries(convertNetworkNode, MirrorNetworkNode, NetworkNode, n)
  <2>1. /\ Entry("same", Optional(Period), TypeOf(Optional(Period)))
        /\ Entry("same", Maybe(Period), TypeOf(Maybe(Period)))
        /\ Entry("same", Optional(List), TypeOf(Optional(List)))
        /\ Entry("amountString", Maybe(MirrorAmount), TypeOf(Maybe(MirrorAmount)))
        /\ Entry("same", Maybe(Object), TypeOf(Maybe(Object)))
        /\ Entry("same", Maybe(Text), TypeOf(Maybe(Text)))
        /\ Entry("same", Maybe(Flag), TypeOf(Maybe(Flag)))
        /\ Entry("convertKey", MaybeKey, TypeOf(MaybeKey))
        /\ Entry("amountString", MirrorAmount, TypeOf(MirrorAmount))
        /\ Entry("same", Text, TypeOf(Text))
        /\ Entry("same", Count, TypeOf(Count))
    BY SafeSorts DEF Entry, Bases, Amounts, Keyed
  <2> QED
    BY <1>4, <1>5, <1>6, <2>1 DEF Entries
<1>8. Opens(convertNetworkNode, MirrorNetworkNode, "grpc_proxy_endpoint",
            Same(MirrorServiceEndpoint), AsWire(MirrorServiceEndpoint))
  BY <1>4, <1>5, HoldersKept DEF Opens
<1>9. Nests(MirrorNetworkNode, "grpc_proxy_endpoint", MirrorServiceEndpoint)
  BY <1>1, FieldsDeep, NestedDeep, OverDomain, OverAt DEF Nests, AgreeAt, MirrorNetworkNode
<1>10. Nests(convertNetworkNode, "grpc_proxy_endpoint", Same(MirrorServiceEndpoint))
  BY <1>1, <1>2, <1>9, FieldsDeep, OverDomain, OverAt, SameAt
  DEF Nests, AgreeAt, convertNetworkNode, Amount, To
<1>11. Nests(NetworkNode, "grpc_proxy_endpoint", AsWire(MirrorServiceEndpoint))
  BY <1>1, <1>2, <1>9, AsWireAt DEF Nests, AgreeAt, NetworkNode
<1>12. Opens(convertNetworkNode, MirrorNetworkNode, "service_endpoints",
             Same(MirrorServiceEndpoint), AsWire(MirrorServiceEndpoint))
  BY <1>4, <1>5, HoldersKept DEF Opens
<1>13. Nests(MirrorNetworkNode, "service_endpoints", MirrorServiceEndpoint)
  BY <1>1, FieldsDeep, NestedDeep, OverDomain, OverAt DEF Nests, AgreeAt, MirrorNetworkNode
<1>14. Nests(convertNetworkNode, "service_endpoints", Same(MirrorServiceEndpoint))
  BY <1>1, <1>2, <1>13, FieldsDeep, OverDomain, OverAt, SameAt
  DEF Nests, AgreeAt, convertNetworkNode, Amount, To
<1>15. Nests(NetworkNode, "service_endpoints", AsWire(MirrorServiceEndpoint))
  BY <1>1, <1>2, <1>13, AsWireAt DEF Nests, AgreeAt, NetworkNode
<1>16. ASSUME NEW n, n \notin {"grpc_proxy_endpoint", "service_endpoints"}
      PROVE  Bare(convertNetworkNode, n) /\ Bare(MirrorNetworkNode, n) /\ Bare(NetworkNode, n)
  BY <1>1, <1>2, <1>16, FieldsDeep, NestedDeep, OverDomain, SameAt, AsWireAt
  DEF Bare, convertNetworkNode, Amount, To, MirrorNetworkNode, NetworkNode
<1> QED
  BY <1>2, <1>3, <1>7, <1>8, <1>9, <1>10, <1>11, <1>12, <1>13, <1>14, <1>15, <1>16,
     ServiceEndpointFits, FitsNested

(* Fees.                                                                   *)
FeeRow == Fields({"gas"}, Count) ++ Fields({"transaction_type"}, Text)

LEMMA FeeRowFits == Fits(Same(FeeRow), FeeRow, AsWire(FeeRow))
<1>1. ASSUME NEW n
      PROVE  Entries(Same(FeeRow), FeeRow, AsWire(FeeRow), n)
  BY FieldsTop, OverDomain, OverAt, SameAt, AsWireAt, SafeSorts
  DEF Entries, Entry, FeeRow, Bases
<1> QED
  BY <1>1, EntryFit, FitsFlat, FlatFields, FlatOver, FlatOf
  DEF FeeRow

LEMMA NetworkFeesFit == Fits(convertNetworkFees, MirrorNetworkFeesResponse, NetworkFees)
<1>1. Table(Same(FeeRow)) /\ Table(FeeRow) /\ Table(AsWire(FeeRow))
  BY FeeRowFits DEF Fits
<1>2. MirrorNetworkFeesResponse =
          Nested("fees", List, FeeRow) ++ Fields({"timestamp"}, Text)
  BY DEF MirrorNetworkFeesResponse, FeeRow
<1>3. Table(MirrorNetworkFeesResponse)
  BY <1>1, <1>2, FieldsTable, NestedTable, OverTable
<1>4. Table(convertNetworkFees) /\ Table(NetworkFees)
  BY <1>1, <1>2, <1>3, FieldsTable, OverTable, TablesOf
  DEF convertNetworkFees, To, NetworkFees
<1>5. ASSUME NEW n
      PROVE  Entries(convertNetworkFees, MirrorNetworkFeesResponse, NetworkFees, n)
  BY <1>1, <1>2, <1>3, FieldsTop, NestedTop, OverDomain, OverAt, SameAt, AsWireAt, SafeSorts,
     FillingSuits
  DEF Entries, Entry, convertNetworkFees, To, NetworkFees, Bases
<1>6. Opens(convertNetworkFees, MirrorNetworkFeesResponse, "fees", Same(FeeRow), AsWire(FeeRow))
  BY <1>1, <1>2, <1>3, FieldsTop, NestedTop, OverDomain, OverAt, SameAt, HoldersKept
  DEF Opens, convertNetworkFees, To
<1>7. Nests(MirrorNetworkFeesResponse, "fees", FeeRow)
  BY <1>1, <1>2, FieldsDeep, NestedDeep, OverDomain, OverAt DEF Nests, AgreeAt
<1>8. Nests(convertNetworkFees, "fees", Same(FeeRow))
  BY <1>1, <1>2, <1>3, <1>7, FieldsDeep, OverDomain, OverAt, SameAt
  DEF Nests, AgreeAt, convertNetworkFees, To
<1>9. Nests(NetworkFees, "fees", AsWire(FeeRow))
  BY <1>1, <1>2, <1>3, <1>7, AsWireAt DEF Nests, AgreeAt, NetworkFees
<1>10. ASSUME NEW n, n # "fees"
      PROVE  /\ Bare(convertNetworkFees, n)
             /\ Bare(MirrorNetworkFeesResponse, n)
             /\ Bare(NetworkFees, n)
  BY <1>1, <1>2, <1>3, <1>10, FieldsDeep, NestedDeep, OverDomain, SameAt, AsWireAt
  DEF Bare, convertNetworkFees, To, NetworkFees
<1> QED
  BY <1>3, <1>4, <1>5, <1>6, <1>7, <1>8, <1>9, <1>10, FeeRowFits, FitsNested

(* Registered nodes, whose endpoints may say what they serve.              *)
BlockNode == Fields({"endpoint_apis"}, Optional(List))

LEMMA BlockNodeFits == Fits(Same(BlockNode), BlockNode, AsWire(BlockNode))
<1>1. ASSUME NEW n
      PROVE  Entries(Same(BlockNode), BlockNode, AsWire(BlockNode), n)
  BY FieldsTop, OverDomain, OverAt, SameAt, AsWireAt, SafeSorts
  DEF Entries, Entry, BlockNode, Bases
<1> QED
  BY <1>1, EntryFit, FitsFlat, FlatFields, FlatOver, FlatOf
  DEF BlockNode

GeneralService == Fields({"description"}, Optional(Text))

LEMMA GeneralServiceFits == Fits(Same(GeneralService), GeneralService, AsWire(GeneralService))
<1>1. ASSUME NEW n
      PROVE  Entries(Same(GeneralService), GeneralService, AsWire(GeneralService), n)
  BY FieldsTop, OverDomain, OverAt, SameAt, AsWireAt, SafeSorts
  DEF Entries, Entry, GeneralService, Bases
<1> QED
  BY <1>1, EntryFit, FitsFlat, FlatFields, FlatOver, FlatOf
  DEF GeneralService

LEMMA RegisteredEndpointFits ==
    Fits(Same(MirrorRegisteredServiceEndpoint), MirrorRegisteredServiceEndpoint,
         AsWire(MirrorRegisteredServiceEndpoint))
<1>1. /\ Table(Same(BlockNode)) /\ Table(BlockNode) /\ Table(AsWire(BlockNode))
      /\ Table(Same(GeneralService)) /\ Table(GeneralService) /\ Table(AsWire(GeneralService))
  BY BlockNodeFits, GeneralServiceFits DEF Fits
<1>2. MirrorRegisteredServiceEndpoint =
          Nested("block_node", Maybe(Object), BlockNode)
          ++ Nested("general_service", Maybe(Object), GeneralService)
          ++ Fields({"domain_name", "ip_address"}, Maybe(Text))
          ++ Fields({"mirror_node", "rpc_relay"}, Maybe(Object))
          ++ Fields({"port"}, Optional(Count)) ++ Fields({"requires_tls"}, Optional(Flag))
          ++ Fields({"type"}, Optional(Text))
  BY DEF MirrorRegisteredServiceEndpoint, BlockNode, GeneralService
<1>3. Table(MirrorRegisteredServiceEndpoint)
  BY <1>1, <1>2, FieldsTable, NestedTable, OverTable
<1>4. Table(Same(MirrorRegisteredServiceEndpoint)) /\ Table(AsWire(MirrorRegisteredServiceEndpoint))
  BY <1>1, <1>2, <1>3, TablesOf
<1>5. ASSUME NEW n
      PROVE  Entries(Same(MirrorRegisteredServiceEndpoint), MirrorRegisteredServiceEndpoint,
                     AsWire(MirrorRegisteredServiceEndpoint), n)
  BY <1>1, <1>2, <1>3, FieldsTop, NestedTop, OverDomain, OverAt, SameAt, AsWireAt, SafeSorts
  DEF Entries, Entry, Bases
<1>6. Opens(Same(MirrorRegisteredServiceEndpoint), MirrorRegisteredServiceEndpoint, "block_node",
            Same(BlockNode), AsWire(BlockNode))
  BY <1>1, <1>2, <1>3, FieldsTop, NestedTop, OverDomain, OverAt, SameAt, HoldersKept DEF Opens
<1>7. Nests(MirrorRegisteredServiceEndpoint, "block_node", BlockNode)
  BY <1>1, <1>2, FieldsDeep, NestedDeep, OverDomain, OverAt DEF Nests, AgreeAt
<1>8. Nests(Same(MirrorRegisteredServiceEndpoint), "block_node", Same(BlockNode))
  BY <1>1, <1>2, <1>3, <1>7, SameAt DEF Nests, AgreeAt
<1>9. Nests(AsWire(MirrorRegisteredServiceEndpoint), "block_node", AsWire(BlockNode))
  BY <1>1, <1>2, <1>3, <1>7, AsWireAt DEF Nests, AgreeAt
<1>10. Opens(Same(MirrorRegisteredServiceEndpoint), MirrorRegisteredServiceEndpoint,
             "general_service", Same(GeneralService), AsWire(GeneralService))
  BY <1>1, <1>2, <1>3, FieldsTop, NestedTop, OverDomain, OverAt, SameAt, HoldersKept DEF Opens
<1>11. Nests(MirrorRegisteredServiceEndpoint, "general_service", GeneralService)
  BY <1>1, <1>2, FieldsDeep, NestedDeep, OverDomain, OverAt DEF Nests, AgreeAt
<1>12. Nests(Same(MirrorRegisteredServiceEndpoint), "general_service", Same(GeneralService))
  BY <1>1, <1>2, <1>3, <1>11, SameAt DEF Nests, AgreeAt
<1>13. Nests(AsWire(MirrorRegisteredServiceEndpoint), "general_service", AsWire(GeneralService))
  BY <1>1, <1>2, <1>3, <1>11, AsWireAt DEF Nests, AgreeAt
<1>14. ASSUME NEW n, n \notin {"block_node", "general_service"}
      PROVE  /\ Bare(Same(MirrorRegisteredServiceEndpoint), n)
             /\ Bare(MirrorRegisteredServiceEndpoint, n)
             /\ Bare(AsWire(MirrorRegisteredServiceEndpoint), n)
  BY <1>1, <1>2, <1>3, <1>14, FieldsDeep, NestedDeep, OverDomain, SameAt, AsWireAt DEF Bare
<1> QED
  BY <1>3, <1>4, <1>5, <1>6, <1>7, <1>8, <1>9, <1>10, <1>11, <1>12, <1>13, <1>14, BlockNodeFits,
     GeneralServiceFits, FitsNested

LEMMA RegisteredNodeFits == Fits(convertRegisteredNode, MirrorRegisteredNode, RegisteredNode)
<1>1. /\ Table(Same(MirrorRegisteredServiceEndpoint))
      /\ Table(MirrorRegisteredServiceEndpoint)
      /\ Table(AsWire(MirrorRegisteredServiceEndpoint))
  BY RegisteredEndpointFits DEF Fits
<1>2. Table(MirrorRegisteredNode)
  BY <1>1, FieldsTable, NestedTable, OverTable DEF MirrorRegisteredNode
<1>3. Table(convertRegisteredNode) /\ Table(RegisteredNode)
  BY <1>1, <1>2, FieldsTable, OverTable, TablesOf
  DEF convertRegisteredNode, To, RegisteredNode
<1>4. ASSUME NEW n
      PROVE  Entries(convertRegisteredNode, MirrorRegisteredNode, RegisteredNode, n)
  BY <1>1, <1>2, FieldsTop, NestedTop, OverDomain, OverAt, SameAt, AsWireAt, SafeSorts,
     FillingSuits
  DEF Entries, Entry, convertRegisteredNode, To, MirrorRegisteredNode, RegisteredNode, Bases,
      Keyed
<1>5. Opens(convertRegisteredNode, MirrorRegisteredNode, "service_endpoints",
            Same(MirrorRegisteredServiceEndpoint), AsWire(MirrorRegisteredServiceEndpoint))
  BY <1>1, <1>2, FieldsTop, NestedTop, OverDomain, OverAt, SameAt, HoldersKept
  DEF Opens, convertRegisteredNode, To, MirrorRegisteredNode
<1>6. Nests(MirrorRegisteredNode, "service_endpoints", MirrorRegisteredServiceEndpoint)
  BY <1>1, FieldsDeep, NestedDeep, OverDomain, OverAt DEF Nests, AgreeAt, MirrorRegisteredNode
<1>7. Nests(convertRegisteredNode, "service_endpoints", Same(MirrorRegisteredServiceEndpoint))
  BY <1>1, <1>2, <1>6, FieldsDeep, OverDomain, OverAt, SameAt
  DEF Nests, AgreeAt, convertRegisteredNode, To
<1>8. Nests(RegisteredNode, "service_endpoints", AsWire(MirrorRegisteredServiceEndpoint))
  BY <1>1, <1>2, <1>6, AsWireAt DEF Nests, AgreeAt, RegisteredNode
<1>9. ASSUME NEW n, n # "service_endpoints"
      PROVE  /\ Bare(convertRegisteredNode, n)
             /\ Bare(MirrorRegisteredNode, n)
             /\ Bare(RegisteredNode, n)
  BY <1>1, <1>2, <1>9, FieldsDeep, NestedDeep, OverDomain, SameAt, AsWireAt
  DEF Bare, convertRegisteredNode, To, MirrorRegisteredNode, RegisteredNode
<1> QED
  BY <1>2, <1>3, <1>4, <1>5, <1>6, <1>7, <1>8, <1>9, RegisteredEndpointFits, FitsNested

(* Schedules.                                                              *)
LEMMA SignatureFits ==
    Fits(Same(MirrorScheduleSignature), MirrorScheduleSignature, AsWire(MirrorScheduleSignature))
<1>1. ASSUME NEW n
      PROVE  Entries(Same(MirrorScheduleSignature), MirrorScheduleSignature,
                     AsWire(MirrorScheduleSignature), n)
  BY FieldsTop, OverDomain, OverAt, SameAt, AsWireAt, SafeSorts
  DEF Entries, Entry, MirrorScheduleSignature, Bases
<1> QED
  BY <1>1, EntryFit, FitsFlat, FlatFields, FlatOver, FlatOf
  DEF MirrorScheduleSignature

LEMMA ScheduleFits == Fits(convertSchedule, MirrorScheduleResponse, MirrorSchedule)
<1>1. /\ Table(Same(MirrorScheduleSignature)) /\ Table(MirrorScheduleSignature)
      /\ Table(AsWire(MirrorScheduleSignature))
  BY SignatureFits DEF Fits
<1>2. Table(MirrorScheduleResponse)
  BY <1>1, FieldsTable, NestedTable, OverTable DEF MirrorScheduleResponse
<1>3. Table(convertSchedule) /\ Table(MirrorSchedule)
  BY <1>1, <1>2, FieldsTable, OverTable, TablesOf DEF convertSchedule, To, MirrorSchedule
<1>4. ASSUME NEW n
      PROVE  Entries(convertSchedule, MirrorScheduleResponse, MirrorSchedule, n)
  BY <1>1, <1>2, FieldsTop, NestedTop, OverDomain, OverAt, SameAt, AsWireAt, SafeSorts,
     FillingSuits
  DEF Entries, Entry, convertSchedule, To, MirrorScheduleResponse, MirrorSchedule, Bases, Keyed
<1>5. Opens(convertSchedule, MirrorScheduleResponse, "signatures", Same(MirrorScheduleSignature),
            AsWire(MirrorScheduleSignature))
  BY <1>1, <1>2, FieldsTop, NestedTop, OverDomain, OverAt, SameAt, HoldersKept
  DEF Opens, convertSchedule, To, MirrorScheduleResponse
<1>6. Nests(MirrorScheduleResponse, "signatures", MirrorScheduleSignature)
  BY <1>1, FieldsDeep, NestedDeep, OverDomain, OverAt
  DEF Nests, AgreeAt, MirrorScheduleResponse
<1>7. Nests(convertSchedule, "signatures", Same(MirrorScheduleSignature))
  BY <1>1, <1>2, <1>6, FieldsDeep, OverDomain, OverAt, SameAt
  DEF Nests, AgreeAt, convertSchedule, To
<1>8. Nests(MirrorSchedule, "signatures", AsWire(MirrorScheduleSignature))
  BY <1>1, <1>2, <1>6, AsWireAt DEF Nests, AgreeAt, MirrorSchedule
<1>9. ASSUME NEW n, n # "signatures"
      PROVE  /\ Bare(convertSchedule, n)
             /\ Bare(MirrorScheduleResponse, n)
             /\ Bare(MirrorSchedule, n)
  BY <1>1, <1>2, <1>9, FieldsDeep, NestedDeep, OverDomain, SameAt, AsWireAt
  DEF Bare, convertSchedule, To, MirrorScheduleResponse, MirrorSchedule
<1> QED
  BY <1>2, <1>3, <1>4, <1>5, <1>6, <1>7, <1>8, <1>9, SignatureFits, FitsNested

(* Estimates of fees.                                                      *)
FeeExtra ==
    Fields({"charged", "count", "fee_per_unit", "included", "subtotal"}, Count)
    ++ Fields({"name"}, Text)

LEMMA FeeExtraFits == Fits(Same(FeeExtra), FeeExtra, AsWire(FeeExtra))
<1>1. ASSUME NEW n
      PROVE  Entries(Same(FeeExtra), FeeExtra, AsWire(FeeExtra), n)
  BY FieldsTop, OverDomain, OverAt, SameAt, AsWireAt, SafeSorts
  DEF Entries, Entry, FeeExtra, Bases
<1> QED
  BY <1>1, EntryFit, FitsFlat, FlatFields, FlatOver, FlatOf
  DEF FeeExtra

LEMMA FeeComponentFits ==
    Fits(convertFeeEstimateComponent, MirrorFeeEstimateComponent,
         AsWire(MirrorFeeEstimateComponent))
<1>1. Table(Same(FeeExtra)) /\ Table(FeeExtra) /\ Table(AsWire(FeeExtra))
  BY FeeExtraFits DEF Fits
<1>2. MirrorFeeEstimateComponent =
          Fields({"base"}, Count) ++ Nested("extras", List, FeeExtra)
  BY DEF MirrorFeeEstimateComponent, FeeExtra
<1>3. Table(MirrorFeeEstimateComponent)
  BY <1>1, <1>2, FieldsTable, NestedTable, OverTable
<1>4. Table(convertFeeEstimateComponent) /\ Table(AsWire(MirrorFeeEstimateComponent))
  BY <1>1, <1>2, <1>3, FieldsTable, OverTable, TablesOf DEF convertFeeEstimateComponent, To
<1>5. ASSUME NEW n
      PROVE  Entries(convertFeeEstimateComponent, MirrorFeeEstimateComponent,
                     AsWire(MirrorFeeEstimateComponent), n)
  BY <1>1, <1>2, <1>3, FieldsTop, NestedTop, OverDomain, OverAt, SameAt, AsWireAt, SafeSorts,
     FillingSuits
  DEF Entries, Entry, convertFeeEstimateComponent, To, Bases
<1>6. Opens(convertFeeEstimateComponent, MirrorFeeEstimateComponent, "extras", Same(FeeExtra),
            AsWire(FeeExtra))
  BY <1>1, <1>2, <1>3, FieldsTop, NestedTop, OverDomain, OverAt, SameAt, HoldersKept
  DEF Opens, convertFeeEstimateComponent, To
<1>7. Nests(MirrorFeeEstimateComponent, "extras", FeeExtra)
  BY <1>1, <1>2, FieldsDeep, NestedDeep, OverDomain, OverAt DEF Nests, AgreeAt
<1>8. Nests(convertFeeEstimateComponent, "extras", Same(FeeExtra))
  BY <1>1, <1>2, <1>3, <1>7, FieldsDeep, OverDomain, OverAt, SameAt
  DEF Nests, AgreeAt, convertFeeEstimateComponent, To
<1>9. Nests(AsWire(MirrorFeeEstimateComponent), "extras", AsWire(FeeExtra))
  BY <1>1, <1>2, <1>3, <1>7, AsWireAt DEF Nests, AgreeAt
<1>10. ASSUME NEW n, n # "extras"
      PROVE  /\ Bare(convertFeeEstimateComponent, n)
             /\ Bare(MirrorFeeEstimateComponent, n)
             /\ Bare(AsWire(MirrorFeeEstimateComponent), n)
  BY <1>1, <1>2, <1>3, <1>10, FieldsDeep, NestedDeep, OverDomain, SameAt, AsWireAt
  DEF Bare, convertFeeEstimateComponent, To
<1> QED
  BY <1>3, <1>4, <1>5, <1>6, <1>7, <1>8, <1>9, <1>10, FeeExtraFits, FitsNested

NetworkFee == Fields({"multiplier", "subtotal"}, Count)

LEMMA NetworkFeeFits == Fits(Same(NetworkFee), NetworkFee, AsWire(NetworkFee))
<1>1. ASSUME NEW n
      PROVE  Entries(Same(NetworkFee), NetworkFee, AsWire(NetworkFee), n)
  BY FieldsTop, OverDomain, OverAt, SameAt, AsWireAt, SafeSorts
  DEF Entries, Entry, NetworkFee, Bases
<1> QED
  BY <1>1, EntryFit, FitsFlat, FlatFields, FlatOver, FlatOf
  DEF NetworkFee

LEMMA FeeComponentAlike ==
    ASSUME NEW h
    PROVE  h \in DOMAIN convertFeeEstimateComponent <=> h \in DOMAIN MirrorFeeEstimateComponent
BY OverDomain, SameAt, FieldsIn
DEF convertFeeEstimateComponent, MirrorFeeEstimateComponent, Nested, To

LEMMA FeeEstimateFits == Fits(convertFeeEstimate, MirrorFeeEstimateResponse, FeeEstimate)
<1>1. /\ Table(Same(NetworkFee)) /\ Table(NetworkFee) /\ Table(AsWire(NetworkFee))
      /\ Table(convertFeeEstimateComponent) /\ Table(MirrorFeeEstimateComponent)
      /\ Table(AsWire(MirrorFeeEstimateComponent))
  BY NetworkFeeFits, FeeComponentFits DEF Fits
<1>2. MirrorFeeEstimateResponse =
          Fields({"high_volume_multiplier", "total"}, Count)
          ++ Nested("network", Object, NetworkFee)
          ++ Nested("node", Object, MirrorFeeEstimateComponent)
          ++ Nested("service", Object, MirrorFeeEstimateComponent)
  BY DEF MirrorFeeEstimateResponse, NetworkFee
<1>3. Table(MirrorFeeEstimateResponse)
  BY <1>1, <1>2, FieldsTable, NestedTable, OverTable
<1>4. Table(convertFeeEstimate) /\ Table(FeeEstimate)
  BY <1>1, <1>2, <1>3, InsideTable, OverTable, TablesOf DEF convertFeeEstimate, FeeEstimate
<1>5. ASSUME NEW n
      PROVE  Entries(convertFeeEstimate, MirrorFeeEstimateResponse, FeeEstimate, n)
  BY <1>1, <1>2, <1>3, FieldsTop, NestedTop, InsideTop, FieldsTable, OverDomain, OverAt, SameAt,
     AsWireAt, SafeSorts
  DEF Entries, Entry, convertFeeEstimate, FeeEstimate, Bases
<1>6. Opens(convertFeeEstimate, MirrorFeeEstimateResponse, "network", Same(NetworkFee),
            AsWire(NetworkFee))
  BY <1>1, <1>2, <1>3, FieldsTop, NestedTop, InsideTop, FieldsTable, OverDomain, OverAt, SameAt,
     HoldersKept
  DEF Opens, convertFeeEstimate
<1>7. Nests(MirrorFeeEstimateResponse, "network", NetworkFee)
  BY <1>1, <1>2, FieldsDeep, NestedDeep, OverDomain, OverAt DEF Nests, AgreeAt
<1>8. Nests(convertFeeEstimate, "network", Same(NetworkFee))
  BY <1>1, <1>2, <1>3, <1>7, InsideDeep, OverDomain, OverAt, SameAt
  DEF Nests, AgreeAt, convertFeeEstimate
<1>9. Nests(FeeEstimate, "network", AsWire(NetworkFee))
  BY <1>1, <1>2, <1>3, <1>7, AsWireAt DEF Nests, AgreeAt, FeeEstimate
<1>10. Opens(convertFeeEstimate, MirrorFeeEstimateResponse, "node", convertFeeEstimateComponent,
             AsWire(MirrorFeeEstimateComponent))
  BY <1>1, <1>2, <1>3, FieldsTop, NestedTop, InsideTop, FieldsTable, OverDomain, OverAt, SameAt,
     HoldersKept
  DEF Opens, convertFeeEstimate
<1>11. Nests(MirrorFeeEstimateResponse, "node", MirrorFeeEstimateComponent)
  BY <1>1, <1>2, FieldsDeep, NestedDeep, OverDomain, OverAt DEF Nests, AgreeAt
<1>12. Nests(convertFeeEstimate, "node", convertFeeEstimateComponent)
  BY <1>1, <1>2, <1>3, <1>11, InsideDeep, OverDomain, OverAt, SameAt, FeeComponentAlike
  DEF Nests, AgreeAt, convertFeeEstimate
<1>13. Nests(FeeEstimate, "node", AsWire(MirrorFeeEstimateComponent))
  BY <1>1, <1>2, <1>3, <1>11, AsWireAt DEF Nests, AgreeAt, FeeEstimate
<1>14. Opens(convertFeeEstimate, MirrorFeeEstimateResponse, "service",
             convertFeeEstimateComponent, AsWire(MirrorFeeEstimateComponent))
  BY <1>1, <1>2, <1>3, FieldsTop, NestedTop, InsideTop, FieldsTable, OverDomain, OverAt, SameAt,
     HoldersKept
  DEF Opens, convertFeeEstimate
<1>15. Nests(MirrorFeeEstimateResponse, "service", MirrorFeeEstimateComponent)
  BY <1>1, <1>2, FieldsDeep, NestedDeep, OverDomain, OverAt DEF Nests, AgreeAt
<1>16. Nests(convertFeeEstimate, "service", convertFeeEstimateComponent)
  BY <1>1, <1>2, <1>3, <1>15, InsideDeep, OverDomain, OverAt, SameAt, FeeComponentAlike
  DEF Nests, AgreeAt, convertFeeEstimate
<1>17. Nests(FeeEstimate, "service", AsWire(MirrorFeeEstimateComponent))
  BY <1>1, <1>2, <1>3, <1>15, AsWireAt DEF Nests, AgreeAt, FeeEstimate
<1>18. ASSUME NEW n, n \notin {"network", "node", "service"}
      PROVE  /\ Bare(convertFeeEstimate, n)
             /\ Bare(MirrorFeeEstimateResponse, n)
             /\ Bare(FeeEstimate, n)
  BY <1>1, <1>2, <1>3, <1>18, FieldsDeep, NestedDeep, InsideDeep, FieldsTable, OverDomain,
     SameAt, AsWireAt
  DEF Bare, convertFeeEstimate, FeeEstimate
<1> QED
  BY <1>3, <1>4, <1>5, <1>6, <1>7, <1>8, <1>9, <1>10, <1>11, <1>12, <1>13, <1>14, <1>15, <1>16,
     <1>17, <1>18, NetworkFeeFits, FeeComponentFits, FitsNested

(* Contracts: results, as listed and in detail, and traces.                *)
convertAccess == To("orEmpty", {"storage_keys"}) ++ Same(MirrorAccessListEntry)

LEMMA AccessFits == Fits(convertAccess, MirrorAccessListEntry, AsWire(MirrorAccessListEntry))
<1>1. ASSUME NEW n
      PROVE  Entries(convertAccess, MirrorAccessListEntry, AsWire(MirrorAccessListEntry), n)
  BY FieldsTop, OverDomain, OverAt, SameAt, AsWireAt, SafeSorts, FillingSuits
  DEF Entries, Entry, convertAccess, MirrorAccessListEntry, To, Bases
<1> QED
  BY <1>1, EntryFit, FitsFlat, FlatFields, FlatOver, FlatOf
  DEF convertAccess, MirrorAccessListEntry, To

convertAuthorization == Amount({"nonce"}) ++ Same(MirrorAuthorizationListEntry)

LEMMA AuthorizationFits ==
    Fits(convertAuthorization, MirrorAuthorizationListEntry,
         AsWire(MirrorAuthorizationListEntry))
<1>1. ASSUME NEW n
      PROVE  Entries(convertAuthorization, MirrorAuthorizationListEntry,
                     AsWire(MirrorAuthorizationListEntry), n)
  BY FieldsTop, OverDomain, OverAt, SameAt, AsWireAt, SafeSorts
  DEF Entries, Entry, convertAuthorization, MirrorAuthorizationListEntry, Amount, To, Bases,
      Amounts
<1> QED
  BY <1>1, EntryFit, FitsFlat, FlatFields, FlatOver, FlatOf
  DEF convertAuthorization, MirrorAuthorizationListEntry, Amount, To

LEMMA ContractResultFits == Fits(convertContractResult, MirrorContractResult, ContractResult)
<1>1. /\ Table(convertAccess) /\ Table(MirrorAccessListEntry)
      /\ Table(AsWire(MirrorAccessListEntry)) /\ Table(convertAuthorization)
      /\ Table(MirrorAuthorizationListEntry) /\ Table(AsWire(MirrorAuthorizationListEntry))
  BY AccessFits, AuthorizationFits DEF Fits
<1>2. convertContractResult =
          Nested("access_list", "same", convertAccess)
          ++ Nested("authorization_list", "same", convertAuthorization)
          ++ Amount({"amount"}) ++ Gas({"block_gas_used", "gas_consumed", "gas_limit", "gas_used"})
          ++ To("orUndefined", {"failed_initcode"}) ++ Same(MirrorContractResult)
  BY DEF convertContractResult, convertAccess, convertAuthorization
<1>3. Table(MirrorContractResult)
  BY <1>1, FieldsTable, NestedTable, OverTable
  DEF MirrorContractResult, DetailTexts, DetailCounts
<1>4. Table(convertContractResult) /\ Table(ContractResult)
  BY <1>1, <1>2, <1>3, FieldsTable, NestedTable, OverTable, TablesOf
  DEF Amount, To, Gas, ContractResult, ContractGas
<1>5. ASSUME NEW n
      PROVE  /\ <<n>> \in DOMAIN MirrorContractResult <=>
                        n \in {"hash", "timestamp", "contract_id", "from", "to",
                               "created_contract_ids", "authorization_list", "access_list",
                               "block_number", "nonce", "transaction_index", "type", "v",
                               "block_hash", "chain_id", "gas_price", "max_fee_per_gas",
                               "max_priority_fee_per_gas", "bloom", "call_result",
                               "error_message", "function_parameters", "r", "s",
                               "failed_initcode", "block_gas_used", "gas_consumed", "gas_limit",
                               "amount", "gas_used", "address", "result", "status"}
             /\ n \in {"hash", "timestamp"} => MirrorContractResult[<<n>>] = Text
             /\ n \in {"contract_id", "from", "to"} =>
                   MirrorContractResult[<<n>>] = Nullable(Text)
             /\ n \in {"created_contract_ids", "authorization_list", "access_list"} =>
                   MirrorContractResult[<<n>>] = Maybe(List)
             /\ n \in {"block_number", "nonce", "transaction_index", "type", "v"} =>
                   MirrorContractResult[<<n>>] = Maybe(Count)
             /\ n \in {"block_hash", "chain_id", "gas_price", "max_fee_per_gas",
                      "max_priority_fee_per_gas", "bloom", "call_result", "error_message",
                      "function_parameters", "r", "s", "failed_initcode"} =>
                   MirrorContractResult[<<n>>] = Maybe(Text)
             /\ n \in {"block_gas_used", "gas_consumed"} =>
                   MirrorContractResult[<<n>>] = Maybe(MirrorAmount)
             /\ n = "gas_limit" => MirrorContractResult[<<n>>] = MirrorAmount
             /\ n \in {"amount", "gas_used"} =>
                   MirrorContractResult[<<n>>] = Nullable(MirrorAmount)
             /\ n \in {"address", "result", "status"} =>
                   MirrorContractResult[<<n>>] = Optional(Text)
  BY <1>1, FieldsTop, NestedTop, OverDomain, OverAt
  DEF MirrorContractResult, DetailTexts, DetailCounts
<1>6. ASSUME NEW n
      PROVE  /\ <<n>> \in DOMAIN convertContractResult <=> <<n>> \in DOMAIN MirrorContractResult
             /\ <<n>> \in DOMAIN convertContractResult
                /\ n \notin {"failed_initcode", "block_gas_used", "gas_consumed", "gas_limit",
                             "gas_used", "amount"} =>
                   convertContractResult[<<n>>] = "same"
             /\ n = "failed_initcode" => convertContractResult[<<n>>] = "orUndefined"
             /\ n \in {"block_gas_used", "gas_consumed", "gas_limit", "gas_used"} =>
                   convertContractResult[<<n>>] = "amountNumber"
             /\ n = "amount" => convertContractResult[<<n>>] = "amountString"
  BY <1>1, <1>2, <1>3, <1>5, FieldsTop, NestedTop, OverDomain, OverAt, SameAt
  DEF Amount, To, Gas
<1>7. ASSUME NEW n
      PROVE  /\ <<n>> \in DOMAIN ContractResult <=> <<n>> \in DOMAIN MirrorContractResult
             /\ <<n>> \in DOMAIN ContractResult
                /\ n \notin {"failed_initcode", "block_gas_used", "gas_consumed", "gas_limit",
                             "gas_used"} =>
                   ContractResult[<<n>>] = TypeOf(MirrorContractResult[<<n>>])
             /\ n = "failed_initcode" => ContractResult[<<n>>] = Less(TypeOf(Maybe(Text)))
             /\ n \in {"block_gas_used", "gas_consumed"} =>
                   ContractResult[<<n>>] = {"number", "null", "undefined"}
             /\ n = "gas_limit" => ContractResult[<<n>>] = {"number"}
             /\ n = "gas_used" => ContractResult[<<n>>] = {"number", "null"}
  BY <1>1, <1>2, <1>3, <1>5, AsWireAt, NeverNullAt, HaveAt, NamedTop
  DEF ContractResult, ContractGas
<1>8. ASSUME NEW n
      PROVE  Entries(convertContractResult, MirrorContractResult, ContractResult, n)
  <2>1. /\ Entry("same", Text, TypeOf(Text))
        /\ Entry("same", Nullable(Text), TypeOf(Nullable(Text)))
        /\ Entry("same", Maybe(List), TypeOf(Maybe(List)))
        /\ Entry("same", Maybe(Count), TypeOf(Maybe(Count)))
        /\ Entry("same", Maybe(Text), TypeOf(Maybe(Text)))
        /\ Entry("orUndefined", Maybe(Text), Less(TypeOf(Maybe(Text))))
        /\ Entry("amountNumber", Maybe(MirrorAmount), {"number", "null", "undefined"})
        /\ Entry("amountNumber", MirrorAmount, {"number"})
        /\ Entry("amountString", Nullable(MirrorAmount), TypeOf(Nullable(MirrorAmount)))
        /\ Entry("amountNumber", Nullable(MirrorAmount), {"number", "null"})
        /\ Entry("same", Optional(Text), TypeOf(Optional(Text)))
    BY SafeSorts, SuitsGas, GapSorts DEF Entry, Bases, Amounts
  <2> QED
    BY <1>5, <1>6, <1>7, <2>1 DEF Entries
<1>9. Opens(convertContractResult, MirrorContractResult, "access_list", convertAccess,
            AsWire(MirrorAccessListEntry))
  BY <1>5, <1>6, HoldersKept DEF Opens
<1>10. Nests(MirrorContractResult, "access_list", MirrorAccessListEntry)
  BY <1>1, FieldsDeep, NestedDeep, OverDomain, OverAt
  DEF Nests, AgreeAt, MirrorContractResult, DetailTexts, DetailCounts
<1>11. Nests(convertContractResult, "access_list", convertAccess)
  BY <1>1, <1>2, <1>3, <1>10, FieldsDeep, NestedDeep, OverDomain, OverAt, SameAt
  DEF Nests, AgreeAt, Amount, To, Gas, convertAccess
<1>12. Nests(ContractResult, "access_list", AsWire(MirrorAccessListEntry))
  BY <1>1, <1>2, <1>3, <1>10, AsWireAt, NeverNullAt, HaveAt, NamedDeep
  DEF Nests, AgreeAt, ContractResult, ContractGas
<1>13. Opens(convertContractResult, MirrorContractResult, "authorization_list",
             convertAuthorization, AsWire(MirrorAuthorizationListEntry))
  BY <1>5, <1>6, HoldersKept DEF Opens
<1>14. Nests(MirrorContractResult, "authorization_list", MirrorAuthorizationListEntry)
  BY <1>1, FieldsDeep, NestedDeep, OverDomain, OverAt
  DEF Nests, AgreeAt, MirrorContractResult, DetailTexts, DetailCounts
<1>15. Nests(convertContractResult, "authorization_list", convertAuthorization)
  BY <1>1, <1>2, <1>3, <1>14, FieldsDeep, NestedDeep, OverDomain, OverAt, SameAt
  DEF Nests, AgreeAt, Amount, To, Gas, convertAuthorization
<1>16. Nests(ContractResult, "authorization_list", AsWire(MirrorAuthorizationListEntry))
  BY <1>1, <1>2, <1>3, <1>14, AsWireAt, NeverNullAt, HaveAt, NamedDeep
  DEF Nests, AgreeAt, ContractResult, ContractGas
<1>17. ASSUME NEW n, n \notin {"access_list", "authorization_list"}
      PROVE  /\ Bare(convertContractResult, n)
             /\ Bare(MirrorContractResult, n)
             /\ Bare(ContractResult, n)
  <2>1. Bare(MirrorContractResult, n)
    BY <1>1, <1>17, FieldsDeep, NestedDeep, OverDomain
    DEF Bare, MirrorContractResult, DetailTexts, DetailCounts
  <2>2. Bare(convertContractResult, n)
    BY <1>1, <1>2, <1>17, <2>1, FieldsDeep, NestedDeep, OverDomain, SameAt
    DEF Bare, Amount, To, Gas
  <2>3. Bare(ContractResult, n)
    BY <1>3, <1>17, <2>1, AsWireAt, NeverNullAt, HaveAt, NamedDeep
    DEF Bare, ContractResult, ContractGas
  <2> QED
    BY <2>1, <2>2, <2>3
<1> QED
  BY <1>3, <1>4, <1>8, <1>9, <1>10, <1>11, <1>12, <1>13, <1>14, <1>15, <1>16, <1>17, AccessFits,
     AuthorizationFits, FitsNested

(* The details of a result have its fields, some of a narrower type.       *)
LEMMA ContractResultTop ==
    ASSUME NEW n
    PROVE  /\ <<n>> \in DOMAIN convertContractResult <=>
                      n \in {"hash", "timestamp", "contract_id", "from", "to",
                             "created_contract_ids", "authorization_list", "access_list",
                             "block_number", "nonce", "transaction_index", "type", "v",
                             "block_hash", "chain_id", "gas_price", "max_fee_per_gas",
                             "max_priority_fee_per_gas", "bloom", "call_result",
                             "error_message", "function_parameters", "r", "s", "address",
                             "result", "status", "failed_initcode", "block_gas_used",
                             "gas_consumed", "gas_limit", "gas_used", "amount"}
           /\ n \in {"hash", "timestamp", "contract_id", "from", "to", "created_contract_ids",
                    "authorization_list", "access_list", "block_number", "nonce",
                    "transaction_index", "type", "v", "block_hash", "chain_id", "gas_price",
                    "max_fee_per_gas", "max_priority_fee_per_gas", "bloom", "call_result",
                    "error_message", "function_parameters", "r", "s", "address", "result",
                    "status"} =>
                 convertContractResult[<<n>>] = "same"
           /\ n = "failed_initcode" => convertContractResult[<<n>>] = "orUndefined"
           /\ n \in {"block_gas_used", "gas_consumed", "gas_limit", "gas_used"} =>
                 convertContractResult[<<n>>] = "amountNumber"
           /\ n = "amount" => convertContractResult[<<n>>] = "amountString"
<1>1. /\ Table(convertAccess) /\ Table(MirrorAccessListEntry) /\ Table(convertAuthorization)
      /\ Table(MirrorAuthorizationListEntry)
  BY AccessFits, AuthorizationFits DEF Fits
<1>2. convertContractResult =
          Nested("access_list", "same", convertAccess)
          ++ Nested("authorization_list", "same", convertAuthorization)
          ++ Amount({"amount"}) ++ Gas({"block_gas_used", "gas_consumed", "gas_limit", "gas_used"})
          ++ To("orUndefined", {"failed_initcode"}) ++ Same(MirrorContractResult)
  BY DEF convertContractResult, convertAccess, convertAuthorization
<1> QED
  BY <1>1, <1>2, FieldsTop, NestedTop, OverDomain, OverAt, SameAt
  DEF MirrorContractResult, DetailTexts, DetailCounts, Amount, Gas, To

LEMMA ContractResultDeep ==
    ASSUME NEW n, NEW g, Deep(g)
    PROVE  /\ Path(n, g) \in DOMAIN convertContractResult <=>
                 \/ n = "access_list" /\ g \in DOMAIN convertAccess
                 \/ n = "authorization_list" /\ g \in DOMAIN convertAuthorization
           /\ n = "access_list" /\ g \in DOMAIN convertAccess =>
                 convertContractResult[Path(n, g)] = convertAccess[g]
           /\ n = "authorization_list" /\ g \in DOMAIN convertAuthorization =>
                 convertContractResult[Path(n, g)] = convertAuthorization[g]
<1>1. /\ Table(convertAccess) /\ Table(MirrorAccessListEntry) /\ Table(convertAuthorization)
      /\ Table(MirrorAuthorizationListEntry)
  BY AccessFits, AuthorizationFits DEF Fits
<1>2. convertContractResult =
          Nested("access_list", "same", convertAccess)
          ++ Nested("authorization_list", "same", convertAuthorization)
          ++ Amount({"amount"}) ++ Gas({"block_gas_used", "gas_consumed", "gas_limit", "gas_used"})
          ++ To("orUndefined", {"failed_initcode"}) ++ Same(MirrorContractResult)
  BY DEF convertContractResult, convertAccess, convertAuthorization
<1>3. /\ g \in DOMAIN MirrorAccessListEntry => g \in DOMAIN convertAccess
      /\ g \in DOMAIN MirrorAuthorizationListEntry => g \in DOMAIN convertAuthorization
  BY OverDomain, SameAt DEF convertAccess, convertAuthorization
<1> QED
  BY <1>1, <1>2, <1>3, FieldsDeep, NestedDeep, OverDomain, OverAt, SameAt
  DEF MirrorContractResult, Amount, Gas, To

LEMMA LogEntryFits ==
    Fits(convertContractLogEntry, MirrorContractResultLog, AsWire(MirrorContractResultLog))
<1>1. ASSUME NEW n
      PROVE  Entries(convertContractLogEntry, MirrorContractResultLog,
                     AsWire(MirrorContractResultLog), n)
  BY FieldsTop, OverDomain, OverAt, SameAt, AsWireAt, SafeSorts, FillingSuits
  DEF Entries, Entry, convertContractLogEntry, MirrorContractResultLog, To, Bases
<1> QED
  BY <1>1, EntryFit, FitsFlat, FlatFields, FlatOver, FlatOf
  DEF convertContractLogEntry, MirrorContractResultLog, To

LEMMA StateChangeFits ==
    Fits(Same(MirrorContractStateChange), MirrorContractStateChange,
         AsWire(MirrorContractStateChange))
<1>1. ASSUME NEW n
      PROVE  Entries(Same(MirrorContractStateChange), MirrorContractStateChange,
                     AsWire(MirrorContractStateChange), n)
  BY FieldsTop, OverDomain, OverAt, SameAt, AsWireAt, SafeSorts
  DEF Entries, Entry, MirrorContractStateChange, Bases
<1> QED
  BY <1>1, EntryFit, FitsFlat, FlatFields, FlatOver, FlatOf
  DEF MirrorContractStateChange

LEMMA WireResultDeep ==
    ASSUME NEW n, NEW g, Deep(g)
    PROVE  /\ Path(n, g) \in DOMAIN MirrorContractResult <=>
                 \/ n = "access_list" /\ g \in DOMAIN MirrorAccessListEntry
                 \/ n = "authorization_list" /\ g \in DOMAIN MirrorAuthorizationListEntry
           /\ n = "access_list" /\ g \in DOMAIN MirrorAccessListEntry =>
                 MirrorContractResult[Path(n, g)] = MirrorAccessListEntry[g]
           /\ n = "authorization_list" /\ g \in DOMAIN MirrorAuthorizationListEntry =>
                 MirrorContractResult[Path(n, g)] = MirrorAuthorizationListEntry[g]
<1> DEFINE flat == Fields({"address", "result", "status"}, Optional(Text))
                   ++ Fields({"amount", "gas_used"}, Nullable(MirrorAmount))
                   ++ Fields({"gas_limit"}, MirrorAmount)
                   ++ Fields({"block_gas_used", "gas_consumed"}, Maybe(MirrorAmount))
                   ++ Fields(DetailTexts \cup {"bloom", "call_result", "error_message",
                                              "failed_initcode", "function_parameters", "r", "s"},
                             Maybe(Text))
                   ++ Fields(DetailCounts \cup {"v"}, Maybe(Count))
                   ++ Fields({"created_contract_ids"}, Maybe(List))
                   ++ Fields({"contract_id", "from", "to"}, Nullable(Text))
                   ++ Fields({"hash", "timestamp"}, Text)
<1>1. Table(MirrorAccessListEntry) /\ Table(MirrorAuthorizationListEntry)
  BY AccessFits, AuthorizationFits DEF Fits
<1>2. Path(n, g) \notin DOMAIN flat
  BY FieldsDeep, OverDomain
<1> HIDE DEF flat
<1>3. \A f : f \in DOMAIN MirrorContractResult <=>
               \/ f \in DOMAIN Nested("access_list", Maybe(List), MirrorAccessListEntry)
               \/ f \in DOMAIN Nested("authorization_list", Maybe(List),
                                     MirrorAuthorizationListEntry)
               \/ f \in DOMAIN flat
  BY OverDomain DEF MirrorContractResult, flat
<1>4. Path(n, g) \in DOMAIN MirrorContractResult <=>
         \/ n = "access_list" /\ g \in DOMAIN MirrorAccessListEntry
         \/ n = "authorization_list" /\ g \in DOMAIN MirrorAuthorizationListEntry
  BY <1>1, <1>2, <1>3, NestedDeep
<1>5. ASSUME n = "access_list", g \in DOMAIN MirrorAccessListEntry
      PROVE  MirrorContractResult[Path(n, g)] = MirrorAccessListEntry[g]
  BY <1>1, <1>5, NestedDeep, OverDomain, OverAt DEF MirrorContractResult
<1>6. ASSUME n = "authorization_list", g \in DOMAIN MirrorAuthorizationListEntry
      PROVE  MirrorContractResult[Path(n, g)] = MirrorAuthorizationListEntry[g]
  BY <1>1, <1>6, NestedDeep, OverDomain, OverAt DEF MirrorContractResult
<1> QED
  BY <1>4, <1>5, <1>6

LEMMA ResultDetailsFit ==
    Fits(convertContractResultDetails, MirrorContractResultDetails, ContractResultDetails)
<1>1. /\ Table(convertContractLogEntry) /\ Table(MirrorContractResultLog)
      /\ Table(AsWire(MirrorContractResultLog)) /\ Table(Same(MirrorContractStateChange))
      /\ Table(MirrorContractStateChange) /\ Table(AsWire(MirrorContractStateChange))
      /\ Table(convertAccess) /\ Table(MirrorAccessListEntry)
      /\ Table(AsWire(MirrorAccessListEntry)) /\ Table(convertAuthorization)
      /\ Table(MirrorAuthorizationListEntry) /\ Table(AsWire(MirrorAuthorizationListEntry))
      /\ Table(convertContractResult)
  BY LogEntryFits, StateChangeFits, AccessFits, AuthorizationFits, ContractResultFits DEF Fits
<1>2. Table(MirrorContractResultDetails)
  BY <1>1, FieldsTable, NestedTable, OverTable
  DEF MirrorContractResultDetails, DetailTexts, DetailCounts, MirrorContractResult
<1>3. Table(convertContractResultDetails) /\ Table(ContractResultDetails)
  BY <1>1, <1>2, NestedTable, OverTable, TablesOf
  DEF convertContractResultDetails, ContractResultDetails, ContractGas
<1>4. ASSUME NEW n
      PROVE  /\ <<n>> \in DOMAIN MirrorContractResultDetails <=>
                        n \in {"hash", "timestamp", "result", "status", "contract_id", "from",
                               "to", "block_hash", "chain_id", "gas_price", "max_fee_per_gas",
                               "max_priority_fee_per_gas", "created_contract_ids",
                               "authorization_list", "access_list", "block_number", "nonce",
                               "transaction_index", "type", "v", "bloom", "call_result",
                               "error_message", "function_parameters", "r", "s",
                               "failed_initcode", "block_gas_used", "gas_used", "amount",
                               "gas_consumed", "gas_limit", "address", "state_changes", "logs"}
             /\ n \in {"hash", "timestamp", "result", "status"} =>
                   MirrorContractResultDetails[<<n>>] = Text
             /\ n \in {"contract_id", "from", "to", "block_hash", "chain_id", "gas_price",
                      "max_fee_per_gas", "max_priority_fee_per_gas"} =>
                   MirrorContractResultDetails[<<n>>] = Nullable(Text)
             /\ n \in {"created_contract_ids", "authorization_list", "access_list"} =>
                   MirrorContractResultDetails[<<n>>] = Maybe(List)
             /\ n \in {"block_number", "nonce", "transaction_index", "type"} =>
                   MirrorContractResultDetails[<<n>>] = Nullable(Count)
             /\ n = "v" => MirrorContractResultDetails[<<n>>] = Maybe(Count)
             /\ n \in {"bloom", "call_result", "error_message", "function_parameters", "r", "s",
                      "failed_initcode"} =>
                   MirrorContractResultDetails[<<n>>] = Maybe(Text)
             /\ n \in {"block_gas_used", "gas_used", "amount"} =>
                   MirrorContractResultDetails[<<n>>] = Nullable(MirrorAmount)
             /\ n = "gas_consumed" => MirrorContractResultDetails[<<n>>] = Maybe(MirrorAmount)
             /\ n = "gas_limit" => MirrorContractResultDetails[<<n>>] = MirrorAmount
             /\ n = "address" => MirrorContractResultDetails[<<n>>] = Optional(Text)
             /\ n \in {"state_changes", "logs"} =>
                   MirrorContractResultDetails[<<n>>] = Optional(List)
  <2>1. /\ <<n>> \in DOMAIN MirrorContractResult <=>
              n \in {"access_list", "authorization_list", "address", "result", "status", "amount",
                    "gas_used", "gas_limit", "block_gas_used", "gas_consumed", "v",
                    "created_contract_ids", "contract_id", "from", "to", "hash", "timestamp",
                    "bloom", "call_result", "error_message", "failed_initcode",
                    "function_parameters", "r", "s"} \cup DetailTexts \cup DetailCounts
        /\ n \in {"hash", "timestamp"} => MirrorContractResult[<<n>>] = Text
        /\ n \in {"contract_id", "from", "to"} => MirrorContractResult[<<n>>] = Nullable(Text)
        /\ n \in {"created_contract_ids", "authorization_list", "access_list"} =>
              MirrorContractResult[<<n>>] = Maybe(List)
        /\ n = "v" => MirrorContractResult[<<n>>] = Maybe(Count)
        /\ n \in {"bloom", "call_result", "error_message", "function_parameters", "r", "s",
                  "failed_initcode"} => MirrorContractResult[<<n>>] = Maybe(Text)
        /\ n \in {"gas_used", "amount"} => MirrorContractResult[<<n>>] = Nullable(MirrorAmount)
        /\ n = "gas_consumed" => MirrorContractResult[<<n>>] = Maybe(MirrorAmount)
        /\ n = "gas_limit" => MirrorContractResult[<<n>>] = MirrorAmount
        /\ n = "address" => MirrorContractResult[<<n>>] = Optional(Text)
    BY <1>1, FieldsTop, NestedTop, OverDomain, OverAt
    DEF MirrorContractResult, DetailTexts, DetailCounts
  <2> QED
    BY <1>1, <2>1, FieldsTop, NestedTop, OverDomain, OverAt
    DEF MirrorContractResultDetails, DetailTexts, DetailCounts
<1>5. ASSUME NEW n
      PROVE  /\ <<n>> \in DOMAIN convertContractResultDetails
                <=> <<n>> \in DOMAIN MirrorContractResultDetails
             /\ <<n>> \in DOMAIN convertContractResultDetails
                /\ n \notin {"failed_initcode", "block_gas_used", "gas_used", "gas_consumed",
                             "gas_limit", "amount", "state_changes", "logs"} =>
                   convertContractResultDetails[<<n>>] = "same"
             /\ n = "failed_initcode" => convertContractResultDetails[<<n>>] = "orUndefined"
             /\ n \in {"block_gas_used", "gas_used", "gas_consumed", "gas_limit"} =>
                   convertContractResultDetails[<<n>>] = "amountNumber"
             /\ n = "amount" => convertContractResultDetails[<<n>>] = "amountString"
             /\ n \in {"state_changes", "logs"} =>
                   convertContractResultDetails[<<n>>] = "orEmpty"
  BY <1>1, <1>2, <1>4, NestedTop, OverDomain, OverAt, SameAt, ContractResultTop
  DEF convertContractResultDetails
<1>6. ASSUME NEW n
      PROVE  /\ <<n>> \in DOMAIN ContractResultDetails <=> <<n>> \in DOMAIN MirrorContractResultDetails
             /\ <<n>> \in DOMAIN ContractResultDetails
                /\ n \notin {"failed_initcode", "block_gas_used", "gas_used", "gas_consumed",
                             "gas_limit", "state_changes", "logs"} =>
                   ContractResultDetails[<<n>>] = TypeOf(MirrorContractResultDetails[<<n>>])
             /\ n = "failed_initcode" =>
                   ContractResultDetails[<<n>>] = Less(TypeOf(Maybe(Text)))
             /\ n \in {"block_gas_used", "gas_used"} =>
                   ContractResultDetails[<<n>>] = {"number", "null"}
             /\ n = "gas_consumed" =>
                   ContractResultDetails[<<n>>] = {"number", "null", "undefined"}
             /\ n = "gas_limit" => ContractResultDetails[<<n>>] = {"number"}
             /\ n \in {"state_changes", "logs"} =>
                   ContractResultDetails[<<n>>] = Sure(TypeOf(Optional(List)))
  BY <1>1, <1>2, <1>4, AsWireAt, NeverNullAt, AlwaysAt, HaveAt, NamedTop
  DEF ContractResultDetails, ContractGas
<1>7. ASSUME NEW n
      PROVE  Entries(convertContractResultDetails, MirrorContractResultDetails,
                     ContractResultDetails, n)
  <2>1. /\ Entry("same", Text, TypeOf(Text))
        /\ Entry("same", Nullable(Text), TypeOf(Nullable(Text)))
        /\ Entry("same", Maybe(List), TypeOf(Maybe(List)))
        /\ Entry("same", Nullable(Count), TypeOf(Nullable(Count)))
        /\ Entry("same", Maybe(Count), TypeOf(Maybe(Count)))
        /\ Entry("same", Maybe(Text), TypeOf(Maybe(Text)))
        /\ Entry("orUndefined", Maybe(Text), Less(TypeOf(Maybe(Text))))
        /\ Entry("amountNumber", Nullable(MirrorAmount), {"number", "null"})
        /\ Entry("amountNumber", Maybe(MirrorAmount), {"number", "null", "undefined"})
        /\ Entry("amountNumber", MirrorAmount, {"number"})
        /\ Entry("amountString", Nullable(MirrorAmount), TypeOf(Nullable(MirrorAmount)))
        /\ Entry("same", Optional(Text), TypeOf(Optional(Text)))
        /\ Entry("orEmpty", Optional(List), Sure(TypeOf(Optional(List))))
    BY SafeSorts, SuitsGas, GapSorts, FillingSuits DEF Entry, Bases, Amounts
  <2> QED
    BY <1>4, <1>5, <1>6, <2>1 DEF Entries
<1>8. Opens(convertContractResultDetails, MirrorContractResultDetails, "logs",
            convertContractLogEntry, AsWire(MirrorContractResultLog))
  BY <1>4, <1>5, HoldersKept DEF Opens
<1>9. Nests(MirrorContractResultDetails, "logs", MirrorContractResultLog)
  BY <1>1, FieldsDeep, NestedDeep, OverDomain, OverAt, WireResultDeep
  DEF Nests, AgreeAt, MirrorContractResultDetails
<1>10. Nests(convertContractResultDetails, "logs", convertContractLogEntry)
  BY <1>1, <1>2, <1>9, FieldsDeep, NestedDeep, OverDomain, OverAt, SameAt, ContractResultDeep
  DEF Nests, AgreeAt, convertContractResultDetails, convertContractLogEntry, To
<1>11. Nests(ContractResultDetails, "logs", AsWire(MirrorContractResultLog))
  BY <1>1, <1>2, <1>9, AsWireAt, NeverNullAt, AlwaysAt, HaveAt, NamedDeep
  DEF Nests, AgreeAt, ContractResultDetails, ContractGas
<1>12. Opens(convertContractResultDetails, MirrorContractResultDetails, "state_changes",
             Same(MirrorContractStateChange), AsWire(MirrorContractStateChange))
  BY <1>4, <1>5, HoldersKept DEF Opens
<1>13. Nests(MirrorContractResultDetails, "state_changes", MirrorContractStateChange)
  BY <1>1, FieldsDeep, NestedDeep, OverDomain, OverAt, WireResultDeep
  DEF Nests, AgreeAt, MirrorContractResultDetails
<1>14. Nests(convertContractResultDetails, "state_changes", Same(MirrorContractStateChange))
  BY <1>1, <1>2, <1>13, NestedDeep, OverDomain, OverAt, SameAt, ContractResultDeep
  DEF Nests, AgreeAt, convertContractResultDetails
<1>15. Nests(ContractResultDetails, "state_changes", AsWire(MirrorContractStateChange))
  BY <1>1, <1>2, <1>13, AsWireAt, NeverNullAt, AlwaysAt, HaveAt, NamedDeep
  DEF Nests, AgreeAt, ContractResultDetails, ContractGas
<1>16. Opens(convertContractResultDetails, MirrorContractResultDetails, "access_list",
             convertAccess, AsWire(MirrorAccessListEntry))
  BY <1>4, <1>5, HoldersKept DEF Opens
<1>17. Nests(MirrorContractResultDetails, "access_list", MirrorAccessListEntry)
  BY <1>1, FieldsDeep, NestedDeep, OverDomain, OverAt, WireResultDeep
  DEF Nests, AgreeAt, MirrorContractResultDetails
<1>18. Nests(convertContractResultDetails, "access_list", convertAccess)
  BY <1>1, <1>2, <1>17, NestedDeep, OverDomain, OverAt, SameAt, ContractResultDeep
  DEF Nests, AgreeAt, convertContractResultDetails
<1>19. Nests(ContractResultDetails, "access_list", AsWire(MirrorAccessListEntry))
  BY <1>1, <1>2, <1>17, AsWireAt, NeverNullAt, AlwaysAt, HaveAt, NamedDeep
  DEF Nests, AgreeAt, ContractResultDetails, ContractGas
<1>20. Opens(convertContractResultDetails, MirrorContractResultDetails, "authorization_list",
             convertAuthorization, AsWire(MirrorAuthorizationListEntry))
  BY <1>4, <1>5, HoldersKept DEF Opens
<1>21. Nests(MirrorContractResultDetails, "authorization_list", MirrorAuthorizationListEntry)
  BY <1>1, FieldsDeep, NestedDeep, OverDomain, OverAt, WireResultDeep
  DEF Nests, AgreeAt, MirrorContractResultDetails
<1>22. Nests(convertContractResultDetails, "authorization_list", convertAuthorization)
  BY <1>1, <1>2, <1>21, NestedDeep, OverDomain, OverAt, SameAt, ContractResultDeep
  DEF Nests, AgreeAt, convertContractResultDetails
<1>23. Nests(ContractResultDetails, "authorization_list", AsWire(MirrorAuthorizationListEntry))
  BY <1>1, <1>2, <1>21, AsWireAt, NeverNullAt, AlwaysAt, HaveAt, NamedDeep
  DEF Nests, AgreeAt, ContractResultDetails, ContractGas
<1>24. ASSUME NEW n, n \notin {"logs", "state_changes", "access_list", "authorization_list"}
      PROVE  /\ Bare(convertContractResultDetails, n)
             /\ Bare(MirrorContractResultDetails, n)
             /\ Bare(ContractResultDetails, n)
  <2>1. Bare(MirrorContractResultDetails, n)
    BY <1>1, <1>24, FieldsDeep, NestedDeep, OverDomain, WireResultDeep
    DEF Bare, MirrorContractResultDetails
  <2>2. Bare(convertContractResultDetails, n)
    BY <1>1, <1>2, <1>24, <2>1, NestedDeep, OverDomain, SameAt, ContractResultDeep
    DEF Bare, convertContractResultDetails
  <2>3. Bare(ContractResultDetails, n)
    BY <1>1, <1>2, <1>24, <2>1, AsWireAt, NeverNullAt, AlwaysAt, HaveAt, NamedDeep
    DEF Bare, ContractResultDetails, ContractGas
  <2> QED
    BY <2>1, <2>2, <2>3
<1> QED
  BY <1>2, <1>3, <1>7, <1>8, <1>9, <1>10, <1>11, <1>12, <1>13, <1>14, <1>15, <1>16, <1>17, <1>18,
     <1>19, <1>20, <1>21, <1>22, <1>23, <1>24, LogEntryFits, StateChangeFits, AccessFits,
     AuthorizationFits, FitsNested

(* A trace.                                                                *)
convertOpcode == Gas({"gas"}) ++ Same(MirrorOpcode)

OpcodeGas == Fields({"gas"}, {"number"})

Opcode == OpcodeGas ++ AsWire(MirrorOpcode)

LEMMA OpcodeFits == Fits(convertOpcode, MirrorOpcode, Opcode)
<1>1. ASSUME NEW n
      PROVE  Entries(convertOpcode, MirrorOpcode, Opcode, n)
  <2>1. /\ <<n>> \in DOMAIN MirrorOpcode /\ n # "gas" =>
              MirrorOpcode[<<n>>] \in {Count, Text, Nullable(List), Nullable(Object), Maybe(Text)}
        /\ n = "gas" => <<n>> \in DOMAIN MirrorOpcode /\ MirrorOpcode[<<n>>] = MirrorAmount
    BY FieldsTop, OverDomain, OverAt DEF MirrorOpcode
  <2>2. /\ <<n>> \in DOMAIN convertOpcode <=> <<n>> \in DOMAIN MirrorOpcode
        /\ <<n>> \in DOMAIN MirrorOpcode =>
              convertOpcode[<<n>>] = IF n = "gas" THEN "amountNumber" ELSE "same"
    BY <2>1, FieldsTop, OverDomain, OverAt, SameAt DEF convertOpcode, Gas, To
  <2>3. /\ <<n>> \in DOMAIN Opcode <=> <<n>> \in DOMAIN MirrorOpcode
        /\ <<n>> \in DOMAIN MirrorOpcode =>
              Opcode[<<n>>] = IF n = "gas" THEN {"number"} ELSE TypeOf(MirrorOpcode[<<n>>])
    BY <2>1, FieldsTop, OverDomain, OverAt, AsWireAt DEF Opcode, OpcodeGas
  <2>4. \A S \in {Count, Text, Nullable(List), Nullable(Object), Maybe(Text)} :
           Entry("same", S, TypeOf(S))
    BY SafeSorts DEF Entry, Bases
  <2>5. Entry("amountNumber", MirrorAmount, {"number"})
    BY SuitsGas DEF Entry, Amounts
  <2> QED
    BY <2>1, <2>2, <2>3, <2>4, <2>5 DEF Entries
<1> QED
  BY <1>1, EntryFit, FitsFlat, FlatFields, FlatOver, FlatOf
  DEF convertOpcode, MirrorOpcode, Opcode, OpcodeGas, Gas, To

LEMMA OpcodeGasTable == Table(OpcodeGas)
BY FieldsTable DEF OpcodeGas

LEMMA OpcodeTraceFits == Fits(convertOpcodeTrace, MirrorOpcodesResponse, OpcodeTrace)
<1>1. Table(convertOpcode) /\ Table(MirrorOpcode) /\ Table(Opcode) /\ Table(OpcodeGas)
  BY OpcodeFits, OpcodeGasTable DEF Fits
<1>2. /\ convertOpcodeTrace =
             Gas({"gas"}) ++ Nested("opcodes", "orEmpty", convertOpcode)
             ++ Same(MirrorOpcodesResponse)
      /\ OpcodeTrace =
             Inside("opcodes", OpcodeGas)
             ++ Have({"gas"}, {"number"}, AsWire(MirrorOpcodesResponse))
  BY DEF convertOpcodeTrace, convertOpcode, OpcodeTrace, OpcodeGas
<1>3. Table(MirrorOpcodesResponse)
  BY <1>1, FieldsTable, NestedTable, OverTable DEF MirrorOpcodesResponse
<1>4. Table(convertOpcodeTrace) /\ Table(OpcodeTrace)
  BY <1>1, <1>2, <1>3, FieldsTable, NestedTable, InsideTable, OverTable, TablesOf DEF Gas, To
<1>5. ASSUME NEW n
      PROVE  /\ <<n>> \in DOMAIN MirrorOpcodesResponse <=>
                        n \in {"opcodes", "gas", "failed", "contract_id", "address",
                               "return_value"}
             /\ n = "opcodes" => MirrorOpcodesResponse[<<n>>] = List
             /\ n = "gas" => MirrorOpcodesResponse[<<n>>] = MirrorAmount
             /\ n = "failed" => MirrorOpcodesResponse[<<n>>] = Flag
             /\ n = "contract_id" => MirrorOpcodesResponse[<<n>>] = Nullable(Text)
             /\ n \in {"address", "return_value"} => MirrorOpcodesResponse[<<n>>] = Text
  BY <1>1, FieldsTop, NestedTop, OverDomain, OverAt DEF MirrorOpcodesResponse
<1>6. ASSUME NEW n
      PROVE  /\ <<n>> \in DOMAIN convertOpcodeTrace <=> <<n>> \in DOMAIN MirrorOpcodesResponse
             /\ <<n>> \in DOMAIN convertOpcodeTrace /\ n \notin {"opcodes", "gas"} =>
                   convertOpcodeTrace[<<n>>] = "same"
             /\ n = "opcodes" => convertOpcodeTrace[<<n>>] = "orEmpty"
             /\ n = "gas" => convertOpcodeTrace[<<n>>] = "amountNumber"
  BY <1>1, <1>2, <1>3, <1>5, FieldsTop, NestedTop, OverDomain, OverAt, SameAt DEF Gas, To
<1>7. ASSUME NEW n
      PROVE  /\ <<n>> \in DOMAIN OpcodeTrace <=> <<n>> \in DOMAIN MirrorOpcodesResponse
             /\ <<n>> \in DOMAIN OpcodeTrace /\ n # "gas" =>
                   OpcodeTrace[<<n>>] = TypeOf(MirrorOpcodesResponse[<<n>>])
             /\ n = "gas" => OpcodeTrace[<<n>>] = {"number"}
  BY <1>1, <1>2, <1>3, <1>5, InsideTop, OverDomain, OverAt, AsWireAt, HaveAt, NamedTop
<1>8. ASSUME NEW n
      PROVE  Entries(convertOpcodeTrace, MirrorOpcodesResponse, OpcodeTrace, n)
  <2>1. /\ Entry("orEmpty", List, TypeOf(List))
        /\ Entry("amountNumber", MirrorAmount, {"number"})
        /\ Entry("same", Flag, TypeOf(Flag))
        /\ Entry("same", Nullable(Text), TypeOf(Nullable(Text)))
        /\ Entry("same", Text, TypeOf(Text))
    BY SafeSorts, FillingSuits, SuitsGas DEF Entry, Bases
  <2> QED
    BY <1>5, <1>6, <1>7, <2>1 DEF Entries
<1>9. Opens(convertOpcodeTrace, MirrorOpcodesResponse, "opcodes", convertOpcode, Opcode)
  BY <1>5, <1>6, HoldersKept DEF Opens
<1>10. Nests(MirrorOpcodesResponse, "opcodes", MirrorOpcode)
  BY <1>1, FieldsDeep, NestedDeep, OverDomain, OverAt
  DEF Nests, AgreeAt, MirrorOpcodesResponse
<1>11. Nests(convertOpcodeTrace, "opcodes", convertOpcode)
  BY <1>1, <1>2, <1>3, <1>10, FieldsDeep, NestedDeep, OverDomain, OverAt, SameAt
  DEF Nests, AgreeAt, Gas, To, convertOpcode
<1>12. Nests(OpcodeTrace, "opcodes", Opcode)
  BY <1>1, <1>2, <1>3, <1>10, InsideDeep, OverDomain, OverAt, AsWireAt, HaveAt, NamedDeep
  DEF Nests, AgreeAt, Opcode
<1>13. ASSUME NEW n, n # "opcodes"
      PROVE  /\ Bare(convertOpcodeTrace, n)
             /\ Bare(MirrorOpcodesResponse, n)
             /\ Bare(OpcodeTrace, n)
  BY <1>1, <1>2, <1>3, <1>13, FieldsDeep, NestedDeep, InsideDeep, FieldsTable, OverDomain,
     SameAt, AsWireAt, HaveAt, NamedDeep
  DEF Bare, Gas, To, MirrorOpcodesResponse
<1> QED
  BY <1>3, <1>4, <1>8, <1>9, <1>10, <1>11, <1>12, <1>13, OpcodeFits, FitsNested
-----------------------------------------------------------------------------
(* A body that the wire types admit, and what becomes of its fields.        *)
Conforms(e, field) == field = NoOdd \/ field[2] \in e.raw[field[1]]
Asserted(e) ==
    \A f \in DOMAIN e.asserts :
        f \in DOMAIN e.raw /\ \A x \in e.raw[f] : assertField(parseLossless(x), e.asserts[f])
Sound(e) == Fits(e.convert, e.raw, e.public) /\ Asserted(e)

(* The literals of a body are among those of its fields' sorts.            *)
LEMMA UsualSort ==
    ASSUME NEW S, Sort(S)
    PROVE  Usual(S) \in S /\ Usual(S) \in Plain
BY DEF Sort, Usual

LEMMA OddAre ==
    ASSUME NEW e, NEW field \in OddFields(e), Sort(e.raw[field[1]])
    PROVE  field[1] \in DOMAIN e.raw /\ field[2] \in Literals
<1>1. PICK f \in DOMAIN e.raw :
         \E x \in IF IsAmount(e.raw[f]) \/ f \in DOMAIN e.asserts THEN Literals ELSE e.raw[f] :
            field = <<f, x>>
  BY DEF OddFields
<1>2. PICK x \in IF IsAmount(e.raw[f]) \/ f \in DOMAIN e.asserts THEN Literals ELSE e.raw[f] :
         field = <<f, x>>
  BY <1>1
<1>3. field[1] = f /\ field[2] = x
  BY <1>2
<1> QED
  BY <1>2, <1>3 DEF Sort

LEMMA BodyAt ==
    ASSUME NEW e, Sound(e), NEW field \in {NoOdd} \cup OddFields(e), NEW f \in DOMAIN e.raw
    PROVE  /\ Body(e, field)[f] \in Literals
           /\ Conforms(e, field) => Body(e, field)[f] \in e.raw[f]
           /\ Body(e, field)[f] \notin Plain =>
                field # NoOdd /\ f = field[1] /\ Body(e, field)[f] = field[2]
<1>1. \A g \in DOMAIN e.raw : Sort(e.raw[g])
  BY DEF Sound, Fits, Fit, Table
<1>2. Body(e, field)[f] = IF field # NoOdd /\ f = field[1] THEN field[2] ELSE Usual(e.raw[f])
  BY DEF Body
<1>3. Usual(e.raw[f]) \in e.raw[f] /\ Usual(e.raw[f]) \in Plain /\ e.raw[f] \subseteq Literals
  BY <1>1, UsualSort DEF Sort
<1>4. CASE field # NoOdd /\ f = field[1]
  BY <1>1, <1>2, <1>4, OddAre DEF Conforms
<1>5. CASE ~(field # NoOdd /\ f = field[1])
  BY <1>2, <1>3, <1>5
<1> QED
  BY <1>4, <1>5

(* Amounts are whole, whatever was sent.                                   *)
LEMMA ExactWhole ==
    ASSUME NEW how \in Exact, NEW x \in Literals
    PROVE  \/ Convert(how, parseLossless(x)) = Throws
           \/ Convert(how, parseLossless(x)).of \in MirrorAmount \cup {"null", "absent"}
<1>1. /\ \A v : Convert("amountString", v) = amountString(v)
      /\ \A v : Convert("amountNumber", v) = amountNumber(v)
      /\ \A v : Convert("balanceOrZero", v) = amountString(Or(v, Value("number", "small")))
  BY DEF Convert
<1>2. ASSUME NEW v, None(v) => v.of \in {"null", "absent"}
      PROVE  /\ amountString(v) = Throws \/ amountString(v).of \in MirrorAmount \cup {"null", "absent"}
             /\ amountNumber(v) = Throws \/ amountNumber(v).of \in MirrorAmount \cup {"null", "absent"}
  <2>1. CASE None(v)
    BY <1>2, <2>1 DEF amountString, amountNumber
  <2>2. CASE ~None(v) /\ ~assertAmountArms(v)
    BY <2>2 DEF amountString, amountNumber
  <2>3. CASE ~None(v) /\ assertAmountArms(v)
    <3>1. v.of \in MirrorAmount
      BY <2>3 DEF assertAmountArms, isDigits, isSafeInteger, MirrorAmount
    <3>2. amountString(v).of = v.of
      BY <2>3 DEF amountString, Value
    <3>3. \/ amountNumber(v) = Throws
          \/ amountNumber(v) = Narrowed(v) /\ isSafeInteger(Narrowed(v))
      <4>1. CASE isSafeInteger(Narrowed(v))
        BY <2>3, <4>1 DEF amountNumber
      <4>2. CASE ~isSafeInteger(Narrowed(v))
        BY <2>3, <4>2 DEF amountNumber
      <4> QED
        BY <4>1, <4>2
    <3>4. isSafeInteger(Narrowed(v)) => Narrowed(v).of \in MirrorAmount
      BY DEF isSafeInteger, MirrorAmount
    <3> QED
      BY <3>1, <3>2, <3>3, <3>4
  <2> QED
    BY <2>1, <2>2, <2>3
<1>3. None(parseLossless(x)) => parseLossless(x).of \in {"null", "absent"}
  BY Nones, Parsed DEF Value
<1>4. None(Or(parseLossless(x), Value("number", "small"))) => FALSE
  BY DEF Or, None, Value
<1>5. CASE how \in {"amountString", "amountNumber"}
  BY <1>1, <1>2, <1>3, <1>5
<1>6. CASE how = "balanceOrZero"
  BY <1>1, <1>2, <1>4, <1>6
<1> QED
  BY <1>5, <1>6 DEF Exact

(* Where nothing holds a field any more it is absent, else what the body   *)
(* has.                                                                    *)
LEMMA AtIs ==
    ASSUME NEW body, NEW f
    PROVE  \/ At(body, f) = body[f] /\ \A q \in Holders(f) : body[q] \notin {"null", "absent"}
           \/ At(body, f) = "absent" /\ \E q \in Holders(f) : body[q] \in {"null", "absent"}
BY DEF At

LEMMA MadeAt ==
    ASSUME NEW c, NEW body
    PROVE  /\ \A f : f \in DOMAIN Converted(c, body) <=>
                 /\ f \in DOMAIN c
                 /\ \A q \in Holders(f) \cap DOMAIN c :
                       /\ Convert(c[q], parseLossless(At(body, q))).js \in {"array", "object"}
                       /\ At(body, q) # "absent"
           /\ \A f \in DOMAIN Converted(c, body) :
                 Converted(c, body)[f] = Convert(c[f], parseLossless(At(body, f)))
BY DEF Converted

LEMMA FieldBecomes ==
    ASSUME NEW e, Sound(e), NEW field \in {NoOdd} \cup OddFields(e), Conforms(e, field),
           NEW f \in DOMAIN Converted(e.convert, Body(e, field))
    PROVE  Becomes(Converted(e.convert, Body(e, field))[f], At(Body(e, field), f), e.public[f])
<1> DEFINE body == Body(e, field)
           c == e.convert
           w == e.raw
           p == e.public
<1>1. /\ f \in DOMAIN c
      /\ \A q \in Holders(f) \cap DOMAIN c :
            /\ Convert(c[q], parseLossless(At(body, q))).js \in {"array", "object"}
            /\ At(body, q) # "absent"
      /\ Converted(c, body)[f] = Convert(c[f], parseLossless(At(body, f)))
  BY MadeAt
<1>2. Fit(c, w, p, f) /\ Held(c, w, p, f)
  BY <1>1 DEF Sound, Fits, Table
<1>3. \A q \in DOMAIN w : body[q] \in w[q]
  BY BodyAt
<1>4. f \in DOMAIN w /\ Suits(c[f], w[f], p[f])
  BY <1>1, <1>2 DEF Fit
<1> HIDE DEF body, c, w, p
<1>5. CASE At(body, f) = body[f]
  BY <1>1, <1>3, <1>4, <1>5 DEF Suits, body, c, p
<1>6. CASE At(body, f) = "absent" /\ \E q \in Holders(f) : body[q] \in {"null", "absent"}
  <2>1. PICK q \in Holders(f) : body[q] \in {"null", "absent"}
    BY <1>6
  <2>2. q \in DOMAIN w /\ body[q] \in w[q]
    BY <1>1, <1>2, <1>3 DEF Held
  <2>3. q \notin DOMAIN c
    <3>1. SUFFICES ASSUME q \in DOMAIN c
                   PROVE  FALSE
      OBVIOUS
    <3>2. Keeps(c[q], w[q])
      BY <1>1, <1>2, <3>1 DEF Held
    <3>3. At(body, q) # "absent" /\ Convert(c[q], parseLossless(At(body, q))).js \in {"array", "object"}
      BY <1>1, <3>1
    <3>4. At(body, q) = body[q]
      BY <3>3, AtIs
    <3>5. At(body, q) = "null" /\ At(body, q) \in w[q] \ {"absent"}
      BY <2>1, <2>2, <3>3, <3>4
    <3> QED
      BY <3>2, <3>3, <3>5 DEF Keeps
  <2>4. ~Never(w[q])
    BY <2>1, <2>2 DEF Never
  <2>5. ASSUME NEW r \in Holders(f) \cap DOMAIN c, q \in Holders(r)
        PROVE  FALSE
    <3>1. At(body, r) = "absent"
      BY <2>1, <2>5 DEF At
    <3> QED
      BY <1>1, <3>1
  <2>6. Suits(c[f], {"absent"}, p[f])
    BY <1>1, <1>2, <2>3, <2>4, <2>5 DEF Held
  <2> QED
    BY <1>1, <1>6, <2>6 DEF Suits, body, c, p
<1> QED
  BY <1>5, <1>6, AtIs

(* Only a figure that is promised as a number is ever refused.             *)
LEMMA OnlyTooLarge ==
    ASSUME NEW e, Sound(e), NEW field \in {NoOdd} \cup OddFields(e), Conforms(e, field),
           Mismatch(e, Body(e, field), Converted(e.convert, Body(e, field)))
    PROVE  field[2] = "large" /\ "number" \in e.public[field[1]]
<1> DEFINE body == Body(e, field)
           made == Converted(e.convert, body)
<1>1. \A f \in DOMAIN e.asserts : assertField(parseLossless(body[f]), e.asserts[f])
  BY BodyAt DEF Sound, Asserted
<1>2. PICK f \in DOMAIN made : made[f] = Throws
  BY <1>1 DEF Mismatch
<1>3. At(body, f) = "large" /\ "number" \in e.public[f]
  BY <1>2, FieldBecomes DEF Becomes
<1>4. body[f] = "large"
  BY <1>3, AtIs
<1>5. f \in DOMAIN e.raw
  BY MadeAt DEF Sound, Fits, Fit, Table
<1>6. "large" \notin Plain
  BY DEF Plain
<1> QED
  BY <1>3, <1>4, <1>5, <1>6, BodyAt

LEMMA FieldsThere ==
    ASSUME NEW e, Sound(e), NEW field \in {NoOdd} \cup OddFields(e), Conforms(e, field),
           NEW f \in DOMAIN e.public, f \notin DOMAIN Converted(e.convert, Body(e, field))
    PROVE  \E q \in Holders(f) : At(Body(e, field), q) \in {"null", "absent"}
<1> DEFINE body == Body(e, field)
           c == e.convert
           w == e.raw
<1>1. f \in DOMAIN c /\ Held(c, w, e.public, f)
  BY DEF Sound, Fits, Fit, Table
<1>2. PICK q \in Holders(f) \cap DOMAIN c :
         \/ Convert(c[q], parseLossless(At(body, q))).js \notin {"array", "object"}
         \/ At(body, q) = "absent"
  BY <1>1, MadeAt
<1>3. q \in DOMAIN w /\ Keeps(c[q], w[q])
  BY <1>1, <1>2 DEF Held
<1>4. body[q] \in w[q]
  BY <1>3, BodyAt
<1>5. At(body, q) # "absent" => At(body, q) \in w[q] \ {"absent"}
  BY <1>4, AtIs
<1> HIDE DEF body, c, w
<1>6. At(body, q) \in {"null", "absent"}
  BY <1>2, <1>3, <1>5 DEF Keeps
<1> QED
  BY <1>2, <1>6 DEF body

LEMMA AmountsWhole ==
    ASSUME NEW e, Sound(e), NEW field \in {NoOdd} \cup OddFields(e),
           NEW f \in DOMAIN Converted(e.convert, Body(e, field)), IsAmount(e.raw[f]),
           Converted(e.convert, Body(e, field))[f] # Throws
    PROVE  Converted(e.convert, Body(e, field))[f].of \in MirrorAmount \cup {"null", "absent"}
<1> DEFINE body == Body(e, field)
<1>1. f \in DOMAIN e.convert /\ f \in DOMAIN e.raw /\ Suits(e.convert[f], e.raw[f], e.public[f])
  BY MadeAt DEF Sound, Fits, Fit, Table
<1>2. e.convert[f] \in Exact
  BY <1>1 DEF Suits
<1>3. At(body, f) \in Literals
  BY <1>1, BodyAt, AtIs DEF Literals
<1>4. Converted(e.convert, body)[f] = Convert(e.convert[f], parseLossless(At(body, f)))
  BY MadeAt
<1> QED
  BY <1>2, <1>3, <1>4, ExactWhole

(* What a call's answer is faithful to.                                    *)
Right(e, field) ==
    LET body == Body(e, field)
        made == Converted(e.convert, body) IN
    ~Mismatch(e, body, made) =>
        /\ \A f \in DOMAIN made :
              IsAmount(e.raw[f]) => made[f].of \in MirrorAmount \cup {"null", "absent"}
        /\ Conforms(e, field) =>
             /\ \A f \in DOMAIN e.public :
                   f \in DOMAIN made
                   \/ \E q \in Holders(f) : At(body, q) \in {"null", "absent"}
             /\ \A f \in DOMAIN made :
                   /\ made[f].js \in e.public[f]
                   /\ At(body, f) \in MirrorAmount => made[f].of = At(body, f)

LEMMA SoundRight ==
    ASSUME NEW e, Sound(e), NEW field \in {NoOdd} \cup OddFields(e)
    PROVE  Right(e, field)
<1> DEFINE body == Body(e, field)
           made == Converted(e.convert, body)
<1>1. SUFFICES ASSUME \A f \in DOMAIN made : made[f] # Throws
               PROVE  /\ \A f \in DOMAIN made :
                            IsAmount(e.raw[f]) => made[f].of \in MirrorAmount \cup {"null", "absent"}
                      /\ Conforms(e, field) =>
                           /\ \A f \in DOMAIN e.public :
                                 \/ f \in DOMAIN made
                                 \/ \E q \in Holders(f) : At(body, q) \in {"null", "absent"}
                           /\ \A f \in DOMAIN made :
                                 /\ made[f].js \in e.public[f]
                                 /\ At(body, f) \in MirrorAmount => made[f].of = At(body, f)
  BY DEF Right, Mismatch
<1>2. ASSUME Conforms(e, field), NEW f \in DOMAIN made
      PROVE  /\ made[f].js \in e.public[f]
             /\ At(body, f) \in MirrorAmount => made[f].of = At(body, f)
  BY <1>1, <1>2, FieldBecomes DEF Becomes
<1> QED
  BY <1>1, <1>2, FieldsThere, AmountsWhole

(* Of every method: its endpoint converts what it is sent to what it       *)
(* promises, asserts what there is, and its parameters are of options.     *)
Kept(e) ==
    /\ Sound(e) /\ DOMAIN e.convert = DOMAIN e.public
    /\ DOMAIN e.keys \subseteq DOMAIN e.query /\ DOMAIN e.asserts \subseteq DOMAIN e.raw

(* What the answer is, and where.                                          *)
Asked ==
    /\ call.repository \in DOMAIN createMirrorRepositories
    /\ call.method \in DOMAIN createMirrorRepositories[call.repository]
    /\ call.use \in Uses(Endpoint)
Made == Converted(Endpoint.convert, Body(Endpoint, odd))
AnswerInv ==
    /\ stage = "asked" => call = NoCall /\ odd = NoOdd /\ answer = NoAnswer /\ outcome = "none"
    /\ stage # "asked" => Asked
    /\ stage # "asked" => odd \in {NoOdd} \cup OddFields(Endpoint)
    /\ stage = "sent" /\ ~Endpoint.page => answer = NoAnswer
    /\ stage = "page" => Endpoint.page
    /\ stage \in {"sent", "page"} => outcome = "none"
    /\ stage # "asked" /\ answer # NoAnswer =>
          answer = Made /\ ~Mismatch(Endpoint, Body(Endpoint, odd), Made)
    /\ outcome = "SchemaMismatch" =>
          stage # "asked" /\ Mismatch(Endpoint, Body(Endpoint, odd), Made)
    /\ outcome = "null" => answer = NoAnswer /\ odd = NoOdd

LEMMA InitAnswers == Init => AnswerInv
BY DEF Init, AnswerInv

LEMMA AskAnswers ==
    ASSUME AnswerInv, NEW repository \in DOMAIN createMirrorRepositories,
           NEW method \in DOMAIN createMirrorRepositories[repository], Ask(repository, method)
    PROVE  AnswerInv'
<1> DEFINE e == createMirrorRepositories[repository][method]
<1>1. stage = "asked" /\ odd' = odd /\ answer' = answer
  BY DEF Ask
<1>2. PICK use, options, arguments, maxItems, maxPages :
         /\ use \in Uses(e)
         /\ call' = [repository |-> repository, method |-> method, options |-> options,
                     arguments |-> arguments, use |-> use, maxItems |-> maxItems,
                     maxPages |-> maxPages]
  BY Zenon DEF Ask
<1>3. \/ stage' = "settled" /\ outcome' = "ConfigInvalid"
      \/ stage' = "sent" /\ outcome' = outcome
  BY DEF Ask
<1>4. call'.repository = repository /\ call'.method = method /\ call'.use = use
  BY <1>2
<1>5. Endpoint' = e
  BY <1>4 DEF Endpoint
<1>6. Asked'
  BY <1>2, <1>4, <1>5 DEF Asked
<1>7. odd = NoOdd /\ answer = NoAnswer /\ outcome = "none"
  BY <1>1 DEF AnswerInv
<1> HIDE DEF e
<1> QED
  BY <1>1, <1>3, <1>6, <1>7 DEF AnswerInv

LEMMA SameCall ==
    ASSUME call' = call
    PROVE  Endpoint' = Endpoint /\ (Asked => Asked')
<1>1. Endpoint' = Endpoint
  BY DEF Endpoint
<1> QED
  BY <1>1 DEF Asked

(* A read goes on or ends with what it has.                                *)
LEMMA EndingAnswers ==
    ASSUME AnswerInv, stage \in {"sent", "page"}, UNCHANGED <<call, odd, answer>>,
           stage' \in {"sent", "page", "settled"},
           stage' # "settled" => outcome' = outcome /\ Endpoint.page,
           outcome' # "SchemaMismatch",
           outcome' = "null" => answer = NoAnswer /\ odd = NoOdd
    PROVE  AnswerInv'
<1>1. Endpoint' = Endpoint /\ Asked'
  BY SameCall DEF AnswerInv
<1>2. Made' = Made /\ Body(Endpoint, odd)' = Body(Endpoint, odd)
  BY <1>1 DEF Made
<1>3. OddFields(Endpoint)' = OddFields(Endpoint)
  BY <1>1
<1>4. Mismatch(Endpoint, Body(Endpoint, odd), Made)' = Mismatch(Endpoint, Body(Endpoint, odd), Made)
  BY <1>1, <1>2
<1> QED
  BY <1>1, <1>2, <1>3, <1>4 DEF AnswerInv

LEMMA OrNullIs ==
    ASSUME AnswerInv, stage = "sent", odd = NoOdd, NEW code, code # "null", orNull(code) = "null"
    PROVE  answer = NoAnswer
<1>1. call.use = "orNull"
  BY DEF orNull
<1>2. ~Endpoint.page
  BY <1>1 DEF AnswerInv, Asked, Uses
<1> QED
  BY <1>2 DEF AnswerInv

LEMMA BodyAnswers ==
    ASSUME AnswerInv, stage = "sent", call' = call,
           NEW field \in {NoOdd} \cup OddFields(Endpoint), odd' = field,
           NEW body, body = Body(Endpoint, field),
           NEW made, made = Converted(Endpoint.convert, body),
           \/ /\ Mismatch(Endpoint, body, made)
              /\ stage' = "settled" /\ outcome' = "SchemaMismatch" /\ answer' = NoAnswer
           \/ /\ ~Mismatch(Endpoint, body, made) /\ answer' \in {NoAnswer, made}
              /\ \/ stage' = "settled" /\ outcome' = "answered"
                 \/ stage' = "page" /\ outcome' = outcome /\ Endpoint.page
    PROVE  AnswerInv'
<1>1. Endpoint' = Endpoint /\ Asked'
  BY SameCall DEF AnswerInv
<1>2. Made' = made /\ Body(Endpoint, odd)' = body
  BY <1>1 DEF Made
<1>3. OddFields(Endpoint)' = OddFields(Endpoint)
  BY <1>1
<1>4. Mismatch(Endpoint, Body(Endpoint, odd), Made)' = Mismatch(Endpoint, body, made)
  BY <1>1, <1>2
<1>5. outcome = "none"
  BY DEF AnswerInv
<1> QED
  BY <1>1, <1>2, <1>3, <1>4, <1>5 DEF AnswerInv

LEMMA NextAnswers ==
    ASSUME AnswerInv, [Next]_vars
    PROVE  AnswerInv'
<1>1. CASE UNCHANGED vars
  <2>1. call' = call /\ odd' = odd /\ answer' = answer /\ stage' = stage /\ outcome' = outcome
    BY <1>1 DEF vars
  <2>2. Endpoint' = Endpoint /\ (Asked => Asked')
    BY <2>1, SameCall
  <2>3. Made' = Made /\ Body(Endpoint, odd)' = Body(Endpoint, odd)
        /\ OddFields(Endpoint)' = OddFields(Endpoint)
    BY <2>1, <2>2 DEF Made
  <2>4. Mismatch(Endpoint, Body(Endpoint, odd), Made)' = Mismatch(Endpoint, Body(Endpoint, odd), Made)
    BY <2>2, <2>3
  <2> QED
    BY <2>1, <2>2, <2>3, <2>4 DEF AnswerInv
<1>2. ASSUME NEW repository \in DOMAIN createMirrorRepositories,
             NEW method \in DOMAIN createMirrorRepositories[repository],
             Ask(repository, method)
      PROVE  AnswerInv'
  BY <1>2, AskAnswers
<1>3. CASE Fails
  <2>1. PICK code \in {"NotFound", "MirrorNodeHttpError", "TimedOut"} :
           stage' = "settled" /\ outcome' = orNull(code)
    BY <1>3 DEF Fails, Settle
  <2>2. stage = "sent" /\ odd = NoOdd /\ UNCHANGED <<call, odd, answer>>
    BY <1>3 DEF Fails, Ordinary
  <2>3. outcome' # "SchemaMismatch"
    BY <2>1 DEF orNull
  <2>4. outcome' = "null" => answer = NoAnswer
    BY <2>1, <2>2, OrNullIs
  <2> QED
    BY <2>1, <2>2, <2>3, <2>4, EndingAnswers
<1>4. CASE NoRows
  <2>1. stage' = "settled" /\ outcome' = orNull("NotFound")
    BY <1>4 DEF NoRows, Settle
  <2>2. stage = "sent" /\ odd = NoOdd /\ UNCHANGED <<call, odd, answer>>
    BY <1>4 DEF NoRows, Ordinary
  <2>3. outcome' # "SchemaMismatch"
    BY <2>1 DEF orNull
  <2>4. outcome' = "null" => answer = NoAnswer
    BY <2>1, <2>2, OrNullIs
  <2> QED
    BY <2>1, <2>2, <2>3, <2>4, EndingAnswers
<1>5. CASE Stops \/ FollowNext \/ Change
  <2>1. /\ stage \in {"sent", "page"} /\ UNCHANGED <<call, odd, answer>>
        /\ \/ stage' = "settled" /\ outcome' = "answered"
           \/ stage' \in {"sent", "page"} /\ outcome' = outcome /\ Endpoint.page
    BY <1>5 DEF Stops, FollowNext, Change, Settle, Send, AnswerInv
  <2>2. outcome = "none"
    BY <2>1 DEF AnswerInv
  <2> QED
    BY <2>1, <2>2, EndingAnswers
<1>6. ASSUME NEW field \in {NoOdd} \cup OddFields(Endpoint), LookedUp(Endpoint, field)
      PROVE  AnswerInv'
  BY <1>6, BodyAnswers DEF LookedUp, Settle
<1>7. ASSUME NEW field \in {NoOdd} \cup OddFields(Endpoint), getPage(Endpoint, field)
      PROVE  AnswerInv'
  <2> DEFINE body == Body(Endpoint, field)
             made == Converted(Endpoint.convert, body)
  <2>1. stage = "sent" /\ Endpoint.page /\ odd' = field /\ call' = call
    BY <1>7 DEF getPage
  <2>2. \/ /\ Mismatch(Endpoint, body, made)
           /\ stage' = "settled" /\ outcome' = "SchemaMismatch" /\ answer' = NoAnswer
        \/ /\ ~Mismatch(Endpoint, body, made) /\ answer' \in {NoAnswer, made}
           /\ stage' = "page" /\ outcome' = outcome
    BY <1>7 DEF getPage, Settle
  <2> QED
    BY <2>1, <2>2, BodyAnswers
<1> QED
  BY <1>1, <1>2, <1>3, <1>4, <1>5, <1>6, <1>7 DEF Next

(* getPage, LookedUp and orNull: what an application holds is what the     *)
(* body that came last was converted to, refused as a mismatch or not.     *)
THEOREM ReadsAnswerInvariant == Spec => []AnswerInv
<1> QED
  BY InitAnswers, NextAnswers, PTL DEF Spec

(* What follows from the answer's state for the two properties.            *)
LEMMA AnswersAre ==
    ASSUME AnswerInv, stage # "asked" => Kept(Endpoint)
    PROVE  AnswersFaithful
<1> DEFINE body == Body(Endpoint, odd)
<1>1. CASE stage = "asked"
  BY <1>1 DEF AnswerInv, AnswersFaithful, Faithful
<1>2. CASE stage # "asked"
  <2>1. Sound(Endpoint) /\ odd \in {NoOdd} \cup OddFields(Endpoint)
    BY <1>2 DEF Kept, AnswerInv
  <2>2. Right(Endpoint, odd)
    BY <2>1, SoundRight
  <2>3. answer # NoAnswer => answer = Made /\ ~Mismatch(Endpoint, body, Made)
    BY <1>2 DEF AnswerInv
  <2>4. answer # NoAnswer =>
           /\ \A f \in DOMAIN answer :
                 IsAmount(Endpoint.raw[f]) => answer[f].of \in MirrorAmount \cup {"null", "absent"}
           /\ Conforms(Endpoint, odd) =>
                /\ \A f \in DOMAIN Endpoint.public :
                      f \in DOMAIN answer \/ \E q \in Holders(f) : At(body, q) \in {"null", "absent"}
                /\ \A f \in DOMAIN answer :
                      /\ answer[f].js \in Endpoint.public[f]
                      /\ At(body, f) \in MirrorAmount => answer[f].of = At(body, f)
    BY <2>2, <2>3 DEF Right, Made
  <2>5. outcome = "SchemaMismatch" /\ Conforms(Endpoint, odd) =>
           odd[2] = "large" /\ "number" \in Endpoint.public[odd[1]]
    BY <2>1, OnlyTooLarge DEF AnswerInv, Made
  <2>6. outcome = "null" => answer = NoAnswer /\ odd = NoOdd
    BY DEF AnswerInv
  <2> HIDE DEF body
  <2>7. Faithful(Endpoint, body)
    BY <2>4, <2>5, <2>6 DEF Faithful, Conforms
  <2> QED
    BY <2>7 DEF AnswersFaithful, body
<1> QED
  BY <1>1, <1>2

LEMMA TypesAre ==
    ASSUME WalkInv, AnswerInv, stage # "asked" => Kept(Endpoint)
    PROVE  TypeOK
<1>1. stage \in {"asked", "sent", "page", "settled"} /\ steady \subseteq 1..Rows
      /\ next \in {End} \cup 0..Rows /\ out \in Seq(1..Rows)
  BY DEF WalkInv, WalkTypes
<1>2. stage = "asked" => call = NoCall
  BY DEF AnswerInv
<1> QED
  BY <1>1, <1>2 DEF TypeOK, Kept

-----------------------------------------------------------------------------
(* What is asserted of a body, every body that conforms has.               *)
Passes(S, type) == \A x \in S : assertField(parseLossless(x), type)
Asserts(raw, asserts) ==
    \A f \in DOMAIN asserts : f \in DOMAIN raw /\ Passes(raw[f], asserts[f])

Has(raw, n, S) == <<n>> \in DOMAIN raw /\ raw[<<n>>] = S

LEMMA Passing ==
    /\ Passes(Text, "string") /\ Passes({"quoted"}, "string") /\ Passes(Count, "number")
    /\ Passes(Object, "object") /\ Passes(List, "array") /\ Passes(MirrorAmount, "amount")
<1>1. ASSUME NEW x \in {"text", "quoted", "small", "object", "list"}
      PROVE  parseLossless(x).js = JsOf(x)
  BY <1>1 DEF parseLossless, quoteLargeIntegers, Value
<1>2. /\ JsOf("text") = "string" /\ JsOf("quoted") = "string" /\ JsOf("small") = "number"
      /\ JsOf("object") = "object" /\ JsOf("list") = "array"
  BY DEF JsOf
<1>3. ASSUME NEW x \in MirrorAmount
      PROVE  assertAmountArms(parseLossless(x))
  BY <1>3 DEF MirrorAmount, parseLossless, quoteLargeIntegers, Value, assertAmountArms, isDigits,
      isSafeInteger, JsOf
<1> QED
  BY <1>1, <1>2, <1>3 DEF Passes, assertField, Text, Count, Object, List

(* Of each assertion of MirrorNodeValidators.                              *)
LEMMA AssertsFields ==
    ASSUME NEW raw, NEW names, NEW type,
           \A n \in names : <<n>> \in DOMAIN raw /\ Passes(raw[<<n>>], type)
    PROVE  Asserts(raw, Fields(names, type))
BY DEF Asserts, Fields

LEMMA AssertsOver ==
    ASSUME NEW raw, NEW a, NEW b, Asserts(raw, a), Asserts(raw, b)
    PROVE  Asserts(raw, a ++ b)
<1>1. ASSUME NEW f \in DOMAIN (a ++ b)
      PROVE  f \in DOMAIN raw /\ Passes(raw[f], (a ++ b)[f])
  BY OverDomain, OverAt DEF Asserts
<1> QED
  BY <1>1 DEF Asserts

(* Of an endpoint it is enough that its tables fit.                        *)
LEMMA ListingKept ==
    ASSUME NEW path, NEW query, NEW keys, NEW raw, NEW convert, NEW public,
           Fits(convert, raw, public), DOMAIN keys \subseteq DOMAIN query
    PROVE  Kept(Listing(path, query, keys, raw, convert, public))
<1> DEFINE e == Listing(path, query, keys, raw, convert, public)
<1>1. e.convert = convert /\ e.raw = raw /\ e.public = public /\ e.keys = keys /\ e.query = query
      /\ e.asserts = Fields({}, "string")
  BY DEF Listing
<1>2. DOMAIN e.asserts = {}
  BY <1>1 DEF Fields
<1>3. DOMAIN convert = DOMAIN public
  BY DEF Fits, Fit, Table
<1> HIDE DEF e
<1>4. Kept(e)
  BY <1>1, <1>2, <1>3 DEF Kept, Sound, Asserted
<1> QED
  BY <1>4 DEF e

LEMMA LookupKept ==
    ASSUME NEW path, NEW query, NEW keys, NEW raw, NEW asserts, NEW convert, NEW public,
           Fits(convert, raw, public), DOMAIN keys \subseteq DOMAIN query, Asserts(raw, asserts)
    PROVE  Kept(Lookup(path, query, keys, raw, asserts, convert, public))
<1> DEFINE e == Lookup(path, query, keys, raw, asserts, convert, public)
<1>1. e.convert = convert /\ e.raw = raw /\ e.public = public /\ e.keys = keys /\ e.query = query
      /\ e.asserts = asserts
  BY DEF Lookup
<1>2. DOMAIN convert = DOMAIN public
  BY DEF Fits, Fit, Table
<1> HIDE DEF e
<1>3. Kept(e)
  BY <1>1, <1>2 DEF Kept, Sound, Asserted, Asserts, Passes
<1> QED
  BY <1>3 DEF e

LEMMA AccountAsserts == Asserts(MirrorAccountResponse, assertAccountResponse)
<1>1. Has(MirrorAccountResponse, "account", Text)
  BY FieldsTop, OverDomain, OverAt DEF Has, MirrorAccountResponse
<1> QED
  BY <1>1, Passing, AssertsFields DEF Has, assertAccountResponse

LEMMA NftAsserts == Asserts(MirrorNft, assertNftResponse)
<1>1. /\ Has(MirrorNft, "token_id", Text)
      /\ Has(MirrorNft, "serial_number", Count)
  BY FieldsTop, OverDomain, OverAt DEF Has, MirrorNft
<1>2. Asserts(MirrorNft, Fields({"token_id"}, "string"))
  BY <1>1, Passing, AssertsFields DEF Has
<1>3. Asserts(MirrorNft, Fields({"serial_number"}, "number"))
  BY <1>1, Passing, AssertsFields DEF Has
<1> QED
  BY <1>2, <1>3, AssertsOver DEF assertNftResponse

LEMMA TokenAsserts == Asserts(MirrorTokenResponse, assertTokenResponse)
<1>1. Has(MirrorTokenResponse, "token_id", Text)
  BY FieldsTop, OverDomain, OverAt DEF Has, MirrorTokenResponse
<1> QED
  BY <1>1, Passing, AssertsFields DEF Has, assertTokenResponse

LEMMA TopicMessageAsserts == Asserts(MirrorTopicMessageRaw, assertTopicMessageResponse)
<1>1. /\ Has(MirrorTopicMessageRaw, "topic_id", Text)
      /\ Has(MirrorTopicMessageRaw, "sequence_number", Count)
  BY FieldsTop, OverDomain, OverAt DEF Has, MirrorTopicMessageRaw
<1>2. Asserts(MirrorTopicMessageRaw, Fields({"topic_id"}, "string"))
  BY <1>1, Passing, AssertsFields DEF Has
<1>3. Asserts(MirrorTopicMessageRaw, Fields({"sequence_number"}, "number"))
  BY <1>1, Passing, AssertsFields DEF Has
<1> QED
  BY <1>2, <1>3, AssertsOver DEF assertTopicMessageResponse

LEMMA TransactionAsserts == Asserts(MirrorTransaction, assertTransactionResponse)
<1>1. Has(MirrorTransaction, "transaction_id", Text)
  BY FieldsTop, OverDomain, OverAt DEF Has, MirrorTransaction
<1> QED
  BY <1>1, Passing, AssertsFields DEF Has, assertTransactionResponse

LEMMA ExchangeRatesAsserts == Asserts(MirrorExchangeRatesResponse, assertExchangeRatesResponse)
<1>1. /\ Has(MirrorExchangeRatesResponse, "current_rate", Object)
      /\ Has(MirrorExchangeRatesResponse, "next_rate", Object)
  BY FieldsTop, OverDomain, OverAt, NestedTop, ExchangeRateFits
  DEF Has, MirrorExchangeRatesResponse, Fits
<1> QED
  BY <1>1, Passing, AssertsFields DEF Has, assertExchangeRatesResponse

LEMMA NetworkSupplyAsserts == Asserts(MirrorNetworkSupplyResponse, assertNetworkSupplyResponse)
<1>1. /\ Has(MirrorNetworkSupplyResponse, "released_supply", {"quoted"})
      /\ Has(MirrorNetworkSupplyResponse, "total_supply", {"quoted"})
  BY FieldsTop, OverDomain, OverAt DEF Has, MirrorNetworkSupplyResponse
<1> QED
  BY <1>1, Passing, AssertsFields DEF Has, assertNetworkSupplyResponse

LEMMA NetworkStakeAsserts == Asserts(MirrorNetworkStakeResponse, assertNetworkStakeResponse)
<1>1. Has(MirrorNetworkStakeResponse, "max_stake_rewarded", MirrorAmount)
  BY FieldsTop, OverDomain, OverAt DEF Has, MirrorNetworkStakeResponse
<1> QED
  BY <1>1, Passing, AssertsFields DEF Has, assertNetworkStakeResponse

LEMMA ScheduleAsserts == Asserts(MirrorScheduleResponse, assertScheduleResponse)
<1>1. Has(MirrorScheduleResponse, "schedule_id", Text)
  BY FieldsTop, OverDomain, OverAt DEF Has, MirrorScheduleResponse
<1> QED
  BY <1>1, Passing, AssertsFields DEF Has, assertScheduleResponse

LEMMA TopicAsserts == Asserts(MirrorTopicResponse, assertTopicResponse)
<1>1. Has(MirrorTopicResponse, "topic_id", Text)
  BY FieldsTop, OverDomain, OverAt DEF Has, MirrorTopicResponse
<1> QED
  BY <1>1, Passing, AssertsFields DEF Has, assertTopicResponse

LEMMA NetworkFeesAsserts == Asserts(MirrorNetworkFeesResponse, assertNetworkFeesResponse)
<1>1. Has(MirrorNetworkFeesResponse, "fees", List)
  BY FieldsTop, OverDomain, OverAt DEF Has, MirrorNetworkFeesResponse, Nested
<1> QED
  BY <1>1, Passing, AssertsFields DEF Has, assertNetworkFeesResponse

LEMMA BlockAsserts == Asserts(MirrorBlock, assertBlockResponse)
<1>1. /\ Has(MirrorBlock, "hash", Text)
      /\ Has(MirrorBlock, "number", Count)
  BY FieldsTop, OverDomain, OverAt DEF Has, MirrorBlock
<1>2. Asserts(MirrorBlock, Fields({"hash"}, "string"))
  BY <1>1, Passing, AssertsFields DEF Has
<1>3. Asserts(MirrorBlock, Fields({"number"}, "number"))
  BY <1>1, Passing, AssertsFields DEF Has
<1> QED
  BY <1>2, <1>3, AssertsOver DEF assertBlockResponse

LEMMA ContractAsserts == Asserts(MirrorContractResponse, assertContractResponse)
<1>1. Has(MirrorContractResponse, "contract_id", Text)
  BY FieldsTop, OverDomain, OverAt DEF Has, MirrorContractResponse, MirrorContractRaw
<1> QED
  BY <1>1, Passing, AssertsFields DEF Has, assertContractResponse

LEMMA ContractResultAsserts == Asserts(MirrorContractResultDetails, assertContractResultResponse)
<1>1. Has(MirrorContractResultDetails, "result", Text)
  BY FieldsTop, OverDomain, OverAt DEF Has, MirrorContractResultDetails
<1> QED
  BY <1>1, Passing, AssertsFields DEF Has, assertContractResultResponse

LEMMA OpcodesAsserts == Asserts(MirrorOpcodesResponse, assertOpcodesResponse)
<1>1. Has(MirrorOpcodesResponse, "opcodes", List)
  BY FieldsTop, OverDomain, OverAt DEF Has, MirrorOpcodesResponse, Nested
<1> QED
  BY <1>1, Passing, AssertsFields DEF Has, assertOpcodesResponse

LEMMA ContractCallAsserts == Asserts(MirrorContractCallResponse, assertContractCallResponse)
<1>1. Has(MirrorContractCallResponse, "result", Text)
  BY FieldsTop, OverDomain, OverAt DEF Has, MirrorContractCallResponse
<1> QED
  BY <1>1, Passing, AssertsFields DEF Has, assertContractCallResponse

LEMMA FeeEstimateAsserts == Asserts(MirrorFeeEstimateResponse, assertFeeEstimateResponse)
<1>1. Has(MirrorFeeEstimateResponse, "total", Count)
  BY FieldsTop, OverDomain, OverAt DEF Has, MirrorFeeEstimateResponse
<1> QED
  BY <1>1, Passing, AssertsFields DEF Has, assertFeeEstimateResponse

(* Every endpoint.                                                         *)
LEMMA queryAccountKept == Kept(queryAccount)
<1>1. DOMAIN queryAccount.keys \subseteq DOMAIN AccountQuery
  BY OverDomain, OptionsDomain, PageQueryNames, PageKeysOf, KeysOf
  DEF queryAccount, Lookup, AccountQuery
<1>2. queryAccount.keys = Keys({"timestamp", "includeTransactions"})
  BY DEF queryAccount, Lookup
<1> QED
  BY <1>1, <1>2, AccountInfoFits, AccountAsserts, LookupKept DEF queryAccount

LEMMA queryAccountBalanceKept == Kept(queryAccountBalance)
<1>1. DOMAIN queryAccountBalance.keys \subseteq DOMAIN AccountQuery
  BY OverDomain, OptionsDomain, PageQueryNames, PageKeysOf, KeysOf
  DEF queryAccountBalance, Lookup, AccountQuery
<1>2. queryAccountBalance.keys = Keys({"timestamp", "includeTransactions"})
  BY DEF queryAccountBalance, Lookup
<1> QED
  BY <1>1, <1>2, BalanceFits, AccountAsserts, LookupKept DEF queryAccountBalance

LEMMA queryAccountTokensKept == Kept(queryAccountTokens)
<1>1. DOMAIN queryAccountTokens.keys \subseteq DOMAIN AccountTokensQuery
  BY OverDomain, OptionsDomain, PageQueryNames, PageKeysOf, KeysOf
  DEF queryAccountTokens, Listing, AccountTokensQuery
<1>2. queryAccountTokens.keys = PageKeys({"tokenId"})
  BY DEF queryAccountTokens, Listing
<1> QED
  BY <1>1, <1>2, AccountTokenBalanceFits, ListingKept DEF queryAccountTokens

LEMMA queryAccountsKept == Kept(queryAccounts)
<1>1. DOMAIN queryAccounts.keys \subseteq DOMAIN AccountListQuery
  BY OverDomain, OptionsDomain, PageQueryNames, PageKeysOf, KeysOf
  DEF queryAccounts, Listing, AccountListQuery
<1>2. queryAccounts.keys = PageKeys({"balance", "accountId", "publicKey", "includeBalance"})
  BY DEF queryAccounts, Listing
<1> QED
  BY <1>1, <1>2, AccountInfoFits, ListingKept DEF queryAccounts

LEMMA queryNftsByAccountKept == Kept(queryNftsByAccount)
<1>1. DOMAIN queryNftsByAccount.keys \subseteq DOMAIN AccountNftsQuery
  BY OverDomain, OptionsDomain, PageQueryNames, PageKeysOf, KeysOf
  DEF queryNftsByAccount, Listing, AccountNftsQuery
<1>2. queryNftsByAccount.keys = PageKeys({"tokenId", "serialNumber", "spenderId"})
  BY DEF queryNftsByAccount, Listing
<1> QED
  BY <1>1, <1>2, NftFits, ListingKept DEF queryNftsByAccount

LEMMA queryNftsByTokenIdKept == Kept(queryNftsByTokenId)
<1>1. DOMAIN queryNftsByTokenId.keys \subseteq DOMAIN TokenNftsQuery
  BY OverDomain, OptionsDomain, PageQueryNames, PageKeysOf, KeysOf
  DEF queryNftsByTokenId, Listing, TokenNftsQuery
<1>2. queryNftsByTokenId.keys = PageKeys({"accountId", "serialNumber"})
  BY DEF queryNftsByTokenId, Listing
<1> QED
  BY <1>1, <1>2, NftFits, ListingKept DEF queryNftsByTokenId

LEMMA queryNftsByTokenIdAndSerialKept == Kept(queryNftsByTokenIdAndSerial)
<1>1. DOMAIN Keys({}) \subseteq DOMAIN NoQuery
  BY KeysOf
<1> QED
  BY <1>1, NftFits, NftAsserts, LookupKept DEF queryNftsByTokenIdAndSerial

LEMMA queryTokenByIdKept == Kept(queryTokenById)
<1>1. DOMAIN queryTokenById.keys \subseteq DOMAIN TokenQuery
  BY OverDomain, OptionsDomain, PageQueryNames, PageKeysOf, KeysOf
  DEF queryTokenById, Lookup, TokenQuery
<1>2. queryTokenById.keys = Keys({"timestamp"})
  BY DEF queryTokenById, Lookup
<1> QED
  BY <1>1, <1>2, TokenInfoFits, TokenAsserts, LookupKept DEF queryTokenById

LEMMA queryTokensKept == Kept(queryTokens)
<1>1. DOMAIN queryTokens.keys \subseteq DOMAIN TokensQuery
  BY OverDomain, OptionsDomain, PageQueryNames, PageKeysOf, KeysOf
  DEF queryTokens, Listing, TokensQuery
<1>2. queryTokens.keys
       = [publicKey |-> "publickey"] ++ PageKeys({"accountId", "name", "tokenId", "type"})
  BY DEF queryTokens, Listing
<1> QED
  BY <1>1, <1>2, TokenSummaryFits, ListingKept DEF queryTokens

LEMMA queryTokenBalancesKept == Kept(queryTokenBalances)
<1>1. DOMAIN queryTokenBalances.keys \subseteq DOMAIN TokenBalancesQuery
  BY OverDomain, OptionsDomain, PageQueryNames, PageKeysOf, KeysOf
  DEF queryTokenBalances, Listing, TokenBalancesQuery
<1>2. queryTokenBalances.keys = PageKeys({"accountBalance", "accountId", "publicKey", "timestamp"})
  BY DEF queryTokenBalances, Listing
<1> QED
  BY <1>1, <1>2, TokenHolderFits, ListingKept DEF queryTokenBalances

LEMMA queryTopicMessagesKept == Kept(queryTopicMessages)
<1>1. DOMAIN queryTopicMessages.keys \subseteq DOMAIN TopicMessagesQuery
  BY OverDomain, OptionsDomain, PageQueryNames, PageKeysOf, KeysOf
  DEF queryTopicMessages, Listing, TopicMessagesQuery
<1>2. queryTopicMessages.keys = PageKeys({"sequenceNumber", "timestamp"})
  BY DEF queryTopicMessages, Listing
<1> QED
  BY <1>1, <1>2, TopicMessageFits, ListingKept DEF queryTopicMessages

LEMMA queryTopicMessageBySequenceKept == Kept(queryTopicMessageBySequence)
<1>1. DOMAIN Keys({}) \subseteq DOMAIN NoQuery
  BY KeysOf
<1> QED
  BY <1>1, TopicMessageFits, TopicMessageAsserts, LookupKept DEF queryTopicMessageBySequence

LEMMA queryTopicMessageByTimestampKept == Kept(queryTopicMessageByTimestamp)
<1>1. DOMAIN Keys({}) \subseteq DOMAIN NoQuery
  BY KeysOf
<1> QED
  BY <1>1, TopicMessageFits, TopicMessageAsserts, LookupKept DEF queryTopicMessageByTimestamp

LEMMA queryTransactionsKept == Kept(queryTransactions)
<1>1. DOMAIN queryTransactions.keys \subseteq DOMAIN TransactionQuery
  BY OverDomain, OptionsDomain, PageQueryNames, PageKeysOf, KeysOf
  DEF queryTransactions, Listing, TransactionQuery
<1>2. queryTransactions.keys
       = PageKeys({"accountId", "transactionType", "timestamp", "result", "type"})
  BY DEF queryTransactions, Listing
<1> QED
  BY <1>1, <1>2, TransactionFits, ListingKept DEF queryTransactions

LEMMA queryTransactionRowsKept == Kept(queryTransactionRows)
<1>1. DOMAIN queryTransactionRows.keys \subseteq DOMAIN TransactionLookupQuery
  BY OverDomain, OptionsDomain, PageQueryNames, PageKeysOf, KeysOf
  DEF queryTransactionRows, Lookup, TransactionLookupQuery
<1>2. queryTransactionRows.keys = Keys({"nonce", "scheduled"})
  BY DEF queryTransactionRows, Lookup
<1> QED
  BY <1>1, <1>2, TransactionFits, TransactionAsserts, LookupKept DEF queryTransactionRows

LEMMA queryExchangeRatesKept == Kept(queryExchangeRates)
<1>1. DOMAIN queryExchangeRates.keys \subseteq DOMAIN ExchangeRateQuery
  BY OverDomain, OptionsDomain, PageQueryNames, PageKeysOf, KeysOf
  DEF queryExchangeRates, Lookup, ExchangeRateQuery
<1>2. queryExchangeRates.keys = Keys({"timestamp"})
  BY DEF queryExchangeRates, Lookup
<1> QED
  BY <1>1, <1>2, ExchangeRatesFit, ExchangeRatesAsserts, LookupKept
  DEF queryExchangeRates, convertExchangeRates

LEMMA queryNetworkSuppliesKept == Kept(queryNetworkSupplies)
<1>1. DOMAIN queryNetworkSupplies.keys \subseteq DOMAIN NetworkSupplyQuery
  BY OverDomain, OptionsDomain, PageQueryNames, PageKeysOf, KeysOf
  DEF queryNetworkSupplies, Lookup, NetworkSupplyQuery
<1>2. queryNetworkSupplies.keys = Keys({"timestamp"})
  BY DEF queryNetworkSupplies, Lookup
<1> QED
  BY <1>1, <1>2, NetworkSuppliesFits, NetworkSupplyAsserts, LookupKept DEF queryNetworkSupplies

LEMMA queryNetworkStakeKept == Kept(queryNetworkStake)
<1>1. DOMAIN Keys({}) \subseteq DOMAIN NoQuery
  BY KeysOf
<1> QED
  BY <1>1, NetworkStakeFits, NetworkStakeAsserts, LookupKept DEF queryNetworkStake

LEMMA queryNetworkNodesKept == Kept(queryNetworkNodes)
<1>1. DOMAIN queryNetworkNodes.keys \subseteq DOMAIN NetworkNodesQuery
  BY OverDomain, OptionsDomain, PageQueryNames, PageKeysOf, KeysOf
  DEF queryNetworkNodes, Listing, NetworkNodesQuery
<1>2. queryNetworkNodes.keys = PageKeys({"nodeId", "fileId"})
  BY DEF queryNetworkNodes, Listing
<1> QED
  BY <1>1, <1>2, NetworkNodeFits, ListingKept DEF queryNetworkNodes

LEMMA queryStakingRewardsKept == Kept(queryStakingRewards)
<1>1. DOMAIN queryStakingRewards.keys \subseteq DOMAIN StakingRewardsQuery
  BY OverDomain, OptionsDomain, PageQueryNames, PageKeysOf, KeysOf
  DEF queryStakingRewards, Listing, StakingRewardsQuery
<1>2. queryStakingRewards.keys = PageKeys({"timestamp"})
  BY DEF queryStakingRewards, Listing
<1> QED
  BY <1>1, <1>2, StakingRewardFits, ListingKept DEF queryStakingRewards

LEMMA queryFeeEstimateKept == Kept(queryFeeEstimate)
<1>1. DOMAIN queryFeeEstimate.keys \subseteq DOMAIN FeeEstimateQuery
  BY OverDomain, OptionsDomain, PageQueryNames, PageKeysOf, KeysOf
  DEF queryFeeEstimate, Lookup, FeeEstimateQuery
<1>2. queryFeeEstimate.keys = Keys({"mode", "highVolumeThrottle"})
  BY DEF queryFeeEstimate, Lookup
<1> QED
  BY <1>1, <1>2, FeeEstimateFits, FeeEstimateAsserts, LookupKept DEF queryFeeEstimate

LEMMA queryBalancesKept == Kept(queryBalances)
<1>1. DOMAIN queryBalances.keys \subseteq DOMAIN BalancesQuery
  BY OverDomain, OptionsDomain, PageQueryNames, PageKeysOf, KeysOf
  DEF queryBalances, Listing, BalancesQuery
<1>2. queryBalances.keys = PageKeys({"accountId", "balance", "publicKey", "timestamp"})
  BY DEF queryBalances, Listing
<1> QED
  BY <1>1, <1>2, AccountBalanceSnapshotFits, ListingKept DEF queryBalances

LEMMA queryPendingAirdropsKept == Kept(queryPendingAirdrops)
<1>1. DOMAIN queryPendingAirdrops.keys \subseteq DOMAIN AirdropsQuery
  BY OverDomain, OptionsDomain, PageQueryNames, PageKeysOf, KeysOf
  DEF queryPendingAirdrops, Listing, AirdropsQuery
<1>2. queryPendingAirdrops.keys = PageKeys({"senderId", "serialNumber", "tokenId"})
  BY DEF queryPendingAirdrops, Listing
<1> QED
  BY <1>1, <1>2, AirdropFits, ListingKept DEF queryPendingAirdrops

LEMMA queryOutstandingAirdropsKept == Kept(queryOutstandingAirdrops)
<1>1. DOMAIN queryOutstandingAirdrops.keys \subseteq DOMAIN AirdropsQuery
  BY OverDomain, OptionsDomain, PageQueryNames, PageKeysOf, KeysOf
  DEF queryOutstandingAirdrops, Listing, AirdropsQuery
<1>2. queryOutstandingAirdrops.keys = PageKeys({"receiverId", "serialNumber", "tokenId"})
  BY DEF queryOutstandingAirdrops, Listing
<1> QED
  BY <1>1, <1>2, AirdropFits, ListingKept DEF queryOutstandingAirdrops

LEMMA queryCryptoAllowancesKept == Kept(queryCryptoAllowances)
<1>1. DOMAIN queryCryptoAllowances.keys \subseteq DOMAIN AllowancesQuery
  BY OverDomain, OptionsDomain, PageQueryNames, PageKeysOf, KeysOf
  DEF queryCryptoAllowances, Listing, AllowancesQuery
<1>2. queryCryptoAllowances.keys = PageKeys({"spenderId"})
  BY DEF queryCryptoAllowances, Listing
<1> QED
  BY <1>1, <1>2, CryptoAllowanceFits, ListingKept DEF queryCryptoAllowances

LEMMA queryTokenAllowancesKept == Kept(queryTokenAllowances)
<1>1. DOMAIN queryTokenAllowances.keys \subseteq DOMAIN AllowancesQuery
  BY OverDomain, OptionsDomain, PageQueryNames, PageKeysOf, KeysOf
  DEF queryTokenAllowances, Listing, AllowancesQuery
<1>2. queryTokenAllowances.keys = PageKeys({"spenderId", "tokenId"})
  BY DEF queryTokenAllowances, Listing
<1> QED
  BY <1>1, <1>2, TokenAllowanceFits, ListingKept DEF queryTokenAllowances

LEMMA queryNftAllowancesKept == Kept(queryNftAllowances)
<1>1. DOMAIN queryNftAllowances.keys \subseteq DOMAIN NftAllowancesQuery
  BY OverDomain, OptionsDomain, PageQueryNames, PageKeysOf, KeysOf
  DEF queryNftAllowances, Listing, NftAllowancesQuery
<1>2. queryNftAllowances.keys = PageKeys({"accountId", "tokenId", "owner"})
  BY DEF queryNftAllowances, Listing
<1> QED
  BY <1>1, <1>2, NftAllowanceFits, ListingKept DEF queryNftAllowances

LEMMA querySchedulesKept == Kept(querySchedules)
<1>1. DOMAIN querySchedules.keys \subseteq DOMAIN SchedulesQuery
  BY OverDomain, OptionsDomain, PageQueryNames, PageKeysOf, KeysOf
  DEF querySchedules, Listing, SchedulesQuery
<1>2. querySchedules.keys = PageKeys({"accountId", "scheduleId"})
  BY DEF querySchedules, Listing
<1> QED
  BY <1>1, <1>2, ScheduleFits, ListingKept DEF querySchedules

LEMMA queryScheduleKept == Kept(querySchedule)
<1>1. DOMAIN Keys({}) \subseteq DOMAIN NoQuery
  BY KeysOf
<1> QED
  BY <1>1, ScheduleFits, ScheduleAsserts, LookupKept DEF querySchedule

LEMMA queryTopicKept == Kept(queryTopic)
<1>1. DOMAIN Keys({}) \subseteq DOMAIN NoQuery
  BY KeysOf
<1> QED
  BY <1>1, TopicInfoFits, TopicAsserts, LookupKept DEF queryTopic

LEMMA queryNetworkFeesKept == Kept(queryNetworkFees)
<1>1. DOMAIN queryNetworkFees.keys \subseteq DOMAIN NetworkFeesQuery
  BY OverDomain, OptionsDomain, PageQueryNames, PageKeysOf, KeysOf
  DEF queryNetworkFees, Lookup, NetworkFeesQuery
<1>2. queryNetworkFees.keys = Keys({"timestamp", "order"})
  BY DEF queryNetworkFees, Lookup
<1> QED
  BY <1>1, <1>2, NetworkFeesFit, NetworkFeesAsserts, LookupKept DEF queryNetworkFees

LEMMA queryNftTransactionsKept == Kept(queryNftTransactions)
<1>1. DOMAIN queryNftTransactions.keys \subseteq DOMAIN NftTransactionsQuery
  BY OverDomain, OptionsDomain, PageQueryNames, PageKeysOf, KeysOf
  DEF queryNftTransactions, Listing, NftTransactionsQuery
<1>2. queryNftTransactions.keys = PageKeys({"timestamp"})
  BY DEF queryNftTransactions, Listing
<1> QED
  BY <1>1, <1>2, NftTransactionFits, ListingKept DEF queryNftTransactions

LEMMA queryBlocksKept == Kept(queryBlocks)
<1>1. DOMAIN queryBlocks.keys \subseteq DOMAIN BlocksQuery
  BY OverDomain, OptionsDomain, PageQueryNames, PageKeysOf, KeysOf
  DEF queryBlocks, Listing, BlocksQuery
<1>2. queryBlocks.keys = PageKeys({"blockNumber", "timestamp"})
  BY DEF queryBlocks, Listing
<1> QED
  BY <1>1, <1>2, BlockFits, ListingKept DEF queryBlocks

LEMMA queryBlockKept == Kept(queryBlock)
<1>1. DOMAIN Keys({}) \subseteq DOMAIN NoQuery
  BY KeysOf
<1> QED
  BY <1>1, BlockFits, BlockAsserts, LookupKept DEF queryBlock

LEMMA queryHooksKept == Kept(queryHooks)
<1>1. DOMAIN queryHooks.keys \subseteq DOMAIN HooksQuery
  BY OverDomain, OptionsDomain, PageQueryNames, PageKeysOf, KeysOf
  DEF queryHooks, Listing, HooksQuery
<1>2. queryHooks.keys = PageKeys({"hookId"})
  BY DEF queryHooks, Listing
<1> QED
  BY <1>1, <1>2, HookFits, ListingKept DEF queryHooks

LEMMA queryHookStorageKept == Kept(queryHookStorage)
<1>1. DOMAIN queryHookStorage.keys \subseteq DOMAIN HookStorageQuery
  BY OverDomain, OptionsDomain, PageQueryNames, PageKeysOf, KeysOf
  DEF queryHookStorage, Listing, HookStorageQuery
<1>2. queryHookStorage.keys = PageKeys({"key", "timestamp"})
  BY DEF queryHookStorage, Listing
<1> QED
  BY <1>1, <1>2, HookStorageSlotFits, ListingKept DEF queryHookStorage

LEMMA queryRegisteredNodesKept == Kept(queryRegisteredNodes)
<1>1. DOMAIN queryRegisteredNodes.keys \subseteq DOMAIN RegisteredNodesQuery
  BY OverDomain, OptionsDomain, PageQueryNames, PageKeysOf, KeysOf
  DEF queryRegisteredNodes, Listing, RegisteredNodesQuery
<1>2. queryRegisteredNodes.keys = PageKeys({"registeredNodeId", "type"})
  BY DEF queryRegisteredNodes, Listing
<1> QED
  BY <1>1, <1>2, RegisteredNodeFits, ListingKept DEF queryRegisteredNodes

LEMMA queryContractsKept == Kept(queryContracts)
<1>1. DOMAIN queryContracts.keys \subseteq DOMAIN ContractsQuery
  BY OverDomain, OptionsDomain, PageQueryNames, PageKeysOf, KeysOf
  DEF queryContracts, Listing, ContractsQuery
<1>2. queryContracts.keys = PageKeys({"contractId"})
  BY DEF queryContracts, Listing
<1> QED
  BY <1>1, <1>2, ContractFits, ListingKept DEF queryContracts

LEMMA queryContractKept == Kept(queryContract)
<1>1. DOMAIN queryContract.keys \subseteq DOMAIN ContractQuery
  BY OverDomain, OptionsDomain, PageQueryNames, PageKeysOf, KeysOf
  DEF queryContract, Lookup, ContractQuery
<1>2. queryContract.keys = Keys({"timestamp"})
  BY DEF queryContract, Lookup
<1> QED
  BY <1>1, <1>2, ContractDetailFits, ContractAsserts, LookupKept DEF queryContract

LEMMA queryContractResultsKept == Kept(queryContractResults)
<1>1. DOMAIN queryContractResults.keys \subseteq DOMAIN ContractResultsQuery
  BY OverDomain, OptionsDomain, PageQueryNames, PageKeysOf, KeysOf
  DEF queryContractResults, Listing, ContractResultsQuery, contractResultsQueryParams
<1>2. queryContractResults.keys = contractResultsQueryParams
  BY DEF queryContractResults, Listing
<1> QED
  BY <1>1, <1>2, ContractResultFits, ListingKept DEF queryContractResults

LEMMA queryAllContractResultsKept == Kept(queryAllContractResults)
<1>1. DOMAIN queryAllContractResults.keys \subseteq DOMAIN ContractResultsQuery
  BY OverDomain, OptionsDomain, PageQueryNames, PageKeysOf, KeysOf
  DEF queryAllContractResults, Listing, ContractResultsQuery, contractResultsQueryParams
<1>2. queryAllContractResults.keys = contractResultsQueryParams
  BY DEF queryAllContractResults, Listing
<1> QED
  BY <1>1, <1>2, ContractResultFits, ListingKept DEF queryAllContractResults

LEMMA queryContractResultByTimestampKept == Kept(queryContractResultByTimestamp)
<1>1. DOMAIN Keys({}) \subseteq DOMAIN NoQuery
  BY KeysOf
<1> QED
  BY <1>1, ResultDetailsFit, ContractResultAsserts, LookupKept DEF queryContractResultByTimestamp

LEMMA queryContractResultKept == Kept(queryContractResult)
<1>1. DOMAIN queryContractResult.keys \subseteq DOMAIN ContractResultQuery
  BY OverDomain, OptionsDomain, PageQueryNames, PageKeysOf, KeysOf
  DEF queryContractResult, Lookup, ContractResultQuery
<1>2. queryContractResult.keys = Keys({"nonce"})
  BY DEF queryContractResult, Lookup
<1> QED
  BY <1>1, <1>2, ResultDetailsFit, ContractResultAsserts, LookupKept DEF queryContractResult

LEMMA queryContractActionsKept == Kept(queryContractActions)
<1>1. DOMAIN queryContractActions.keys \subseteq DOMAIN ContractActionsQuery
  BY OverDomain, OptionsDomain, PageQueryNames, PageKeysOf, KeysOf
  DEF queryContractActions, Listing, ContractActionsQuery
<1>2. queryContractActions.keys = PageKeys({"index"})
  BY DEF queryContractActions, Listing
<1> QED
  BY <1>1, <1>2, ContractActionFits, ListingKept DEF queryContractActions

LEMMA queryContractOpcodesKept == Kept(queryContractOpcodes)
<1>1. DOMAIN queryContractOpcodes.keys \subseteq DOMAIN OpcodesQuery
  BY OverDomain, OptionsDomain, PageQueryNames, PageKeysOf, KeysOf
  DEF queryContractOpcodes, Lookup, OpcodesQuery
<1>2. queryContractOpcodes.keys = Keys({"stack", "memory", "storage"})
  BY DEF queryContractOpcodes, Lookup
<1> QED
  BY <1>1, <1>2, OpcodeTraceFits, OpcodesAsserts, LookupKept DEF queryContractOpcodes

LEMMA queryContractStateKept == Kept(queryContractState)
<1>1. DOMAIN queryContractState.keys \subseteq DOMAIN ContractStateQuery
  BY OverDomain, OptionsDomain, PageQueryNames, PageKeysOf, KeysOf
  DEF queryContractState, Listing, ContractStateQuery
<1>2. queryContractState.keys = PageKeys({"slot", "timestamp"})
  BY DEF queryContractState, Listing
<1> QED
  BY <1>1, <1>2, ContractStateFits, ListingKept DEF queryContractState

LEMMA queryContractLogsKept == Kept(queryContractLogs)
<1>1. DOMAIN queryContractLogs.keys \subseteq DOMAIN ContractLogsQuery
  BY OverDomain, OptionsDomain, PageQueryNames, PageKeysOf, KeysOf
  DEF queryContractLogs, Listing, ContractLogsQuery, contractLogsQueryParams
<1>2. queryContractLogs.keys = contractLogsQueryParams
  BY DEF queryContractLogs, Listing
<1> QED
  BY <1>1, <1>2, ContractLogFits, ListingKept DEF queryContractLogs

LEMMA queryAllContractLogsKept == Kept(queryAllContractLogs)
<1>1. DOMAIN queryAllContractLogs.keys \subseteq DOMAIN ContractLogsQuery
  BY OverDomain, OptionsDomain, PageQueryNames, PageKeysOf, KeysOf
  DEF queryAllContractLogs, Listing, ContractLogsQuery, contractLogsQueryParams
<1>2. queryAllContractLogs.keys = Keys({"transactionHash"}) ++ contractLogsQueryParams
  BY DEF queryAllContractLogs, Listing
<1> QED
  BY <1>1, <1>2, ContractLogFits, ListingKept DEF queryAllContractLogs

LEMMA queryContractCallKept == Kept(queryContractCall)
<1>1. DOMAIN Keys({}) \subseteq DOMAIN NoQuery
  BY KeysOf
<1> QED
  BY <1>1, ContractCallFits, ContractCallAsserts, LookupKept DEF queryContractCall

(* An option that an argument takes the place of makes no difference.      *)
LEMMA FixedKept ==
    ASSUME NEW e, NEW names, Kept(e)
    PROVE  Kept([e EXCEPT !.fixed = names])
<1> DEFINE f == [e EXCEPT !.fixed = names]
<1>1. /\ f.convert = e.convert /\ f.raw = e.raw /\ f.public = e.public /\ f.keys = e.keys
      /\ f.query = e.query /\ f.asserts = e.asserts
  OBVIOUS
<1> HIDE DEF f
<1>2. Kept(f)
  BY <1>1 DEF Kept, Sound, Asserted
<1> QED
  BY <1>2 DEF f

LEMMA queryNftsByAccountAndTokenIdKept == Kept(queryNftsByAccountAndTokenId)
BY queryNftsByAccountKept, FixedKept DEF queryNftsByAccountAndTokenId

LEMMA queryTokensByAccountIdKept == Kept(queryTokensByAccountId)
BY queryTokensKept, FixedKept DEF queryTokensByAccountId

LEMMA queryTransactionsByAccountKept == Kept(queryTransactionsByAccount)
BY queryTransactionsKept, FixedKept DEF queryTransactionsByAccount

(* Every method of the repositories.                                       *)
LEMMA AccountRepositoryKeeps ==
    ASSUME NEW m \in DOMAIN AccountRepository
    PROVE  Kept(AccountRepository[m])
BY queryAccountKept, queryAccountBalanceKept, queryAccountTokensKept, queryStakingRewardsKept,
   queryAccountsKept, queryBalancesKept, queryPendingAirdropsKept, queryOutstandingAirdropsKept,
   queryCryptoAllowancesKept, queryTokenAllowancesKept, queryNftAllowancesKept, queryHooksKept,
   queryHookStorageKept
   DEF AccountRepository

LEMMA NftRepositoryKeeps ==
    ASSUME NEW m \in DOMAIN NftRepository
    PROVE  Kept(NftRepository[m])
BY queryNftsByAccountKept, queryNftsByTokenIdKept, queryNftsByTokenIdAndSerialKept,
   queryNftTransactionsKept, queryNftsByAccountAndTokenIdKept
   DEF NftRepository

LEMMA TokenRepositoryKeeps ==
    ASSUME NEW m \in DOMAIN TokenRepository
    PROVE  Kept(TokenRepository[m])
BY queryTokenByIdKept, queryTokensKept, queryTokensByAccountIdKept, queryTokenBalancesKept
   DEF TokenRepository

LEMMA TopicRepositoryKeeps ==
    ASSUME NEW m \in DOMAIN TopicRepository
    PROVE  Kept(TopicRepository[m])
BY queryTopicKept, queryTopicMessagesKept, queryTopicMessageBySequenceKept,
   queryTopicMessageByTimestampKept
   DEF TopicRepository

LEMMA TransactionRepositoryKeeps ==
    ASSUME NEW m \in DOMAIN TransactionRepository
    PROVE  Kept(TransactionRepository[m])
BY queryTransactionsKept, queryTransactionsByAccountKept, queryTransactionRowsKept
   DEF TransactionRepository

LEMMA NetworkRepositoryKeeps ==
    ASSUME NEW m \in DOMAIN NetworkRepository
    PROVE  Kept(NetworkRepository[m])
BY queryExchangeRatesKept, queryNetworkSuppliesKept, queryNetworkStakeKept, queryNetworkNodesKept,
   queryNetworkFeesKept, queryRegisteredNodesKept, queryFeeEstimateKept
   DEF NetworkRepository

LEMMA ScheduleRepositoryKeeps ==
    ASSUME NEW m \in DOMAIN ScheduleRepository
    PROVE  Kept(ScheduleRepository[m])
BY querySchedulesKept, queryScheduleKept
   DEF ScheduleRepository

LEMMA BlockRepositoryKeeps ==
    ASSUME NEW m \in DOMAIN BlockRepository
    PROVE  Kept(BlockRepository[m])
BY queryBlocksKept, queryBlockKept
   DEF BlockRepository

LEMMA ContractRepositoryKeeps ==
    ASSUME NEW m \in DOMAIN ContractRepository
    PROVE  Kept(ContractRepository[m])
BY queryContractsKept, queryContractKept, queryContractResultsKept, queryAllContractResultsKept,
   queryContractResultByTimestampKept, queryContractResultKept, queryContractActionsKept,
   queryContractOpcodesKept, queryContractStateKept, queryContractLogsKept,
   queryAllContractLogsKept, queryContractCallKept
   DEF ContractRepository

LEMMA EveryMethodKept ==
    ASSUME NEW repository \in DOMAIN createMirrorRepositories,
           NEW method \in DOMAIN createMirrorRepositories[repository]
    PROVE  Kept(createMirrorRepositories[repository][method])
BY AccountRepositoryKeeps, NftRepositoryKeeps, TokenRepositoryKeeps, TopicRepositoryKeeps,
   TransactionRepositoryKeeps, NetworkRepositoryKeeps, ScheduleRepositoryKeeps,
   BlockRepositoryKeeps, ContractRepositoryKeeps
   DEF createMirrorRepositories

(* Whatever was asked for, its endpoint is one of those.                   *)
LEMMA AskedKept ==
    ASSUME AnswerInv, stage # "asked"
    PROVE  Kept(Endpoint)
BY EveryMethodKept DEF AnswerInv, Asked, Endpoint

(* The endpoints of MirrorNodeClient and their converters: every converter *)
(* makes the fields of its public type, every parameter belongs to an      *)
(* option, what is asserted is a field, and the walk's state is typed.     *)
THEOREM ReadsTypeOK == Spec => []TypeOK
<1>1. WalkInv /\ AnswerInv => TypeOK
  BY TypesAre, AskedKept
<1> QED
  BY <1>1, ReadsWalkInvariant, ReadsAnswerInvariant, PTL

(* MirrorNodeConverters, LosslessJson, MirrorNodeValidators and orNull:    *)
(* whichever endpoint answers, and whatever sort any one field of its body *)
(* is of, the application gets what its types promise with every digit,    *)
(* or an error, and null only for what is not there.                       *)
THEOREM ReadsAnswersFaithful == Spec => []AnswersFaithful
<1>1. AnswerInv => AnswersFaithful
  BY AnswersAre, AskedKept
<1> QED
  BY <1>1, ReadsAnswerInvariant, PTL
=============================================================================
