------------------------ MODULE KeysetPaginatorProofs ------------------------
(***************************************************************************)
(* Theorems about KeysetPaginator, for any finite set of keys, any page    *)
(* size and any number of changes of the listing.                          *)
(*                                                                         *)
(* While the listing stays as first() found it, the window is a run of the *)
(* listing (no row of the listing lies between two rows of the window) and *)
(* the number of rows before it is a multiple of the page size; a full     *)
(* page later or earlier that is so again.                                 *)
(***************************************************************************)
EXTENDS KeysetPaginator, FiniteSetTheorems, SequenceTheorems, TLAPS

(* What the awaited load was asked for is still where the cursor stands:   *)
(* calls are awaited one after the other.                                  *)
Asked ==
    /\ ~started => window = <<>>
    /\ pending.op = "first" => pending.key = NoKey /\ pending.order = order
    /\ pending.op = "next" =>
          /\ window # <<>> /\ started
          /\ pending.key = Last(window) /\ pending.operator = ForwardOperator
          /\ pending.order = order
    /\ pending.op = "previous" =>
          /\ window # <<>> /\ started /\ ~atStart
          /\ pending.key = window[1] /\ pending.operator = BackwardOperator
          /\ pending.order = Inverted(order)

Sorted(rows, ord) == \A i, j \in 1..Len(rows) : i < j => Ahead(ord, rows[i], rows[j])

(* The rows are rows of the listing, in order, with none left out.         *)
Run(rows) ==
    /\ Sorted(rows, order)
    /\ \A i \in 1..Len(rows) : rows[i] \in listing
    /\ \A k \in listing : \/ \E i \in 1..Len(rows) : rows[i] = k
                          \/ Ahead(order, k, rows[1])
                          \/ Ahead(order, Last(rows), k)

Head1(k) == k \in listing /\ Before(k) = {}

(* Where the cursor stands in a listing that has not changed since first():*)
(* on a run, a whole number of pages from the head, with the flags telling *)
(* what lies before and behind.                                            *)
StandsAt(rows, isStart, isEnd, head) ==
    /\ rows = <<>> => listing = {}
    /\ rows # <<>> =>
          /\ Head1(head)
          /\ Run(rows)
          /\ Cardinality(Before(rows[1])) % limit = 0
          /\ isStart <=> Before(rows[1]) = {}
          /\ Len(rows) < limit => After(Last(rows)) = {}
          /\ isEnd => After(Last(rows)) = {}
          /\ Len(rows) < limit => isEnd

Stands == started /\ StandsAt(window, atStart, atEnd, headKey)

IInv == TypeOK /\ Asked /\ (stable => Stands)

-----------------------------------------------------------------------------
(* Whole pages.                                                            *)

(* A multiple of the page size has no remainder, and conversely.           *)
LEMMA Division ==
    ASSUME NEW c \in Nat, NEW n \in Nat \ {0}
    PROVE  c \div n \in Nat /\ c % n \in 0..(n - 1) /\ c = n * (c \div n) + (c % n)
OBVIOUS

LEMMA NoRemainder ==
    ASSUME NEW k \in Int, NEW n \in Nat \ {0}, NEW c \in Nat, c = n * k
    PROVE  c % n = 0
<1> DEFINE q == c \div n
           r == c % n
           d == k - q
<1>1. q \in Nat /\ r \in 0..(n - 1) /\ c = n * q + r BY Division
<1> HIDE DEF q, r
<1>2. n * d = r /\ d \in Int BY <1>1
<1> HIDE DEF d
<1>3. CASE d <= 0 BY <1>1, <1>2, <1>3 DEF r
<1>4. CASE d >= 1
  <2>1. n * d >= n BY <1>2, <1>4
  <2> QED BY <1>1, <1>2, <2>1
<1> QED BY <1>2, <1>3, <1>4

(* One page more or less leaves a whole number of pages.                   *)
LEMMA PageMore ==
    ASSUME NEW c \in Nat, NEW n \in Nat \ {0}
    PROVE  c % n = 0 <=> (c + n) % n = 0
<1>1. ASSUME c % n = 0 PROVE (c + n) % n = 0
  <2> DEFINE k == (c \div n) + 1
             e == c + n
  <2>1. e = n * k /\ k \in Int /\ e \in Nat BY <1>1, Division
  <2> HIDE DEF k, e
  <2>2. e % n = 0 BY <2>1, NoRemainder
  <2> QED BY <2>2 DEF e
<1>2. ASSUME (c + n) % n = 0 PROVE c % n = 0
  <2> DEFINE j == (c + n) \div n
             k == j - 1
  <2>1. c + n = n * j /\ j \in Nat BY <1>2, Division
  <2>2. c = n * k /\ k \in Int BY <2>1
  <2> HIDE DEF k
  <2> QED BY <2>2, NoRemainder
<1> QED BY <1>1, <1>2

(* Less than a page is no whole number of pages, unless it is nothing.     *)
LEMMA PagePart ==
    ASSUME NEW c \in Nat, NEW n \in Nat \ {0}, c < n
    PROVE  c % n = c
OBVIOUS

-----------------------------------------------------------------------------
(* Pages and runs.                                                         *)

LEMMA PageFacts ==
    ASSUME NEW rows
    PROVE  rows \in Pages <=> rows \in Seq(Keys) /\ Len(rows) <= MaxLimit
<1>1. ASSUME rows \in Pages PROVE rows \in Seq(Keys) /\ Len(rows) <= MaxLimit
  <2>1. PICK n \in 0..MaxLimit : rows \in [1..n -> Keys]
        BY <1>1 DEF Pages, BoundedSeq, SeqOf
  <2>2. n \in Nat /\ n <= MaxLimit BY PaginatorAssumption DEF PaginatorAssumption
  <2>3. rows \in Seq(Keys) /\ Len(rows) = n BY <2>1, <2>2, SeqDef
  <2> QED BY <2>2, <2>3
<1>2. ASSUME rows \in Seq(Keys), Len(rows) <= MaxLimit PROVE rows \in Pages
  <2>1. rows \in [1..Len(rows) -> Keys] /\ Len(rows) \in Nat BY <1>2, LenProperties
  <2>2. Len(rows) \in 0..MaxLimit
        BY <1>2, <2>1, PaginatorAssumption DEF PaginatorAssumption
  <2> QED BY <2>1, <2>2 DEF Pages, BoundedSeq, SeqOf
<1> QED BY <1>1, <1>2

(* The rows of a page are numbers, no two of them the same.                *)
LEMMA RowFacts ==
    ASSUME NEW rows \in Seq(Keys)
    PROVE  /\ Len(rows) \in Nat
           /\ rows = <<>> <=> Len(rows) = 0
           /\ \A i \in 1..Len(rows) : rows[i] \in Keys /\ rows[i] \in Nat
           /\ rows # <<>> => /\ 1 \in 1..Len(rows) /\ Len(rows) \in 1..Len(rows)
                             /\ Last(rows) = rows[Len(rows)]
<1>1. Len(rows) \in Nat /\ (rows = <<>> <=> Len(rows) = 0) BY EmptySeq
<1>2. \A i \in 1..Len(rows) : rows[i] \in Keys BY ElementOfSeq
<1>3. Keys \subseteq Nat BY PaginatorAssumption DEF PaginatorAssumption
<1>4. rows # <<>> => 1 \in 1..Len(rows) /\ Len(rows) \in 1..Len(rows) BY <1>1
<1>5. Last(rows) = rows[Len(rows)] BY DEF Last
<1>6. \A i \in 1..Len(rows) : rows[i] \in Nat BY <1>2, <1>3
<1> QED BY <1>1, <1>2, <1>4, <1>5, <1>6

(* Sorted rows: the first is ahead of all others, the last behind.         *)
LEMMA SortedEnds ==
    ASSUME NEW rows \in Seq(Keys), NEW ord \in Orders, Sorted(rows, ord),
           NEW i \in 1..Len(rows)
    PROVE  /\ rows[i] = rows[1] \/ Ahead(ord, rows[1], rows[i])
           /\ rows[i] = Last(rows) \/ Ahead(ord, rows[i], Last(rows))
<1>1. Len(rows) \in Nat /\ 1 \in 1..Len(rows) /\ Len(rows) \in 1..Len(rows)
      BY RowFacts
<1>2. i = 1 \/ Ahead(ord, rows[1], rows[i]) BY <1>1 DEF Sorted
<1>3. i = Len(rows) \/ Ahead(ord, rows[i], rows[Len(rows)]) BY <1>1 DEF Sorted
<1> QED BY <1>2, <1>3 DEF Last

(* The first n of the rows, next to a set none of them is in.              *)
LEMMA CountRows ==
    ASSUME NEW rows \in Seq(Keys), NEW ord \in Orders, Sorted(rows, ord),
           NEW n \in Nat, n <= Len(rows),
           NEW B, IsFiniteSet(B), \A j \in 1..n : rows[j] \notin B
    PROVE  /\ Cardinality(B) \in Nat
           /\ Cardinality(B \cup {rows[j] : j \in 1..n}) = Cardinality(B) + n
<1> DEFINE R == {rows[j] : j \in 1..n}
           f == [j \in 1..n |-> rows[j]]
<1>1. ASSUME NEW i \in 1..n, NEW j \in 1..n, i # j PROVE rows[i] # rows[j]
  <2>1. i \in 1..Len(rows) /\ j \in 1..Len(rows) /\ i \in Nat /\ j \in Nat
        BY RowFacts
  <2>2. rows[i] \in Nat /\ rows[j] \in Nat BY <2>1, RowFacts
  <2>3. Ahead(ord, rows[i], rows[j]) \/ Ahead(ord, rows[j], rows[i])
        BY <1>1, <2>1 DEF Sorted
  <2> QED BY <2>2, <2>3 DEF Ahead
<1>2. f \in Bijection(1..n, R)
  <2>1. f \in [1..n -> R] OBVIOUS
  <2>2. \A i, j \in 1..n : f[i] = f[j] => i = j BY <1>1
  <2>3. \A r \in R : \E j \in 1..n : f[j] = r OBVIOUS
  <2> HIDE DEF f, R
  <2> QED BY <2>1, <2>2, <2>3 DEF Bijection, Injection, Surjection, IsInjective
<1>3. IsFiniteSet(1..n) /\ Cardinality(1..n) = n BY FS_Interval
<1>4. IsFiniteSet(R) /\ Cardinality(R) = n
      BY <1>2, <1>3, FS_Bijection DEF ExistsBijection
<1>5. B \cap R = {} OBVIOUS
<1> HIDE DEF R
<1>6. Cardinality(B) \in Nat BY FS_CardinalityType
<1>7. Cardinality(B \cap R) = 0 BY <1>5, FS_EmptySet
<1>8. Cardinality(B \cup R) = Cardinality(B) + n
  <2>1. Cardinality(B \cup R) = Cardinality(B) + Cardinality(R) - Cardinality(B \cap R)
        BY <1>4, FS_Union
  <2> QED BY <1>4, <1>6, <1>7, <2>1
<1> QED BY <1>6, <1>8 DEF R

(* What a load answers.                                                    *)
LEMMA LoadFacts ==
    ASSUME TypeOK, NEW rows \in Load(pending)
    PROVE  /\ rows \in Seq(Keys) /\ Len(rows) \in Nat
           /\ limit \in Nat \ {0} /\ Len(rows) <= limit /\ limit <= MaxLimit
           /\ Sorted(rows, pending.order)
           /\ \A i \in 1..Len(rows) : rows[i] \in Within(pending)
           /\ \A k \in Within(pending) :
                 \/ \E i \in 1..Len(rows) : rows[i] = k
                 \/ Len(rows) = limit /\ Ahead(pending.order, Last(rows), k)
<1>1. rows \in Pages BY DEF Load
<1>2. rows \in Seq(Keys) /\ Len(rows) \in Nat BY <1>1, PageFacts, RowFacts
<1>3. limit \in Nat \ {0} /\ limit <= MaxLimit
      BY PaginatorAssumption DEF TypeOK, PaginatorAssumption
<1> QED BY <1>2, <1>3 DEF Load, Sorted

LEMMA ListingFacts ==
    ASSUME TypeOK
    PROVE  /\ listing \subseteq Nat /\ IsFiniteSet(listing) /\ order \in Orders
           /\ window \in Seq(Keys) /\ Len(window) \in Nat /\ Len(window) <= limit
           /\ NoKey \notin Nat
           /\ \A k : Before(k) \subseteq listing /\ IsFiniteSet(Before(k))
<1>1. listing \subseteq Nat /\ IsFiniteSet(listing)
      BY PaginatorAssumption, FS_Subset DEF TypeOK, PaginatorAssumption
<1>2. \A k : Before(k) \subseteq listing BY DEF Before
<1>3. \A k : IsFiniteSet(Before(k)) BY <1>1, <1>2, FS_Subset
<1>4. window \in Seq(Keys) /\ Len(window) \in Nat BY PageFacts, RowFacts DEF TypeOK
<1> QED BY <1>1, <1>2, <1>3, <1>4 DEF TypeOK, NoKey

(* first() lands on the head of the listing.                               *)
LEMMA FirstPage ==
    ASSUME TypeOK, NEW rows \in Load(pending),
           pending.key = NoKey, pending.order = order
    PROVE  /\ rows = <<>> => listing = {}
           /\ rows # <<>> =>
                 /\ Head1(rows[1]) /\ Run(rows)
                 /\ Len(rows) < limit => After(Last(rows)) = {}
<1>1. Within(pending) = listing BY DEF Within
<1>2. /\ rows \in Seq(Keys) /\ Len(rows) \in Nat /\ limit \in Nat \ {0}
      /\ Sorted(rows, order) /\ order \in Orders /\ listing \subseteq Nat
      /\ \A i \in 1..Len(rows) : rows[i] \in listing /\ rows[i] \in Nat
      /\ \A k \in listing : \/ \E i \in 1..Len(rows) : rows[i] = k
                            \/ Len(rows) = limit /\ Ahead(order, Last(rows), k)
      BY <1>1, LoadFacts, ListingFacts
<1>3. CASE rows = <<>>
  <2>1. Len(rows) = 0 BY <1>2, <1>3, RowFacts
  <2> QED BY <1>2, <1>3, <2>1
<1>4. CASE rows # <<>>
  <2>1. 1 \in 1..Len(rows) /\ Len(rows) \in 1..Len(rows) /\ Last(rows) = rows[Len(rows)]
        BY <1>2, <1>4, RowFacts
  <2>2. \A i \in 1..Len(rows) : /\ ~Ahead(order, rows[i], rows[1])
                                /\ ~Ahead(order, Last(rows), rows[i])
    <3> TAKE i \in 1..Len(rows)
    <3>1. /\ rows[i] = rows[1] \/ Ahead(order, rows[1], rows[i])
          /\ rows[i] = Last(rows) \/ Ahead(order, rows[i], Last(rows))
          BY <1>2, SortedEnds
    <3> QED BY <1>2, <2>1, <3>1 DEF Ahead
  <2>3. \A k \in listing : ~Ahead(order, k, rows[1])
    <3> TAKE k \in listing
    <3>1. CASE \E i \in 1..Len(rows) : rows[i] = k BY <2>2, <3>1
    <3>2. CASE Ahead(order, Last(rows), k)
      <4>1. rows[1] = Last(rows) \/ Ahead(order, rows[1], Last(rows))
            BY <1>2, <2>1, SortedEnds
      <4> QED BY <1>2, <2>1, <3>2, <4>1 DEF Ahead
    <3> QED BY <1>2, <3>1, <3>2
  <2>4. Head1(rows[1]) BY <1>2, <2>1, <2>3 DEF Head1, Before
  <2>5. Run(rows) BY <1>2 DEF Run
  <2>6. Len(rows) < limit => After(Last(rows)) = {}
    <3> SUFFICES ASSUME Len(rows) < limit, NEW k \in After(Last(rows)) PROVE FALSE
        OBVIOUS
    <3>1. PICK i \in 1..Len(rows) : rows[i] = k BY <1>2 DEF After
    <3> QED BY <2>2, <3>1 DEF After
  <2> QED BY <1>4, <2>4, <2>5, <2>6
<1> QED BY <1>3, <1>4

(* next() lands right behind the window.                                   *)
LEMMA NextPage ==
    ASSUME TypeOK, NEW rows \in Load(pending), window # <<>>,
           pending.key = Last(window), pending.operator = ForwardOperator,
           pending.order = order
    PROVE  /\ Len(rows) < limit =>
                 \A k \in After(Last(window)) : \E i \in 1..Len(rows) : rows[i] = k
           /\ \A i \in 1..Len(rows) : rows[i] \in After(Last(window))
           /\ \A k \in After(Last(window)) : \/ \E i \in 1..Len(rows) : rows[i] = k
                                             \/ Ahead(order, Last(rows), k)
           /\ rows = <<>> => After(Last(window)) = {}
           /\ rows # <<>> =>
                 /\ Ahead(order, Last(window), rows[1])
                 /\ After(Last(window)) \cap Before(rows[1]) = {}
                 /\ Len(rows) < limit => After(Last(rows)) = {}
<1> DEFINE last == Last(window)
<1>1. /\ window \in Seq(Keys) /\ order \in Orders /\ listing \subseteq Nat /\ NoKey \notin Nat
      BY ListingFacts
<1>2. last \in Nat BY <1>1, RowFacts
<1> HIDE DEF last
<1>3. Within(pending) = After(last)
  <2>1. pending.key # NoKey BY <1>1, <1>2 DEF last
  <2>2. \A k \in listing : Satisfies(k, pending.operator, pending.key) <=> Ahead(order, last, k)
        BY <1>1, <1>2 DEF Satisfies, ForwardOperator, Ahead, Orders, last
  <2> QED BY <2>1, <2>2 DEF Within, After
<1>4. /\ rows \in Seq(Keys) /\ Len(rows) \in Nat /\ limit \in Nat \ {0}
      /\ Sorted(rows, order)
      /\ \A i \in 1..Len(rows) : rows[i] \in After(last) /\ rows[i] \in Nat
      /\ \A k \in After(last) : \/ \E i \in 1..Len(rows) : rows[i] = k
                                \/ Len(rows) = limit /\ Ahead(order, Last(rows), k)
      BY <1>3, LoadFacts, RowFacts
<1>5. CASE rows = <<>>
  <2>1. Len(rows) = 0 BY <1>4, <1>5, RowFacts
  <2> QED BY <1>4, <1>5, <2>1 DEF last
<1>6. CASE rows # <<>>
  <2>1. 1 \in 1..Len(rows) /\ Len(rows) \in 1..Len(rows) /\ Last(rows) = rows[Len(rows)]
        BY <1>4, <1>6, RowFacts
  <2>2. \A i \in 1..Len(rows) : /\ ~Ahead(order, rows[i], rows[1])
                                /\ ~Ahead(order, Last(rows), rows[i])
    <3> TAKE i \in 1..Len(rows)
    <3>1. /\ rows[i] = rows[1] \/ Ahead(order, rows[1], rows[i])
          /\ rows[i] = Last(rows) \/ Ahead(order, rows[i], Last(rows))
          BY <1>1, <1>4, SortedEnds
    <3> QED BY <1>4, <2>1, <3>1 DEF Ahead
  <2>3. \A k \in After(last) : ~Ahead(order, k, rows[1])
    <3> TAKE k \in After(last)
    <3>0. k \in Nat BY <1>1 DEF After
    <3>1. CASE \E i \in 1..Len(rows) : rows[i] = k BY <2>2, <3>1
    <3>2. CASE Ahead(order, Last(rows), k)
      <4>1. rows[1] = Last(rows) \/ Ahead(order, rows[1], Last(rows))
            BY <1>1, <1>4, <2>1, SortedEnds
      <4> QED BY <1>1, <1>4, <2>1, <3>0, <3>2, <4>1 DEF Ahead
    <3> QED BY <1>4, <3>1, <3>2
  <2>4. Ahead(order, last, rows[1]) /\ Ahead(order, last, Last(rows))
        BY <1>4, <2>1 DEF After
  <2>5. After(Last(rows)) \subseteq After(last)
    <3>1. Last(rows) \in Nat BY <1>4, <2>1
    <3> SUFFICES ASSUME NEW k \in listing, Ahead(order, Last(rows), k)
                 PROVE  Ahead(order, last, k)
        BY DEF After
    <3> QED BY <1>1, <1>2, <2>4, <3>1 DEF Ahead
  <2>6. Len(rows) < limit => After(Last(rows)) = {}
    <3> SUFFICES ASSUME Len(rows) < limit, NEW k \in After(Last(rows)) PROVE FALSE
        OBVIOUS
    <3>1. PICK i \in 1..Len(rows) : rows[i] = k BY <1>4, <2>5
    <3> QED BY <2>2, <3>1 DEF After
  <2>7. After(last) \cap Before(rows[1]) = {} BY <2>3 DEF Before
  <2> QED BY <1>4, <1>6, <2>4, <2>6, <2>7 DEF last
<1> QED BY <1>5, <1>6

(* previous() lands right ahead of the window, in display order.           *)
LEMMA PreviousPage ==
    ASSUME TypeOK, NEW rows \in Load(pending), window # <<>>,
           pending.key = window[1], pending.operator = BackwardOperator,
           pending.order = Inverted(order),
           NEW shown, shown = Displayed(rows)
    PROVE  /\ shown \in Seq(Keys) /\ Len(shown) = Len(rows)
           /\ Sorted(shown, order)
           /\ \A i \in 1..Len(shown) : shown[i] \in Before(window[1])
           /\ \A k \in Before(window[1]) :
                 \/ \E i \in 1..Len(shown) : shown[i] = k
                 \/ Len(shown) = limit /\ Ahead(order, k, shown[1])
           /\ rows = <<>> => shown = <<>> /\ Before(window[1]) = {}
           /\ rows # <<>> =>
                 /\ shown # <<>> /\ Ahead(order, Last(shown), window[1])
                 /\ After(Last(shown)) \cap Before(window[1]) = {}
<1> DEFINE head == window[1]
<1>1. /\ window \in Seq(Keys) /\ order \in Orders /\ listing \subseteq Nat /\ NoKey \notin Nat
      BY ListingFacts
<1>2. head \in Nat BY <1>1, RowFacts
<1>3. Within(pending) = Before(head)
  <2> HIDE DEF head
  <2>1. pending.key # NoKey BY <1>1, <1>2 DEF head
  <2>2. \A k \in listing : Satisfies(k, pending.operator, pending.key) <=> Ahead(order, k, head)
        BY <1>1, <1>2 DEF Satisfies, BackwardOperator, Ahead, Orders, head
  <2> QED BY <2>1, <2>2 DEF Within, Before
<1> DEFINE n == Len(rows)
<1>4. /\ rows \in Seq(Keys) /\ n \in Nat /\ limit \in Nat \ {0}
      /\ \A i, j \in 1..n : i < j => Ahead(order, rows[j], rows[i])
      /\ \A i \in 1..n : rows[i] \in Before(head) /\ rows[i] \in Nat /\ rows[i] \in Keys
      /\ \A k \in Before(head) : \/ \E i \in 1..n : rows[i] = k
                                 \/ n = limit /\ Ahead(order, k, rows[n])
  <2>1. /\ rows \in Seq(Keys) /\ n \in Nat /\ limit \in Nat \ {0}
        /\ \A i \in 1..n : rows[i] \in Before(head) /\ rows[i] \in Nat /\ rows[i] \in Keys
        BY <1>3, LoadFacts, RowFacts
  <2>2. \A i, j : Ahead(Inverted(order), i, j) <=> Ahead(order, j, i)
        BY <1>1 DEF Inverted, Ahead, Orders
  <2>3. \A i, j \in 1..n : i < j => Ahead(order, rows[j], rows[i])
        BY <2>2, LoadFacts DEF Sorted
  <2>4. \A k \in Before(head) : \/ \E i \in 1..n : rows[i] = k
                                \/ n = limit /\ Ahead(order, k, rows[n])
        BY <1>3, <2>2, LoadFacts DEF Last
  <2> QED BY <2>1, <2>3, <2>4
<1>5. /\ shown = [i \in 1..n |-> rows[(n - i) + 1]]
      BY DEF Displayed, Reverse
<1> HIDE DEF n, head
<1>6. \A i \in 1..n : (n - i) + 1 \in 1..n /\ shown[i] = rows[(n - i) + 1] BY <1>4, <1>5
<1>7. shown \in Seq(Keys) /\ Len(shown) = n
  <2>1. shown \in [1..n -> Keys] BY <1>4, <1>5, <1>6
  <2> QED BY <1>4, <2>1, SeqDef
<1>8. Sorted(shown, order)
  <2> SUFFICES ASSUME NEW i \in 1..n, NEW j \in 1..n, i < j
               PROVE  Ahead(order, shown[i], shown[j])
      BY <1>7 DEF Sorted
  <2>1. (n - j) + 1 < (n - i) + 1 BY <1>4
  <2> QED BY <1>4, <1>6, <2>1
<1>9. \A i \in 1..n : shown[i] \in Before(head) BY <1>4, <1>6
<1>10. ASSUME NEW k \in Before(head)
       PROVE  \/ \E i \in 1..n : shown[i] = k
              \/ n = limit /\ Ahead(order, k, shown[1])
  <2>1. CASE \E i \in 1..n : rows[i] = k
    <3>1. PICK i \in 1..n : rows[i] = k BY <2>1
    <3>2. (n - i) + 1 \in 1..n /\ (n - ((n - i) + 1)) + 1 = i BY <1>4
    <3>3. shown[(n - i) + 1] = k BY <1>6, <3>1, <3>2
    <3> QED BY <3>2, <3>3
  <2>2. CASE n = limit /\ Ahead(order, k, rows[n])
    <3>1. 1 \in 1..n /\ (n - 1) + 1 = n BY <1>4, <2>2
    <3> QED BY <1>6, <2>2, <3>1
  <2> QED BY <1>4, <2>1, <2>2
<1>11. CASE rows = <<>>
  <2>1. n = 0 BY <1>11, RowFacts, <1>4 DEF n
  <2>2. shown = <<>> BY <1>7, <2>1, RowFacts
  <2>3. Before(head) = {} BY <1>4, <1>10, <2>1
  <2> QED BY <1>7, <1>8, <1>9, <1>10, <1>11, <2>2, <2>3 DEF n, head
<1>12. CASE rows # <<>>
  <2>1. n # 0 BY <1>12, RowFacts, <1>4 DEF n
  <2>2. shown # <<>> /\ Last(shown) = shown[n] /\ n \in 1..n /\ 1 \in 1..n
        BY <1>4, <1>7, <2>1, RowFacts
  <2>3. Ahead(order, Last(shown), head) BY <1>9, <2>2 DEF Before
  <2>4. ASSUME NEW k \in Before(head) PROVE ~Ahead(order, Last(shown), k)
    <3>1. k \in Nat /\ Last(shown) \in Nat /\ shown[1] \in Nat
          BY <1>1, <1>9, <2>2 DEF Before
    <3>2. CASE \E i \in 1..n : shown[i] = k
      <4>1. PICK i \in 1..n : shown[i] = k BY <3>2
      <4>2. k = Last(shown) \/ Ahead(order, k, Last(shown))
            BY <1>1, <1>7, <1>8, <4>1, SortedEnds
      <4> QED BY <3>1, <4>2 DEF Ahead
    <3>3. CASE Ahead(order, k, shown[1])
      <4>1. shown[1] = Last(shown) \/ Ahead(order, shown[1], Last(shown))
            BY <1>1, <1>7, <1>8, <2>2, SortedEnds
      <4> QED BY <3>1, <3>3, <4>1 DEF Ahead
    <3> QED BY <1>10, <3>2, <3>3
  <2>5. After(Last(shown)) \cap Before(head) = {} BY <2>4 DEF After
  <2> QED BY <1>7, <1>8, <1>9, <1>10, <1>12, <2>2, <2>3, <2>5 DEF n, head
<1> QED BY <1>11, <1>12

-----------------------------------------------------------------------------
(* The pages around a run, while the listing stays.                        *)

(* The rows before a later row of a run.                                   *)
LEMMA RunCount ==
    ASSUME TypeOK, NEW rows \in Seq(Keys), Run(rows),
           NEW n \in Nat, n <= Len(rows), NEW k \in Nat, rows # <<>>,
           \A j \in 1..n : Ahead(order, rows[j], k),
           \A j \in 1..Len(rows) : Ahead(order, rows[j], k) => j <= n,
           k = rows[1] \/ Ahead(order, rows[1], k),
           \A l \in Before(k) : ~Ahead(order, Last(rows), l)
    PROVE  /\ Cardinality(Before(rows[1])) \in Nat
           /\ Cardinality(Before(k)) = Cardinality(Before(rows[1])) + n
<1>1. /\ order \in Orders /\ listing \subseteq Nat /\ IsFiniteSet(Before(rows[1]))
      /\ Len(rows) \in Nat /\ 1 \in 1..Len(rows) /\ Sorted(rows, order)
      /\ \A j \in 1..Len(rows) : rows[j] \in Nat /\ rows[j] \in listing
      BY ListingFacts, RowFacts DEF Run
<1>2. \A j \in 1..n : j \in 1..Len(rows) BY <1>1
<1>3. ASSUME NEW j \in 1..n PROVE rows[j] \notin Before(rows[1])
  <2>1. rows[j] = rows[1] \/ Ahead(order, rows[1], rows[j]) BY <1>1, <1>2, SortedEnds
  <2> QED BY <1>1, <1>2, <2>1 DEF Before, Ahead
<1>4. Before(k) = Before(rows[1]) \cup {rows[j] : j \in 1..n}
  <2>1. ASSUME NEW l \in Before(rows[1]) PROVE l \in Before(k)
        BY <1>1, <2>1 DEF Before, Ahead
  <2>2. ASSUME NEW j \in 1..n PROVE rows[j] \in Before(k)
        BY <1>1, <1>2 DEF Before
  <2>3. ASSUME NEW l \in Before(k), l \notin Before(rows[1]) PROVE \E j \in 1..n : l = rows[j]
    <3>1. l \in listing /\ Ahead(order, l, k) BY DEF Before
    <3>2. PICK j \in 1..Len(rows) : rows[j] = l BY <2>3, <3>1 DEF Run, Before
    <3>3. j \in 1..n BY <1>1, <3>1, <3>2
    <3> QED BY <3>2, <3>3
  <2> QED BY <2>1, <2>2, <2>3
<1> QED BY <1>1, <1>3, <1>4, CountRows

LEMMA FirstStands ==
    ASSUME TypeOK, NEW rows \in Load(pending),
           pending.key = NoKey, pending.order = order
    PROVE  StandsAt(rows, TRUE, Len(rows) < limit, IF rows = <<>> THEN NoKey ELSE rows[1])
<1>1. CASE rows = <<>> BY <1>1, FirstPage DEF StandsAt
<1>2. CASE rows # <<>>
  <2>1. Head1(rows[1]) /\ Run(rows) /\ (Len(rows) < limit => After(Last(rows)) = {})
        BY <1>2, FirstPage
  <2>2. Cardinality(Before(rows[1])) = 0 BY <2>1, FS_EmptySet DEF Head1
  <2>3. 0 % limit = 0 BY LoadFacts, PagePart
  <2> QED BY <1>2, <2>1, <2>2, <2>3 DEF StandsAt, Head1
<1> QED BY <1>1, <1>2

LEMMA NextStands ==
    ASSUME TypeOK, NEW rows \in Load(pending), window # <<>>, rows # <<>>,
           pending.key = Last(window), pending.operator = ForwardOperator,
           pending.order = order, StandsAt(window, atStart, atEnd, headKey)
    PROVE  StandsAt(rows, FALSE, Len(rows) < limit, headKey)
<1>1. /\ window \in Seq(Keys) /\ order \in Orders /\ listing \subseteq Nat
      /\ Len(window) \in Nat /\ Len(window) <= limit
      /\ 1 \in 1..Len(window) /\ Len(window) \in 1..Len(window)
      /\ Last(window) = window[Len(window)]
      BY ListingFacts, RowFacts
<1>2. /\ rows \in Seq(Keys) /\ Len(rows) \in Nat /\ limit \in Nat \ {0}
      /\ Sorted(rows, order) /\ 1 \in 1..Len(rows)
      BY LoadFacts, RowFacts
<1>3. /\ \A i \in 1..Len(rows) : rows[i] \in After(Last(window))
      /\ \A k \in After(Last(window)) : \/ \E i \in 1..Len(rows) : rows[i] = k
                                        \/ Ahead(order, Last(rows), k)
      /\ Ahead(order, Last(window), rows[1])
      /\ After(Last(window)) \cap Before(rows[1]) = {}
      /\ Len(rows) < limit => After(Last(rows)) = {}
      BY NextPage
<1>4. /\ Head1(headKey) /\ Run(window) /\ Sorted(window, order)
      /\ Cardinality(Before(window[1])) % limit = 0
      /\ Len(window) = limit
      BY <1>1, <1>2, <1>3 DEF StandsAt, Run
<1>5. \A j \in 1..Len(window) : window[j] \in Nat /\ window[j] \in listing
      BY <1>1, <1>4, RowFacts DEF Run
<1>6. rows[1] \in Nat /\ Last(window) \in Nat BY <1>1, <1>2, <1>5, RowFacts
<1>7. ASSUME NEW j \in 1..Len(window) PROVE Ahead(order, window[j], rows[1])
  <2>1. window[j] = Last(window) \/ Ahead(order, window[j], Last(window))
        BY <1>1, <1>4, SortedEnds
  <2> QED BY <1>3, <1>5, <1>6, <2>1 DEF Ahead
<1>8. \A l \in Before(rows[1]) : ~Ahead(order, Last(window), l)
      BY <1>3 DEF Before, After
<1>9. /\ Cardinality(Before(window[1])) \in Nat
      /\ Cardinality(Before(rows[1])) = Cardinality(Before(window[1])) + Len(window)
      BY <1>1, <1>4, <1>6, <1>7, <1>8, RunCount
<1>10. Cardinality(Before(rows[1])) % limit = 0 BY <1>2, <1>4, <1>9, PageMore
<1>11. Run(rows)
  <2>1. \A i \in 1..Len(rows) : rows[i] \in listing BY <1>3 DEF After
  <2>2. ASSUME NEW k \in listing
        PROVE  \/ \E i \in 1..Len(rows) : rows[i] = k
               \/ Ahead(order, k, rows[1])
               \/ Ahead(order, Last(rows), k)
    <3>1. CASE Ahead(order, Last(window), k) BY <1>3, <3>1 DEF After
    <3>2. CASE ~Ahead(order, Last(window), k)
          BY <1>1, <1>3, <1>6, <3>2 DEF Ahead
    <3> QED BY <3>1, <3>2
  <2> QED BY <1>2, <2>1, <2>2 DEF Run
<1>12. Before(rows[1]) # {} BY <1>1, <1>5, <1>7 DEF Before
<1> QED BY <1>3, <1>4, <1>10, <1>11, <1>12 DEF StandsAt

LEMMA PreviousStands ==
    ASSUME TypeOK, NEW rows \in Load(pending), window # <<>>, rows # <<>>,
           pending.key = window[1], pending.operator = BackwardOperator,
           pending.order = Inverted(order), StandsAt(window, atStart, atEnd, headKey),
           NEW shown, shown = Displayed(rows), NEW isStart \in BOOLEAN,
           isStart <=> shown[1] = headKey \/ Len(rows) < limit
    PROVE  StandsAt(shown, isStart, FALSE, headKey)
<1>1. /\ window \in Seq(Keys) /\ order \in Orders /\ listing \subseteq Nat
      /\ Len(window) \in Nat /\ Len(window) <= limit
      /\ 1 \in 1..Len(window) /\ Len(window) \in 1..Len(window)
      /\ Last(window) = window[Len(window)] /\ window[1] \in Nat
      BY ListingFacts, RowFacts
<1>2. /\ shown \in Seq(Keys) /\ Len(shown) = Len(rows) /\ shown # <<>>
      /\ Sorted(shown, order)
      /\ \A i \in 1..Len(shown) : shown[i] \in Before(window[1])
      /\ \A k \in Before(window[1]) :
            \/ \E i \in 1..Len(shown) : shown[i] = k
            \/ Len(shown) = limit /\ Ahead(order, k, shown[1])
      /\ Ahead(order, Last(shown), window[1])
      /\ After(Last(shown)) \cap Before(window[1]) = {}
      BY PreviousPage
<1>3. /\ Len(shown) \in Nat /\ limit \in Nat \ {0} /\ Len(shown) <= limit
      /\ 1 \in 1..Len(shown) /\ Len(shown) \in 1..Len(shown) /\ Last(shown) \in Nat
      /\ \A i \in 1..Len(shown) : shown[i] \in Nat /\ shown[i] \in listing
      BY <1>2, LoadFacts, RowFacts DEF Before
<1>4. /\ Head1(headKey) /\ Run(window)
      /\ Cardinality(Before(window[1])) % limit = 0
      BY DEF StandsAt
<1>5. Run(shown)
  <2>1. ASSUME NEW k \in listing
        PROVE  \/ \E i \in 1..Len(shown) : shown[i] = k
               \/ Ahead(order, k, shown[1])
               \/ Ahead(order, Last(shown), k)
    <3>1. CASE Ahead(order, k, window[1]) BY <1>2, <3>1 DEF Before
    <3>2. CASE ~Ahead(order, k, window[1])
          BY <1>1, <1>2, <1>3, <3>2 DEF Ahead
    <3> QED BY <3>1, <3>2
  <2> QED BY <1>2, <1>3, <2>1 DEF Run
<1>6. /\ Cardinality(Before(shown[1])) \in Nat
      /\ Cardinality(Before(window[1])) = Cardinality(Before(shown[1])) + Len(shown)
  <2>1. \A j \in 1..Len(shown) : Ahead(order, shown[j], window[1]) BY <1>2 DEF Before
  <2>2. \A l \in Before(window[1]) : ~Ahead(order, Last(shown), l)
        BY <1>2 DEF Before, After
  <2>3. \A j \in 1..Len(shown) : j <= Len(shown) BY <1>3
  <2>4. Len(shown) <= Len(shown) /\ Ahead(order, shown[1], window[1]) BY <1>3, <2>1
  <2> DEFINE k == window[1]
             n == Len(shown)
  <2>5. /\ k \in Nat /\ n \in Nat /\ n <= Len(shown)
        /\ \A j \in 1..n : Ahead(order, shown[j], k)
        /\ \A j \in 1..Len(shown) : Ahead(order, shown[j], k) => j <= n
        /\ Ahead(order, shown[1], k)
        /\ \A l \in Before(k) : ~Ahead(order, Last(shown), l)
        BY <1>1, <1>3, <2>1, <2>2, <2>3, <2>4
  <2> HIDE DEF k, n
  <2>6. /\ Cardinality(Before(shown[1])) \in Nat
        /\ Cardinality(Before(k)) = Cardinality(Before(shown[1])) + n
        BY <1>2, <1>5, <2>5, RunCount
  <2> QED BY <2>6 DEF k, n
<1>7. Len(shown) = limit
  <2> SUFFICES ASSUME Len(shown) < limit PROVE FALSE BY <1>3
  <2>1. \A l \in Before(shown[1]) : FALSE
    <3> SUFFICES ASSUME NEW l \in Before(shown[1]) PROVE FALSE OBVIOUS
    <3>1. l \in listing /\ Ahead(order, l, shown[1]) /\ l \in Nat BY <1>1 DEF Before
    <3>2. Ahead(order, shown[1], window[1]) BY <1>2, <1>3 DEF Before
    <3>3. l \in Before(window[1]) BY <1>1, <1>3, <3>1, <3>2 DEF Before, Ahead
    <3>4. PICK i \in 1..Len(shown) : shown[i] = l BY <1>2, <3>3
    <3>5. l = shown[1] \/ Ahead(order, shown[1], l) BY <1>1, <1>2, <3>4, SortedEnds
    <3> QED BY <1>3, <3>1, <3>5 DEF Ahead
  <2>2. Before(shown[1]) = {} BY <2>1
  <2>3. Cardinality(Before(window[1])) = Len(shown) BY <1>3, <1>6, <2>2, FS_EmptySet
  <2>4. Len(shown) % limit = Len(shown) BY <1>3, PagePart
  <2> QED BY <1>3, <1>4, <2>3, <2>4
<1>8. Cardinality(Before(shown[1])) % limit = 0 BY <1>3, <1>4, <1>6, <1>7, PageMore
<1>9. isStart <=> Before(shown[1]) = {}
  <2>1. ASSUME shown[1] = headKey PROVE Before(shown[1]) = {}
        BY <1>4, <2>1 DEF Head1
  <2>2. ASSUME Before(shown[1]) = {} PROVE shown[1] = headKey
    <3>1. headKey \in Nat /\ headKey \in listing /\ Before(headKey) = {}
          BY <1>1, <1>4 DEF Head1
    <3>2. ~Ahead(order, headKey, shown[1]) /\ ~Ahead(order, shown[1], headKey)
          BY <1>3, <2>2, <3>1 DEF Before
    <3> QED BY <1>3, <3>1, <3>2 DEF Ahead
  <2> QED BY <1>2, <1>3, <1>7, <2>1, <2>2
<1> QED BY <1>2, <1>3, <1>4, <1>5, <1>7, <1>8, <1>9 DEF StandsAt

-----------------------------------------------------------------------------
(* The invariant.                                                          *)
LEMMA InitIInv == Init => IInv
<1> SUFFICES ASSUME Init PROVE IInv OBVIOUS
<1>1. 1 \in Nat /\ 0 \in 0..MaxChanges /\ 0 <= limit /\ limit \in 1..MaxLimit
      BY PaginatorAssumption DEF PaginatorAssumption, Init
<1>2. window \in Pages /\ Len(window) <= limit
  <2>1. window = <<>> /\ window \in Seq(Keys) /\ Len(window) = 0
        BY EmptySeq DEF Init
  <2>2. MaxLimit \in Nat BY PaginatorAssumption DEF PaginatorAssumption
  <2> DEFINE w == window
  <2>3. w \in Seq(Keys) /\ Len(w) <= MaxLimit BY <2>1, <2>2
  <2> HIDE DEF w
  <2>4. w \in Pages BY <2>3, PageFacts
  <2> QED BY <1>1, <2>1, <2>4 DEF w
<1>3. TypeOK BY <1>1, <1>2 DEF TypeOK, Init, Idle, Operators, Orders
<1> QED BY <1>3 DEF IInv, Asked, Init, Idle

(* The part of a call up to its load leaves the cursor where it is.        *)
LEMMA CallsSound ==
    ASSUME IInv, CallFirst \/ CallNext \/ CallPrevious
    PROVE  IInv'
<1>1. TypeOK /\ Asked BY DEF IInv
<1>2. /\ window \in Seq(Keys) /\ order \in Orders
      /\ window # <<>> => Last(window) \in Keys /\ window[1] \in Keys
      BY <1>1, ListingFacts, RowFacts
<1>3. /\ ForwardOperator \in Operators /\ BackwardOperator \in Operators
      /\ Inverted(order) \in Orders /\ "gt" \in Operators
      BY DEF ForwardOperator, BackwardOperator, Inverted, Operators, Orders
<1>4. UNCHANGED <<listing, changes, order, limit, window, started, atStart, headKey, stable>>
      BY DEF CallFirst, CallNext, CallPrevious, cursor
<1>5. CASE \/ Ask("first", NoKey, "gt", order) /\ UNCHANGED atEnd
           \/ started /\ window # <<>> /\ UNCHANGED atEnd
              /\ Ask("next", Last(window), ForwardOperator, order)
           \/ started /\ ~atStart /\ window # <<>> /\ UNCHANGED atEnd
              /\ Ask("previous", window[1], BackwardOperator, Inverted(order))
  <2>1. TypeOK' BY <1>1, <1>2, <1>3, <1>4, <1>5 DEF TypeOK, Ask
  <2>2. Asked' BY <1>1, <1>4, <1>5 DEF Asked, Ask, ForwardOperator, BackwardOperator
  <2>3. (stable => Stands)' BY <1>4, <1>5 DEF IInv, Stands, StandsAt, Head1, Run, Before, After
  <2> QED BY <2>1, <2>2, <2>3 DEF IInv
<1>6. CASE started /\ window = <<>> /\ pending.op = "none" /\ atEnd' = TRUE /\ UNCHANGED pending
  <2>1. TypeOK' BY <1>1, <1>4, <1>6 DEF TypeOK
  <2>2. Asked' BY <1>1, <1>4, <1>6 DEF Asked
  <2>3. (stable => Stands)' BY <1>4, <1>6 DEF IInv, Stands, StandsAt
  <2> QED BY <2>1, <2>2, <2>3 DEF IInv
<1> QED BY <1>5, <1>6 DEF CallFirst, CallNext, CallPrevious, hasPrevious, cursor

(* An answer: the cursor it leaves stands in the listing.                  *)
LEMMA AnswerSound ==
    ASSUME IInv, NEW op, Answered(op), window' \in Pages, Len(window') <= limit,
           started', atStart' \in BOOLEAN, atEnd' \in BOOLEAN, stable' \in BOOLEAN,
           headKey' \in Keys \cup {NoKey},
           stable' => StandsAt(window', atStart', atEnd', headKey')
    PROVE  IInv'
<1>1. pending' = Idle /\ UNCHANGED <<listing, changes, order, limit>> BY DEF Answered
<1>2. TypeOK' BY <1>1 DEF IInv, TypeOK, Idle, Operators, Orders
<1>3. Asked' BY <1>1 DEF Asked, Idle
<1>4. (stable => Stands)' BY <1>1 DEF Stands, StandsAt, Head1, Run, Before, After
<1> QED BY <1>2, <1>3, <1>4 DEF IInv

LEMMA AnswerFirstSound == ASSUME IInv, AnswerFirst PROVE IInv'
<1>1. TypeOK /\ pending.key = NoKey /\ pending.order = order
      BY DEF IInv, Asked, AnswerFirst, Answered
<1>2. PICK rows \in Load(pending) :
         /\ window' = rows /\ atEnd' = (Len(rows) < limit)
         /\ headKey' = IF rows = <<>> THEN NoKey ELSE rows[1]
      BY DEF AnswerFirst
<1>3. /\ rows \in Seq(Keys) /\ Len(rows) <= limit /\ rows \in Pages
      /\ rows # <<>> => rows[1] \in Keys
      BY <1>1, LoadFacts, RowFacts DEF Load
<1>4. StandsAt(rows, TRUE, Len(rows) < limit, IF rows = <<>> THEN NoKey ELSE rows[1])
      BY <1>1, FirstStands
<1>5. Answered("first") /\ started' /\ atStart' = TRUE /\ stable' = TRUE BY DEF AnswerFirst
<1>6. (Len(rows) < limit) \in BOOLEAN OBVIOUS
<1>7. /\ atStart' \in BOOLEAN /\ atEnd' \in BOOLEAN /\ stable' \in BOOLEAN /\ started'
      /\ headKey' \in Keys \cup {NoKey}
      /\ window' \in Pages /\ Len(window') <= limit
      BY <1>2, <1>3, <1>5, <1>6
<1>8. StandsAt(window', atStart', atEnd', headKey') BY <1>2, <1>4, <1>5
<1> QED BY <1>5, <1>7, <1>8, AnswerSound

LEMMA AnswerNextSound == ASSUME IInv, AnswerNext PROVE IInv'
<1>1. /\ TypeOK /\ window # <<>> /\ started
      /\ pending.key = Last(window) /\ pending.operator = ForwardOperator
      /\ pending.order = order
      /\ Answered("next") /\ UNCHANGED <<started, headKey, stable>>
      BY DEF IInv, Asked, AnswerNext, Answered
<1>2. stable => StandsAt(window, atStart, atEnd, headKey) BY DEF IInv, Stands
<1>3. PICK rows \in Load(pending) :
         \/ rows = <<>> /\ atEnd' = TRUE /\ UNCHANGED <<window, atStart>>
         \/ /\ rows # <<>> /\ window' = rows /\ atStart' = FALSE
            /\ atEnd' = (Len(rows) < limit)
      BY DEF AnswerNext
<1>4. CASE rows = <<>> /\ atEnd' = TRUE /\ UNCHANGED <<window, atStart>>
  <2>1. After(Last(window)) = {} BY <1>1, <1>4, NextPage
  <2>2. stable => StandsAt(window, atStart, TRUE, headKey) BY <1>2, <2>1 DEF StandsAt
  <2> QED BY <1>1, <1>4, <2>2, AnswerSound DEF TypeOK
<1>5. CASE /\ rows # <<>> /\ window' = rows /\ atStart' = FALSE
           /\ atEnd' = (Len(rows) < limit)
  <2>1. rows \in Pages /\ Len(rows) <= limit BY DEF Load
  <2>2. stable => StandsAt(rows, FALSE, Len(rows) < limit, headKey)
        BY <1>1, <1>2, <1>5, NextStands
  <2>3. (Len(rows) < limit) \in BOOLEAN OBVIOUS
  <2>4. /\ atStart' \in BOOLEAN /\ atEnd' \in BOOLEAN /\ stable' \in BOOLEAN /\ started'
        /\ headKey' \in Keys \cup {NoKey}
        BY <1>1, <1>5, <2>3 DEF TypeOK
  <2>5. stable' => StandsAt(window', atStart', atEnd', headKey') BY <1>1, <1>5, <2>2
  <2> QED BY <1>1, <1>5, <2>1, <2>4, <2>5, AnswerSound
<1> QED BY <1>3, <1>4, <1>5

LEMMA AnswerPreviousSound == ASSUME IInv, AnswerPrevious PROVE IInv'
<1>1. /\ TypeOK /\ window # <<>> /\ started
      /\ pending.key = window[1] /\ pending.operator = BackwardOperator
      /\ pending.order = Inverted(order)
      /\ Answered("previous") /\ UNCHANGED <<started, headKey, stable>>
      BY DEF IInv, Asked, AnswerPrevious, Answered
<1>2. stable => StandsAt(window, atStart, atEnd, headKey) BY DEF IInv, Stands
<1>3. PICK rows \in Load(pending) :
         \/ rows = <<>> /\ atStart' = TRUE /\ UNCHANGED <<window, atEnd>>
         \/ /\ rows # <<>> /\ window' = Displayed(rows) /\ atEnd' = FALSE
            /\ atStart' = BackAtStart(rows)
      BY DEF AnswerPrevious
<1>4. CASE rows = <<>> /\ atStart' = TRUE /\ UNCHANGED <<window, atEnd>>
  <2>1. Before(window[1]) = {} BY <1>1, <1>4, PreviousPage
  <2>2. stable => StandsAt(window, TRUE, atEnd, headKey) BY <1>1, <1>2, <2>1 DEF StandsAt
  <2> QED BY <1>1, <1>4, <2>2, AnswerSound DEF TypeOK
<1>5. CASE /\ rows # <<>> /\ window' = Displayed(rows) /\ atEnd' = FALSE
           /\ atStart' = BackAtStart(rows)
  <2> DEFINE shown == Displayed(rows)
  <2>1. shown \in Seq(Keys) /\ Len(shown) = Len(rows) BY <1>1, PreviousPage
  <2>2. Len(shown) <= limit /\ Len(shown) <= MaxLimit
        BY <1>1, <2>1, LoadFacts, PaginatorAssumption DEF PaginatorAssumption
  <2>3. shown \in Pages BY <2>1, <2>2, PageFacts
  <2>4. stable => /\ headKey # NoKey
                  /\ BackAtStart(rows) <=> shown[1] = headKey \/ Len(rows) < limit
    <3>1. stable => headKey \in listing BY <1>1, <1>2 DEF StandsAt, Head1
    <3> QED BY <1>1, <3>1, ListingFacts DEF BackAtStart
  <2>5. BackAtStart(rows) \in BOOLEAN BY DEF BackAtStart
  <2>6. stable => StandsAt(shown, BackAtStart(rows), FALSE, headKey)
        BY <1>1, <1>2, <1>5, <2>4, <2>5, PreviousStands
  <2> QED BY <1>1, <1>5, <2>2, <2>3, <2>5, <2>6, AnswerSound DEF TypeOK
<1> QED BY <1>3, <1>4, <1>5

LEMMA NextIInv == IInv /\ [Next]_vars => IInv'
<1> SUFFICES ASSUME IInv, [Next]_vars PROVE IInv' OBVIOUS
<1>1. CASE CallFirst \/ CallNext \/ CallPrevious BY <1>1, CallsSound
<1>2. CASE AnswerFirst \/ AnswerNext \/ AnswerPrevious
      BY <1>2, AnswerFirstSound, AnswerNextSound, AnswerPreviousSound
<1>3. CASE LoadFails
  <2>1. TypeOK' BY <1>3 DEF IInv, TypeOK, LoadFails, cursor, Idle, Operators, Orders
  <2>2. Asked' BY <1>3 DEF IInv, Asked, LoadFails, cursor, Idle
  <2>3. (stable => Stands)'
        BY <1>3 DEF IInv, Stands, StandsAt, Head1, Run, Before, After, LoadFails, cursor
  <2> QED BY <2>1, <2>2, <2>3 DEF IInv
<1>4. CASE Change
  <2>1. TypeOK'
    <3>1. listing' \subseteq Keys BY <1>4 DEF IInv, TypeOK, Change
    <3>2. changes' \in 0..MaxChanges
          BY <1>4, PaginatorAssumption DEF IInv, TypeOK, Change, PaginatorAssumption
    <3> QED BY <1>4, <3>1, <3>2 DEF IInv, TypeOK, Change, cursor
  <2>2. Asked' BY <1>4 DEF IInv, Asked, Change, cursor, ForwardOperator, BackwardOperator
  <2>3. ~stable' BY <1>4 DEF Change
  <2> QED BY <2>1, <2>2, <2>3 DEF IInv
<1>5. CASE UNCHANGED vars
      BY <1>5 DEF vars, cursor, IInv, TypeOK, Asked, ForwardOperator, BackwardOperator,
         Stands, StandsAt, Head1, Run, Before, After
<1> QED BY <1>1, <1>2, <1>3, <1>4, <1>5 DEF Next

(* The inductive invariant holds in every reachable state.                 *)
THEOREM PaginatorInvariant == Spec => []IInv
BY InitIInv, NextIInv, PTL DEF Spec

(* Every field keeps its type and no window is larger than a page.         *)
THEOREM PaginatorTypeCorrect == Spec => []TypeOK
<1>1. IInv => TypeOK BY DEF IInv
<1> QED BY <1>1, PaginatorInvariant, PTL

(* Over a stable listing hasPrevious is exact, and hasNext is wrong only   *)
(* behind a full page that happens to end the listing.                     *)
THEOREM PaginatorFlagsHonest == Spec => []FlagsHonest
<1>1. ASSUME IInv PROVE FlagsHonest
  <2>1. TypeOK /\ (stable => Stands) BY <1>1 DEF IInv
  <2>2. Len(window) \in Nat /\ limit \in Nat /\ Len(window) <= limit
        BY <2>1, ListingFacts, PaginatorAssumption DEF TypeOK, PaginatorAssumption
  <2>3. HasPreviousExact
        BY <2>1 DEF HasPreviousExact, hasPrevious, Stands, StandsAt
  <2>4. HasNextHonest
        BY <2>1, <2>2 DEF HasNextHonest, hasNext, Stands, StandsAt
  <2> QED BY <2>3, <2>4 DEF FlagsHonest
<1> QED BY <1>1, PaginatorInvariant, PTL

(* Over a stable listing every window is a page of the forward drain,      *)
(* whichever way the caller came to it.                                    *)
THEOREM PaginatorPagesAligned == Spec => []PagesAligned
<1>1. ASSUME IInv PROVE PagesAligned
  <2> SUFFICES ASSUME stable, window # <<>>
               PROVE  /\ Cardinality(Before(window[1])) % limit = 0
                      /\ \A i \in 1..Len(window) :
                            Cardinality(Before(window[i]))
                               = Cardinality(Before(window[1])) + i - 1
                      /\ Len(window) < limit => After(Last(window)) = {}
      BY DEF PagesAligned
  <2>1. TypeOK /\ StandsAt(window, atStart, atEnd, headKey) /\ Run(window)
        BY <1>1 DEF IInv, Stands, StandsAt
  <2>2. /\ window \in Seq(Keys) /\ order \in Orders /\ Sorted(window, order)
        /\ Len(window) \in Nat
        BY <2>1, ListingFacts DEF Run
  <2>3. \A i \in 1..Len(window) : window[i] \in Nat BY <2>2, RowFacts
  <2>4. ASSUME NEW i \in 1..Len(window)
        PROVE  Cardinality(Before(window[i])) = Cardinality(Before(window[1])) + i - 1
    <3> DEFINE k == window[i]
               n == i - 1
    <3>1. n \in Nat /\ n <= Len(window) /\ k \in Nat BY <2>2, <2>3
    <3>2. \A j \in 1..n : Ahead(order, window[j], k) BY <2>2 DEF Sorted
    <3>3. ASSUME NEW j \in 1..Len(window), Ahead(order, window[j], k) PROVE j <= n
      <4>1. j < i \/ j = i \/ i < j BY <2>2
      <4>2. ~Ahead(order, k, k) BY <3>1 DEF Ahead
      <4>3. i < j => Ahead(order, k, window[j]) BY <2>2 DEF Sorted
      <4>4. ~(i < j) BY <2>3, <3>1, <3>3, <4>3 DEF Ahead
      <4> QED BY <2>2, <3>3, <4>1, <4>2, <4>4
    <3>4. k = window[1] \/ Ahead(order, window[1], k) BY <2>2, SortedEnds
    <3>5. ASSUME NEW l \in Before(k) PROVE ~Ahead(order, Last(window), l)
      <4>1. k = Last(window) \/ Ahead(order, k, Last(window)) BY <2>2, SortedEnds
      <4>2. Last(window) \in Nat BY <2>2, <2>3, RowFacts
      <4>3. l \in Nat /\ Ahead(order, l, k) BY <2>1, ListingFacts DEF Before
      <4> QED BY <3>1, <4>1, <4>2, <4>3 DEF Ahead
    <3> HIDE DEF k, n
    <3>6. /\ Cardinality(Before(window[1])) \in Nat
          /\ Cardinality(Before(k)) = Cardinality(Before(window[1])) + n
          BY <2>1, <2>2, <3>1, <3>2, <3>3, <3>4, <3>5, RunCount
    <3> QED BY <3>6 DEF k, n
  <2> QED BY <2>1, <2>4 DEF StandsAt
<1> QED BY <1>1, PaginatorInvariant, PTL

(* Across a page boundary no row is skipped and none is shown twice, even  *)
(* when the listing changes.                                               *)
THEOREM PaginatorPagesAdjoin == Spec => PagesAdjoin
<1> DEFINE Adjoins ==
              window' # window /\ window # <<>> /\ window' # <<>> =>
                 /\ pending.op = "next" =>
                       /\ Ahead(order, Last(window), window'[1])
                       /\ After(Last(window)) \cap Before(window'[1]) = {}
                 /\ pending.op = "previous" =>
                       /\ Ahead(order, Last(window'), window[1])
                       /\ After(Last(window')) \cap Before(window[1]) = {}
<1>1. ASSUME IInv, [Next]_vars PROVE Adjoins
  <2> SUFFICES ASSUME window' # window, window # <<>>, window' # <<>> PROVE Adjoins OBVIOUS
  <2>1. AnswerFirst \/ AnswerNext \/ AnswerPrevious
        BY <1>1 DEF Next, CallFirst, CallNext, CallPrevious, LoadFails, Change, vars, cursor
  <2>2. CASE AnswerFirst BY <2>2 DEF AnswerFirst, Answered
  <2>3. CASE AnswerNext
    <3>1. /\ TypeOK /\ pending.op = "next"
          /\ pending.key = Last(window) /\ pending.operator = ForwardOperator
          /\ pending.order = order
          BY <1>1, <2>3 DEF IInv, Asked, AnswerNext, Answered
    <3>2. PICK rows \in Load(pending) : rows # <<>> /\ window' = rows
          BY <2>3 DEF AnswerNext
    <3> QED BY <3>1, <3>2, NextPage
  <2>4. CASE AnswerPrevious
    <3>1. /\ TypeOK /\ pending.op = "previous"
          /\ pending.key = window[1] /\ pending.operator = BackwardOperator
          /\ pending.order = Inverted(order)
          BY <1>1, <2>4 DEF IInv, Asked, AnswerPrevious, Answered
    <3>2. PICK rows \in Load(pending) : rows # <<>> /\ window' = Displayed(rows)
          BY <2>4 DEF AnswerPrevious
    <3> QED BY <3>1, <3>2, PreviousPage
  <2> QED BY <2>1, <2>2, <2>3, <2>4
<1>2. IInv /\ [Next]_vars => [Adjoins]_vars BY <1>1
<1> QED BY <1>2, PaginatorInvariant, PTL DEF Spec, PagesAdjoin
=============================================================================
