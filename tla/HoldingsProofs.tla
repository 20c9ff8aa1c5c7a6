--------------------------- MODULE HoldingsProofs ---------------------------
(***************************************************************************)
(* About what accounts hold, what may be called and what was approved, for *)
(* any accounts, tokens and options and any number of calls.               *)
(*                                                                         *)
(* 1. The validators let nothing through that no network takes but the     *)
(* approval of a negative Hbar (NothingMalformedSent of Holdings). For     *)
(* each kind of transaction a lemma says that options its validator passes *)
(* build one that is well formed; an approval of hbar is so at least with  *)
(* zero for its amounts (ZeroedWellFormed).                                *)
(*                                                                         *)
(* 2. No spender can do more than was approved (SpendersWereApproved).     *)
(* What the network keeps comes out of its list of grants, one after the   *)
(* other (GrantedLast); what the callers asked for out of the entries of   *)
(* their options (RenewedOf). The approvals are compared kind by kind;     *)
(* whatever else lands, an allowance can only lapse (OthersRevoke).        *)
(*                                                                         *)
(* 3. What lands is what was asked (EffectAsAsked), and every holding,     *)
(* pending airdrop and allowance is of things that exist, each serial once *)
(* and in one place (TypeOK). Bags are compared by the copies they hold of *)
(* each thing (SameBag, TotalSums). What moves is a list of flows: the     *)
(* network takes the transfer lists entry by entry, the options name who   *)
(* gives what to whom, and both add up to the same (section by kind of     *)
(* call, lemmas ...Lands). The network's own checks are what keeps the     *)
(* books well kept (WellKept) where a flow moves a serial. The invariant   *)
(* EInv adds that whatever waits for signatures is still what was built of *)
(* its caller's options, so that it lands as asked however late.           *)
(***************************************************************************)
EXTENDS Holdings, FiniteSetTheorems, SequenceTheorems, TLAPS

-----------------------------------------------------------------------------
(* About the sequences that build() makes.                                 *)

(* Natural numbers have a least one among them.                            *)
LEMMA LeastNatural ==
    ASSUME NEW S \in SUBSET Nat, S # {}
    PROVE  \E m \in S : \A k \in S : ~(k < m)
<1> DEFINE R == {p \in Nat \X Nat : p[1] < p[2]}
<1>1. OpToRel(<, Nat) = R
  BY DEF OpToRel
<1>2. IsWellFoundedOn(R, Nat)
  BY <1>1, NatLessThanWellFounded
<1>3. \A k, m \in Nat : k < m => <<k, m>> \in R
  OBVIOUS
<1> HIDE DEF R
<1>4. \E m \in S : \A k \in S : ~(<<k, m>> \in R)
  BY <1>2, WFMin
<1> QED
  BY <1>3, <1>4

(* FlattenSeq is what its recursion says: one sequence after the other is  *)
(* appended, and where T is closed under that, all stays within T.         *)
LEMMA FlattenUnfolds ==
    ASSUME NEW T, \A a, b \in T : a \o b \in T,
           NEW ss \in Seq(T), ss # <<>>
    PROVE  \E flat \in [1..Len(ss) -> T] :
              /\ \A k \in 1..Len(ss) : flat[k] = IF k = 1 THEN ss[k] ELSE flat[k-1] \o ss[k]
              /\ FlattenSeq(ss) = flat[Len(ss)]
<1> DEFINE n == Len(ss)
           Follows(g, k) == \A i \in 1..k : g[i] = IF i = 1 THEN ss[i] ELSE g[i-1] \o ss[i]
           Broken == {k \in 1..n : \A g \in [1..k -> T] : ~Follows(g, k)}
           flat == CHOOSE f : f = [i \in 1..n |-> IF i = 1 THEN ss[i] ELSE f[i-1] \o ss[i]]
           Astray == {k \in 1..n : flat[k] \notin T}
<1>1. n \in Nat \ {0} /\ \A i \in 1..n : ss[i] \in T
  OBVIOUS
<1>2. Broken = {}
  <2> SUFFICES ASSUME Broken # {} PROVE FALSE
    OBVIOUS
  <2>1. PICK m \in Broken : \A k \in Broken : ~(k < m)
    <3>1. Broken \in SUBSET Nat
      BY <1>1
    <3> HIDE DEF Broken
    <3> QED
      BY <3>1, LeastNatural
  <2>2. CASE m = 1
    <3>1. [i \in 1..1 |-> ss[i]] \in [1..m -> T] /\ Follows([i \in 1..1 |-> ss[i]], m)
      BY <2>2, <1>1
    <3> QED
      BY <3>1
  <2>3. CASE m # 1
    <3>1. m - 1 \in 1..n /\ m - 1 < m /\ m \in 1..n
      BY <2>1, <2>3, <1>1
    <3>2. m - 1 \notin Broken
      BY <3>1, <2>1
    <3>3. PICK g \in [1..(m-1) -> T] : Follows(g, m - 1)
      BY <3>1, <3>2
    <3> DEFINE h == [i \in 1..m |-> IF i = m THEN g[m-1] \o ss[m] ELSE g[i]]
    <3>4. h \in [1..m -> T]
      <4>1. g[m-1] \in T /\ ss[m] \in T
        BY <3>1, <1>1
      <4>2. g[m-1] \o ss[m] \in T
        BY <4>1
      <4>3. \A i \in 1..m : i # m => i \in 1..(m-1)
        BY <3>1
      <4> QED
        BY <4>2, <4>3
    <3>5. Follows(h, m)
      <4> SUFFICES ASSUME NEW i \in 1..m
                   PROVE  h[i] = IF i = 1 THEN ss[i] ELSE h[i-1] \o ss[i]
        OBVIOUS
      <4>1. CASE i = m
        <5>1. h[i] = g[m-1] \o ss[m]
          BY <4>1
        <5>2. m - 1 \in 1..m /\ m - 1 # m
          BY <3>1
        <5>3. h[m-1] = g[m-1]
          BY <5>2
        <5> QED
          BY <5>1, <5>3, <4>1, <2>3
      <4>2. CASE i # m
        <5>1. i \in 1..(m-1) /\ h[i] = g[i]
          BY <4>2, <3>1
        <5>2. i # 1 => h[i-1] = g[i-1]
          BY <5>1, <3>1
        <5> QED
          BY <5>1, <5>2, <3>3
      <4> QED
        BY <4>1, <4>2
    <3> QED
      BY <3>4, <3>5, <2>1
  <2> QED
    BY <2>2, <2>3
<1>3. PICK g \in [1..n -> T] : Follows(g, n)
  BY <1>1, <1>2
<1>4. g = [i \in 1..n |-> IF i = 1 THEN ss[i] ELSE g[i-1] \o ss[i]]
  BY <1>3
<1>5. flat = [i \in 1..n |-> IF i = 1 THEN ss[i] ELSE flat[i-1] \o ss[i]]
  BY <1>4
<1>6. \A k \in 1..n : flat[k] = IF k = 1 THEN ss[k] ELSE flat[k-1] \o ss[k]
  <2> HIDE DEF flat
  <2> QED
    BY <1>5
<1> HIDE DEF flat
<1>7. Astray = {}
  <2> SUFFICES ASSUME Astray # {} PROVE FALSE
    OBVIOUS
  <2>1. PICK m \in Astray : \A k \in Astray : ~(k < m)
    <3>1. Astray \in SUBSET Nat
      BY <1>1
    <3> HIDE DEF Astray
    <3> QED
      BY <3>1, LeastNatural
  <2>2. m = 1 => FALSE
    BY <2>1, <1>6, <1>1
  <2>3. m # 1 => m - 1 \in 1..n /\ flat[m-1] \in T
    BY <2>1, <1>1
  <2> QED
    BY <2>1, <2>2, <2>3, <1>6, <1>1
<1>8. FlattenSeq(ss) = flat[n]
  <2> USE DEF flat
  <2> QED
    BY <1>1 DEF FlattenSeq
<1>9. flat \in [1..n -> T]
  BY <1>5, <1>7
<1> HIDE DEF n
<1>10. QED
  <2>1. n = Len(ss)
    BY DEF n
  <2> QED
    BY <1>6, <1>8, <1>9, <2>1

(* A set that is closed under concatenation holds what the sequences of it *)
(* flatten to: the approvals of several entries, one after the other.      *)
LEMMA FlattenClosed ==
    ASSUME NEW T, \A a, b \in T : a \o b \in T,
           NEW ss \in Seq(T), ss # <<>>
    PROVE  FlattenSeq(ss) \in T
<1>1. Len(ss) \in 1..Len(ss)
  OBVIOUS
<1> QED
  BY <1>1, FlattenUnfolds
-----------------------------------------------------------------------------
(* Transfers: signed adjustments in pairs.                                 *)

LEMMA Halves ==
    ASSUME NEW n \in Nat, NEW i \in 1..(2 * n)
    PROVE  \E j \in 1..n : i = 2 * j - 1 \/ i = 2 * j
<1>1. (i + 1) \div 2 \in 1..n
  OBVIOUS
<1>2. i = 2 * ((i + 1) \div 2) - 1 \/ i = 2 * ((i + 1) \div 2)
  OBVIOUS
<1> QED
  BY <1>1, <1>2

(* A list whose adjustments come in pairs, one of each taking from an      *)
(* account what the other gives to another.                                *)
InPairs(tx, n) ==
    /\ DOMAIN tx.adjust = 1..(2 * n)
    /\ \A j \in 1..n :
          /\ tx.adjust[2 * j].by \in Int /\ tx.adjust[2 * j].by > 0
          /\ tx.adjust[2 * j - 1].by = -tx.adjust[2 * j].by
          /\ tx.adjust[2 * j - 1].asset = tx.adjust[2 * j].asset
          /\ tx.adjust[2 * j - 1].account # tx.adjust[2 * j].account
          /\ NothingAbsent({tx.adjust[2 * j].asset[1], tx.adjust[2 * j - 1].account,
                            tx.adjust[2 * j].account})

(* As many pieces of every asset leave accounts as enter accounts.         *)
LEMMA PairsBalance ==
    ASSUME NEW tx, NEW n \in Nat, InPairs(tx, n), NEW x
    PROVE  Cardinality(Leaving(tx, x)) = Cardinality(Entering(tx, x))
<1> DEFINE on == {i \in DOMAIN tx.adjust : tx.adjust[i].asset = x}
           Out == [i \in on |-> {i} \X (1..-tx.adjust[i].by)]
           Next1 == [p \in Leaving(tx, x) |-> <<p[1] + 1, p[2]>>]
<1>1. \A i \in 1..(2 * n) : tx.adjust[i].by \in Int
  <2> SUFFICES ASSUME NEW i \in 1..(2 * n) PROVE tx.adjust[i].by \in Int
    OBVIOUS
  <2>1. PICK j \in 1..n : i = 2 * j - 1 \/ i = 2 * j
    BY Halves
  <2>2. tx.adjust[2 * j].by \in Int /\ tx.adjust[2 * j - 1].by = -tx.adjust[2 * j].by
    BY DEF InPairs
  <2>3. tx.adjust[2 * j - 1].by \in Int
    BY <2>2
  <2> QED
    BY <2>1, <2>2, <2>3
<1>2. IsFiniteSet(on)
  <2>1. on \in SUBSET (1..(2 * n))
    BY DEF InPairs
  <2>2. IsFiniteSet(1..(2 * n))
    BY FS_Interval
  <2> HIDE DEF on
  <2> QED
    BY <2>1, <2>2, FS_Subset
<1>3. \A p : p \in Leaving(tx, x) <=>
                 \E i \in on : \E k \in 1..-tx.adjust[i].by : p = <<i, k>>
  BY DEF Leaving
<1>4. \A p : p \in Entering(tx, x) <=>
                 \E i \in on : \E k \in 1..tx.adjust[i].by : p = <<i, k>>
  BY DEF Entering
<1>5. IsFiniteSet(Leaving(tx, x))
  <2> DEFINE Parts == {{i} \X (1..-tx.adjust[i].by) : i \in on}
  <2>1. Out \in Surjection(on, Parts)
    BY DEF Surjection
  <2>2. IsFiniteSet(Parts)
    <3> HIDE DEF on, Parts, Out
    <3> QED
      BY <1>2, <2>1, FS_Surjection
  <2>3. \A P \in Parts : IsFiniteSet(P)
    <3> SUFFICES ASSUME NEW i \in on PROVE IsFiniteSet({i} \X (1..-tx.adjust[i].by))
      OBVIOUS
    <3>1. -tx.adjust[i].by \in Int
      BY <1>1 DEF InPairs
    <3>2. IsFiniteSet(1..-tx.adjust[i].by)
      BY <3>1, FS_Interval
    <3>3. IsFiniteSet({i})
      BY FS_Singleton
    <3> QED
      BY <3>2, <3>3, FS_Product
  <2>4. Leaving(tx, x) = UNION Parts
    BY DEF Leaving
  <2> HIDE DEF Parts
  <2> QED
    BY <2>2, <2>3, <2>4, FS_UNION
<1>6. Next1 \in [Leaving(tx, x) -> Entering(tx, x)]
  <2> SUFFICES ASSUME NEW i \in on, NEW k \in 1..-tx.adjust[i].by
               PROVE  <<i + 1, k>> \in Entering(tx, x)
    BY <1>3
  <2>1. PICK j \in 1..n : i = 2 * j - 1 \/ i = 2 * j
    BY Halves DEF InPairs
  <2>2. tx.adjust[2 * j].by \in Int /\ tx.adjust[2 * j].by > 0
        /\ tx.adjust[2 * j - 1].by = -tx.adjust[2 * j].by
        /\ tx.adjust[2 * j - 1].asset = tx.adjust[2 * j].asset
    BY DEF InPairs
  <2>3. i = 2 * j - 1
    BY <2>1, <2>2
  <2>4. i + 1 = 2 * j /\ 2 * j \in 1..(2 * n)
    BY <2>3
  <2>5. 2 * j \in on
    BY <2>2, <2>3, <2>4 DEF InPairs
  <2>6. k \in 1..tx.adjust[2 * j].by
    BY <2>2, <2>3
  <2> QED
    BY <1>4, <2>4, <2>5, <2>6
<1>7. \A p, q \in Leaving(tx, x) : Next1[p] = Next1[q] => p = q
  <2> SUFFICES ASSUME NEW i \in on, NEW k \in 1..-tx.adjust[i].by,
                      NEW h \in on, NEW m \in 1..-tx.adjust[h].by,
                      <<i + 1, k>> = <<h + 1, m>>
               PROVE  <<i, k>> = <<h, m>>
    BY <1>3
  <2>1. i \in Int /\ h \in Int
    BY DEF InPairs
  <2> QED
    BY <2>1
<1>8. \A q \in Entering(tx, x) : \E p \in Leaving(tx, x) : Next1[p] = q
  <2> SUFFICES ASSUME NEW q \in Entering(tx, x)
               PROVE  \E p \in Leaving(tx, x) : Next1[p] = q
    OBVIOUS
  <2>1. PICK i \in on : \E k \in 1..tx.adjust[i].by : q = <<i, k>>
    BY <1>4
  <2>2. PICK k \in 1..tx.adjust[i].by : q = <<i, k>>
    BY <2>1
  <2>3. PICK j \in 1..n : i = 2 * j - 1 \/ i = 2 * j
    BY Halves DEF InPairs
  <2>4. tx.adjust[2 * j].by \in Int /\ tx.adjust[2 * j].by > 0
        /\ tx.adjust[2 * j - 1].by = -tx.adjust[2 * j].by
        /\ tx.adjust[2 * j - 1].asset = tx.adjust[2 * j].asset
    BY DEF InPairs
  <2>5. i = 2 * j
    BY <2>3, <2>4
  <2>6. 2 * j - 1 \in on
    BY <2>4, <2>5 DEF InPairs
  <2>7. k \in 1..-tx.adjust[2 * j - 1].by
    BY <2>4, <2>5
  <2>8. <<2 * j - 1, k>> \in Leaving(tx, x)
    BY <1>3, <2>6, <2>7
  <2>9. Next1[<<2 * j - 1, k>>] = <<i, k>>
    BY <2>8, <2>5
  <2> QED
    BY <2>2, <2>8, <2>9
<1>9. ExistsBijection(Leaving(tx, x), Entering(tx, x))
  <2> HIDE DEF Next1
  <2> QED
    BY <1>6, <1>7, <1>8
    DEF ExistsBijection, Bijection, Injection, Surjection, IsInjective
<1> QED
  BY <1>5, <1>9, FS_Bijection

LEMMA PairsWellFormed ==
    ASSUME NEW tx, NEW n \in Nat \ {0}, InPairs(tx, n), tx.moves = <<>>
    PROVE  ~BadTransfer(tx)
<1>1. tx.adjust # <<>>
  BY DEF InPairs
<1>2. ASSUME NEW i \in DOMAIN tx.adjust
      PROVE  /\ NothingAbsent({tx.adjust[i].asset[1], tx.adjust[i].account})
             /\ tx.adjust[i].by # 0
  <2>1. PICK j \in 1..n : i = 2 * j - 1 \/ i = 2 * j
    BY Halves DEF InPairs
  <2>2. /\ tx.adjust[2 * j].by \in Int /\ tx.adjust[2 * j].by > 0
        /\ tx.adjust[2 * j - 1].by = -tx.adjust[2 * j].by
        /\ tx.adjust[2 * j - 1].asset = tx.adjust[2 * j].asset
        /\ Absent # tx.adjust[2 * j].asset[1] /\ Absent # tx.adjust[2 * j].account
        /\ Absent # tx.adjust[2 * j - 1].account
    BY DEF InPairs, NothingAbsent
  <2>3. CASE i = 2 * j
    BY <2>2, <2>3 DEF NothingAbsent
  <2>4. CASE i = 2 * j - 1
    BY <2>2, <2>4 DEF NothingAbsent
  <2> QED
    BY <2>1, <2>3, <2>4
<1>3. ASSUME NEW i \in DOMAIN tx.adjust
      PROVE  \E h, k \in DOMAIN tx.adjust :
                /\ tx.adjust[h].asset = tx.adjust[i].asset
                /\ tx.adjust[k].asset = tx.adjust[i].asset
                /\ tx.adjust[h].account # tx.adjust[k].account
  <2>1. PICK j \in 1..n : i = 2 * j - 1 \/ i = 2 * j
    BY Halves DEF InPairs
  <2>2. 2 * j - 1 \in DOMAIN tx.adjust /\ 2 * j \in DOMAIN tx.adjust
    BY DEF InPairs
  <2> QED
    BY <2>1, <2>2 DEF InPairs
<1>4. \A x : Cardinality(Leaving(tx, x)) = Cardinality(Entering(tx, x))
  BY PairsBalance
<1>5. \A i \in DOMAIN tx.moves : FALSE
  OBVIOUS
<1>6. ASSUME NEW x \in {tx.adjust[i].asset : i \in DOMAIN tx.adjust}
      PROVE  ~ \A h, k \in {i \in DOMAIN tx.adjust : tx.adjust[i].asset = x} :
                  tx.adjust[h].account = tx.adjust[k].account
  <2>1. PICK i \in DOMAIN tx.adjust : x = tx.adjust[i].asset
    OBVIOUS
  <2>2. PICK h \in DOMAIN tx.adjust, k \in DOMAIN tx.adjust :
                /\ tx.adjust[h].asset = x /\ tx.adjust[k].asset = x
                /\ tx.adjust[h].account # tx.adjust[k].account
    BY <2>1, <1>3
  <2> QED
    BY <2>2
<1>7. ~ \E i \in DOMAIN tx.adjust : \/ ~NothingAbsent({tx.adjust[i].asset[1], tx.adjust[i].account})
                                   \/ tx.adjust[i].by = 0
  BY <1>2
<1>8. ~ \E x \in {tx.adjust[i].asset : i \in DOMAIN tx.adjust} :
           \/ Cardinality(Leaving(tx, x)) # Cardinality(Entering(tx, x))
           \/ \A h, k \in {i \in DOMAIN tx.adjust : tx.adjust[i].asset = x} :
                 tx.adjust[h].account = tx.adjust[k].account
  BY <1>4, <1>6, Zenon
<1> QED
  BY <1>1, <1>5, <1>7, <1>8, Zenon DEF BadTransfer
-----------------------------------------------------------------------------
(* Each kind of transaction, and what alone can be wrong with it.          *)

LEMMA MarkTypes ==
    DOMAIN Marking = {"TokenFreeze", "TokenUnfreeze", "TokenGrantKyc", "TokenRevokeKyc",
                      "TokenPause", "TokenUnpause"}
BY DEF Marking

LEMMA TransferMalformed ==
    ASSUME NEW tx, tx.type \in {"CryptoTransfer", "TokenAirdrop"}, ~BadTransfer(tx)
    PROVE  ~Malformed(tx)
BY MarkTypes DEF Malformed

LEMMA TransferHbarWellFormed ==
    ASSUME NEW o \in TransferHbarOptions, ~TransferHbarValidator(o)
    PROVE  ~Malformed(TransferHbar(o))
<1>1. /\ o.sender # Absent /\ o.receiver # Absent /\ o.sender # o.receiver
      /\ o.amount \in Int /\ o.amount > 0
  BY DEF TransferHbarOptions, TransferHbarValidator, BadAccounts, BadPositive, Missing, Maybe
<1>2. InPairs(TransferHbar(o), 1)
  BY <1>1, AbsentAssumption DEF InPairs, TransferHbar, Paired, Units, NothingAbsent
<1>3. ~BadTransfer(TransferHbar(o))
  <2>1. TransferHbar(o).moves = <<>>
    BY DEF TransferHbar
  <2> QED
    BY <1>2, <2>1, PairsWellFormed
<1>4. TransferHbar(o).type = "CryptoTransfer"
  BY DEF TransferHbar
<1> QED
  BY <1>3, <1>4, TransferMalformed

LEMMA TransferTokenWellFormed ==
    ASSUME NEW o \in TransferTokenOptions, ~TransferTokenValidator(o)
    PROVE  ~Malformed(TransferToken(o))
<1>1. /\ o.token # Absent
      /\ o.sender # Absent /\ o.receiver # Absent /\ o.sender # o.receiver
      /\ o.amount \in Int /\ o.amount > 0
  BY DEF TransferTokenOptions, TransferTokenValidator, BadAccounts, BadPositive, Missing, Maybe
<1>2. InPairs(TransferToken(o), 1)
  BY <1>1 DEF InPairs, TransferToken, Paired, Units, NothingAbsent
<1>3. ~BadTransfer(TransferToken(o))
  <2>1. TransferToken(o).moves = <<>>
    BY DEF TransferToken
  <2> QED
    BY <1>2, <2>1, PairsWellFormed
<1>4. TransferToken(o).type = "CryptoTransfer"
  BY DEF TransferToken
<1> QED
  BY <1>3, <1>4, TransferMalformed

LEMMA TransferNftWellFormed ==
    ASSUME NEW o \in TransferNftOptions, ~TransferNftValidator(o)
    PROVE  ~Malformed(TransferNft(o))
<1>1. /\ o.token # Absent
      /\ o.sender # Absent /\ o.receiver # Absent /\ o.sender # o.receiver
      /\ o.serial \in Int /\ o.serial > 0
  BY DEF TransferNftOptions, TransferNftValidator, BadAccounts, BadPositive, Missing, Maybe
<1>2. ~BadTransfer(TransferNft(o))
  BY <1>1 DEF BadTransfer, TransferNft, Moved, NothingAbsent
<1>3. TransferNft(o).type = "CryptoTransfer"
  BY DEF TransferNft
<1> QED
  BY <1>2, <1>3, TransferMalformed

LEMMA TokenAirdropWellFormed ==
    ASSUME NEW o \in TokenAirdropOptions, ~TokenAirdropValidator(o)
    PROVE  ~Malformed(TokenAirdropFungible(o))
<1> DEFINE n == Len(o.airdrops)
           tx == TokenAirdropFungible(o)
<1>1. o.airdrops \in Seq(TokenAirdropEntry) /\ o.airdrops # <<>>
  BY DEF TokenAirdropOptions, TokenAirdropValidator, Empty, Maybe
<1>2. n \in Nat \ {0} /\ DOMAIN o.airdrops = 1..n
  BY <1>1
<1>3. ASSUME NEW j \in 1..n
      PROVE  LET e == o.airdrops[j] IN
             /\ e.token # Absent /\ e.sender # Absent /\ e.receiver # Absent
             /\ e.sender # e.receiver /\ e.amount \in Int /\ e.amount > 0
  <2>1. o.airdrops[j] \in TokenAirdropEntry
    BY <1>1, <1>2
  <2> QED
    BY <2>1, <1>2 DEF TokenAirdropEntry, TokenAirdropValidator, BadAccounts, BadPositive,
                      Missing, Maybe
<1>4. ASSUME NEW j \in 1..n
      PROVE  LET e == o.airdrops[j] IN
             /\ tx.adjust[2 * j - 1] =
                    [asset |-> Units(e.token), account |-> e.sender, by |-> -e.amount,
                     decimals |-> e.decimals]
             /\ tx.adjust[2 * j] =
                    [asset |-> Units(e.token), account |-> e.receiver, by |-> e.amount,
                     decimals |-> e.decimals]
  <2>1. 2 * j - 1 \in 1..(2 * n) /\ 2 * j \in 1..(2 * n)
    BY <1>2
  <2>2. ((2 * j - 1) + 1) \div 2 = j /\ 2 - ((2 * j - 1) % 2) = 1
    OBVIOUS
  <2>3. ((2 * j) + 1) \div 2 = j /\ 2 - ((2 * j) % 2) = 2
    OBVIOUS
  <2> QED
    BY <2>1, <2>2, <2>3 DEF TokenAirdropFungible, Paired
<1>5. InPairs(tx, n)
  <2>1. DOMAIN tx.adjust = 1..(2 * n)
    BY DEF TokenAirdropFungible
  <2> HIDE DEF tx, n
  <2>2. ASSUME NEW j \in 1..n
        PROVE  /\ tx.adjust[2 * j].by \in Int /\ tx.adjust[2 * j].by > 0
               /\ tx.adjust[2 * j - 1].by = -tx.adjust[2 * j].by
               /\ tx.adjust[2 * j - 1].asset = tx.adjust[2 * j].asset
               /\ tx.adjust[2 * j - 1].account # tx.adjust[2 * j].account
               /\ NothingAbsent({tx.adjust[2 * j].asset[1], tx.adjust[2 * j - 1].account,
                                 tx.adjust[2 * j].account})
    <3> DEFINE e == o.airdrops[j]
    <3>1. /\ e.token # Absent /\ e.sender # Absent /\ e.receiver # Absent
          /\ e.sender # e.receiver /\ e.amount \in Int /\ e.amount > 0
      BY <1>3
    <3>2. /\ tx.adjust[2 * j - 1] = [asset |-> <<e.token, 0>>, account |-> e.sender,
                                     by |-> -e.amount, decimals |-> e.decimals]
          /\ tx.adjust[2 * j] = [asset |-> <<e.token, 0>>, account |-> e.receiver,
                                 by |-> e.amount, decimals |-> e.decimals]
      BY <1>4 DEF Units
    <3> HIDE DEF e
    <3> QED
      BY <3>1, <3>2 DEF NothingAbsent
  <2> QED
    BY <2>1, <2>2 DEF InPairs
<1>6. tx.moves = <<>> /\ tx.type = "TokenAirdrop"
  BY DEF TokenAirdropFungible
<1> QED
  BY <1>2, <1>5, <1>6, PairsWellFormed, TransferMalformed

LEMMA TokenAirdropNftWellFormed ==
    ASSUME NEW o \in TokenAirdropNftOptions, ~TokenAirdropNftValidator(o)
    PROVE  ~Malformed(TokenAirdropNft(o))
<1>1. o.airdrops \in Seq(NftAirdropEntry) /\ o.airdrops # <<>>
  BY DEF TokenAirdropNftOptions, TokenAirdropNftValidator, Empty, Maybe
<1>2. ASSUME NEW i \in DOMAIN o.airdrops
      PROVE  LET e == o.airdrops[i] IN
             /\ e.token # Absent /\ e.sender # Absent /\ e.receiver # Absent
             /\ e.sender # e.receiver /\ e.serial \in Int /\ e.serial > 0
  <2>1. o.airdrops[i] \in NftAirdropEntry
    BY <1>1
  <2> QED
    BY <2>1 DEF NftAirdropEntry, TokenAirdropNftValidator, BadAccounts, BadPositive, Missing,
                Maybe
<1>3. /\ TokenAirdropNft(o).adjust = <<>> /\ TokenAirdropNft(o).type = "TokenAirdrop"
      /\ DOMAIN TokenAirdropNft(o).moves = DOMAIN o.airdrops
      /\ \A i \in DOMAIN o.airdrops : TokenAirdropNft(o).moves[i] = Moved(o.airdrops[i])
  BY DEF TokenAirdropNft
<1>4. TokenAirdropNft(o).moves # <<>>
  BY <1>1, <1>3
<1>5. ~BadTransfer(TokenAirdropNft(o))
  <2>1. ASSUME NEW i \in DOMAIN TokenAirdropNft(o).moves
        PROVE  LET m == TokenAirdropNft(o).moves[i] IN
               /\ NothingAbsent({m.asset[1], m.from, m.to})
               /\ ~(m.asset[2] <= 0) /\ m.from # m.to
    <3> DEFINE e == o.airdrops[i]
    <3>1. /\ e.token # Absent /\ e.sender # Absent /\ e.receiver # Absent
          /\ e.sender # e.receiver /\ e.serial \in Int /\ e.serial > 0
      BY <1>2, <1>3
    <3>2. TokenAirdropNft(o).moves[i] =
             [asset |-> <<e.token, e.serial>>, from |-> e.sender, to |-> e.receiver]
      BY <1>3 DEF Moved
    <3> HIDE DEF e
    <3> QED
      BY <3>1, <3>2 DEF NothingAbsent
  <2>2. \A i \in DOMAIN TokenAirdropNft(o).adjust : FALSE
    BY <1>3
  <2> QED
    BY <2>1, <2>2, <1>3, <1>4 DEF BadTransfer
<1> QED
  BY <1>3, <1>5, TransferMalformed
-----------------------------------------------------------------------------
(* Supply, and who may hold a token.                                       *)

LEMMA ClaimWellFormed ==
    ASSUME NEW o \in TokenClaimAirdropOptions, ~BadIds(o.ids)
    PROVE  ~Malformed(TokenClaim(o)) /\ ~Malformed(TokenCancel(o))
BY MarkTypes
DEF TokenClaimAirdropOptions, BadIds, Empty, Missing, TokenClaim, TokenCancel, Malformed,
    NothingAbsent

LEMMA MintWellFormed ==
    ASSUME NEW o \in TokenMintOptions, ~TokenMintValidator(o)
    PROVE  ~Malformed(TokenMinted(o))
<1> DEFINE metadata == IF o.metadata = Absent THEN 0 ELSE o.metadata
<1>1. o.token # Absent /\ (o.amount = Absent \/ ~(o.amount < 0))
  BY DEF TokenMintValidator, BadAmount, Missing
<1>2. metadata \in Nat /\ ((o.amount = Absent) <=> metadata > 0)
  BY AbsentAssumption DEF TokenMintOptions, TokenMintValidator, Maybe
<1>3. ~BadQuantity(o.amount, metadata > 0, <<>>)
  BY <1>1, <1>2 DEF BadQuantity
<1> HIDE DEF metadata
<1>4. TokenMinted(o) = [type |-> "TokenMint", token |-> o.token, amount |-> o.amount,
                        metadata |-> metadata]
  BY DEF TokenMinted, metadata
<1> QED
  BY <1>1, <1>3, <1>4, MarkTypes DEF Malformed

(* A burn or a wipe of an amount, or of serials.                           *)
LEMMA QuantityWellFormed ==
    ASSUME NEW amount \in Maybe(Int), NEW serials \in ListOf(Int),
           ~BadSerials(serials), ~((amount = Absent) = Empty(serials)), ~BadAmount(amount)
    PROVE  ~BadQuantity(amount, Serials(serials) # <<>>, Serials(serials))
<1>1. CASE Empty(serials)
  <2>1. Serials(serials) = <<>> /\ amount # Absent
    BY <1>1 DEF Serials, Empty
  <2>2. ~(amount < 0)
    BY <2>1 DEF BadAmount
  <2>3. \A i \in DOMAIN Serials(serials) : FALSE
    BY <2>1
  <2> QED
    BY <2>1, <2>2, <2>3 DEF BadQuantity
<1>2. CASE ~Empty(serials)
  <2>1. Serials(serials) = serials /\ serials # <<>> /\ serials # Absent
    BY <1>2 DEF Serials, Empty
  <2>2. amount = Absent
    BY <1>2 DEF Empty
  <2> QED
    BY <2>1, <2>2 DEF BadQuantity, BadSerials
<1> QED
  BY <1>1, <1>2

LEMMA BurnWellFormed ==
    ASSUME NEW o \in TokenBurnOptions, ~TokenBurnValidator(o)
    PROVE  ~Malformed(TokenBurned(o))
<1>1. ~BadQuantity(o.amount, Serials(o.serials) # <<>>, Serials(o.serials))
  BY QuantityWellFormed DEF TokenBurnOptions, TokenBurnValidator
<1>2. o.token # Absent /\ Treasury # Absent
  BY AbsentAssumption DEF TokenBurnValidator, Missing
<1> QED
  BY <1>1, <1>2, MarkTypes DEF TokenBurned, Malformed, NothingAbsent

LEMMA WipeWellFormed ==
    ASSUME NEW o \in TokenWipeOptions, ~TokenWipeValidator(o)
    PROVE  ~Malformed(TokenWiped(o))
<1>1. ~BadQuantity(o.amount, Serials(o.serials) # <<>>, Serials(o.serials))
  BY QuantityWellFormed DEF TokenWipeOptions, TokenWipeValidator
<1>2. o.token # Absent /\ o.account # Absent
  BY DEF TokenWipeValidator, Missing
<1> QED
  BY <1>1, <1>2, MarkTypes DEF TokenWiped, Malformed, NothingAbsent

LEMMA AssociateWellFormed ==
    ASSUME NEW o \in TokenAssociateOptions, ~TokenAssociateValidator(o)
    PROVE  ~Malformed(TokenAssociated(o))
<1>1. ToSet(<<o.token>>) = {o.token} /\ <<o.token>> # <<>>
  BY DEF ToSet
<1>2. o.account # Absent /\ o.token # Absent
  BY DEF TokenAssociateValidator, Missing
<1> QED
  BY <1>1, <1>2, MarkTypes DEF TokenAssociated, Malformed, NothingAbsent

LEMMA DissociateWellFormed ==
    ASSUME NEW o \in TokenDissociateOptions, ~TokenDissociateValidator(o)
    PROVE  ~Malformed(TokenDissociated(o))
BY MarkTypes
DEF TokenDissociateValidator, TokenDissociated, Malformed, NothingAbsent, Missing, Empty

LEMMA MarkWellFormed ==
    ASSUME NEW type \in DOMAIN Marking, NEW o, o.account # Absent, o.token # Absent
    PROVE  ~Malformed(MarkTx(type, o))
BY MarkTypes DEF MarkTx, Malformed, NothingAbsent
-----------------------------------------------------------------------------
(* The flow: a rejection, and the dissociation that follows it.            *)

LEMMA ListedOptions ==
    ASSUME NEW o \in TokenRejectOptions, ~TokenRejectValidator(o)
    PROVE  /\ o.owner # Absent
           /\ Listed(o.tokens) \in Seq(Maybe(Tokens)) /\ Absent \notin ToSet(Listed(o.tokens))
           /\ Listed(o.nfts) \in Seq(Maybe(Tokens \X Int)) /\ Absent \notin ToSet(Listed(o.nfts))
           /\ Listed(o.tokens) # <<>> \/ Listed(o.nfts) # <<>>
<1>1. ToSet(<<>>) = {} /\ \A S : <<>> \in Seq(S)
  BY DEF ToSet
<1>2. ASSUME NEW S, NEW list \in ListOf(S), list = Absent \/ Absent \notin ToSet(list)
      PROVE  Listed(list) \in Seq(Maybe(S)) /\ Absent \notin ToSet(Listed(list))
  BY <1>1, <1>2 DEF ListOf, Maybe, Listed, Empty
<1>3. /\ o.owner # Absent
      /\ o.tokens \in ListOf(Tokens) /\ (o.tokens = Absent \/ Absent \notin ToSet(o.tokens))
      /\ o.nfts \in ListOf(Tokens \X Int) /\ (o.nfts = Absent \/ Absent \notin ToSet(o.nfts))
      /\ ~Empty(o.tokens) \/ ~Empty(o.nfts)
  BY DEF TokenRejectOptions, TokenRejectValidator, Missing
<1>4. \A list : ~Empty(list) => Listed(list) # <<>>
  BY DEF Listed, Empty
<1> QED
  BY <1>2, <1>3, <1>4

LEMMA RejectFirstWellFormed ==
    ASSUME NEW o \in TokenRejectOptions, ~TokenRejectValidator(o)
    PROVE  ~Malformed(RejectFirst(o))
<1>1. Listed(o.tokens) \o Listed(o.nfts) # <<>>
  <2>1. \A S, U : \A s \in Seq(S), u \in Seq(U) : s # <<>> \/ u # <<>> => s \o u # <<>>
    <3> SUFFICES ASSUME NEW S, NEW U, NEW s \in Seq(S), NEW u \in Seq(U),
                        s # <<>> \/ u # <<>>
                 PROVE  s \o u # <<>>
      OBVIOUS
    <3>1. s \in Seq(S \cup U) /\ u \in Seq(S \cup U)
      OBVIOUS
    <3>2. Len(s \o u) = Len(s) + Len(u)
      BY <3>1
    <3>3. Len(s) \in Nat /\ Len(u) \in Nat /\ (Len(s) > 0 \/ Len(u) > 0)
      OBVIOUS
    <3> QED
      BY <3>2, <3>3
  <2> QED
    BY <2>1, ListedOptions
<1> QED
  BY <1>1, ListedOptions, MarkTypes DEF RejectFirst, Malformed, NothingAbsent

(* A finite set listed in some order.                                      *)
LEMMA SetListed ==
    ASSUME NEW S, IsFiniteSet(S), S # {}
    PROVE  SetToSeq(S) # <<>> /\ ToSet(SetToSeq(S)) = S
<1> DEFINE n == Cardinality(S)
           f == SetToSeq(S)
<1>1. n \in Nat /\ n # 0
  BY FS_CardinalityType, FS_EmptySet
<1>2. \E g \in [1..n -> S] : IsInjective(g)
  BY FS_CardinalityType DEF ExistsBijection, Bijection, Injection
<1>3. f \in [1..n -> S] /\ IsInjective(f)
  BY <1>2 DEF SetToSeq
<1>4. Cardinality(1..n) = n
  BY <1>1, FS_Interval
<1> HIDE DEF n, f
<1>5. f \in Injection(1..n, S)
  BY <1>3 DEF Injection
<1>6. f \in Surjection(1..n, S)
  BY <1>4, <1>5, FS_Injection DEF n
<1> QED
  BY <1>1, <1>3, <1>6 DEF ToSet, Surjection, f

(* The tokens a flow dissociates are some, each of them one.               *)
LEMMA RejectedFinite ==
    ASSUME NEW o \in TokenRejectOptions, ~TokenRejectValidator(o)
    PROVE  /\ IsFiniteSet(RejectedTokens(o)) /\ RejectedTokens(o) # {}
           /\ Absent \notin RejectedTokens(o)
<1> DEFINE tokens == Listed(o.tokens)
           nfts == Listed(o.nfts)
           A == ToSet(tokens)
           B == {nfts[i][1] : i \in DOMAIN nfts}
<1>1. /\ o.owner # Absent
      /\ tokens \in Seq(Maybe(Tokens)) /\ Absent \notin ToSet(tokens)
      /\ nfts \in Seq(Maybe(Tokens \X Int)) /\ Absent \notin ToSet(nfts)
      /\ tokens # <<>> \/ nfts # <<>>
  BY ListedOptions
<1> HIDE DEF tokens, nfts
<1>2. /\ DOMAIN tokens = 1..Len(tokens) /\ Len(tokens) \in Nat
      /\ DOMAIN nfts = 1..Len(nfts) /\ Len(nfts) \in Nat
  BY <1>1
<1>3. IsFiniteSet(DOMAIN tokens) /\ IsFiniteSet(DOMAIN nfts)
  BY <1>2, FS_Interval
<1>4. IsFiniteSet(A)
  <2>1. [i \in DOMAIN tokens |-> tokens[i]] \in Surjection(DOMAIN tokens, A)
    BY DEF Surjection, ToSet
  <2> HIDE DEF A
  <2> QED
    BY <1>3, <2>1, FS_Surjection
<1>5. IsFiniteSet(B)
  <2>1. [i \in DOMAIN nfts |-> nfts[i][1]] \in Surjection(DOMAIN nfts, B)
    BY DEF Surjection
  <2> HIDE DEF B
  <2> QED
    BY <1>3, <2>1, FS_Surjection
<1>6. A \cup B # {}
  <2>1. tokens # <<>> => 1 \in DOMAIN tokens
    BY <1>1
  <2>2. nfts # <<>> => 1 \in DOMAIN nfts
    BY <1>1
  <2>3. 1 \in DOMAIN tokens => tokens[1] \in A
    BY DEF ToSet
  <2>4. 1 \in DOMAIN nfts => nfts[1][1] \in B
    OBVIOUS
  <2> HIDE DEF A, B
  <2> QED
    BY <1>1, <2>1, <2>2, <2>3, <2>4
<1>7. Absent \notin A \cup B
  <2>1. \A i \in DOMAIN nfts : nfts[i] \in Tokens \X Int
    BY <1>1 DEF Maybe, ToSet
  <2>2. \A i \in DOMAIN nfts : nfts[i][1] \in Tokens
    BY <2>1
  <2> QED
    BY <1>1, <2>2, AbsentAssumption
<1>8. RejectedTokens(o) = A \cup B
  BY DEF RejectedTokens, tokens, nfts
<1> HIDE DEF A, B
<1> QED
  BY <1>4, <1>5, <1>6, <1>7, <1>8, FS_Union

LEMMA RejectSecondWellFormed ==
    ASSUME NEW o \in TokenRejectOptions, ~TokenRejectValidator(o)
    PROVE  ~Malformed(RejectSecond(o))
<1>1. o.owner # Absent
  BY ListedOptions
<1>2. /\ SetToSeq(RejectedTokens(o)) # <<>>
      /\ Absent \notin ToSet(SetToSeq(RejectedTokens(o)))
  BY RejectedFinite, SetListed
<1> QED
  BY <1>1, <1>2, MarkTypes DEF RejectSecond, Malformed, NothingAbsent
-----------------------------------------------------------------------------
(* Allowances.                                                             *)

(* What an approval may grant: of things, by accounts and to accounts that *)
(* are there, serials and amounts that are not negative; serials of NFTs.  *)
Grants ==
    {g \in [nft : BOOLEAN, key : ((Tokens \cup {Hbar}) \X Nat) \X Accounts \X Accounts, amount : Nat] :
        g.nft \/ g.key[1][2] = 0}

(* Lists that are not empty, one after the other.                          *)
LEMMA NonemptyConcatenation ==
    ASSUME NEW S
    PROVE  \A a, b \in Seq(S) \ {<<>>} : a \o b \in Seq(S) \ {<<>>}
<1> SUFFICES ASSUME NEW a \in Seq(S) \ {<<>>}, NEW b \in Seq(S) \ {<<>>}
             PROVE  a \o b \in Seq(S) \ {<<>>}
  OBVIOUS
<1>1. a \o b \in Seq(S) /\ Len(a \o b) = Len(a) + Len(b)
  OBVIOUS
<1>2. Len(a) \in Nat \ {0} /\ Len(b) \in Nat
  OBVIOUS
<1> QED
  BY <1>1, <1>2

LEMMA GrantsWellFormed ==
    ASSUME NEW tx, tx.type = "AccountAllowanceApprove", tx.grants \in Seq(Grants) \ {<<>>}
    PROVE  ~Malformed(tx)
<1>1. ASSUME NEW i \in DOMAIN tx.grants
      PROVE  LET g == tx.grants[i] IN
             NothingAbsent({g.key[1][1], g.key[2], g.key[3]}) /\ ~(g.key[1][2] < 0) /\ ~(g.amount < 0)
  <2>1. tx.grants[i] \in Grants
    OBVIOUS
  <2> DEFINE g == tx.grants[i]
  <2>2. g.key \in ((Tokens \cup {Hbar}) \X Nat) \X Accounts \X Accounts /\ g.amount \in Nat
    BY <2>1 DEF Grants
  <2>3. /\ g.key[1][1] \in Tokens \cup {Hbar} /\ g.key[1][2] \in Nat
        /\ g.key[2] \in Accounts /\ g.key[3] \in Accounts
    BY <2>2
  <2>4. g.key[1][1] # Absent /\ g.key[2] # Absent /\ g.key[3] # Absent
    BY <2>3, AbsentAssumption
  <2> QED
    BY <2>2, <2>3, <2>4 DEF NothingAbsent
<1> QED
  BY <1>1, MarkTypes DEF Malformed

(* One entry, and what its parts must be for a grant to be one of Grants.  *)
LEMMA GrantGranted ==
    ASSUME NEW e \in AllowanceEntry, e.owner # Absent, e.spender # Absent,
           NEW token \in Tokens \cup {Hbar}, NEW amount \in Nat
    PROVE  Grant(<<token, 0>>, e, amount) \in Grants
<1>1. e.owner \in Accounts /\ e.spender \in Accounts
  BY DEF AllowanceEntry, Account, Maybe
<1> QED
  BY <1>1 DEF Grant, Grants

LEMMA GrantNftGranted ==
    ASSUME NEW e \in AllowanceEntry, e.owner # Absent, e.spender # Absent, e.token # Absent,
           NEW serial \in Nat, NEW amount \in Nat
    PROVE  GrantNft(serial, e, amount) \in Grants
<1>1. e.owner \in Accounts /\ e.spender \in Accounts /\ e.token \in Tokens \cup {Hbar}
  BY DEF AllowanceEntry, Account, Maybe
<1> QED
  BY <1>1 DEF GrantNft, Grants

LEMMA NftGrantsGranted ==
    ASSUME NEW e \in AllowanceEntry, e.token # Absent, e.owner # Absent, e.spender # Absent,
           ~(Empty(e.serials) = ~e.all),
           \A k \in DOMAIN Serials(e.serials) : ~(e.serials[k] <= 0)
    PROVE  NftGrants(e) \in Seq(Grants) \ {<<>>}
<1>1. e.token \in Tokens \cup {Hbar}
  BY DEF AllowanceEntry, Maybe
<1>2. CASE e.all
  <2>1. NftGrants(e) = <<GrantNft(0, e, 1)>>
    BY <1>2 DEF NftGrants
  <2>2. GrantNft(0, e, 1) \in Grants
    BY GrantNftGranted
  <2> QED
    BY <2>1, <2>2
<1>3. CASE ~e.all
  <2>1. ~Empty(e.serials)
    BY <1>3 DEF Empty, AllowanceEntry
  <2>2. e.serials \in Seq(Int) /\ e.serials # <<>> /\ Serials(e.serials) = e.serials
    BY <2>1 DEF Empty, AllowanceEntry, Maybe, Serials
  <2> DEFINE G == [k \in 1..Len(e.serials) |-> GrantNft(e.serials[k], e, 1)]
  <2>3. NftGrants(e) = G
    BY <1>3, <2>2 DEF NftGrants
  <2>4. \A k \in 1..Len(e.serials) : GrantNft(e.serials[k], e, 1) \in Grants
    <3> SUFFICES ASSUME NEW k \in 1..Len(e.serials)
                 PROVE  GrantNft(e.serials[k], e, 1) \in Grants
      OBVIOUS
    <3>1. e.serials[k] \in Nat
      BY <2>2
    <3> QED
      BY <3>1, GrantNftGranted
  <2>5. Len(e.serials) \in Nat \ {0}
    BY <2>2
  <2>6. G \in Seq(Grants) /\ G # <<>>
    BY <2>4, <2>5
  <2> QED
    BY <2>3, <2>6
<1> QED
  BY <1>2, <1>3

(* The grants of the NFT entries, one entry after the other.               *)
LEMMA NftListGranted ==
    ASSUME NEW nfts \in Seq(AllowanceEntry),
           \A i \in DOMAIN nfts : NftGrants(nfts[i]) \in Seq(Grants) \ {<<>>}
    PROVE  LET all == FlattenSeq([i \in DOMAIN nfts |-> NftGrants(nfts[i])]) IN
           all \in Seq(Grants) /\ (nfts # <<>> => all # <<>>)
<1> DEFINE ss == [i \in DOMAIN nfts |-> NftGrants(nfts[i])]
           T == Seq(Grants) \ {<<>>}
<1>1. ss \in Seq(T) /\ Len(ss) = Len(nfts)
  <2>1. DOMAIN nfts = 1..Len(nfts) /\ Len(nfts) \in Nat
    OBVIOUS
  <2> QED
    BY <2>1
<1>2. ASSUME nfts = <<>> PROVE FlattenSeq(ss) \in Seq(Grants)
  <2>1. ss = <<>> /\ Len(ss) = 0
    BY <1>2
  <2> HIDE DEF ss
  <2>2. FlattenSeq(ss) = <<>>
    BY <2>1 DEF FlattenSeq
  <2> QED
    BY <2>2
<1>3. ASSUME nfts # <<>> PROVE FlattenSeq(ss) \in T
  <2>1. ss # <<>>
    BY <1>1, <1>3
  <2>2. \A a, b \in T : a \o b \in T
    BY NonemptyConcatenation
  <2> HIDE DEF ss, T
  <2>3. FlattenSeq(ss) \in T
    BY <1>1, <2>1, <2>2, FlattenClosed
  <2> QED
    BY <2>3
<1> QED
  BY <1>2, <1>3

LEMMA ApproveGranted ==
    ASSUME NEW o, o.hbars \in Seq(AllowanceEntry), o.units \in Seq(AllowanceEntry),
           o.nfts \in Seq(AllowanceEntry), ~ApproveAllowanceValidator(o),
           \A i \in DOMAIN o.hbars : ~(o.hbars[i].amount < 0)
    PROVE  ApproveAllowance(o).grants \in Seq(Grants) \ {<<>>}
<1> DEFINE H == [i \in DOMAIN o.hbars |-> Grant(Units(Hbar), o.hbars[i], o.hbars[i].amount)]
           U == [i \in DOMAIN o.units |->
                    Grant(Units(o.units[i].token), o.units[i], o.units[i].amount)]
           N == FlattenSeq([i \in DOMAIN o.nfts |-> NftGrants(o.nfts[i])])
<1>1. H \in Seq(Grants) /\ (o.hbars # <<>> => H # <<>>)
  <2>1. ASSUME NEW i \in DOMAIN o.hbars
        PROVE  Grant(Units(Hbar), o.hbars[i], o.hbars[i].amount) \in Grants
    <3> DEFINE e == o.hbars[i]
    <3>1. e \in AllowanceEntry
      OBVIOUS
    <3>2. ~BadParties(e) /\ e.amount # Absent /\ ~(e.amount < 0)
      BY DEF ApproveAllowanceValidator
    <3> HIDE DEF e
    <3>3. e.amount \in Int /\ ~(e.amount < 0)
      BY <3>1, <3>2 DEF AllowanceEntry, Maybe
    <3>4. e.owner # Absent /\ e.spender # Absent /\ e.amount \in Nat
      BY <3>3, <3>2 DEF BadParties, Missing
    <3>5. Grant(<<Hbar, 0>>, e, e.amount) \in Grants
      BY <3>1, <3>4, GrantGranted
    <3> QED
      BY <3>5 DEF Units, e
  <2>2. DOMAIN o.hbars = 1..Len(o.hbars) /\ Len(o.hbars) \in Nat
    OBVIOUS
  <2>3. o.hbars # <<>> => Len(o.hbars) # 0
    OBVIOUS
  <2> QED
    BY <2>1, <2>2, <2>3
<1>2. U \in Seq(Grants) /\ (o.units # <<>> => U # <<>>)
  <2>1. ASSUME NEW i \in DOMAIN o.units
        PROVE  Grant(Units(o.units[i].token), o.units[i], o.units[i].amount) \in Grants
    <3> DEFINE e == o.units[i]
    <3>1. e \in AllowanceEntry
      OBVIOUS
    <3>2. ~BadParties(e) /\ Absent \notin {e.token, e.amount} /\ ~BadAmount(e.amount)
      BY DEF ApproveAllowanceValidator, Missing
    <3> HIDE DEF e
    <3>3. e.amount \in Int /\ ~(e.amount < 0) /\ e.token \in Tokens \cup {Hbar}
      BY <3>1, <3>2 DEF BadAmount, AllowanceEntry, Maybe
    <3>4. /\ e.owner # Absent /\ e.spender # Absent /\ e.amount \in Nat
          /\ e.token \in Tokens \cup {Hbar}
      BY <3>3, <3>2 DEF BadParties, Missing
    <3>5. Grant(<<e.token, 0>>, e, e.amount) \in Grants
      BY <3>1, <3>4, GrantGranted
    <3> QED
      BY <3>5 DEF Units, e
  <2>2. DOMAIN o.units = 1..Len(o.units) /\ Len(o.units) \in Nat
    OBVIOUS
  <2>3. o.units # <<>> => Len(o.units) # 0
    OBVIOUS
  <2>4. U \in [1..Len(o.units) -> Grants]
    BY <2>1, <2>2
  <2> HIDE DEF U
  <2> QED
    BY <2>2, <2>3, <2>4
<1>3. N \in Seq(Grants) /\ (o.nfts # <<>> => N # <<>>)
  <2>1. ASSUME NEW i \in DOMAIN o.nfts
        PROVE  NftGrants(o.nfts[i]) \in Seq(Grants) \ {<<>>}
    <3> DEFINE e == o.nfts[i]
    <3>1. e \in AllowanceEntry
      OBVIOUS
    <3>2. /\ ~Missing({e.token}) /\ ~BadParties(e) /\ ~(Empty(e.serials) = ~e.all)
          /\ \A k \in DOMAIN Serials(e.serials) : ~(e.serials[k] <= 0)
      BY DEF ApproveAllowanceValidator
    <3> HIDE DEF e
    <3>3. e.token # Absent /\ e.owner # Absent /\ e.spender # Absent
      BY <3>2 DEF BadParties, Missing
    <3>4. NftGrants(e) \in Seq(Grants) \ {<<>>}
      BY <3>1, <3>2, <3>3, NftGrantsGranted
    <3> QED
      BY <3>4 DEF e
  <2> QED
    BY <2>1, NftListGranted
<1>4. o.hbars # <<>> \/ o.units # <<>> \/ o.nfts # <<>>
  BY DEF ApproveAllowanceValidator, Empty
<1> HIDE DEF H, U, N
<1>5. H \o U \o N \in Seq(Grants) \ {<<>>}
  <2>1. (H \o U) \o N \in Seq(Grants) /\ Len((H \o U) \o N) = Len(H) + Len(U) + Len(N)
    BY <1>1, <1>2, <1>3
  <2>2. Len(H) \in Nat /\ Len(U) \in Nat /\ Len(N) \in Nat
    BY <1>1, <1>2, <1>3
  <2>3. Len(H) > 0 \/ Len(U) > 0 \/ Len(N) > 0
    BY <1>1, <1>2, <1>3, <1>4
  <2> QED
    BY <2>1, <2>2, <2>3
<1>6. ApproveAllowance(o).grants = H \o U \o N
  BY DEF ApproveAllowance, H, U, N
<1> QED
  BY <1>5, <1>6

LEMMA ApproveWellFormed ==
    ASSUME NEW o, o.hbars \in Seq(AllowanceEntry), o.units \in Seq(AllowanceEntry),
           o.nfts \in Seq(AllowanceEntry), ~ApproveAllowanceValidator(o),
           \A i \in DOMAIN o.hbars : ~(o.hbars[i].amount < 0)
    PROVE  ~Malformed(ApproveAllowance(o))
<1>1. ApproveAllowance(o).type = "AccountAllowanceApprove"
  BY DEF ApproveAllowance
<1> QED
  BY <1>1, ApproveGranted, GrantsWellFormed

(* Deleting grants: the same calls with amounts of zero.                   *)
LEMMA ZeroedEntries ==
    ASSUME NEW list \in Seq(AllowanceEntry)
    PROVE  Zeroed(list) \in Seq(AllowanceEntry)
<1>1. \A e \in AllowanceEntry : [e EXCEPT !.amount = 0] \in AllowanceEntry
  <2> SUFFICES ASSUME NEW e \in AllowanceEntry
               PROVE  [e EXCEPT !.amount = 0] \in AllowanceEntry
    OBVIOUS
  <2>1. 0 \in Maybe(Int)
    BY DEF Maybe
  <2> QED
    BY <2>1, Zenon DEF AllowanceEntry
<1>2. DOMAIN list = 1..Len(list) /\ Len(list) \in Nat
  OBVIOUS
<1> QED
  BY <1>1, <1>2 DEF Zeroed

(* An amount of zero, to the same spenders of the same owners.             *)
LEMMA ZeroedAlike ==
    ASSUME NEW list \in Seq(AllowanceEntry)
    PROVE  /\ Zeroed(list) \in Seq(AllowanceEntry) /\ Len(Zeroed(list)) = Len(list)
           /\ \A i \in 1..Len(list) : /\ Zeroed(list)[i].token = list[i].token
                                      /\ Zeroed(list)[i].owner = list[i].owner
                                      /\ Zeroed(list)[i].spender = list[i].spender
                                      /\ Zeroed(list)[i].amount = 0
<1>1. DOMAIN list = 1..Len(list) /\ Len(list) \in Nat /\ \A i \in 1..Len(list) : list[i] \in AllowanceEntry
  OBVIOUS
<1>2. Zeroed(list) = [i \in 1..Len(list) |-> [list[i] EXCEPT !.amount = 0]]
  BY <1>1 DEF Zeroed
<1>3. \A i \in 1..Len(list) : /\ [list[i] EXCEPT !.amount = 0].token = list[i].token
                              /\ [list[i] EXCEPT !.amount = 0].owner = list[i].owner
                              /\ [list[i] EXCEPT !.amount = 0].spender = list[i].spender
                              /\ [list[i] EXCEPT !.amount = 0].amount = 0
  BY <1>1 DEF AllowanceEntry
<1>4. Zeroed(list) \in Seq(AllowanceEntry)
  BY ZeroedEntries
<1>5. Len(Zeroed(list)) = Len(list)
  BY <1>1, <1>2, <1>4
<1> QED
  BY <1>2, <1>3, <1>4, <1>5

(* A call about hbar that was checked is well formed with zero for amounts.*)
LEMMA ZeroedWellFormed ==
    ASSUME NEW o \in HbarAllowances, o.hbars \in Seq(AllowanceEntry), NEW a,
           a = [o EXCEPT !.hbars = Zeroed(@)],
           ~ApproveAllowanceValidator(o) \/ ~ApproveAllowanceValidator(a)
    PROVE  /\ a.hbars \in Seq(AllowanceEntry) /\ a.units = <<>> /\ a.nfts = <<>>
           /\ \A i \in DOMAIN a.hbars : ~(a.hbars[i].amount < 0)
           /\ ~ApproveAllowanceValidator(a) /\ ~Malformed(ApproveAllowance(a))
<1>1. a.hbars = Zeroed(o.hbars) /\ a.units = <<>> /\ a.nfts = <<>> /\ o.units = <<>> /\ o.nfts = <<>>
  BY DEF HbarAllowances
<1>2. a.hbars \in Seq(AllowanceEntry)
  BY <1>1, ZeroedEntries
<1>3. DOMAIN a.hbars = DOMAIN o.hbars /\ DOMAIN o.hbars = 1..Len(o.hbars)
  BY <1>1 DEF Zeroed
<1>4. \A i \in DOMAIN o.hbars :
         /\ a.hbars[i].amount = 0
         /\ a.hbars[i].owner = o.hbars[i].owner /\ a.hbars[i].spender = o.hbars[i].spender
  BY <1>1, <1>3, ZeroedAlike
<1>5. \A i \in DOMAIN a.hbars : ~(a.hbars[i].amount < 0)
  BY <1>3, <1>4
<1>6. ASSUME ~ApproveAllowanceValidator(o) PROVE ~ApproveAllowanceValidator(a)
  <2>1. ~Empty(a.hbars)
    <3>1. ~Empty(o.hbars)
      BY <1>1, <1>6 DEF ApproveAllowanceValidator, Empty
    <3>2. o.hbars # <<>>
      BY <3>1 DEF Empty
    <3>3. a.hbars # <<>>
      BY <3>2, <1>3, <1>2
    <3>4. a.hbars # Absent
      BY <1>2, AbsentAssumption
    <3> QED
      BY <3>3, <3>4 DEF Empty
  <2>2. \A i \in DOMAIN a.hbars : ~BadParties(a.hbars[i])
    BY <1>3, <1>4, <1>6 DEF ApproveAllowanceValidator, BadParties
  <2>3. \A i \in DOMAIN a.hbars : a.hbars[i].amount # Absent /\ ~BadAmount(a.hbars[i].amount)
    BY <1>3, <1>4, AbsentAssumption DEF BadAmount
  <2> QED
    BY <1>1, <2>1, <2>2, <2>3 DEF ApproveAllowanceValidator
<1>7. ~ApproveAllowanceValidator(a)
  BY <1>6
<1>8. ~Malformed(ApproveAllowance(a))
  <2>1. \A S : <<>> \in Seq(S)
    OBVIOUS
  <2> QED
    BY <1>1, <1>2, <1>5, <1>7, <2>1, ApproveWellFormed
<1> QED
  BY <1>1, <1>2, <1>5, <1>7, <1>8

LEMMA DeleteAllGranted ==
    ASSUME NEW o, o.nfts \in Seq(AllowanceEntry), ~DeleteAllNftAllowancesValidator(o)
    PROVE  DeleteAllNftAllowances(o).grants \in Seq(Grants) \ {<<>>}
<1> DEFINE G == [i \in DOMAIN o.nfts |-> GrantNft(0, o.nfts[i], 0)]
<1>1. ASSUME NEW i \in DOMAIN o.nfts
      PROVE  GrantNft(0, o.nfts[i], 0) \in Grants
  <2> DEFINE e == o.nfts[i]
  <2>1. e \in AllowanceEntry
    OBVIOUS
  <2>2. e.token # Absent /\ e.owner # Absent /\ e.spender # Absent
    BY DEF DeleteAllNftAllowancesValidator, BadParties, Missing
  <2> HIDE DEF e
  <2>3. GrantNft(0, e, 0) \in Grants
    BY <2>1, <2>2, GrantNftGranted
  <2> QED
    BY <2>3 DEF e
<1>2. DOMAIN o.nfts = 1..Len(o.nfts) /\ Len(o.nfts) \in Nat \ {0}
  BY DEF DeleteAllNftAllowancesValidator, Empty
<1>3. G \in [1..Len(o.nfts) -> Grants]
  BY <1>1, <1>2
<1>4. G \in Seq(Grants) \ {<<>>}
  <2> HIDE DEF G
  <2> QED
    BY <1>2, <1>3
<1> QED
  BY <1>4 DEF DeleteAllNftAllowances

LEMMA DeleteAllWellFormed ==
    ASSUME NEW o, o.nfts \in Seq(AllowanceEntry), ~DeleteAllNftAllowancesValidator(o)
    PROVE  ~Malformed(DeleteAllNftAllowances(o))
<1>1. DeleteAllNftAllowances(o).type = "AccountAllowanceApprove"
  BY DEF DeleteAllNftAllowances
<1> QED
  BY <1>1, DeleteAllGranted, GrantsWellFormed

LEMMA DeleteWellFormed ==
    ASSUME NEW o, o.nfts \in Seq(AllowanceEntry), ~DeleteAllowanceValidator(o)
    PROVE  ~Malformed(DeleteAllowance(o))
<1> DEFINE Deleted == ((Tokens \cup {Hbar}) \X (Nat \ {0})) \X Accounts
           T == Seq(Deleted) \ {<<>>}
           Of1(e) == [k \in DOMAIN e.serials |-> <<<<e.token, e.serials[k]>>, e.owner>>]
           ss == [i \in DOMAIN o.nfts |-> Of1(o.nfts[i])]
<1>1. ASSUME NEW i \in DOMAIN o.nfts
      PROVE  Of1(o.nfts[i]) \in T
  <2> DEFINE e == o.nfts[i]
  <2>1. e \in AllowanceEntry
    OBVIOUS
  <2>2. /\ e.token # Absent /\ e.owner # Absent /\ ~Empty(e.serials)
        /\ \A k \in DOMAIN e.serials : ~(e.serials[k] <= 0)
    BY DEF DeleteAllowanceValidator, Missing
  <2> HIDE DEF e
  <2>3. e.token \in Tokens \cup {Hbar} /\ e.owner \in Accounts
    BY <2>1, <2>2 DEF AllowanceEntry, Account, Maybe
  <2>4. e.serials \in Seq(Int) /\ e.serials # <<>>
    BY <2>1, <2>2 DEF AllowanceEntry, Maybe, Empty
  <2>5. DOMAIN e.serials = 1..Len(e.serials) /\ Len(e.serials) \in Nat \ {0}
    BY <2>4
  <2>6. \A k \in DOMAIN e.serials : e.serials[k] \in Nat \ {0}
    BY <2>2, <2>4
  <2>7. \A k \in DOMAIN e.serials : <<<<e.token, e.serials[k]>>, e.owner>> \in Deleted
    BY <2>3, <2>6
  <2>8. Of1(e) \in T
    <3> HIDE DEF Deleted
    <3> QED
      BY <2>5, <2>7
  <2> QED
    BY <2>8 DEF e
<1>2. DOMAIN o.nfts = 1..Len(o.nfts) /\ Len(o.nfts) \in Nat \ {0}
  BY DEF DeleteAllowanceValidator, Empty
<1>3. ss \in Seq(T) /\ ss # <<>>
  <2> HIDE DEF T, Of1
  <2> QED
    BY <1>1, <1>2
<1>4. FlattenSeq(ss) \in T
  <2>1. \A a, b \in T : a \o b \in T
    <3> HIDE DEF Deleted
    <3> QED
      BY NonemptyConcatenation
  <2> HIDE DEF T, ss
  <2> QED
    BY <1>3, <2>1, FlattenClosed
<1>5. DeleteAllowance(o).type = "AccountAllowanceDelete" /\ DeleteAllowance(o).nfts = FlattenSeq(ss)
  BY DEF DeleteAllowance
<1> HIDE DEF ss
<1>6. \A d \in Deleted : NothingAbsent({d[1][1], d[2]}) /\ ~(d[1][2] <= 0)
  BY AbsentAssumption DEF NothingAbsent
<1>7. \A i \in DOMAIN FlattenSeq(ss) : FlattenSeq(ss)[i] \in Deleted
  BY <1>4
<1> HIDE DEF Deleted
<1> QED
  BY <1>4, <1>5, <1>6, <1>7, MarkTypes DEF Malformed
-----------------------------------------------------------------------------
(* The invariant: what a step sent or scheduled was well formed, and so is *)
(* what waits to be sent: the transactions held for signatures, and the    *)
(* second half of a flow, whose options its validator passed.              *)

HInv ==
    /\ NothingMalformedSent
    /\ \A s \in scheduled : ~Malformed(s.tx)
    /\ flow # NoOptions => flow \in TokenRejectOptions /\ ~TokenRejectValidator(flow)

LEMMA OptionsTyped ==
    ASSUME NEW o \in Options
    PROVE  /\ o.call = "transferHbar" => o \in TransferHbarOptions
           /\ o.call = "transferToken" => o \in TransferTokenOptions
           /\ o.call = "transferNft" => o \in TransferNftOptions
           /\ o.call = "airdropFungibleToken" => o \in TokenAirdropOptions
           /\ o.call = "airdropNft" => o \in TokenAirdropNftOptions
           /\ o.call = "claimAirdrop" => o \in TokenClaimAirdropOptions
           /\ o.call = "cancelAirdrop" => o \in TokenClaimAirdropOptions
           /\ o.call = "mintToken" => o \in TokenMintOptions
           /\ o.call = "burnToken" => o \in TokenBurnOptions
           /\ o.call = "wipeToken" => o \in TokenWipeOptions
           /\ o.call = "associateToken" => o \in TokenAssociateOptions
           /\ o.call = "dissociateToken" => o \in TokenDissociateOptions
           /\ o.call = "rejectTokensFlow" => o \in TokenRejectOptions
           /\ o.call = "freezeToken" => o \in TokenAssociateOptions
           /\ o.call = "unfreezeToken" => o \in TokenAssociateOptions
           /\ o.call = "grantKycToken" => o \in TokenAssociateOptions
           /\ o.call = "revokeKycToken" => o \in TokenAssociateOptions
           /\ o.call = "pauseToken" => o \in TokenPauseOptions
           /\ o.call = "unpauseToken" => o \in TokenPauseOptions
           /\ o.call = "approveHbarAllowance" => o \in HbarAllowances
           /\ o.call = "deleteHbarAllowance" => o \in HbarAllowances
           /\ o.call = "approveTokenAllowance" => o \in TokenAllowances
           /\ o.call = "deleteTokenAllowance" => o \in TokenAllowances
           /\ o.call = "approveNftAllowance" => o \in NftAllowances
           /\ o.call = "deleteNftAllowance" => o \in NftAllowances
           /\ o.call = "deleteAllNftAllowances" => o \in NftAllowances
BY HoldingsAssumption DEF OptionsOf

(* A call that is refused, or sends or schedules what is well formed but   *)
(* for a negative Hbar.                                                    *)
LEMMA RunKeeps ==
    ASSUME HInv, NEW o, NEW refused \in BOOLEAN, NEW tx,
           refused \/ ~Malformed(tx) \/ NegativeHbar(o), run(o, refused, tx)
    PROVE  HInv'
BY DEF run, Refuse, Land, Step, Idly, HInv, NothingMalformedSent

LEMMA ScheduleRunKeeps ==
    ASSUME HInv, NEW o, NEW refused \in BOOLEAN, NEW tx, refused \/ ~Malformed(tx),
           scheduleRun(o, refused, tx)
    PROVE  HInv'
BY DEF scheduleRun, Refuse, Step, Idly, HInv, NothingMalformedSent

LEMMA MovingKeeps ==
    ASSUME HInv, NEW o \in Options, Moving(o)
    PROVE  HInv'
<1>1. CASE transferHbar(o) \/ scheduleTransferHbar(o)
  <2>1. o \in TransferHbarOptions
    BY <1>1, OptionsTyped DEF transferHbar, scheduleTransferHbar, Now, Later
  <2>2. TransferHbarValidator(o) \in BOOLEAN
    BY DEF TransferHbarValidator
  <2>3. TransferHbarValidator(o) \/ ~Malformed(TransferHbar(o))
    BY <2>1, TransferHbarWellFormed
  <2> QED
    BY <1>1, <2>2, <2>3, RunKeeps, ScheduleRunKeeps DEF transferHbar, scheduleTransferHbar
<1>2. CASE transferToken(o) \/ scheduleTransferToken(o)
  <2>1. o \in TransferTokenOptions
    BY <1>2, OptionsTyped DEF transferToken, scheduleTransferToken, Now, Later
  <2>2. TransferTokenValidator(o) \in BOOLEAN
    BY DEF TransferTokenValidator
  <2>3. TransferTokenValidator(o) \/ ~Malformed(TransferToken(o))
    BY <2>1, TransferTokenWellFormed
  <2> QED
    BY <1>2, <2>2, <2>3, RunKeeps, ScheduleRunKeeps DEF transferToken, scheduleTransferToken
<1>3. CASE transferNft(o) \/ scheduleTransferNft(o)
  <2>1. o \in TransferNftOptions
    BY <1>3, OptionsTyped DEF transferNft, scheduleTransferNft, Now, Later
  <2>2. TransferNftValidator(o) \in BOOLEAN
    BY DEF TransferNftValidator
  <2>3. TransferNftValidator(o) \/ ~Malformed(TransferNft(o))
    BY <2>1, TransferNftWellFormed
  <2> QED
    BY <1>3, <2>2, <2>3, RunKeeps, ScheduleRunKeeps DEF transferNft, scheduleTransferNft
<1>4. CASE airdropFungibleToken(o)
  <2>1. o \in TokenAirdropOptions
    BY <1>4, OptionsTyped DEF airdropFungibleToken, Now
  <2>2. TokenAirdropValidator(o) \in BOOLEAN
    BY DEF TokenAirdropValidator
  <2>3. TokenAirdropValidator(o) \/ ~Malformed(TokenAirdropFungible(o))
    BY <2>1, TokenAirdropWellFormed
  <2> QED
    BY <1>4, <2>2, <2>3, RunKeeps DEF airdropFungibleToken
<1>5. CASE airdropNft(o)
  <2>1. o \in TokenAirdropNftOptions
    BY <1>5, OptionsTyped DEF airdropNft, Now
  <2>2. TokenAirdropNftValidator(o) \in BOOLEAN
    BY DEF TokenAirdropNftValidator
  <2>3. TokenAirdropNftValidator(o) \/ ~Malformed(TokenAirdropNft(o))
    BY <2>1, TokenAirdropNftWellFormed
  <2> QED
    BY <1>5, <2>2, <2>3, RunKeeps DEF airdropNft
<1>6. CASE claimAirdrop(o)
  <2>1. o \in TokenClaimAirdropOptions
    BY <1>6, OptionsTyped DEF claimAirdrop, Now
  <2>2. TokenClaimAirdropValidator(o) \in BOOLEAN
    BY DEF TokenClaimAirdropValidator, BadIds
  <2>3. TokenClaimAirdropValidator(o) \/ ~Malformed(TokenClaim(o))
    BY <2>1, ClaimWellFormed DEF TokenClaimAirdropValidator
  <2> QED
    BY <1>6, <2>2, <2>3, RunKeeps DEF claimAirdrop
<1>7. CASE cancelAirdrop(o)
  <2>1. o \in TokenClaimAirdropOptions
    BY <1>7, OptionsTyped DEF cancelAirdrop, Now
  <2>2. TokenCancelAirdropValidator(o) \in BOOLEAN
    BY DEF TokenCancelAirdropValidator, BadIds
  <2>3. TokenCancelAirdropValidator(o) \/ ~Malformed(TokenCancel(o))
    BY <2>1, ClaimWellFormed DEF TokenCancelAirdropValidator
  <2> QED
    BY <1>7, <2>2, <2>3, RunKeeps DEF cancelAirdrop
<1> QED
  BY <1>1, <1>2, <1>3, <1>4, <1>5, <1>6, <1>7 DEF Moving

LEMMA SupplyingKeeps ==
    ASSUME HInv, NEW o \in Options, Supplying(o)
    PROVE  HInv'
<1>1. CASE mintToken(o) \/ scheduleMintToken(o)
  <2>1. o \in TokenMintOptions
    BY <1>1, OptionsTyped DEF mintToken, scheduleMintToken, Now, Later
  <2>2. TokenMintValidator(o) \in BOOLEAN
    BY DEF TokenMintValidator
  <2>3. TokenMintValidator(o) \/ ~Malformed(TokenMinted(o))
    BY <2>1, MintWellFormed
  <2> QED
    BY <1>1, <2>2, <2>3, RunKeeps, ScheduleRunKeeps DEF mintToken, scheduleMintToken
<1>2. CASE burnToken(o) \/ scheduleBurnToken(o)
  <2>1. o \in TokenBurnOptions
    BY <1>2, OptionsTyped DEF burnToken, scheduleBurnToken, Now, Later
  <2>2. TokenBurnValidator(o) \in BOOLEAN
    BY DEF TokenBurnValidator
  <2>3. TokenBurnValidator(o) \/ ~Malformed(TokenBurned(o))
    BY <2>1, BurnWellFormed
  <2> QED
    BY <1>2, <2>2, <2>3, RunKeeps, ScheduleRunKeeps DEF burnToken, scheduleBurnToken
<1>3. CASE wipeToken(o)
  <2>1. o \in TokenWipeOptions
    BY <1>3, OptionsTyped DEF wipeToken, Now
  <2>2. TokenWipeValidator(o) \in BOOLEAN
    BY DEF TokenWipeValidator
  <2>3. TokenWipeValidator(o) \/ ~Malformed(TokenWiped(o))
    BY <2>1, WipeWellFormed
  <2> QED
    BY <1>3, <2>2, <2>3, RunKeeps DEF wipeToken
<1>4. CASE rejectTokensFlow(o)
  <2>1. o \in TokenRejectOptions
    BY <1>4, OptionsTyped DEF rejectTokensFlow, Now
  <2>2. TokenRejectValidator(o) \/ ~Malformed(RejectFirst(o))
    BY <2>1, RejectFirstWellFormed
  <2> QED
    BY <1>4, <2>1, <2>2
    DEF rejectTokensFlow, Refuse, Land, Step, Idly, HInv, NothingMalformedSent
<1> QED
  BY <1>1, <1>2, <1>3, <1>4 DEF Supplying

LEMMA AdmittingKeeps ==
    ASSUME HInv, NEW o \in Options, Admitting(o)
    PROVE  HInv'
<1>1. CASE associateToken(o) \/ scheduleAssociateToken(o)
  <2>1. o \in TokenAssociateOptions
    BY <1>1, OptionsTyped DEF associateToken, scheduleAssociateToken, Now, Later
  <2>2. TokenAssociateValidator(o) \in BOOLEAN
    BY DEF TokenAssociateValidator, Missing
  <2>3. TokenAssociateValidator(o) \/ ~Malformed(TokenAssociated(o))
    BY <2>1, AssociateWellFormed
  <2> QED
    BY <1>1, <2>2, <2>3, RunKeeps, ScheduleRunKeeps DEF associateToken, scheduleAssociateToken
<1>2. CASE dissociateToken(o) \/ scheduleDissociateToken(o)
  <2>1. o \in TokenDissociateOptions
    BY <1>2, OptionsTyped DEF dissociateToken, scheduleDissociateToken, Now, Later
  <2>2. TokenDissociateValidator(o) \in BOOLEAN
    BY DEF TokenDissociateValidator, Missing
  <2>3. TokenDissociateValidator(o) \/ ~Malformed(TokenDissociated(o))
    BY <2>1, DissociateWellFormed
  <2> QED
    BY <1>2, <2>2, <2>3, RunKeeps, ScheduleRunKeeps DEF dissociateToken, scheduleDissociateToken
<1>3. CASE freezeToken(o)
  <2>1. TokenFreezeValidator(o) \in BOOLEAN
    BY DEF TokenFreezeValidator, Missing
  <2>2. TokenFreezeValidator(o) \/ ~Malformed(TokenFrozen(o))
    BY MarkWellFormed, MarkTypes DEF TokenFreezeValidator, TokenFrozen, Missing
  <2> QED
    BY <1>3, <2>1, <2>2, RunKeeps DEF freezeToken
<1>4. CASE unfreezeToken(o)
  <2>1. TokenUnfreezeValidator(o) \in BOOLEAN
    BY DEF TokenUnfreezeValidator, Missing
  <2>2. TokenUnfreezeValidator(o) \/ ~Malformed(TokenUnfrozen(o))
    BY MarkWellFormed, MarkTypes DEF TokenUnfreezeValidator, TokenUnfrozen, Missing
  <2> QED
    BY <1>4, <2>1, <2>2, RunKeeps DEF unfreezeToken
<1>5. CASE grantKycToken(o)
  <2>1. TokenGrantKycValidator(o) \in BOOLEAN
    BY DEF TokenGrantKycValidator, Missing
  <2>2. TokenGrantKycValidator(o) \/ ~Malformed(TokenKycGranted(o))
    BY MarkWellFormed, MarkTypes DEF TokenGrantKycValidator, TokenKycGranted, Missing
  <2> QED
    BY <1>5, <2>1, <2>2, RunKeeps DEF grantKycToken
<1>6. CASE revokeKycToken(o)
  <2>1. TokenRevokeKycValidator(o) \in BOOLEAN
    BY DEF TokenRevokeKycValidator, Missing
  <2>2. TokenRevokeKycValidator(o) \/ ~Malformed(TokenKycRevoked(o))
    BY MarkWellFormed, MarkTypes DEF TokenRevokeKycValidator, TokenKycRevoked, Missing
  <2> QED
    BY <1>6, <2>1, <2>2, RunKeeps DEF revokeKycToken
<1>7. CASE pauseToken(o)
  <2>1. TokenPauseValidator(o) \in BOOLEAN
    BY DEF TokenPauseValidator, Missing
  <2>2. TokenPauseValidator(o) \/ ~Malformed(TokenPaused(o))
    BY MarkWellFormed, MarkTypes, AbsentAssumption DEF TokenPauseValidator, TokenPaused, Missing
  <2> QED
    BY <1>7, <2>1, <2>2, RunKeeps DEF pauseToken
<1>8. CASE unpauseToken(o)
  <2>1. TokenUnpauseValidator(o) \in BOOLEAN
    BY DEF TokenUnpauseValidator, Missing
  <2>2. TokenUnpauseValidator(o) \/ ~Malformed(TokenUnpaused(o))
    BY MarkWellFormed, MarkTypes, AbsentAssumption DEF TokenUnpauseValidator, TokenUnpaused, Missing
  <2> QED
    BY <1>8, <2>1, <2>2, RunKeeps DEF unpauseToken
<1> QED
  BY <1>1, <1>2, <1>3, <1>4, <1>5, <1>6, <1>7, <1>8 DEF Admitting

(* A list of entries that is not left out.                                 *)
LEMMA EnteredListed ==
    ASSUME NEW list \in Entered \cup Maybe(Seq(HbarEntry)), ~Empty(list)
    PROVE  list \in Seq(AllowanceEntry)
<1>1. CASE list \in Entered
  BY <1>1 DEF Entered, Maybe, Empty
<1>2. CASE list \in Maybe(Seq(HbarEntry))
  <2>1. list \in Seq(HbarEntry)
    BY <1>2 DEF Maybe, Empty
  <2>2. HbarEntry \subseteq AllowanceEntry
    BY DEF HbarEntry
  <2> QED
    BY <2>1, <2>2
<1> QED
  BY <1>1, <1>2

LEMMA ApprovingKeeps ==
    ASSUME HInv, NEW o \in Options, Approving(o)
    PROVE  HInv'
<1> DEFINE z == [o EXCEPT !.hbars = Zeroed(@)]
           y == [o EXCEPT !.units = Zeroed(@)]
<1>0. \A S : <<>> \in Seq(S)
  OBVIOUS
<1>1. CASE approveHbarAllowance(o)
  <2> DEFINE refused == Empty(o.hbars) \/ ApproveAllowanceValidator(o)
  <2>1. o \in HbarAllowances
    BY <1>1, OptionsTyped DEF approveHbarAllowance, Now
  <2>2. ASSUME ~refused PROVE ~Malformed(ApproveAllowance(o)) \/ NegativeHbar(o)
    <3>1. /\ o.hbars \in Seq(AllowanceEntry) /\ o.units \in Seq(AllowanceEntry)
          /\ o.nfts \in Seq(AllowanceEntry)
      BY <1>0, <2>1, <2>2, EnteredListed DEF HbarAllowances
    <3>2. CASE \A i \in DOMAIN o.hbars : ~(o.hbars[i].amount < 0)
      BY <2>2, <3>1, <3>2, ApproveWellFormed
    <3>3. CASE \E i \in DOMAIN o.hbars : o.hbars[i].amount < 0
      <4>1. PICK i \in DOMAIN o.hbars : o.hbars[i].amount < 0
        BY <3>3
      <4>2. o.hbars[i].amount # Absent
        BY <2>2 DEF ApproveAllowanceValidator
      <4>3. o.hbars[i].instance
        BY <2>2, <4>1, <4>2, Zenon DEF ApproveAllowanceValidator, BadAmount
      <4>4. ~Malformed(ApproveAllowance(z))
        <5> HIDE DEF z
        <5>1. z = [o EXCEPT !.hbars = Zeroed(@)]
          BY DEF z
        <5> QED
          BY <2>1, <2>2, <3>1, <5>1, ZeroedWellFormed
      <4>5. o.call = "approveHbarAllowance"
        BY <1>1 DEF approveHbarAllowance, Now
      <4> QED
        BY <4>1, <4>3, <4>4, <4>5 DEF NegativeHbar
    <3> QED
      BY <3>2, <3>3
  <2>3. refused \in BOOLEAN /\ (refused \/ ~Malformed(ApproveAllowance(o)) \/ NegativeHbar(o))
    BY <2>2 DEF Empty
  <2>4. run(o, refused, ApproveAllowance(o))
    BY <1>1 DEF approveHbarAllowance
  <2> HIDE DEF refused
  <2> QED
    BY <2>3, <2>4, RunKeeps
<1>2. CASE approveTokenAllowance(o)
  <2> DEFINE refused == Empty(o.units) \/ ApproveAllowanceValidator(o)
  <2>1. o \in TokenAllowances
    BY <1>2, OptionsTyped DEF approveTokenAllowance, Now
  <2>2. ASSUME ~refused PROVE ~Malformed(ApproveAllowance(o))
    <3>1. /\ o.hbars \in Seq(AllowanceEntry) /\ o.units \in Seq(AllowanceEntry)
          /\ o.nfts \in Seq(AllowanceEntry)
      BY <1>0, <2>1, <2>2, EnteredListed DEF TokenAllowances
    <3>2. DOMAIN o.hbars = {}
      BY <2>1 DEF TokenAllowances
    <3> QED
      BY <2>2, <3>1, <3>2, ApproveWellFormed
  <2>3. refused \in BOOLEAN /\ (refused \/ ~Malformed(ApproveAllowance(o)))
    BY <2>2 DEF Empty
  <2>4. run(o, refused, ApproveAllowance(o))
    BY <1>2 DEF approveTokenAllowance
  <2> HIDE DEF refused
  <2> QED
    BY <2>3, <2>4, RunKeeps
<1>3. CASE approveNftAllowance(o)
  <2> DEFINE refused == Empty(o.nfts) \/ ApproveAllowanceValidator(o)
  <2>1. o \in NftAllowances
    BY <1>3, OptionsTyped DEF approveNftAllowance, Now
  <2>2. ASSUME ~refused PROVE ~Malformed(ApproveAllowance(o))
    <3>1. /\ o.hbars \in Seq(AllowanceEntry) /\ o.units \in Seq(AllowanceEntry)
          /\ o.nfts \in Seq(AllowanceEntry)
      BY <1>0, <2>1, <2>2, EnteredListed DEF NftAllowances
    <3>2. DOMAIN o.hbars = {}
      BY <2>1 DEF NftAllowances
    <3> QED
      BY <2>2, <3>1, <3>2, ApproveWellFormed
  <2>3. refused \in BOOLEAN /\ (refused \/ ~Malformed(ApproveAllowance(o)))
    BY <2>2 DEF Empty
  <2>4. run(o, refused, ApproveAllowance(o))
    BY <1>3 DEF approveNftAllowance
  <2> HIDE DEF refused
  <2> QED
    BY <2>3, <2>4, RunKeeps
<1>4. CASE deleteHbarAllowance(o)
  <2> DEFINE refused == Empty(o.hbars) \/ ApproveAllowanceValidator(z)
  <2>1. o \in HbarAllowances
    BY <1>4, OptionsTyped DEF deleteHbarAllowance, Now
  <2>2. ASSUME ~refused PROVE ~Malformed(ApproveAllowance(z))
    <3>1. o.hbars \in Seq(AllowanceEntry)
      BY <2>1, <2>2, EnteredListed DEF HbarAllowances
    <3>2. z = [o EXCEPT !.hbars = Zeroed(@)]
      BY DEF z
    <3> HIDE DEF z
    <3> QED
      BY <2>1, <2>2, <3>1, <3>2, ZeroedWellFormed
  <2>3. refused \in BOOLEAN /\ (refused \/ ~Malformed(ApproveAllowance(z)))
    BY <2>2 DEF Empty
  <2>4. run(o, refused, ApproveAllowance(z))
    BY <1>4 DEF deleteHbarAllowance
  <2> HIDE DEF refused, z
  <2> QED
    BY <2>3, <2>4, RunKeeps
<1>5. CASE deleteTokenAllowance(o)
  <2> DEFINE refused == Empty(o.units) \/ ApproveAllowanceValidator(y)
  <2>1. o \in TokenAllowances
    BY <1>5, OptionsTyped DEF deleteTokenAllowance, Now
  <2>2. ASSUME ~refused PROVE ~Malformed(ApproveAllowance(y))
    <3>1. o.units \in Seq(AllowanceEntry)
      BY <2>1, <2>2, EnteredListed DEF TokenAllowances
    <3>2. Zeroed(o.units) \in Seq(AllowanceEntry)
      BY <3>1, ZeroedEntries
    <3>3. /\ y.hbars \in Seq(AllowanceEntry) /\ y.units \in Seq(AllowanceEntry)
          /\ y.nfts \in Seq(AllowanceEntry) /\ y.hbars = <<>>
      BY <1>0, <2>1, <3>2 DEF TokenAllowances
    <3> HIDE DEF y
    <3>4. DOMAIN y.hbars = {}
      BY <3>3
    <3> QED
      BY <2>2, <3>3, <3>4, ApproveWellFormed
  <2>3. refused \in BOOLEAN /\ (refused \/ ~Malformed(ApproveAllowance(y)))
    BY <2>2 DEF Empty
  <2>4. run(o, refused, ApproveAllowance(y))
    BY <1>5 DEF deleteTokenAllowance
  <2> HIDE DEF refused, y
  <2> QED
    BY <2>3, <2>4, RunKeeps
<1>6. CASE deleteNftAllowance(o)
  <2> DEFINE refused == Empty(o.nfts) \/ DeleteAllowanceValidator(o)
  <2>1. o \in NftAllowances
    BY <1>6, OptionsTyped DEF deleteNftAllowance, Now
  <2>2. ASSUME ~refused PROVE ~Malformed(DeleteAllowance(o))
    <3>1. o.nfts \in Seq(AllowanceEntry)
      BY <2>1, <2>2, EnteredListed DEF NftAllowances
    <3> QED
      BY <2>2, <3>1, DeleteWellFormed
  <2>3. refused \in BOOLEAN /\ (refused \/ ~Malformed(DeleteAllowance(o)))
    BY <2>2 DEF Empty
  <2>4. run(o, refused, DeleteAllowance(o))
    BY <1>6 DEF deleteNftAllowance
  <2> HIDE DEF refused
  <2> QED
    BY <2>3, <2>4, RunKeeps
<1>7. CASE deleteAllNftAllowances(o)
  <2> DEFINE refused == Empty(o.nfts) \/ DeleteAllNftAllowancesValidator(o)
  <2>1. o \in NftAllowances
    BY <1>7, OptionsTyped DEF deleteAllNftAllowances, Now
  <2>2. ASSUME ~refused PROVE ~Malformed(DeleteAllNftAllowances(o))
    <3>1. o.nfts \in Seq(AllowanceEntry)
      BY <2>1, <2>2, EnteredListed DEF NftAllowances
    <3> QED
      BY <2>2, <3>1, DeleteAllWellFormed
  <2>3. refused \in BOOLEAN /\ (refused \/ ~Malformed(DeleteAllNftAllowances(o)))
    BY <2>2 DEF Empty
  <2>4. run(o, refused, DeleteAllNftAllowances(o))
    BY <1>7 DEF deleteAllNftAllowances
  <2> HIDE DEF refused
  <2> QED
    BY <2>3, <2>4, RunKeeps
<1> QED
  BY <1>1, <1>2, <1>3, <1>4, <1>5, <1>6, <1>7 DEF Approving
-----------------------------------------------------------------------------
LEMMA HoldingsInit == ASSUME Init PROVE HInv
BY DEF Init, Idly, Step, HInv, NothingMalformedSent

LEMMA HoldingsNext == ASSUME HInv, Next PROVE HInv'
<1>1. ASSUME NEW o \in Options, Moving(o) \/ Supplying(o) \/ Admitting(o) \/ Approving(o)
      PROVE  HInv'
  BY <1>1, MovingKeeps, SupplyingKeeps, AdmittingKeeps, ApprovingKeeps
<1>2. CASE ExecuteScheduled
  <2>1. PICK s \in scheduled : Land(s.ask, s.tx) /\ scheduled' = scheduled \ {s} /\ flow' = flow
    BY <1>2 DEF ExecuteScheduled
  <2>2. ~Malformed(s.tx)
    BY DEF HInv
  <2> QED
    BY <2>1, <2>2 DEF Land, Step, Idly, HInv, NothingMalformedSent
<1>3. CASE DissociateRejected
  <2>1. ~Malformed(RejectSecond(flow))
    BY <1>3, RejectSecondWellFormed DEF DissociateRejected, HInv
  <2> QED
    BY <1>3, <2>1 DEF DissociateRejected, Land, Step, Idly, HInv, NothingMalformedSent
<1> QED
  BY <1>1, <1>2, <1>3 DEF Next

LEMMA HoldingsStutter == ASSUME HInv, UNCHANGED vars PROVE HInv'
BY DEF vars, HInv, NothingMalformedSent

(* Account and token services: whatever options the calls are given and in *)
(* whatever order they come, what was sent, what waits for signatures and  *)
(* the flow that has yet to dissociate are well formed.                    *)
THEOREM HoldingsInvariant == Spec => []HInv
BY HoldingsInit, HoldingsNext, HoldingsStutter, PTL DEF Spec

(* Validators: none of the 26 kinds of call, sent, scheduled or executed   *)
(* later, hands the network a transaction that no network takes, but for   *)
(* the approval of hbar, and there nothing is wrong but an instance of     *)
(* Hbar that is negative (ApproveAllowanceValidator.ts:53).                *)
THEOREM HoldingsNothingMalformedSent == Spec => []NothingMalformedSent
<1>1. HInv => NothingMalformedSent
  BY DEF HInv
<1> QED
  BY <1>1, HoldingsInvariant, PTL

-----------------------------------------------------------------------------
AllowanceTypes == {"AccountAllowanceApprove", "AccountAllowanceDelete"}

(* Both accounts of the allowances, and the one within the other.          *)
Allowed == IsABag(allow) /\ IsABag(granted) /\ SpendersWereApproved

SInv ==
    /\ Allowed
    /\ \A s \in scheduled : s.ask.call \notin Approvals /\ s.tx.type \notin AllowanceTypes

-----------------------------------------------------------------------------
(* Numbers up to n have a greatest one among them.                         *)
LEMMA GreatestNatural ==
    ASSUME NEW n \in Nat, NEW S \in SUBSET (1..n), S # {}
    PROVE  \E m \in S : \A k \in S : k <= m
<1> DEFINE R == {n - k : k \in S}
<1>1. R \in SUBSET Nat /\ R # {}
  <2>1. \A k \in S : n - k \in Nat
    OBVIOUS
  <2> QED
    BY <2>1
<1> HIDE DEF R
<1>2. PICK r \in R : \A q \in R : ~(q < r)
  BY <1>1, LeastNatural
<1>3. PICK m \in S : r = n - m
  BY DEF R
<1>4. \A k \in S : n - k \in R
  BY DEF R
<1>5. \A k \in S : ~(n - k < n - m)
  BY <1>2, <1>3, <1>4
<1> QED
  BY <1>5

(* A recursion over 1..n whose steps stay within T has a solution.         *)
Solved(T, b, n, F) ==
    \E f \in [0..n -> T] : f[0] = b /\ \A i \in 1..n : f[i] = F[<<f[i-1], i>>]

LEMMA Recursion ==
    ASSUME NEW T, NEW b \in T, NEW n \in Nat, NEW F \in [T \X (1..n) -> T]
    PROVE  Solved(T, b, n, F)
<1> DEFINE Solves(f, m) == f[0] = b /\ \A i \in 1..m : f[i] = F[<<f[i-1], i>>]
           Broken == {m \in 0..n : \A f \in [0..m -> T] : ~Solves(f, m)}
<1>1. Broken = {}
  <2> SUFFICES ASSUME Broken # {} PROVE FALSE
    OBVIOUS
  <2>1. Broken \in SUBSET Nat
    OBVIOUS
  <2>2. PICK m \in Broken : \A k \in Broken : ~(k < m)
    <3> HIDE DEF Broken
    <3> QED
      BY <2>1, LeastNatural
  <2>3. CASE m = 0
    <3>1. [i \in 0..0 |-> b] \in [0..m -> T] /\ Solves([i \in 0..0 |-> b], m)
      BY <2>3
    <3> QED
      BY <2>2, <3>1
  <2>4. CASE m # 0
    <3>1. m \in 1..n /\ m - 1 \in 0..n /\ m - 1 < m
      BY <2>2, <2>4
    <3>2. PICK f \in [0..(m-1) -> T] : Solves(f, m - 1)
      BY <2>2, <3>1
    <3> DEFINE h == [i \in 0..m |-> IF i = m THEN F[<<f[m-1], m>>] ELSE f[i]]
    <3>3. f[m-1] \in T /\ <<f[m-1], m>> \in T \X (1..n)
      BY <3>1
    <3>4. h \in [0..m -> T]
      <4>1. F[<<f[m-1], m>>] \in T
        BY <3>3
      <4>2. \A i \in 0..m : i # m => i \in 0..(m-1)
        BY <3>1
      <4>3. \A i \in 0..m : i # m => f[i] \in T
        BY <4>2
      <4> HIDE DEF Broken
      <4> QED
        BY <4>1, <4>3
    <3>5. h[0] = b
      BY <3>1, <3>2
    <3>6. ASSUME NEW i \in 1..m PROVE h[i] = F[<<h[i-1], i>>]
      <4>1. h[i-1] = f[i-1]
        BY <3>1
      <4>2. CASE i = m
        <5>1. h[i] = F[<<f[m-1], m>>]
          BY <4>2
        <5> QED
          BY <4>1, <4>2, <5>1
      <4>3. CASE i # m
        <5>1. i \in 1..(m-1) /\ h[i] = f[i]
          BY <4>3, <3>1
        <5> QED
          BY <4>1, <5>1, <3>2
      <4> QED
        BY <4>2, <4>3
    <3> QED
      BY <2>2, <3>4, <3>5, <3>6
  <2> QED
    BY <2>3, <2>4
<1>2. n \in 0..n
  OBVIOUS
<1>3. PICK f \in [0..n -> T] : Solves(f, n)
  <2> HIDE DEF Solves
  <2> QED
    BY <1>1, <1>2
<1> QED
  BY <1>3 DEF Solved

-----------------------------------------------------------------------------
(* What the network does with a list of grants.                            *)

(* One grant: it replaces what it names, and nothing else gets more.       *)
LEMMA GrantingOne ==
    ASSUME NEW B, IsABag(B), NEW g \in Grants
    PROVE  LET G == Granting(B, g) IN
           /\ IsABag(G)
           /\ DOMAIN G \subseteq DOMAIN B \cup {g.key}
           /\ \A h \in DOMAIN G : IF h = g.key THEN G[h] = g.amount
                                  ELSE h \in DOMAIN B /\ G[h] = B[h]
<1> DEFINE D == {h \in DOMAIN B : ~Replaces(g, h)}
           K == [h \in D |-> B[h]]
           O == Of(g.key, g.amount)
           G == K (+) O
<1>1. g.amount \in Nat /\ g.key \notin D
  BY DEF Grants, Replaces
<1>2. \A h \in DOMAIN B : B[h] \in Nat /\ B[h] > 0
  BY DEF IsABag
<1>3. DOMAIN O = IF g.amount > 0 THEN {g.key} ELSE {}
  BY <1>1 DEF Of, EmptyBag, SetToBag
<1>4. g.amount > 0 => O[g.key] = g.amount
  BY DEF Of
<1> HIDE DEF O
<1>5. DOMAIN G = D \cup DOMAIN O
  BY DEF (+)
<1>6. \A h \in DOMAIN G : G[h] = (IF h \in D THEN K[h] ELSE 0) + (IF h \in DOMAIN O THEN O[h] ELSE 0)
  BY <1>5 DEF (+)
<1>7. \A h \in DOMAIN G : IF h = g.key THEN G[h] = g.amount /\ g.amount > 0
                          ELSE h \in DOMAIN B /\ G[h] = B[h]
  <2> TAKE h \in DOMAIN G
  <2>1. CASE h = g.key
    <3>1. h \notin D /\ h \in DOMAIN O /\ g.amount > 0
      BY <1>1, <1>3, <1>5, <2>1
    <3>2. G[h] = 0 + g.amount
      BY <1>4, <1>6, <2>1, <3>1
    <3> QED
      BY <1>1, <2>1, <3>1, <3>2
  <2>2. CASE h # g.key
    <3>1. h \in D /\ h \notin DOMAIN O
      BY <1>3, <1>5, <2>2
    <3>2. K[h] = B[h] /\ h \in DOMAIN B
      BY <3>1
    <3>3. G[h] = B[h] + 0
      BY <1>6, <3>1, <3>2
    <3> QED
      BY <1>2, <2>2, <3>2, <3>3
  <2> QED
    BY <2>1, <2>2
<1>8. G = [h \in DOMAIN G |-> G[h]]
  BY DEF (+)
<1>9. Granting(B, g) = G
  BY DEF Granting, O
<1> HIDE DEF G
<1>10. \A h \in DOMAIN G : G[h] \in {n \in Nat : n > 0}
  BY <1>1, <1>2, <1>7
<1>11. IsABag(G)
  BY <1>8, <1>10 DEF IsABag
<1>12. DOMAIN G \subseteq DOMAIN B \cup {g.key}
  BY <1>7
<1> QED
  BY <1>7, <1>9, <1>11, <1>12

(* Where an allowance stems from, m grants on: from before, or from the    *)
(* last of the grants that name it.                                        *)
Stems(B, grants, m, h) ==
    \/ h \in DOMAIN allow /\ B[h] = allow[h] /\ \A i \in 1..m : grants[i].key # h
    \/ \E i \in 1..m : /\ grants[i].key = h /\ B[h] = grants[i].amount
                       /\ \A j \in 1..m : grants[j].key = h => j <= i

Traced(B, grants, m) == IsABag(B) /\ \A h \in DOMAIN B : Stems(B, grants, m, h)

LEMMA TracedOn ==
    ASSUME NEW grants \in Seq(Grants), NEW m \in 1..Len(grants),
           NEW B, Traced(B, grants, m - 1)
    PROVE  Traced(Granting(B, grants[m]), grants, m)
<1> DEFINE g == grants[m]
           G == Granting(B, g)
<1>1. g \in Grants
  OBVIOUS
<1> HIDE DEF g
<1>2. /\ IsABag(G)
      /\ \A h \in DOMAIN G : IF h = g.key THEN G[h] = g.amount ELSE h \in DOMAIN B /\ G[h] = B[h]
  BY <1>1, GrantingOne DEF Traced
<1> HIDE DEF G
<1>3. ASSUME NEW h \in DOMAIN G PROVE Stems(G, grants, m, h)
  <2>1. CASE h = g.key
    <3>1. m \in 1..m /\ \A j \in 1..m : j <= m
      OBVIOUS
    <3>2. grants[m].key = h /\ G[h] = grants[m].amount
      BY <1>2, <2>1 DEF g
    <3> QED
      BY <3>1, <3>2 DEF Stems
  <2>2. CASE h # g.key
    <3>1. h \in DOMAIN B /\ G[h] = B[h] /\ grants[m].key # h
      BY <1>2, <2>2 DEF g
    <3>2. \A i \in 1..m : i # m => i \in 1..(m - 1)
      OBVIOUS
    <3>3. \A i \in 1..(m - 1) : i \in 1..m
      OBVIOUS
    <3>4. Stems(B, grants, m - 1, h)
      BY <3>1 DEF Traced
    <3>5. CASE h \in DOMAIN allow /\ B[h] = allow[h] /\ \A i \in 1..(m - 1) : grants[i].key # h
      BY <3>1, <3>2, <3>5 DEF Stems
    <3>6. CASE \E i \in 1..(m - 1) : /\ grants[i].key = h /\ B[h] = grants[i].amount
                                     /\ \A j \in 1..(m - 1) : grants[j].key = h => j <= i
      BY <3>1, <3>2, <3>3, <3>6 DEF Stems
    <3> QED
      BY <3>4, <3>5, <3>6 DEF Stems
  <2> QED
    BY <2>1, <2>2
<1> QED
  BY <1>2, <1>3 DEF Traced, G, g

(* All grants, one after the other.                                        *)
LEMMA GrantedLast ==
    ASSUME IsABag(allow), NEW tx, tx.grants \in Seq(Grants), AccountAllowanceApprove(tx)
    PROVE  Traced(allow', tx.grants, Len(tx.grants))
<1> DEFINE grants == tx.grants
           n == Len(grants)
           K == DOMAIN allow \cup {grants[i].key : i \in 1..n}
           T == {B \in UNION {[D -> Nat] : D \in SUBSET K} : IsABag(B)}
           F == [p \in T \X (1..n) |-> Granting(p[1], grants[p[2]])]
           After == CHOOSE f : f = [i \in 0..n |-> IF i = 0 THEN allow
                                                   ELSE Granting(f[i-1], grants[i])]
           Astray == {i \in 0..n : ~Traced(After[i], grants, i)}
<1>1. n \in Nat /\ \A i \in 1..n : grants[i] \in Grants
  OBVIOUS
<1>2. \A B : IsABag(B) /\ DOMAIN B \subseteq K => B \in T
  <2> HIDE DEF K
  <2> TAKE B
  <2> HAVE IsABag(B) /\ DOMAIN B \subseteq K
  <2>1. B \in [DOMAIN B -> Nat] /\ DOMAIN B \in SUBSET K
    BY DEF IsABag
  <2> QED
    BY <2>1
<1>3. allow \in T
  BY <1>2
<1>4. ASSUME NEW B \in T, NEW i \in 1..n PROVE Granting(B, grants[i]) \in T
  <2>1. IsABag(B) /\ DOMAIN B \subseteq K
    OBVIOUS
  <2>2. grants[i] \in Grants /\ grants[i].key \in K
    BY <1>1
  <2> HIDE DEF K, T
  <2>3. IsABag(Granting(B, grants[i])) /\ DOMAIN Granting(B, grants[i]) \subseteq K
    BY <2>1, <2>2, GrantingOne
  <2> QED
    BY <1>2, <2>3
<1>5. F \in [T \X (1..n) -> T]
  <2> HIDE DEF T
  <2> QED
    BY <1>4
<1> HIDE DEF T
<1>6. PICK f \in [0..n -> T] : f[0] = allow /\ \A i \in 1..n : f[i] = F[<<f[i-1], i>>]
  <2>1. n \in Nat
    BY <1>1
  <2> HIDE DEF F, n
  <2>2. Solved(T, allow, n, F)
    BY <1>3, <1>5, <2>1, Recursion
  <2> QED
    BY <2>2 DEF Solved
<1>7. \A i \in 1..n : f[i] = Granting(f[i-1], grants[i])
  <2> TAKE i \in 1..n
  <2>1. i - 1 \in 0..n
    BY <1>1
  <2>2. <<f[i-1], i>> \in T \X (1..n)
    BY <2>1
  <2> QED
    BY <1>6, <2>2
<1>8. f = [i \in 0..n |-> IF i = 0 THEN allow ELSE Granting(f[i-1], grants[i])]
  <2>1. \A i \in 0..n : f[i] = IF i = 0 THEN allow ELSE Granting(f[i-1], grants[i])
    BY <1>1, <1>6, <1>7
  <2> QED
    BY <2>1
<1>9. After = [i \in 0..n |-> IF i = 0 THEN allow ELSE Granting(After[i-1], grants[i])]
  BY <1>8
<1>10. allow' = After[n]
  BY DEF AccountAllowanceApprove
<1> HIDE DEF After
<1>11. After[0] = allow /\ \A i \in 1..n : After[i] = Granting(After[i-1], grants[i])
  <2>1. 0 \in 0..n /\ \A i \in 1..n : i \in 0..n /\ i # 0
    BY <1>1
  <2> HIDE DEF grants, n, F, Astray
  <2> QED
    BY <1>9, <2>1
<1>12. Astray = {}
  <2> SUFFICES ASSUME Astray # {} PROVE FALSE
    OBVIOUS
  <2>1. Astray \in SUBSET Nat
    BY <1>1
  <2>2. PICK m \in Astray : \A k \in Astray : ~(k < m)
    <3> HIDE DEF Astray
    <3> QED
      BY <2>1, LeastNatural
  <2>3. CASE m = 0
    <3>1. Traced(allow, grants, 0)
      BY DEF Traced, Stems
    <3> QED
      BY <1>11, <2>2, <2>3, <3>1
  <2>4. CASE m # 0
    <3>1. m \in 1..n /\ m - 1 \in 0..n /\ m - 1 < m
      BY <1>1, <2>2, <2>4
    <3>2. Traced(After[m-1], grants, m - 1)
      BY <2>2, <3>1
    <3>3. Traced(Granting(After[m-1], grants[m]), grants, m)
      BY <3>1, <3>2, TracedOn
    <3> QED
      BY <1>11, <2>2, <3>1, <3>3
  <2> QED
    BY <2>3, <2>4
<1>13. n \in 0..n
  BY <1>1
<1> QED
  BY <1>10, <1>12, <1>13

-----------------------------------------------------------------------------
(* What the callers have asked for, after another call.                    *)

(* Renewed: what no entry names stays, what some entry names is what the   *)
(* last of them says.                                                      *)
Heard(R, o, E, n) ==
    /\ IsABag(R)
    /\ \A h \in DOMAIN granted :
          (\A i \in 1..n : h \notin Keys(o, E[i])) => h \in DOMAIN R /\ R[h] = granted[h]
    /\ \A i \in 1..n : \A h \in Keys(o, E[i]) :
          (\A j \in 1..n : h \in Keys(o, E[j]) => j <= i) /\ AmountOf(o, E[i]) > 0
             => h \in DOMAIN R /\ R[h] = AmountOf(o, E[i])

LEMMA RenewedOf ==
    ASSUME IsABag(granted), NEW o, NEW n \in Nat, DOMAIN Entries(o) = 1..n,
           \A i \in 1..n : AmountOf(o, Entries(o)[i]) \in Nat
    PROVE  Heard(Renewed(o), o, Entries(o), n)
<1> DEFINE E == Entries(o)
           About(g) == {i \in DOMAIN E : g \in Keys(o, E[i])}
           Latest(g) == CHOOSE i \in About(g) : \A j \in About(g) : j <= i
           After(g) == IF About(g) = {} THEN granted[g] ELSE AmountOf(o, E[Latest(g)])
           all == DOMAIN granted \cup UNION {Keys(o, E[i]) : i \in DOMAIN E}
<1>1. Renewed(o) = [g \in {g \in all : After(g) > 0} |-> After(g)]
  BY DEF Renewed
<1>2. ASSUME NEW g, About(g) # {}
      PROVE  Latest(g) \in About(g) /\ \A j \in About(g) : j <= Latest(g)
  <2>1. About(g) \in SUBSET (1..n)
    OBVIOUS
  <2> HIDE DEF About
  <2>2. \E m \in About(g) : \A k \in About(g) : k <= m
    BY <1>2, <2>1, GreatestNatural
  <2> QED
    BY <2>2
<1>3. ASSUME NEW g \in all PROVE After(g) \in Nat
  <2>1. CASE About(g) = {}
    <3>1. g \in DOMAIN granted
      BY <2>1
    <3> QED
      BY <2>1, <3>1 DEF IsABag
  <2>2. CASE About(g) # {}
    <3>1. Latest(g) \in 1..n
      BY <1>2, <2>2
    <3> HIDE DEF Latest, About
    <3> QED
      BY <2>2, <3>1
  <2> QED
    BY <2>1, <2>2
<1>4. IsABag(Renewed(o))
  <2> DEFINE D == {g \in all : After(g) > 0}
  <2>1. \A g \in D : After(g) \in {k \in Nat : k > 0}
    BY <1>3
  <2> HIDE DEF After, all
  <2>2. DOMAIN Renewed(o) = D /\ Renewed(o) = [g \in D |-> After(g)]
    BY <1>1
  <2> HIDE DEF D
  <2> QED
    BY <2>1, <2>2 DEF IsABag
<1>5. ASSUME NEW h \in DOMAIN granted, \A i \in 1..n : h \notin Keys(o, E[i])
      PROVE  h \in DOMAIN Renewed(o) /\ Renewed(o)[h] = granted[h]
  <2>1. About(h) = {}
    BY <1>5
  <2>2. After(h) = granted[h] /\ h \in all
    BY <2>1
  <2>3. granted[h] > 0
    BY DEF IsABag
  <2> HIDE DEF After, all
  <2> QED
    BY <1>1, <2>2, <2>3
<1>6. ASSUME NEW i \in 1..n, NEW h \in Keys(o, E[i]), AmountOf(o, E[i]) > 0,
             \A j \in 1..n : h \in Keys(o, E[j]) => j <= i
      PROVE  h \in DOMAIN Renewed(o) /\ Renewed(o)[h] = AmountOf(o, E[i])
  <2>1. i \in About(h) /\ \A j \in About(h) : j <= i
    BY <1>6
  <2>2. Latest(h) = i
    <3>1. Latest(h) \in About(h) /\ Latest(h) <= i /\ i <= Latest(h)
      <4> HIDE DEF Latest, About
      <4> QED
        BY <1>2, <2>1
    <3>2. Latest(h) \in 1..n
      BY <3>1
    <3> HIDE DEF Latest
    <3> QED
      BY <3>1, <3>2
  <2>3. h \in all /\ About(h) # {}
    BY <2>1
  <2> HIDE DEF Latest, About, all
  <2>4. After(h) = AmountOf(o, E[i])
    BY <2>2, <2>3
  <2> HIDE DEF After
  <2> QED
    BY <1>1, <1>6, <2>3, <2>4
<1> QED
  BY <1>4, <1>5, <1>6 DEF Heard

(* The approvals with one grant to an entry.                               *)
LEMMA OneByOne ==
    ASSUME Allowed, NEW o, NEW tx, tx.grants \in Seq(Grants), AccountAllowanceApprove(tx),
           granted' = Renewed(o), DOMAIN Entries(o) = 1..Len(tx.grants),
           \A i \in 1..Len(tx.grants) : /\ Keys(o, Entries(o)[i]) = {tx.grants[i].key}
                                        /\ AmountOf(o, Entries(o)[i]) = tx.grants[i].amount
    PROVE  Allowed'
<1> DEFINE gs == tx.grants
           n == Len(gs)
           E == Entries(o)
<1>1. n \in Nat /\ \A i \in 1..n : gs[i].amount \in Nat
  <2>1. n \in Nat /\ \A i \in 1..n : gs[i] \in Grants
    OBVIOUS
  <2> QED
    BY <2>1 DEF Grants
<1>2. IsABag(allow) /\ IsABag(granted) /\ DOMAIN allow \subseteq DOMAIN granted
      /\ \A h \in DOMAIN allow : allow[h] <= granted[h]
  BY DEF Allowed, SpendersWereApproved, \sqsubseteq
<1>3. Traced(allow', gs, n)
  BY <1>2, GrantedLast
<1>4. /\ IsABag(granted')
      /\ \A h \in DOMAIN granted : (\A i \in 1..n : h \notin Keys(o, E[i]))
            => h \in DOMAIN granted' /\ granted'[h] = granted[h]
      /\ \A i \in 1..n : \A h \in Keys(o, E[i]) :
            (\A j \in 1..n : h \in Keys(o, E[j]) => j <= i) /\ AmountOf(o, E[i]) > 0
            => h \in DOMAIN granted' /\ granted'[h] = AmountOf(o, E[i])
  <2> HIDE DEF gs, n
  <2>1. DOMAIN Entries(o) = 1..n /\ \A i \in 1..n : AmountOf(o, Entries(o)[i]) = gs[i].amount
    BY DEF gs, n
  <2>2. Heard(granted', o, E, n)
    BY <1>1, <1>2, <2>1, RenewedOf
  <2> HIDE DEF E
  <2> QED
    BY <2>2 DEF Heard
<1>5. ASSUME NEW h \in DOMAIN allow' PROVE h \in DOMAIN granted' /\ allow'[h] <= granted'[h]
  <2>1. Stems(allow', gs, n, h) /\ allow'[h] \in Nat /\ allow'[h] > 0
    BY <1>3 DEF Traced, IsABag
  <2> HIDE DEF gs, n, E
  <2>2. \A i \in 1..n : Keys(o, E[i]) = {gs[i].key} /\ AmountOf(o, E[i]) = gs[i].amount
    BY DEF gs, n, E
  <2>3. CASE h \in DOMAIN allow /\ allow'[h] = allow[h] /\ \A i \in 1..n : gs[i].key # h
    <3>1. h \in DOMAIN granted' /\ granted'[h] = granted[h]
      BY <1>2, <1>4, <2>2, <2>3
    <3> QED
      BY <1>2, <2>3, <3>1
  <2>4. CASE \E i \in 1..n : /\ gs[i].key = h /\ allow'[h] = gs[i].amount
                             /\ \A j \in 1..n : gs[j].key = h => j <= i
    <3>1. PICK i \in 1..n : /\ gs[i].key = h /\ allow'[h] = gs[i].amount
                            /\ \A j \in 1..n : gs[j].key = h => j <= i
      BY <2>4
    <3>2. h \in Keys(o, E[i]) /\ AmountOf(o, E[i]) > 0
          /\ \A j \in 1..n : h \in Keys(o, E[j]) => j <= i
      BY <2>1, <2>2, <3>1
    <3>3. h \in DOMAIN granted' /\ granted'[h] = allow'[h]
      BY <1>4, <2>2, <3>1, <3>2
    <3> QED
      BY <2>1, <3>3
  <2> QED
    BY <2>1, <2>3, <2>4 DEF Stems
<1> QED
  BY <1>3, <1>4, <1>5 DEF Allowed, SpendersWereApproved, \sqsubseteq, Traced

(* The grants that the options of one kind of token build: as many as the  *)
(* entries, in their order.                                                *)
LEMMA OnlyHbars ==
    ASSUME NEW o, o.units = <<>>, o.nfts = <<>>, o.hbars \in Seq(AllowanceEntry)
    PROVE  ApproveAllowance(o).grants
              = [i \in 1..Len(o.hbars) |-> Grant(Units(Hbar), o.hbars[i], o.hbars[i].amount)]
<1> DEFINE H == [i \in DOMAIN o.hbars |-> Grant(Units(Hbar), o.hbars[i], o.hbars[i].amount)]
<1>1. [i \in DOMAIN o.units |-> Grant(Units(o.units[i].token), o.units[i], o.units[i].amount)] = <<>>
  OBVIOUS
<1>2. FlattenSeq([i \in DOMAIN o.nfts |-> NftGrants(o.nfts[i])]) = <<>>
  <2>1. [i \in DOMAIN o.nfts |-> NftGrants(o.nfts[i])] = <<>>
    OBVIOUS
  <2> QED
    BY <2>1 DEF FlattenSeq
<1>3. ApproveAllowance(o).grants = H \o <<>> \o <<>>
  BY <1>1, <1>2 DEF ApproveAllowance
<1>4. DOMAIN o.hbars = 1..Len(o.hbars) /\ Len(o.hbars) \in Nat
  OBVIOUS
<1>5. H \in Seq({H[i] : i \in 1..Len(o.hbars)})
  BY <1>4
<1> HIDE DEF H
<1>6. H \o <<>> \o <<>> = H
  BY <1>5
<1> QED
  BY <1>3, <1>4, <1>6 DEF H

LEMMA OnlyUnits ==
    ASSUME NEW o, o.hbars = <<>>, o.nfts = <<>>, o.units \in Seq(AllowanceEntry)
    PROVE  ApproveAllowance(o).grants
              = [i \in 1..Len(o.units) |->
                    Grant(Units(o.units[i].token), o.units[i], o.units[i].amount)]
<1> DEFINE U == [i \in DOMAIN o.units |->
                    Grant(Units(o.units[i].token), o.units[i], o.units[i].amount)]
<1>1. [i \in DOMAIN o.hbars |-> Grant(Units(Hbar), o.hbars[i], o.hbars[i].amount)] = <<>>
  OBVIOUS
<1>2. FlattenSeq([i \in DOMAIN o.nfts |-> NftGrants(o.nfts[i])]) = <<>>
  <2>1. [i \in DOMAIN o.nfts |-> NftGrants(o.nfts[i])] = <<>>
    OBVIOUS
  <2> QED
    BY <2>1 DEF FlattenSeq
<1>3. ApproveAllowance(o).grants = <<>> \o U \o <<>>
  BY <1>1, <1>2 DEF ApproveAllowance
<1>4. DOMAIN o.units = 1..Len(o.units) /\ Len(o.units) \in Nat
  OBVIOUS
<1>5. U \in Seq({U[i] : i \in 1..Len(o.units)})
  BY <1>4
<1> HIDE DEF U
<1>6. <<>> \o U \o <<>> = U
  BY <1>5
<1> QED
  BY <1>3, <1>4, <1>6 DEF U

(* The entries of one kind.                                                *)
LEMMA EntriesOfOne ==
    ASSUME NEW S, NEW list \in Seq(S), ~Empty(list)
    PROVE  /\ Listed(list) \o Listed(<<>>) \o Listed(<<>>) = list
           /\ Listed(<<>>) \o Listed(list) \o Listed(<<>>) = list
           /\ Listed(<<>>) \o Listed(<<>>) \o Listed(list) = list
<1>1. Listed(<<>>) = <<>>
  BY DEF Listed, Empty
<1>2. list \in Seq(S)
  OBVIOUS
<1>3. Listed(list) = list
  BY DEF Listed
<1>4. list \o <<>> = list /\ <<>> \o list = list /\ <<>> \o <<>> = <<>>
  BY <1>2
<1> QED
  BY <1>1, <1>3, <1>4

(* An approval that lands is of the kind its token is.                     *)
LEMMA KindFits ==
    ASSUME NEW tx, AccountAllowanceApprove(tx), NEW i \in DOMAIN tx.grants
    PROVE  tx.grants[i].nft <=> tx.grants[i].key[1][1] \in Collections
BY DEF AccountAllowanceApprove

(* Of the amounts of hbar that the network takes none is below zero.       *)
LEMMA NoneNegative ==
    ASSUME NEW a, a.units = <<>>, a.nfts = <<>>, a.hbars \in Seq(AllowanceEntry),
           ~Malformed(ApproveAllowance(a))
    PROVE  \A i \in DOMAIN a.hbars : ~(a.hbars[i].amount < 0)
<1> DEFINE tx == ApproveAllowance(a)
<1>1. ASSUME NEW i \in DOMAIN a.hbars
      PROVE  i \in DOMAIN tx.grants /\ tx.grants[i].amount = a.hbars[i].amount
  <2>1. DOMAIN a.hbars = 1..Len(a.hbars)
    OBVIOUS
  <2>2. tx.grants = [k \in 1..Len(a.hbars) |-> Grant(Units(Hbar), a.hbars[k], a.hbars[k].amount)]
    BY OnlyHbars
  <2> HIDE DEF tx
  <2>3. i \in DOMAIN tx.grants /\ tx.grants[i] = Grant(Units(Hbar), a.hbars[i], a.hbars[i].amount)
    BY <2>1, <2>2
  <2> QED
    BY <2>3 DEF Grant
<1>2. tx.type = "AccountAllowanceApprove"
  BY DEF ApproveAllowance
<1> HIDE DEF tx
<1>3. ~Malformed(tx)
  BY DEF tx
<1>4. \A i \in DOMAIN tx.grants : ~(tx.grants[i].amount < 0)
  BY <1>2, <1>3 DEF Malformed
<1> QED
  BY <1>1, <1>4

(* approveHbarAllowance and deleteHbarAllowance: each entry grants its     *)
(* amount, or none; a is what is built from o.                             *)
LEMMA HbarsAllowed ==
    ASSUME Allowed, NEW o \in HbarAllowances, ~Empty(o.hbars), NEW a,
           a.units = <<>>, a.nfts = <<>>, a.hbars \in Seq(AllowanceEntry),
           Len(a.hbars) = Len(o.hbars),
           \A i \in 1..Len(o.hbars) : /\ a.hbars[i].owner = o.hbars[i].owner
                                      /\ a.hbars[i].spender = o.hbars[i].spender
                                      /\ Hbar \notin Collections =>
                                            a.hbars[i].amount = AmountOf(o, o.hbars[i]),
           ~ApproveAllowanceValidator(a), ~Malformed(ApproveAllowance(a)),
           AccountAllowanceApprove(ApproveAllowance(a)),
           o.call # "deleteNftAllowance", granted' = Renewed(o)
    PROVE  Allowed'
<1> DEFINE tx == ApproveAllowance(a)
           n == Len(o.hbars)
<1>1. o.hbars \in Seq(HbarEntry) /\ o.units = <<>> /\ o.nfts = <<>>
  BY DEF HbarAllowances, Maybe, Empty
<1>2. Entries(o) = o.hbars
  BY <1>1, EntriesOfOne DEF Entries
<1>3. tx.grants \in Seq(Grants)
  <2>1. \A S : <<>> \in Seq(S)
    OBVIOUS
  <2>2. \A i \in DOMAIN a.hbars : ~(a.hbars[i].amount < 0)
    BY NoneNegative
  <2> QED
    BY <2>1, <2>2, ApproveGranted
<1>4. tx.grants = [i \in 1..n |-> Grant(Units(Hbar), a.hbars[i], a.hbars[i].amount)]
  BY OnlyHbars
<1>5. n \in Nat /\ DOMAIN Entries(o) = 1..n /\ \A i \in 1..n : o.hbars[i].token = Hbar
  <2>1. \A i \in 1..n : o.hbars[i] \in HbarEntry
    BY <1>1
  <2> QED
    BY <1>1, <1>2, <2>1 DEF HbarEntry
<1>6. Len(tx.grants) = n
  <2> HIDE DEF tx, n
  <2> QED
    BY <1>4, <1>5
<1>7. ASSUME NEW i \in 1..n
      PROVE  /\ Keys(o, Entries(o)[i]) = {tx.grants[i].key}
             /\ AmountOf(o, Entries(o)[i]) = tx.grants[i].amount
  <2> DEFINE e == o.hbars[i]
  <2>1. /\ tx.grants[i].nft = FALSE
        /\ tx.grants[i].key = <<<<Hbar, 0>>, e.owner, e.spender>>
        /\ Hbar \notin Collections => tx.grants[i].amount = AmountOf(o, e)
    <3>1. tx.grants[i] = Grant(Units(Hbar), a.hbars[i], a.hbars[i].amount)
      <4> HIDE DEF tx, n
      <4> QED
        BY <1>4
    <3> HIDE DEF tx
    <3> QED
      BY <3>1 DEF Grant, Units
  <2>2. Hbar \notin Collections
    <3>1. i \in DOMAIN tx.grants
      BY <1>4
    <3>2. tx.grants[i].nft <=> tx.grants[i].key[1][1] \in Collections
      BY <3>1, KindFits
    <3> HIDE DEF tx
    <3> QED
      BY <2>1, <3>2
  <2>3. Keys(o, e) = ({Hbar} \X {0}) \X {e.owner} \X {e.spender}
    BY <1>5, <2>2 DEF Keys
  <2> HIDE DEF e, tx, n
  <2>4. Keys(o, e) = {<<<<Hbar, 0>>, e.owner, e.spender>>}
    BY <2>3
  <2> QED
    BY <1>2, <2>1, <2>2, <2>4 DEF e
<1> HIDE DEF tx, n
<1>8. AccountAllowanceApprove(tx)
  BY DEF tx
<1> QED
  BY <1>3, <1>5, <1>6, <1>7, <1>8, OneByOne

(* approveTokenAllowance and deleteTokenAllowance, likewise.               *)
LEMMA UnitsAllowed ==
    ASSUME Allowed, NEW o \in TokenAllowances, ~Empty(o.units), NEW a,
           a.hbars = <<>>, a.nfts = <<>>, a.units \in Seq(AllowanceEntry),
           Len(a.units) = Len(o.units),
           \A i \in 1..Len(o.units) : /\ a.units[i].token = o.units[i].token
                                      /\ a.units[i].owner = o.units[i].owner
                                      /\ a.units[i].spender = o.units[i].spender
                                      /\ o.units[i].token \notin Collections =>
                                            a.units[i].amount = AmountOf(o, o.units[i]),
           ~ApproveAllowanceValidator(a), AccountAllowanceApprove(ApproveAllowance(a)),
           o.call # "deleteNftAllowance", granted' = Renewed(o)
    PROVE  Allowed'
<1> DEFINE tx == ApproveAllowance(a)
           n == Len(o.units)
<1>1. o.units \in Seq(AllowanceEntry) /\ o.hbars = <<>> /\ o.nfts = <<>>
  BY DEF TokenAllowances, Entered, Maybe, Empty
<1>2. Entries(o) = o.units
  BY <1>1, EntriesOfOne DEF Entries
<1>3. tx.grants \in Seq(Grants)
  <2>1. \A S : <<>> \in Seq(S)
    OBVIOUS
  <2>2. DOMAIN a.hbars = {}
    OBVIOUS
  <2> QED
    BY <2>1, <2>2, ApproveGranted
<1>4. tx.grants = [i \in 1..n |-> Grant(Units(a.units[i].token), a.units[i], a.units[i].amount)]
  BY OnlyUnits
<1>5. n \in Nat /\ DOMAIN Entries(o) = 1..n
  BY <1>1, <1>2
<1>6. Len(tx.grants) = n
  <2> HIDE DEF tx, n
  <2> QED
    BY <1>4, <1>5
<1>7. ASSUME NEW i \in 1..n
      PROVE  /\ Keys(o, Entries(o)[i]) = {tx.grants[i].key}
             /\ AmountOf(o, Entries(o)[i]) = tx.grants[i].amount
  <2> DEFINE e == o.units[i]
  <2>1. /\ tx.grants[i].nft = FALSE
        /\ tx.grants[i].key = <<<<e.token, 0>>, e.owner, e.spender>>
        /\ e.token \notin Collections => tx.grants[i].amount = AmountOf(o, e)
    <3>1. tx.grants[i] = Grant(Units(a.units[i].token), a.units[i], a.units[i].amount)
      <4> HIDE DEF tx, n
      <4> QED
        BY <1>4
    <3> HIDE DEF tx
    <3> QED
      BY <3>1 DEF Grant, Units
  <2>2. e.token \notin Collections
    <3>1. i \in DOMAIN tx.grants
      BY <1>4
    <3>2. tx.grants[i].nft <=> tx.grants[i].key[1][1] \in Collections
      BY <3>1, KindFits
    <3> HIDE DEF tx, e
    <3> QED
      BY <2>1, <3>2
  <2>3. Keys(o, e) = ({e.token} \X {0}) \X {e.owner} \X {e.spender}
    BY <2>2 DEF Keys
  <2> HIDE DEF e, tx, n
  <2>4. Keys(o, e) = {<<<<e.token, 0>>, e.owner, e.spender>>}
    BY <2>3
  <2> QED
    BY <1>2, <2>1, <2>2, <2>4 DEF e
<1> HIDE DEF tx, n
<1>8. AccountAllowanceApprove(tx)
  BY DEF tx
<1> QED
  BY <1>3, <1>5, <1>6, <1>7, <1>8, OneByOne

(* deleteAllNftAllowances: an entry grants none of the serials.            *)
LEMMA AllRevoked ==
    ASSUME Allowed, NEW o \in NftAllowances, ~Empty(o.nfts),
           ~DeleteAllNftAllowancesValidator(o), o.call = "deleteAllNftAllowances",
           AccountAllowanceApprove(DeleteAllNftAllowances(o)), granted' = Renewed(o)
    PROVE  Allowed'
<1> DEFINE tx == DeleteAllNftAllowances(o)
           n == Len(o.nfts)
<1>1. o.nfts \in Seq(AllowanceEntry) /\ o.hbars = <<>> /\ o.units = <<>>
  BY DEF NftAllowances, Entered, Maybe, Empty
<1>2. Entries(o) = o.nfts
  BY <1>1, EntriesOfOne DEF Entries
<1>3. tx.grants \in Seq(Grants)
  BY <1>1, DeleteAllGranted
<1>4. n \in Nat /\ DOMAIN Entries(o) = 1..n /\ DOMAIN o.nfts = 1..n
  BY <1>1, <1>2
<1>5. tx.grants = [i \in 1..n |-> GrantNft(0, o.nfts[i], 0)]
  BY <1>4 DEF DeleteAllNftAllowances
<1>6. Len(tx.grants) = n
  <2> HIDE DEF tx, n
  <2> QED
    BY <1>4, <1>5
<1>7. ASSUME NEW i \in 1..n
      PROVE  /\ Keys(o, Entries(o)[i]) = {tx.grants[i].key}
             /\ AmountOf(o, Entries(o)[i]) = tx.grants[i].amount
  <2> DEFINE e == o.nfts[i]
  <2>1. /\ tx.grants[i].key = <<<<e.token, 0>>, e.owner, e.spender>>
        /\ tx.grants[i].amount = 0
    <3>1. tx.grants[i] = GrantNft(0, o.nfts[i], 0)
      <4> HIDE DEF tx, n
      <4> QED
        BY <1>5
    <3> HIDE DEF tx
    <3> QED
      BY <3>1 DEF GrantNft
  <2>2. Keys(o, e) = ({e.token} \X {0}) \X {e.owner} \X {e.spender}
    BY DEF Keys
  <2>3. AmountOf(o, e) = 0
    BY DEF AmountOf
  <2> HIDE DEF e, tx, n
  <2>4. Keys(o, e) = {<<<<e.token, 0>>, e.owner, e.spender>>}
    BY <2>2
  <2> QED
    BY <1>2, <2>1, <2>3, <2>4 DEF e
<1> HIDE DEF tx, n
<1>8. AccountAllowanceApprove(tx)
  BY DEF tx
<1> QED
  BY <1>3, <1>4, <1>6, <1>7, <1>8, OneByOne

-----------------------------------------------------------------------------
(* Entries that name several serials: what a flattened list is made of.    *)
LEMMA ElementsAppended ==
    ASSUME NEW V, NEW a \in Seq(V), NEW b \in Seq(V)
    PROVE  a \o b \in Seq(V) /\ ToSet(a \o b) = ToSet(a) \cup ToSet(b)
<1> DEFINE c == a \o b
<1>1. Len(a) \in Nat /\ Len(b) \in Nat /\ DOMAIN a = 1..Len(a) /\ DOMAIN b = 1..Len(b)
  OBVIOUS
<1>2. /\ c \in Seq(V) /\ Len(c) = Len(a) + Len(b)
      /\ \A i \in 1..(Len(a) + Len(b)) : c[i] = IF i <= Len(a) THEN a[i] ELSE b[i - Len(a)]
  OBVIOUS
<1> HIDE DEF c
<1>3. DOMAIN c = 1..(Len(a) + Len(b))
  BY <1>1, <1>2
<1>4. ASSUME NEW i \in 1..(Len(a) + Len(b)) PROVE c[i] \in ToSet(a) \cup ToSet(b)
  <2>1. CASE i <= Len(a)
    <3>1. i \in DOMAIN a /\ c[i] = a[i]
      BY <1>1, <1>2, <2>1
    <3> QED
      BY <3>1 DEF ToSet
  <2>2. CASE ~(i <= Len(a))
    <3>1. i - Len(a) \in DOMAIN b /\ c[i] = b[i - Len(a)]
      BY <1>1, <1>2, <2>2
    <3> QED
      BY <3>1 DEF ToSet
  <2> QED
    BY <2>1, <2>2
<1>5. ASSUME NEW i \in DOMAIN a PROVE a[i] \in ToSet(c)
  <2>1. i \in DOMAIN c /\ c[i] = a[i]
    BY <1>1, <1>2, <1>3
  <2> QED
    BY <2>1 DEF ToSet
<1>6. ASSUME NEW i \in DOMAIN b PROVE b[i] \in ToSet(c)
  <2>1. i + Len(a) \in 1..(Len(a) + Len(b)) /\ ~(i + Len(a) <= Len(a)) /\ (i + Len(a)) - Len(a) = i
    BY <1>1
  <2>2. c[i + Len(a)] = b[i]
    BY <1>2, <2>1
  <2> QED
    BY <1>3, <2>1, <2>2 DEF ToSet
<1>7. ToSet(c) \subseteq ToSet(a) \cup ToSet(b)
  BY <1>3, <1>4 DEF ToSet
<1>8. ToSet(a) \subseteq ToSet(c) /\ ToSet(b) \subseteq ToSet(c)
  BY <1>5, <1>6 DEF ToSet
<1>9. ToSet(c) = ToSet(a) \cup ToSet(b)
  BY <1>7, <1>8
<1> QED
  BY <1>2, <1>9 DEF c

LEMMA FlattenElements ==
    ASSUME NEW V, NEW ss \in Seq(Seq(V)), ss # <<>>
    PROVE  /\ FlattenSeq(ss) \in Seq(V)
           /\ ToSet(FlattenSeq(ss)) = UNION {ToSet(ss[k]) : k \in 1..Len(ss)}
<1> DEFINE n == Len(ss)
           Upto(k) == UNION {ToSet(ss[j]) : j \in 1..k}
<1>1. n \in Nat \ {0} /\ \A k \in 1..n : ss[k] \in Seq(V)
  OBVIOUS
<1>2. \A a, b \in Seq(V) : a \o b \in Seq(V)
  OBVIOUS
<1>3. PICK flat \in [1..n -> Seq(V)] :
              /\ \A k \in 1..n : flat[k] = IF k = 1 THEN ss[k] ELSE flat[k-1] \o ss[k]
              /\ FlattenSeq(ss) = flat[n]
  BY <1>2, FlattenUnfolds
<1> DEFINE Astray == {k \in 1..n : ToSet(flat[k]) # Upto(k)}
<1>4. Astray = {}
  <2> SUFFICES ASSUME Astray # {} PROVE FALSE
    OBVIOUS
  <2>1. PICK m \in Astray : \A k \in Astray : ~(k < m)
    <3>1. Astray \in SUBSET Nat
      BY <1>1
    <3> HIDE DEF Astray
    <3> QED
      BY <3>1, LeastNatural
  <2>2. CASE m = 1
    <3>1. Upto(1) = ToSet(ss[1])
      OBVIOUS
    <3>2. 1 \in 1..n
      BY <1>1
    <3>3. flat[1] = ss[1]
      BY <1>3, <3>2
    <3> QED
      BY <2>1, <2>2, <3>1, <3>3
  <2>3. CASE m # 1
    <3>0. m \in 1..n
      BY <2>1
    <3>1. m \in 1..n /\ m - 1 \in 1..n /\ m - 1 < m
      <4> HIDE DEF n, Astray
      <4> QED
        BY <1>1, <2>3, <3>0
    <3>2. ToSet(flat[m-1]) = Upto(m - 1)
      BY <2>1, <3>1
    <3>3. flat[m] = flat[m-1] \o ss[m] /\ flat[m-1] \in Seq(V) /\ ss[m] \in Seq(V)
      BY <1>1, <1>3, <2>3, <3>1
    <3>4. ToSet(flat[m]) = ToSet(flat[m-1]) \cup ToSet(ss[m])
      <4> DEFINE x == flat[m-1]
                 y == ss[m]
      <4>1. flat[m] = x \o y /\ x \in Seq(V) /\ y \in Seq(V)
        BY <3>3
      <4> HIDE DEF x, y, Upto, Astray, n
      <4>2. ToSet(x \o y) = ToSet(x) \cup ToSet(y)
        BY <4>1, ElementsAppended
      <4> QED
        BY <4>1, <4>2 DEF x, y
    <3>5. Upto(m) = Upto(m - 1) \cup ToSet(ss[m])
      <4>1. \A j \in 1..m : j \in 1..(m - 1) \/ j = m
        BY <3>1
      <4>2. \A j \in 1..(m - 1) : j \in 1..m
        BY <3>1
      <4>3. m \in 1..m
        BY <3>1
      <4> QED
        BY <4>1, <4>2, <4>3
    <3> HIDE DEF Upto
    <3> QED
      BY <2>1, <3>2, <3>4, <3>5
  <2> QED
    BY <2>2, <2>3
<1>5. n \in 1..n
  BY <1>1
<1>6. ToSet(flat[n]) = Upto(n)
  BY <1>4, <1>5
<1> QED
  BY <1>3, <1>5, <1>6

-----------------------------------------------------------------------------
(* approveNftAllowance: an entry grants every serial it lists, or all.     *)

(* One entry of a collection: what it grants is what it is about.          *)
LEMMA EntryGrants ==
    ASSUME NEW o, o.call = "approveNftAllowance", NEW e \in AllowanceEntry,
           ~(Empty(e.serials) = ~e.all), e.token \in Collections
    PROVE  /\ \A g \in ToSet(NftGrants(e)) : g.key \in Keys(o, e) /\ g.amount = 1
           /\ \A h \in Keys(o, e) : \E g \in ToSet(NftGrants(e)) : g.key = h
           /\ AmountOf(o, e) = 1
<1>1. AmountOf(o, e) = 1
  BY DEF AmountOf
<1>2. CASE e.all
  <2>1. Keys(o, e) = ({e.token} \X {0}) \X {e.owner} \X {e.spender}
    BY <1>2 DEF Keys
  <2>2. NftGrants(e) = <<GrantNft(0, e, 1)>>
    BY <1>2 DEF NftGrants
  <2>3. ToSet(NftGrants(e)) = {GrantNft(0, e, 1)}
    BY <2>2 DEF ToSet
  <2>4. GrantNft(0, e, 1).key = <<<<e.token, 0>>, e.owner, e.spender>>
        /\ GrantNft(0, e, 1).amount = 1
    BY DEF GrantNft
  <2>5. Keys(o, e) = {<<<<e.token, 0>>, e.owner, e.spender>>}
    BY <2>1
  <2> QED
    BY <1>1, <2>3, <2>4, <2>5
<1>3. CASE ~e.all
  <2>1. ~Empty(e.serials)
    BY <1>3 DEF Empty, AllowanceEntry
  <2>2. Serials(e.serials) = e.serials
    BY <2>1 DEF Serials
  <2>3. NftGrants(e) = [k \in DOMAIN e.serials |-> GrantNft(e.serials[k], e, 1)]
    BY <1>3, <2>2 DEF NftGrants
  <2>4. Keys(o, e) = ({e.token} \X ToSet(e.serials)) \X {e.owner} \X {e.spender}
    BY <1>3 DEF Keys
  <2>5. \A k \in DOMAIN e.serials :
           /\ GrantNft(e.serials[k], e, 1).key = <<<<e.token, e.serials[k]>>, e.owner, e.spender>>
           /\ GrantNft(e.serials[k], e, 1).amount = 1
    BY DEF GrantNft
  <2>6. ToSet(e.serials) = {e.serials[k] : k \in DOMAIN e.serials}
    BY DEF ToSet
  <2>7. ToSet(NftGrants(e)) = {GrantNft(e.serials[k], e, 1) : k \in DOMAIN e.serials}
    BY <2>3 DEF ToSet
  <2>8. ASSUME NEW g \in ToSet(NftGrants(e)) PROVE g.key \in Keys(o, e) /\ g.amount = 1
    <3>1. PICK k \in DOMAIN e.serials : g = GrantNft(e.serials[k], e, 1)
      BY <2>7
    <3>2. e.serials[k] \in ToSet(e.serials)
      BY <2>6
    <3>3. g.key = <<<<e.token, e.serials[k]>>, e.owner, e.spender>> /\ g.amount = 1
      BY <2>5, <3>1
    <3> QED
      BY <2>4, <3>2, <3>3
  <2>9. ASSUME NEW h \in Keys(o, e) PROVE \E g \in ToSet(NftGrants(e)) : g.key = h
    <3>1. PICK s \in ToSet(e.serials) : h = <<<<e.token, s>>, e.owner, e.spender>>
      BY <2>4
    <3>2. PICK k \in DOMAIN e.serials : s = e.serials[k]
      BY <2>6, <3>1
    <3> QED
      BY <2>5, <2>7, <3>1, <3>2
  <2> QED
    BY <1>1, <2>8, <2>9
<1> QED
  BY <1>2, <1>3

LEMMA NftsAllowed ==
    ASSUME Allowed, NEW o \in NftAllowances, ~Empty(o.nfts), ~ApproveAllowanceValidator(o),
           o.call = "approveNftAllowance", AccountAllowanceApprove(ApproveAllowance(o)),
           granted' = Renewed(o)
    PROVE  Allowed'
<1> DEFINE gs == ApproveAllowance(o).grants
           n == Len(o.nfts)
           E == o.nfts
           ss == [i \in 1..n |-> NftGrants(E[i])]
<1>1. E \in Seq(AllowanceEntry) /\ o.hbars = <<>> /\ o.units = <<>> /\ n \in Nat \ {0}
      /\ DOMAIN E = 1..n /\ \A i \in 1..n : E[i] \in AllowanceEntry
  <2>1. E \in Seq(AllowanceEntry) /\ o.hbars = <<>> /\ o.units = <<>> /\ E # <<>>
    BY DEF NftAllowances, Entered, Maybe, Empty
  <2> QED
    BY <2>1
<1>2. Entries(o) = E
  BY <1>1, EntriesOfOne DEF Entries
<1>3. ASSUME NEW i \in 1..n
      PROVE  NftGrants(E[i]) \in Seq(Grants) \ {<<>>} /\ ~(Empty(E[i].serials) = ~E[i].all)
  <2> DEFINE e == E[i]
  <2>1. /\ ~Missing({e.token}) /\ ~BadParties(e) /\ ~(Empty(e.serials) = ~e.all)
        /\ \A k \in DOMAIN Serials(e.serials) : ~(e.serials[k] <= 0)
    BY <1>1 DEF ApproveAllowanceValidator
  <2>2. e \in AllowanceEntry
    BY <1>1
  <2> HIDE DEF e
  <2>3. e.token # Absent /\ e.owner # Absent /\ e.spender # Absent
    BY <2>1 DEF BadParties, Missing
  <2>4. NftGrants(e) \in Seq(Grants) \ {<<>>}
    BY <2>1, <2>2, <2>3, NftGrantsGranted
  <2> QED
    BY <2>1, <2>4 DEF e
<1>4. ss \in Seq(Seq(Grants)) /\ ss # <<>> /\ Len(ss) = n /\ \A i \in 1..n : ss[i] = NftGrants(E[i])
  <2> HIDE DEF n, E
  <2> QED
    BY <1>1, <1>3
<1>5. gs = FlattenSeq(ss)
  <2>1. [i \in DOMAIN o.hbars |-> Grant(Units(Hbar), o.hbars[i], o.hbars[i].amount)] = <<>>
    BY <1>1
  <2>2. [i \in DOMAIN o.units |-> Grant(Units(o.units[i].token), o.units[i], o.units[i].amount)]
           = <<>>
    BY <1>1
  <2>3. gs = <<>> \o <<>> \o FlattenSeq(ss)
    BY <1>1, <2>1, <2>2 DEF ApproveAllowance
  <2>4. FlattenSeq(ss) \in Seq(Grants)
    <3> HIDE DEF ss
    <3> QED
      BY <1>4, FlattenElements
  <2> HIDE DEF ss, gs
  <2> QED
    BY <2>3, <2>4
<1>6. gs \in Seq(Grants) /\ ToSet(gs) = UNION {ToSet(NftGrants(E[i])) : i \in 1..n}
  <2> HIDE DEF ss, gs, n, E
  <2>1. gs \in Seq(Grants) /\ ToSet(gs) = UNION {ToSet(ss[i]) : i \in 1..Len(ss)}
    BY <1>4, <1>5, FlattenElements
  <2> QED
    BY <1>4, <2>1
<1>7. Traced(allow', gs, Len(gs))
  BY <1>6, GrantedLast DEF Allowed
<1>8. ASSUME NEW i \in 1..n PROVE E[i].token \in Collections
  <2> DEFINE ns == NftGrants(E[i])
  <2>1. ns \in Seq(Grants) /\ ns # <<>>
    BY <1>3
  <2>2. ns[1].nft = TRUE /\ ns[1].key[1][1] = E[i].token
    <3>1. 1 \in DOMAIN Serials(E[i].serials) \/ E[i].all
      <4>1. E[i].all \in BOOLEAN /\ E[i].serials \in Maybe(Seq(Int))
        BY <1>1 DEF AllowanceEntry
      <4>2. ~E[i].all => ~Empty(E[i].serials)
        BY <1>3, <4>1 DEF Empty
      <4>3. ~Empty(E[i].serials) => E[i].serials \in Seq(Int) /\ E[i].serials # <<>>
        BY <4>1 DEF Empty, Maybe
      <4>4. ~Empty(E[i].serials) => 1 \in DOMAIN E[i].serials
        BY <4>3
      <4> QED
        BY <4>2, <4>4 DEF Serials
    <3> QED
      BY <3>1 DEF NftGrants, GrantNft
  <2>3. ns[1] \in ToSet(ns)
    BY <2>1 DEF ToSet
  <2>4. ns[1] \in ToSet(gs)
    BY <1>6, <2>3
  <2> HIDE DEF ns, gs
  <2>5. PICK k \in DOMAIN gs : gs[k] = ns[1]
    BY <2>4 DEF ToSet
  <2>6. gs[k].nft <=> gs[k].key[1][1] \in Collections
    BY <2>5, KindFits DEF gs
  <2> QED
    BY <2>2, <2>5, <2>6
<1>9. ASSUME NEW i \in 1..n
      PROVE  /\ \A g \in ToSet(NftGrants(E[i])) : g.key \in Keys(o, E[i]) /\ g.amount = 1
             /\ \A h \in Keys(o, E[i]) : \E g \in ToSet(NftGrants(E[i])) : g.key = h
             /\ AmountOf(o, E[i]) = 1
  <2> HIDE DEF E, n
  <2> QED
    BY <1>1, <1>3, <1>8, EntryGrants
<1>10. /\ IsABag(granted')
       /\ \A h \in DOMAIN granted : (\A i \in 1..n : h \notin Keys(o, E[i]))
             => h \in DOMAIN granted' /\ granted'[h] = granted[h]
       /\ \A i \in 1..n : \A h \in Keys(o, E[i]) :
             (\A j \in 1..n : h \in Keys(o, E[j]) => j <= i) /\ AmountOf(o, E[i]) > 0
             => h \in DOMAIN granted' /\ granted'[h] = AmountOf(o, E[i])
  <2> HIDE DEF n, E
  <2>1. \A i \in 1..n : AmountOf(o, Entries(o)[i]) \in Nat
    BY <1>2, <1>9
  <2>2. Heard(granted', o, E, n)
    BY <1>1, <1>2, <2>1, RenewedOf DEF Allowed
  <2> QED
    BY <2>2 DEF Heard
<1> HIDE DEF gs, n, E
<1>11. ASSUME NEW h \in DOMAIN allow' PROVE h \in DOMAIN granted' /\ allow'[h] <= granted'[h]
  <2>1. Stems(allow', gs, Len(gs), h)
    BY <1>7 DEF Traced
  <2>2. DOMAIN gs = 1..Len(gs)
    BY <1>6
  <2>3. CASE h \in DOMAIN allow /\ allow'[h] = allow[h] /\ \A k \in 1..Len(gs) : gs[k].key # h
    <3>1. \A g \in ToSet(gs) : g.key # h
      BY <2>2, <2>3 DEF ToSet
    <3>2. \A i \in 1..n : h \notin Keys(o, E[i])
      BY <1>6, <1>9, <3>1
    <3>3. h \in DOMAIN granted /\ allow[h] <= granted[h]
      BY <2>3 DEF Allowed, SpendersWereApproved, \sqsubseteq
    <3> QED
      BY <1>10, <2>3, <3>2, <3>3
  <2>4. CASE \E k \in 1..Len(gs) : gs[k].key = h /\ allow'[h] = gs[k].amount
    <3>1. PICK g \in ToSet(gs) : g.key = h /\ allow'[h] = g.amount
      BY <2>2, <2>4 DEF ToSet
    <3>2. PICK i0 \in 1..n : g \in ToSet(NftGrants(E[i0]))
      BY <1>6
    <3>3. h \in Keys(o, E[i0]) /\ allow'[h] = 1
      BY <1>9, <3>1, <3>2
    <3> DEFINE S == {i \in 1..n : h \in Keys(o, E[i])}
    <3>4. PICK i \in S : \A j \in S : j <= i
      <4>1. S \in SUBSET (1..n) /\ S # {}
        BY <3>3
      <4> HIDE DEF S
      <4> QED
        BY <1>1, <4>1, GreatestNatural
    <3>5. h \in Keys(o, E[i]) /\ AmountOf(o, E[i]) = 1
          /\ \A j \in 1..n : h \in Keys(o, E[j]) => j <= i
      BY <1>9, <3>4
    <3>6. h \in DOMAIN granted' /\ granted'[h] = 1
      BY <1>10, <3>4, <3>5
    <3> QED
      BY <3>3, <3>6
  <2> QED
    BY <2>1, <2>3, <2>4 DEF Stems
<1> QED
  BY <1>7, <1>10, <1>11 DEF Allowed, SpendersWereApproved, \sqsubseteq, Traced

-----------------------------------------------------------------------------
(* Allowances that lapse.                                                  *)

(* Fewer allowances, each as it was.                                       *)
Fewer == \E D \in SUBSET DOMAIN allow : allow' = [g \in D |-> allow[g]]

LEMMA FewerIsABag ==
    ASSUME IsABag(allow), Fewer
    PROVE  /\ IsABag(allow') /\ DOMAIN allow' \subseteq DOMAIN allow
           /\ \A h \in DOMAIN allow' : allow'[h] = allow[h]
<1>1. PICK D \in SUBSET DOMAIN allow : allow' = [g \in D |-> allow[g]]
  BY DEF Fewer
<1>2. \A h \in D : allow[h] \in {n \in Nat : n > 0}
  BY DEF IsABag
<1> QED
  BY <1>1, <1>2 DEF IsABag

(* deleteNftAllowance: an entry revokes every serial it lists, whoever is  *)
(* the spender.                                                            *)
LEMMA SerialsRevoked ==
    ASSUME Allowed, NEW o \in NftAllowances, ~DeleteAllowanceValidator(o),
           o.call = "deleteNftAllowance", AccountAllowanceDelete(DeleteAllowance(o)),
           granted' = Renewed(o)
    PROVE  Allowed'
<1> DEFINE ds == DeleteAllowance(o).nfts
           n == Len(o.nfts)
           E == o.nfts
           V == (Maybe(Tokens \cup {Hbar}) \X Int) \X Account
           Of1(e) == [k \in DOMAIN e.serials |-> <<<<e.token, e.serials[k]>>, e.owner>>]
           ss == [i \in 1..n |-> Of1(E[i])]
<1>1. E \in Seq(AllowanceEntry) /\ ~Empty(E) /\ o.hbars = <<>> /\ o.units = <<>> /\ n \in Nat \ {0}
      /\ DOMAIN E = 1..n /\ \A i \in 1..n : E[i] \in AllowanceEntry
  <2>1. E \in Seq(AllowanceEntry) /\ o.hbars = <<>> /\ o.units = <<>> /\ E # <<>>
    BY DEF NftAllowances, Entered, Maybe, Empty, DeleteAllowanceValidator
  <2> QED
    BY <2>1 DEF DeleteAllowanceValidator
<1>2. Entries(o) = E
  BY <1>1, EntriesOfOne DEF Entries
<1>3. \A i \in 1..n : E[i].serials \in Seq(Int) /\ E[i].serials # <<>>
  BY <1>1 DEF DeleteAllowanceValidator, AllowanceEntry, Maybe, Empty
<1>4. ASSUME NEW i \in 1..n
      PROVE  Of1(E[i]) \in Seq(V) /\ ToSet(Of1(E[i])) = {<<<<E[i].token, s>>, E[i].owner>> : s \in ToSet(E[i].serials)}
  <2> DEFINE e == E[i]
  <2>1. e.serials \in Seq(Int) /\ e.token \in Maybe(Tokens \cup {Hbar}) /\ e.owner \in Account
    BY <1>1, <1>3 DEF AllowanceEntry
  <2> HIDE DEF e
  <2>2. DOMAIN e.serials = 1..Len(e.serials) /\ Len(e.serials) \in Nat
        /\ \A k \in DOMAIN e.serials : e.serials[k] \in Int
    BY <2>1
  <2>3. \A k \in DOMAIN e.serials : <<<<e.token, e.serials[k]>>, e.owner>> \in V
    BY <2>1, <2>2
  <2>4. Of1(e) \in Seq(V)
    <3> HIDE DEF V
    <3> QED
      BY <2>2, <2>3
  <2>5. ToSet(Of1(e)) = {<<<<e.token, s>>, e.owner>> : s \in ToSet(e.serials)}
    BY DEF ToSet
  <2> QED
    BY <2>4, <2>5 DEF e
<1>5. ss \in Seq(Seq(V)) /\ ss # <<>> /\ Len(ss) = n /\ \A i \in 1..n : ss[i] = Of1(E[i])
  <2>1. \A i \in 1..n : Of1(E[i]) \in Seq(V)
    BY <1>4
  <2>2. n \in Nat \ {0}
    BY <1>1
  <2> HIDE DEF n, E, V, Of1
  <2> QED
    BY <2>1, <2>2
<1>6. ds = FlattenSeq(ss)
  BY <1>1 DEF DeleteAllowance
<1>7. ds \in Seq(V) /\ ToSet(ds) = UNION {ToSet(Of1(E[i])) : i \in 1..n}
  <2> HIDE DEF n, E, V, Of1, ss, ds
  <2>1. ds \in Seq(V) /\ ToSet(ds) = UNION {ToSet(ss[i]) : i \in 1..Len(ss)}
    BY <1>5, <1>6, FlattenElements
  <2> QED
    BY <1>5, <2>1
<1>8. \A d \in ToSet(ds) : d[1][1] \in Collections
  BY DEF AccountAllowanceDelete, ToSet
<1>9. allow' = [g \in {g \in DOMAIN allow : <<g[1], g[2]>> \notin ToSet(ds)} |-> allow[g]]
  BY DEF AccountAllowanceDelete, ToSet
<1> HIDE DEF ds, V
<1>10. ASSUME NEW i \in 1..n
       PROVE  Keys(o, E[i]) = ({E[i].token} \X ToSet(E[i].serials)) \X {E[i].owner} \X Accounts
  <2>1. PICK s \in ToSet(E[i].serials) : TRUE
    <3>1. 1 \in DOMAIN E[i].serials
      BY <1>3
    <3> QED
      BY <3>1 DEF ToSet
  <2>2. <<<<E[i].token, s>>, E[i].owner>> \in ToSet(ds)
    <3> HIDE DEF E, n, Of1
    <3> QED
      BY <1>4, <1>7
  <2>3. E[i].token \in Collections
    BY <1>8, <2>2
  <2> QED
    BY <2>3 DEF Keys
<1>11. ASSUME NEW h \in DOMAIN allow', NEW i \in 1..n PROVE h \notin Keys(o, E[i])
  <2> SUFFICES ASSUME h \in Keys(o, E[i]) PROVE FALSE
    OBVIOUS
  <2>1. PICK s \in ToSet(E[i].serials) : h[1] = <<E[i].token, s>> /\ h[2] = E[i].owner
    BY <1>10
  <2>2. <<h[1], h[2]>> \in ToSet(ds)
    <3> HIDE DEF E, n, Of1
    <3> QED
      BY <1>4, <1>7, <2>1
  <2> QED
    BY <1>9, <2>2
<1>12. /\ IsABag(allow') /\ DOMAIN allow' \subseteq DOMAIN allow
       /\ \A h \in DOMAIN allow' : allow'[h] = allow[h]
  <2>1. Fewer
    BY <1>9 DEF Fewer
  <2> QED
    BY <2>1, FewerIsABag DEF Allowed
<1>13. /\ IsABag(granted')
       /\ \A h \in DOMAIN granted : (\A i \in 1..n : h \notin Keys(o, E[i]))
             => h \in DOMAIN granted' /\ granted'[h] = granted[h]
  <2>1. \A i \in 1..n : AmountOf(o, Entries(o)[i]) \in Nat
    BY DEF AmountOf
  <2> HIDE DEF n, E
  <2>2. Heard(granted', o, E, n)
    BY <1>1, <1>2, <2>1, RenewedOf DEF Allowed
  <2> QED
    BY <2>2 DEF Heard
<1>14. ASSUME NEW h \in DOMAIN allow' PROVE h \in DOMAIN granted' /\ allow'[h] <= granted'[h]
  <2>1. h \in DOMAIN allow /\ allow'[h] = allow[h]
    BY <1>12
  <2>2. h \in DOMAIN granted /\ allow[h] <= granted[h]
    BY <2>1 DEF Allowed, SpendersWereApproved, \sqsubseteq
  <2>3. h \in DOMAIN granted' /\ granted'[h] = granted[h]
    BY <1>11, <1>13, <2>2
  <2> QED
    BY <2>1, <2>2, <2>3
<1> QED
  BY <1>12, <1>13, <1>14 DEF Allowed, SpendersWereApproved, \sqsubseteq

(* Every transaction but an approval or a deletion leaves the allowances   *)
(* alone, but for those of the serials that it moves, which lapse.         *)
LEMMA OthersRevoke ==
    ASSUME IsABag(allow), NEW tx, Succeeds(tx), tx.type \notin AllowanceTypes
    PROVE  Fewer
<1>1. UNCHANGED allow => Fewer
  <2>1. allow = [g \in DOMAIN allow |-> allow[g]]
    BY DEF IsABag
  <2> QED
    BY <2>1 DEF Fewer
<1>2. ASSUME NEW out, NEW in, Move(out, in) PROVE Fewer
  BY <1>2 DEF Move, Fewer
<1>3. CryptoTransfer(tx) => Fewer
  BY <1>2 DEF CryptoTransfer
<1>4. TokenAirdrop(tx) => Fewer
  BY <1>2 DEF TokenAirdrop
<1>5. TokenClaimAirdrop(tx) => Fewer
  <2> SUFFICES ASSUME TokenClaimAirdrop(tx) PROVE Fewer
    OBVIOUS
  <2> DEFINE gone == {id[1] : id \in ToSet(tx.ids)}
             D == {g \in DOMAIN allow : g[1][2] = 0 \/ g[1] \notin gone}
  <2>1. allow' = [g \in D |-> allow[g]]
    BY DEF TokenClaimAirdrop
  <2>2. D \in SUBSET DOMAIN allow
    OBVIOUS
  <2> QED
    BY <2>1, <2>2 DEF Fewer
<1>6. TokenCancelAirdrop(tx) => Fewer
  BY <1>1 DEF TokenCancelAirdrop
<1>7. TokenMint(tx) => Fewer
  BY <1>2 DEF TokenMint
<1>8. TokenBurn(tx) \/ TokenWipe(tx) => Fewer
  BY <1>2 DEF TokenBurn, TokenWipe, Removed
<1>9. TokenReject(tx) => Fewer
  BY <1>2 DEF TokenReject
<1>10. TokenAssociate(tx) \/ TokenDissociate(tx) \/ SetMark(tx) => Fewer
  BY <1>1 DEF TokenAssociate, TokenDissociate, SetMark
<1> QED
  BY <1>3, <1>4, <1>5, <1>6, <1>7, <1>8, <1>9, <1>10 DEF Succeeds, AllowanceTypes

LEMMA LapseKeeps ==
    ASSUME Allowed, Fewer \/ UNCHANGED allow, UNCHANGED granted
    PROVE  Allowed'
<1>1. CASE UNCHANGED allow
  BY <1>1 DEF Allowed, SpendersWereApproved
<1>2. CASE Fewer
  <2>1. /\ IsABag(allow') /\ DOMAIN allow' \subseteq DOMAIN allow
        /\ \A h \in DOMAIN allow' : allow'[h] = allow[h]
    BY <1>2, FewerIsABag DEF Allowed
  <2> QED
    BY <2>1 DEF Allowed, SpendersWereApproved, \sqsubseteq
<1> QED
  BY <1>1, <1>2

-----------------------------------------------------------------------------
(* The calls, and what they send.                                          *)

(* A transaction of another type, of a call that approves nothing.         *)
LEMMA LandOther ==
    ASSUME Allowed, NEW o, o.call \notin Approvals, NEW tx, tx.type \notin AllowanceTypes,
           Land(o, tx)
    PROVE  Allowed'
<1>1. CASE Succeeds(tx) /\ granted' = granted
  <2>1. Fewer
    BY <1>1, OthersRevoke DEF Allowed
  <2> QED
    BY <1>1, <2>1, LapseKeeps
<1>2. CASE UNCHANGED <<net, granted>>
  <2>1. UNCHANGED allow /\ UNCHANGED granted
    BY <1>2 DEF net
  <2> QED
    BY <2>1, LapseKeeps
<1> QED
  BY <1>1, <1>2 DEF Land

LEMMA RunOther ==
    ASSUME SInv, NEW o, o.call \notin Approvals, NEW refused \in BOOLEAN,
           NEW tx, tx.type \notin AllowanceTypes, run(o, refused, tx)
    PROVE  SInv'
<1>1. CASE refused
  <2>1. UNCHANGED <<net, scheduled, granted>>
    BY <1>1 DEF run, Refuse
  <2>2. UNCHANGED allow /\ UNCHANGED granted /\ UNCHANGED scheduled
    BY <2>1 DEF net
  <2> QED
    BY <2>2, LapseKeeps DEF SInv
<1>2. CASE ~refused
  <2>1. Land(o, tx) /\ UNCHANGED scheduled
    BY <1>2 DEF run
  <2> QED
    BY <2>1, LandOther DEF SInv
<1> QED
  BY <1>1, <1>2

LEMMA ScheduleRunOther ==
    ASSUME SInv, NEW o, o.call \notin Approvals, NEW refused \in BOOLEAN,
           NEW tx, tx.type \notin AllowanceTypes, scheduleRun(o, refused, tx)
    PROVE  SInv'
<1>1. UNCHANGED <<net, granted>>
  BY DEF scheduleRun, Refuse
<1>2. Allowed'
  <2>1. UNCHANGED allow /\ UNCHANGED granted
    BY <1>1 DEF net
  <2> QED
    BY <2>1, LapseKeeps DEF SInv
<1>3. scheduled' = scheduled \/ scheduled' = scheduled \cup {[ask |-> o, tx |-> tx]}
  BY DEF scheduleRun, Refuse
<1> QED
  BY <1>2, <1>3 DEF SInv

(* An approval: refused or failed it changes nothing, landed it is what    *)
(* the caller asked.                                                       *)
LEMMA RunApproval ==
    ASSUME NEW o, o.call \in Approvals, NEW refused \in BOOLEAN, NEW tx, run(o, refused, tx)
    PROVE  /\ UNCHANGED scheduled
           /\ \/ UNCHANGED <<allow, granted>>
              \/ ~refused /\ ~Malformed(tx) /\ Succeeds(tx) /\ granted' = Renewed(o)
BY DEF run, Refuse, Land, net

LEMMA SucceedsKind ==
    ASSUME NEW tx, Succeeds(tx)
    PROVE  /\ tx.type = "AccountAllowanceApprove" => AccountAllowanceApprove(tx)
           /\ tx.type = "AccountAllowanceDelete" => AccountAllowanceDelete(tx)
BY MarkTypes DEF Succeeds

(* With Allowed' shown of the landed one, an approval keeps the invariant. *)
LEMMA ApprovalKeeps ==
    ASSUME SInv, NEW o, o.call \in Approvals, NEW refused \in BOOLEAN, NEW tx,
           run(o, refused, tx),
           ~refused /\ ~Malformed(tx) /\ Succeeds(tx) /\ granted' = Renewed(o) => Allowed'
    PROVE  SInv'
<1>1. UNCHANGED scheduled
  BY RunApproval
<1>2. Allowed'
  <2>1. CASE UNCHANGED <<allow, granted>>
    BY <2>1, LapseKeeps DEF SInv
  <2>2. CASE ~refused /\ ~Malformed(tx) /\ Succeeds(tx) /\ granted' = Renewed(o)
    BY <2>2
  <2> QED
    BY <2>1, <2>2, RunApproval
<1> QED
  BY <1>1, <1>2 DEF SInv

-----------------------------------------------------------------------------
(* The calls that approve nothing.                                         *)

LEMMA MovingLapses ==
    ASSUME SInv, NEW o, Moving(o)
    PROVE  SInv'
<1>1. CASE transferHbar(o) \/ scheduleTransferHbar(o)
  <2>1. o.call \notin Approvals /\ TransferHbarValidator(o) \in BOOLEAN
    BY <1>1 DEF transferHbar, Now, scheduleTransferHbar, Later, Approvals, TransferHbarValidator
  <2>2. TransferHbar(o).type \notin AllowanceTypes
    BY DEF TransferHbar, AllowanceTypes
  <2> QED
    BY <1>1, <2>1, <2>2, RunOther, ScheduleRunOther DEF transferHbar, scheduleTransferHbar
<1>2. CASE transferToken(o) \/ scheduleTransferToken(o)
  <2>1. o.call \notin Approvals /\ TransferTokenValidator(o) \in BOOLEAN
    BY <1>2 DEF transferToken, Now, scheduleTransferToken, Later, Approvals, TransferTokenValidator
  <2>2. TransferToken(o).type \notin AllowanceTypes
    BY DEF TransferToken, AllowanceTypes
  <2> QED
    BY <1>2, <2>1, <2>2, RunOther, ScheduleRunOther DEF transferToken, scheduleTransferToken
<1>3. CASE transferNft(o) \/ scheduleTransferNft(o)
  <2>1. o.call \notin Approvals /\ TransferNftValidator(o) \in BOOLEAN
    BY <1>3 DEF transferNft, Now, scheduleTransferNft, Later, Approvals, TransferNftValidator
  <2>2. TransferNft(o).type \notin AllowanceTypes
    BY DEF TransferNft, AllowanceTypes
  <2> QED
    BY <1>3, <2>1, <2>2, RunOther, ScheduleRunOther DEF transferNft, scheduleTransferNft
<1>4. CASE airdropFungibleToken(o)
  <2>1. o.call \notin Approvals /\ TokenAirdropValidator(o) \in BOOLEAN
    BY <1>4 DEF airdropFungibleToken, Now, Approvals, TokenAirdropValidator
  <2>2. TokenAirdropFungible(o).type \notin AllowanceTypes
    BY DEF TokenAirdropFungible, AllowanceTypes
  <2> QED
    BY <1>4, <2>1, <2>2, RunOther DEF airdropFungibleToken
<1>5. CASE airdropNft(o)
  <2>1. o.call \notin Approvals /\ TokenAirdropNftValidator(o) \in BOOLEAN
    BY <1>5 DEF airdropNft, Now, Approvals, TokenAirdropNftValidator
  <2>2. TokenAirdropNft(o).type \notin AllowanceTypes
    BY DEF TokenAirdropNft, AllowanceTypes
  <2> QED
    BY <1>5, <2>1, <2>2, RunOther DEF airdropNft
<1>6. CASE claimAirdrop(o)
  <2>1. o.call \notin Approvals /\ TokenClaimAirdropValidator(o) \in BOOLEAN
    BY <1>6 DEF claimAirdrop, Now, Approvals, TokenClaimAirdropValidator, BadIds
  <2>2. TokenClaim(o).type \notin AllowanceTypes
    BY DEF TokenClaim, AllowanceTypes
  <2> QED
    BY <1>6, <2>1, <2>2, RunOther DEF claimAirdrop
<1>7. CASE cancelAirdrop(o)
  <2>1. o.call \notin Approvals /\ TokenCancelAirdropValidator(o) \in BOOLEAN
    BY <1>7 DEF cancelAirdrop, Now, Approvals, TokenCancelAirdropValidator, BadIds
  <2>2. TokenCancel(o).type \notin AllowanceTypes
    BY DEF TokenCancel, AllowanceTypes
  <2> QED
    BY <1>7, <2>1, <2>2, RunOther DEF cancelAirdrop
<1> QED
  BY <1>1, <1>2, <1>3, <1>4, <1>5, <1>6, <1>7 DEF Moving

LEMMA SupplyingLapses ==
    ASSUME SInv, NEW o, Supplying(o)
    PROVE  SInv'
<1>1. CASE mintToken(o) \/ scheduleMintToken(o)
  <2>1. o.call \notin Approvals /\ TokenMintValidator(o) \in BOOLEAN
    BY <1>1 DEF mintToken, Now, scheduleMintToken, Later, Approvals, TokenMintValidator
  <2>2. TokenMinted(o).type \notin AllowanceTypes
    BY DEF TokenMinted, AllowanceTypes
  <2> QED
    BY <1>1, <2>1, <2>2, RunOther, ScheduleRunOther DEF mintToken, scheduleMintToken
<1>2. CASE burnToken(o) \/ scheduleBurnToken(o)
  <2>1. o.call \notin Approvals /\ TokenBurnValidator(o) \in BOOLEAN
    BY <1>2 DEF burnToken, Now, scheduleBurnToken, Later, Approvals, TokenBurnValidator
  <2>2. TokenBurned(o).type \notin AllowanceTypes
    BY DEF TokenBurned, AllowanceTypes
  <2> QED
    BY <1>2, <2>1, <2>2, RunOther, ScheduleRunOther DEF burnToken, scheduleBurnToken
<1>3. CASE wipeToken(o)
  <2>1. o.call \notin Approvals /\ TokenWipeValidator(o) \in BOOLEAN
    BY <1>3 DEF wipeToken, Now, Approvals, TokenWipeValidator
  <2>2. TokenWiped(o).type \notin AllowanceTypes
    BY DEF TokenWiped, AllowanceTypes
  <2> QED
    BY <1>3, <2>1, <2>2, RunOther DEF wipeToken
<1>4. CASE rejectTokensFlow(o)
  <2>1. o.call \notin Approvals
    BY <1>4 DEF rejectTokensFlow, Now, Approvals
  <2>2. RejectFirst(o).type \notin AllowanceTypes
    BY DEF RejectFirst, AllowanceTypes
  <2>3. UNCHANGED scheduled
    BY <1>4 DEF rejectTokensFlow, Refuse
  <2>4. UNCHANGED <<allow, granted>> \/ Land(o, RejectFirst(o))
    BY <1>4 DEF rejectTokensFlow, Refuse, net
  <2> QED
    BY <2>1, <2>2, <2>3, <2>4, LandOther, LapseKeeps DEF SInv
<1> QED
  BY <1>1, <1>2, <1>3, <1>4 DEF Supplying

LEMMA AdmittingLapses ==
    ASSUME SInv, NEW o, Admitting(o)
    PROVE  SInv'
<1>1. CASE associateToken(o) \/ scheduleAssociateToken(o)
  <2>1. o.call \notin Approvals /\ TokenAssociateValidator(o) \in BOOLEAN
    BY <1>1 DEF associateToken, Now, scheduleAssociateToken, Later, Approvals, TokenAssociateValidator, Missing
  <2>2. TokenAssociated(o).type \notin AllowanceTypes
    BY DEF TokenAssociated, AllowanceTypes
  <2> QED
    BY <1>1, <2>1, <2>2, RunOther, ScheduleRunOther DEF associateToken, scheduleAssociateToken
<1>2. CASE dissociateToken(o) \/ scheduleDissociateToken(o)
  <2>1. o.call \notin Approvals /\ TokenDissociateValidator(o) \in BOOLEAN
    BY <1>2 DEF dissociateToken, Now, scheduleDissociateToken, Later, Approvals, TokenDissociateValidator
  <2>2. TokenDissociated(o).type \notin AllowanceTypes
    BY DEF TokenDissociated, AllowanceTypes
  <2> QED
    BY <1>2, <2>1, <2>2, RunOther, ScheduleRunOther DEF dissociateToken, scheduleDissociateToken
<1>3. CASE freezeToken(o)
  <2>1. o.call \notin Approvals /\ TokenFreezeValidator(o) \in BOOLEAN
    BY <1>3 DEF freezeToken, Now, Approvals, TokenFreezeValidator, Missing
  <2>2. TokenFrozen(o).type \notin AllowanceTypes
    BY DEF TokenFrozen, MarkTx, AllowanceTypes
  <2> QED
    BY <1>3, <2>1, <2>2, RunOther DEF freezeToken
<1>4. CASE unfreezeToken(o)
  <2>1. o.call \notin Approvals /\ TokenUnfreezeValidator(o) \in BOOLEAN
    BY <1>4 DEF unfreezeToken, Now, Approvals, TokenUnfreezeValidator, Missing
  <2>2. TokenUnfrozen(o).type \notin AllowanceTypes
    BY DEF TokenUnfrozen, MarkTx, AllowanceTypes
  <2> QED
    BY <1>4, <2>1, <2>2, RunOther DEF unfreezeToken
<1>5. CASE grantKycToken(o)
  <2>1. o.call \notin Approvals /\ TokenGrantKycValidator(o) \in BOOLEAN
    BY <1>5 DEF grantKycToken, Now, Approvals, TokenGrantKycValidator, Missing
  <2>2. TokenKycGranted(o).type \notin AllowanceTypes
    BY DEF TokenKycGranted, MarkTx, AllowanceTypes
  <2> QED
    BY <1>5, <2>1, <2>2, RunOther DEF grantKycToken
<1>6. CASE revokeKycToken(o)
  <2>1. o.call \notin Approvals /\ TokenRevokeKycValidator(o) \in BOOLEAN
    BY <1>6 DEF revokeKycToken, Now, Approvals, TokenRevokeKycValidator, Missing
  <2>2. TokenKycRevoked(o).type \notin AllowanceTypes
    BY DEF TokenKycRevoked, MarkTx, AllowanceTypes
  <2> QED
    BY <1>6, <2>1, <2>2, RunOther DEF revokeKycToken
<1>7. CASE pauseToken(o)
  <2>1. o.call \notin Approvals /\ TokenPauseValidator(o) \in BOOLEAN
    BY <1>7 DEF pauseToken, Now, Approvals, TokenPauseValidator, Missing
  <2>2. TokenPaused(o).type \notin AllowanceTypes
    BY DEF TokenPaused, MarkTx, AllowanceTypes
  <2> QED
    BY <1>7, <2>1, <2>2, RunOther DEF pauseToken
<1>8. CASE unpauseToken(o)
  <2>1. o.call \notin Approvals /\ TokenUnpauseValidator(o) \in BOOLEAN
    BY <1>8 DEF unpauseToken, Now, Approvals, TokenUnpauseValidator, Missing
  <2>2. TokenUnpaused(o).type \notin AllowanceTypes
    BY DEF TokenUnpaused, MarkTx, AllowanceTypes
  <2> QED
    BY <1>8, <2>1, <2>2, RunOther DEF unpauseToken
<1> QED
  BY <1>1, <1>2, <1>3, <1>4, <1>5, <1>6, <1>7, <1>8 DEF Admitting

-----------------------------------------------------------------------------
(* The calls that approve, or delete an approval.                          *)

LEMMA ApprovingHbars ==
    ASSUME SInv, NEW o \in Options, approveHbarAllowance(o) \/ deleteHbarAllowance(o)
    PROVE  SInv'
<1>0. \A S : <<>> \in Seq(S)
  OBVIOUS
<1>1. /\ o \in HbarAllowances /\ o.call \in Approvals
      /\ o.call \in {"approveHbarAllowance", "deleteHbarAllowance"}
  BY OptionsTyped DEF approveHbarAllowance, deleteHbarAllowance, Now, Approvals
<1>2. /\ o.units = <<>> /\ o.nfts = <<>>
      /\ ~Empty(o.hbars) => /\ o.hbars \in Seq(AllowanceEntry)
                            /\ \A i \in 1..Len(o.hbars) : o.hbars[i].token = Hbar
  <2>1. o.units = <<>> /\ o.nfts = <<>> /\ (~Empty(o.hbars) => o.hbars \in Seq(HbarEntry))
    BY <1>1 DEF HbarAllowances, Maybe, Empty
  <2>2. ~Empty(o.hbars) => o.hbars \in Seq(AllowanceEntry)
    BY <2>1 DEF HbarEntry
  <2>3. ~Empty(o.hbars) => \A i \in 1..Len(o.hbars) : o.hbars[i] \in HbarEntry
    BY <2>1
  <2> QED
    BY <2>1, <2>2, <2>3 DEF HbarEntry
<1>3. CASE approveHbarAllowance(o)
  <2> DEFINE refused == Empty(o.hbars) \/ ApproveAllowanceValidator(o)
             tx == ApproveAllowance(o)
  <2>1. refused \in BOOLEAN /\ tx.type = "AccountAllowanceApprove"
    BY DEF Empty, ApproveAllowance
  <2>2. run(o, refused, tx) /\ o.call = "approveHbarAllowance"
    BY <1>3 DEF approveHbarAllowance, Now
  <2>3. ASSUME ~refused, ~Malformed(tx), Succeeds(tx), granted' = Renewed(o) PROVE Allowed'
    <3>1. AccountAllowanceApprove(tx)
      BY <2>1, <2>3, SucceedsKind
    <3>2. \A i \in 1..Len(o.hbars) : Hbar \notin Collections =>
             o.hbars[i].amount = AmountOf(o, o.hbars[i])
      BY <1>2, <2>2, <2>3 DEF AmountOf
    <3> QED
      BY <1>1, <1>2, <2>2, <2>3, <3>1, <3>2, HbarsAllowed DEF SInv
  <2> HIDE DEF refused, tx
  <2> QED
    BY <1>1, <2>1, <2>2, <2>3, ApprovalKeeps
<1>4. CASE deleteHbarAllowance(o)
  <2> DEFINE z == [o EXCEPT !.hbars = Zeroed(@)]
             refused == Empty(o.hbars) \/ ApproveAllowanceValidator(z)
             tx == ApproveAllowance(z)
  <2>1. refused \in BOOLEAN /\ tx.type = "AccountAllowanceApprove"
    BY DEF Empty, ApproveAllowance
  <2>2. run(o, refused, tx) /\ o.call = "deleteHbarAllowance"
    BY <1>4 DEF deleteHbarAllowance, Now
  <2>3. ASSUME ~refused, ~Malformed(tx), Succeeds(tx), granted' = Renewed(o) PROVE Allowed'
    <3>1. AccountAllowanceApprove(tx)
      BY <2>1, <2>3, SucceedsKind
    <3>2. z.hbars = Zeroed(o.hbars) /\ z.units = <<>> /\ z.nfts = <<>>
      BY <1>1, <1>2 DEF HbarAllowances
    <3> HIDE DEF z
    <3>3. \A i \in 1..Len(o.hbars) : AmountOf(o, o.hbars[i]) = 0
      BY <2>2 DEF AmountOf
    <3>4. /\ z.hbars \in Seq(AllowanceEntry) /\ Len(z.hbars) = Len(o.hbars)
          /\ \A i \in 1..Len(o.hbars) : /\ z.hbars[i].owner = o.hbars[i].owner
                                        /\ z.hbars[i].spender = o.hbars[i].spender
                                        /\ Hbar \notin Collections =>
                                              z.hbars[i].amount = AmountOf(o, o.hbars[i])
      BY <1>2, <2>3, <3>2, <3>3, ZeroedAlike
    <3> QED
      BY <1>1, <2>2, <2>3, <3>1, <3>2, <3>4, HbarsAllowed DEF SInv
  <2> HIDE DEF refused, tx
  <2> QED
    BY <1>1, <2>1, <2>2, <2>3, ApprovalKeeps
<1> QED
  BY <1>3, <1>4

LEMMA ApprovingUnits ==
    ASSUME SInv, NEW o \in Options, approveTokenAllowance(o) \/ deleteTokenAllowance(o)
    PROVE  SInv'
<1>1. /\ o \in TokenAllowances /\ o.call \in Approvals
      /\ o.call \in {"approveTokenAllowance", "deleteTokenAllowance"}
  BY OptionsTyped DEF approveTokenAllowance, deleteTokenAllowance, Now, Approvals
<1>2. /\ o.hbars = <<>> /\ o.nfts = <<>>
      /\ ~Empty(o.units) => o.units \in Seq(AllowanceEntry)
  BY <1>1 DEF TokenAllowances, Entered, Maybe, Empty
<1>3. CASE approveTokenAllowance(o)
  <2> DEFINE refused == Empty(o.units) \/ ApproveAllowanceValidator(o)
             tx == ApproveAllowance(o)
  <2>1. refused \in BOOLEAN /\ tx.type = "AccountAllowanceApprove"
    BY DEF Empty, ApproveAllowance
  <2>2. run(o, refused, tx) /\ o.call = "approveTokenAllowance"
    BY <1>3 DEF approveTokenAllowance, Now
  <2>3. ASSUME ~refused, Succeeds(tx), granted' = Renewed(o) PROVE Allowed'
    <3>1. AccountAllowanceApprove(tx)
      BY <2>1, <2>3, SucceedsKind
    <3>2. \A i \in 1..Len(o.units) : o.units[i].token \notin Collections =>
             o.units[i].amount = AmountOf(o, o.units[i])
      BY <2>2 DEF AmountOf
    <3> QED
      BY <1>1, <1>2, <2>2, <2>3, <3>1, <3>2, UnitsAllowed DEF SInv
  <2> HIDE DEF refused, tx
  <2> QED
    BY <1>1, <2>1, <2>2, <2>3, ApprovalKeeps
<1>4. CASE deleteTokenAllowance(o)
  <2> DEFINE z == [o EXCEPT !.units = Zeroed(@)]
             refused == Empty(o.units) \/ ApproveAllowanceValidator(z)
             tx == ApproveAllowance(z)
  <2>1. refused \in BOOLEAN /\ tx.type = "AccountAllowanceApprove"
    BY DEF Empty, ApproveAllowance
  <2>2. run(o, refused, tx) /\ o.call = "deleteTokenAllowance"
    BY <1>4 DEF deleteTokenAllowance, Now
  <2>3. ASSUME ~refused, Succeeds(tx), granted' = Renewed(o) PROVE Allowed'
    <3>1. AccountAllowanceApprove(tx)
      BY <2>1, <2>3, SucceedsKind
    <3>2. z.units = Zeroed(o.units) /\ z.hbars = <<>> /\ z.nfts = <<>>
      BY <1>1, <1>2 DEF TokenAllowances
    <3> HIDE DEF z
    <3>3. \A i \in 1..Len(o.units) : AmountOf(o, o.units[i]) = 0
      BY <2>2 DEF AmountOf
    <3>4. /\ z.units \in Seq(AllowanceEntry) /\ Len(z.units) = Len(o.units)
          /\ \A i \in 1..Len(o.units) : /\ z.units[i].token = o.units[i].token
                                        /\ z.units[i].owner = o.units[i].owner
                                        /\ z.units[i].spender = o.units[i].spender
                                        /\ o.units[i].token \notin Collections =>
                                              z.units[i].amount = AmountOf(o, o.units[i])
      BY <1>2, <2>3, <3>2, <3>3, ZeroedAlike
    <3> QED
      BY <1>1, <2>2, <2>3, <3>1, <3>2, <3>4, UnitsAllowed DEF SInv
  <2> HIDE DEF refused, tx
  <2> QED
    BY <1>1, <2>1, <2>2, <2>3, ApprovalKeeps
<1> QED
  BY <1>3, <1>4

LEMMA ApprovingNfts ==
    ASSUME SInv, NEW o \in Options,
           approveNftAllowance(o) \/ deleteNftAllowance(o) \/ deleteAllNftAllowances(o)
    PROVE  SInv'
<1>1. o \in NftAllowances /\ o.call \in Approvals
  BY OptionsTyped DEF approveNftAllowance, deleteNftAllowance, deleteAllNftAllowances, Now, Approvals
<1>2. CASE approveNftAllowance(o)
  <2> DEFINE refused == Empty(o.nfts) \/ ApproveAllowanceValidator(o)
             tx == ApproveAllowance(o)
  <2>1. refused \in BOOLEAN /\ tx.type = "AccountAllowanceApprove"
    BY DEF Empty, ApproveAllowance
  <2>2. run(o, refused, tx) /\ o.call = "approveNftAllowance"
    BY <1>2 DEF approveNftAllowance, Now
  <2>3. ASSUME ~refused, Succeeds(tx), granted' = Renewed(o) PROVE Allowed'
    <3>1. AccountAllowanceApprove(tx)
      BY <2>1, <2>3, SucceedsKind
    <3> QED
      BY <1>1, <2>2, <2>3, <3>1, NftsAllowed DEF SInv
  <2> HIDE DEF refused, tx
  <2> QED
    BY <1>1, <2>1, <2>2, <2>3, ApprovalKeeps
<1>3. CASE deleteNftAllowance(o)
  <2> DEFINE refused == Empty(o.nfts) \/ DeleteAllowanceValidator(o)
             tx == DeleteAllowance(o)
  <2>1. refused \in BOOLEAN /\ tx.type = "AccountAllowanceDelete"
    BY DEF Empty, DeleteAllowance
  <2>2. run(o, refused, tx) /\ o.call = "deleteNftAllowance"
    BY <1>3 DEF deleteNftAllowance, Now
  <2>3. ASSUME ~refused, Succeeds(tx), granted' = Renewed(o) PROVE Allowed'
    <3>1. AccountAllowanceDelete(tx)
      BY <2>1, <2>3, SucceedsKind
    <3> QED
      BY <1>1, <2>2, <2>3, <3>1, SerialsRevoked DEF SInv
  <2> HIDE DEF refused, tx
  <2> QED
    BY <1>1, <2>1, <2>2, <2>3, ApprovalKeeps
<1>4. CASE deleteAllNftAllowances(o)
  <2> DEFINE refused == Empty(o.nfts) \/ DeleteAllNftAllowancesValidator(o)
             tx == DeleteAllNftAllowances(o)
  <2>1. refused \in BOOLEAN /\ tx.type = "AccountAllowanceApprove"
    BY DEF Empty, DeleteAllNftAllowances
  <2>2. run(o, refused, tx) /\ o.call = "deleteAllNftAllowances"
    BY <1>4 DEF deleteAllNftAllowances, Now
  <2>3. ASSUME ~refused, Succeeds(tx), granted' = Renewed(o) PROVE Allowed'
    <3>1. AccountAllowanceApprove(tx)
      BY <2>1, <2>3, SucceedsKind
    <3> QED
      BY <1>1, <2>2, <2>3, <3>1, AllRevoked DEF SInv
  <2> HIDE DEF refused, tx
  <2> QED
    BY <1>1, <2>1, <2>2, <2>3, ApprovalKeeps
<1> QED
  BY <1>2, <1>3, <1>4

-----------------------------------------------------------------------------
LEMMA AllowancesInit == ASSUME Init PROVE SInv
<1>1. allow = granted /\ IsABag(allow) /\ scheduled = {}
  BY HoldingsAssumption DEF Init
<1>2. \A h \in DOMAIN allow : allow[h] <= allow[h]
  BY <1>1 DEF IsABag
<1> QED
  BY <1>1, <1>2 DEF SInv, Allowed, SpendersWereApproved, \sqsubseteq

LEMMA AllowancesNext == ASSUME HInv, SInv, Next PROVE SInv'
<1>1. ASSUME NEW o \in Options, Moving(o) \/ Supplying(o) \/ Admitting(o) \/ Approving(o)
      PROVE  SInv'
  BY <1>1, MovingLapses, SupplyingLapses, AdmittingLapses,
     ApprovingHbars, ApprovingUnits, ApprovingNfts DEF Approving
<1>2. CASE ExecuteScheduled
  <2>1. PICK s \in scheduled : Land(s.ask, s.tx) /\ scheduled' = scheduled \ {s}
    BY <1>2 DEF ExecuteScheduled
  <2>2. s.ask.call \notin Approvals /\ s.tx.type \notin AllowanceTypes
    BY DEF SInv
  <2>3. Allowed'
    BY <2>1, <2>2, LandOther DEF SInv
  <2> QED
    BY <2>1, <2>3 DEF SInv
<1>3. CASE DissociateRejected
  <2> DEFINE o == [flow EXCEPT !.call = "dissociateRejected"]
             tx == RejectSecond(flow)
  <2>1. Land(o, tx) /\ UNCHANGED scheduled
    BY <1>3 DEF DissociateRejected
  <2>2. tx.type \notin AllowanceTypes
    BY DEF RejectSecond, AllowanceTypes
  <2>3. o.call \notin Approvals
    <3>1. flow \in TokenRejectOptions
      BY <1>3 DEF DissociateRejected, HInv
    <3>2. o.call = "dissociateRejected"
      BY <3>1 DEF TokenRejectOptions
    <3> HIDE DEF o
    <3> QED
      BY <3>2 DEF Approvals
  <2> HIDE DEF o, tx
  <2>4. Allowed'
    BY <2>1, <2>2, <2>3, LandOther DEF SInv
  <2> QED
    BY <2>1, <2>4 DEF SInv
<1> QED
  BY <1>1, <1>2, <1>3 DEF Next

LEMMA AllowancesStutter == ASSUME SInv, UNCHANGED vars PROVE SInv'
BY DEF vars, net, SInv, Allowed, SpendersWereApproved

(* The network's account of the allowances stays within what the callers   *)
(* asked, and what waits for signatures neither approves nor revokes.      *)
THEOREM AllowancesInvariant == Spec => []SInv
BY AllowancesInit, AllowancesNext, AllowancesStutter, HoldingsInvariant, PTL DEF Spec

(* Approve and delete operations: in whatever order approvals, deletions   *)
(* and the other 19 kinds of call come, and whatever they name, nobody can *)
(* spend more than the owner last approved, and nothing once that approval *)
(* was deleted.                                                            *)
THEOREM HoldingsSpendersWereApproved == Spec => []SpendersWereApproved
<1>1. SInv => SpendersWereApproved
  BY DEF SInv, Allowed
<1> QED
  BY <1>1, AllowancesInvariant, PTL
-----------------------------------------------------------------------------
(* Bags, by how many copies of each thing they hold.                       *)
Copies(B, x) == IF x \in DOMAIN B THEN B[x] ELSE 0

(* A bag holds a whole number of copies, and none of what is not in it.    *)
LEMMA CopiesCount ==
    ASSUME NEW B, IsABag(B)
    PROVE  \A x : Copies(B, x) \in Nat /\ (x \in DOMAIN B <=> Copies(B, x) > 0)
BY DEF Copies, IsABag

(* Bags with as many copies of everything are the same.                    *)
LEMMA SameBag ==
    ASSUME NEW A, IsABag(A), NEW B, IsABag(B), \A x : Copies(A, x) = Copies(B, x)
    PROVE  A = B
<1>1. DOMAIN A = DOMAIN B
  <2>1. \A x : x \in DOMAIN A <=> x \in DOMAIN B
    BY CopiesCount
  <2> QED
    BY <2>1
<1>2. \A x \in DOMAIN A : A[x] = B[x]
  BY <1>1 DEF Copies
<1>3. A = [x \in DOMAIN A |-> A[x]] /\ B = [x \in DOMAIN B |-> B[x]]
  BY DEF IsABag
<1> QED
  BY <1>1, <1>2, <1>3

LEMMA NoBag == IsABag(EmptyBag) /\ DOMAIN EmptyBag = {} /\ \A x : Copies(EmptyBag, x) = 0
BY DEF EmptyBag, SetToBag, IsABag, Copies

(* A bag of n copies of one thing.                                         *)
LEMMA OneBag ==
    ASSUME NEW x, NEW n \in Int
    PROVE  IsABag(Of(x, n)) /\ \A y : Copies(Of(x, n), y) = IF y = x /\ n > 0 THEN n ELSE 0
<1>1. CASE n > 0
  <2>1. Of(x, n) = [e \in {x} |-> n]
    BY <1>1 DEF Of
  <2> QED
    BY <1>1, <2>1 DEF IsABag, Copies
<1>2. CASE ~(n > 0)
  BY <1>2, NoBag DEF Of
<1> QED
  BY <1>1, <1>2

(* Adding bags adds copies.                                                *)
LEMMA BothBags ==
    ASSUME NEW A, IsABag(A), NEW B, IsABag(B)
    PROVE  IsABag(A (+) B) /\ \A x : Copies(A (+) B, x) = Copies(A, x) + Copies(B, x)
<1> DEFINE C == A (+) B
<1>1. DOMAIN C = DOMAIN A \cup DOMAIN B
  BY DEF (+)
<1>2. \A x \in DOMAIN C : C[x] = Copies(A, x) + Copies(B, x)
  BY <1>1 DEF (+), Copies
<1>3. C = [x \in DOMAIN C |-> C[x]]
  BY DEF (+)
<1> HIDE DEF C
<1>4. \A x \in DOMAIN C : C[x] \in {n \in Nat : n > 0}
  BY <1>1, <1>2, CopiesCount
<1>5. IsABag(C)
  BY <1>3, <1>4 DEF IsABag
<1>6. \A x : Copies(C, x) = Copies(A, x) + Copies(B, x)
  <2> TAKE x
  <2>1. CASE x \in DOMAIN C
    BY <1>2, <2>1 DEF Copies
  <2>2. CASE x \notin DOMAIN C
    BY <1>1, <2>2 DEF Copies
  <2> QED
    BY <2>1, <2>2
<1> QED
  BY <1>5, <1>6 DEF C

(* Taking a bag away takes its copies, down to none.                       *)
LEMMA LessBag ==
    ASSUME NEW A, IsABag(A), NEW B, IsABag(B)
    PROVE  /\ IsABag(A (-) B)
           /\ \A x : Copies(A (-) B, x) = IF Copies(A, x) > Copies(B, x)
                                          THEN Copies(A, x) - Copies(B, x) ELSE 0
<1> DEFINE C == A (-) B
           L == [e \in DOMAIN A |-> IF e \in DOMAIN B THEN A[e] - B[e] ELSE A[e]]
<1>1. \A x \in DOMAIN A : L[x] = Copies(A, x) - Copies(B, x)
  <2> TAKE x \in DOMAIN A
  <2>1. A[x] = Copies(A, x) /\ Copies(A, x) \in Nat
    BY CopiesCount DEF Copies
  <2>2. CASE x \in DOMAIN B
    BY <2>1, <2>2 DEF Copies
  <2>3. CASE x \notin DOMAIN B
    BY <2>1, <2>3 DEF Copies
  <2> QED
    BY <2>2, <2>3
<1>2. DOMAIN L = DOMAIN A /\ C = [e \in {d \in DOMAIN L : L[d] > 0} |-> L[e]]
  BY DEF (-)
<1> HIDE DEF C, L
<1>3. /\ DOMAIN C = {d \in DOMAIN A : Copies(A, d) > Copies(B, d)}
      /\ \A x \in DOMAIN C : C[x] = Copies(A, x) - Copies(B, x)
  <2>1. \A x \in DOMAIN A : L[x] > 0 <=> Copies(A, x) > Copies(B, x)
    BY <1>1, CopiesCount
  <2> QED
    BY <1>1, <1>2, <2>1
<1>4. IsABag(C)
  <2>1. C = [x \in DOMAIN C |-> C[x]]
    BY <1>2
  <2>2. \A x \in DOMAIN C : C[x] \in {n \in Nat : n > 0}
    BY <1>3, CopiesCount
  <2> QED
    BY <2>1, <2>2 DEF IsABag
<1>5. \A x : Copies(C, x) = IF Copies(A, x) > Copies(B, x) THEN Copies(A, x) - Copies(B, x) ELSE 0
  <2> TAKE x
  <2>1. CASE x \in DOMAIN C
    BY <1>3, <2>1 DEF Copies
  <2>2. CASE x \notin DOMAIN C
    <3>1. ~(Copies(A, x) > Copies(B, x))
      <4>1. CASE x \in DOMAIN A
        BY <1>3, <2>2, <4>1
      <4>2. CASE x \notin DOMAIN A
        <5>1. Copies(A, x) = 0 /\ Copies(B, x) \in Nat
          BY <4>2, CopiesCount DEF Copies
        <5> QED
          BY <5>1
      <4> QED
        BY <4>1, <4>2
    <3> QED
      BY <2>2, <3>1 DEF Copies
  <2> QED
    BY <2>1, <2>2
<1> QED
  BY <1>4, <1>5 DEF C

(* With the empty bag nothing is added, and nothing taken.                 *)
LEMMA NoChange ==
    ASSUME NEW A, IsABag(A)
    PROVE  A (+) EmptyBag = A /\ EmptyBag (+) A = A /\ A (-) EmptyBag = A
<1>1. \A x : Copies(A, x) \in Nat
  BY CopiesCount
<1>2. /\ IsABag(A (+) EmptyBag) /\ IsABag(EmptyBag (+) A) /\ IsABag(A (-) EmptyBag)
      /\ \A x : /\ Copies(A (+) EmptyBag, x) = Copies(A, x) + 0
                /\ Copies(EmptyBag (+) A, x) = 0 + Copies(A, x)
                /\ Copies(A (-) EmptyBag, x) = IF Copies(A, x) > 0 THEN Copies(A, x) - 0 ELSE 0
  BY NoBag, BothBags, LessBag
<1>3. \A x : /\ Copies(A (+) EmptyBag, x) = Copies(A, x)
             /\ Copies(EmptyBag (+) A, x) = Copies(A, x)
             /\ Copies(A (-) EmptyBag, x) = Copies(A, x)
  BY <1>1, <1>2
<1> QED
  BY <1>2, <1>3, SameBag

(* A bag within another holds no more of anything.                         *)
LEMMA WithinBag ==
    ASSUME NEW A, IsABag(A), NEW B, IsABag(B), A \sqsubseteq B
    PROVE  \A x : Copies(A, x) <= Copies(B, x)
<1> TAKE x
<1>1. Copies(B, x) \in Nat
  BY CopiesCount
<1> QED
  BY <1>1 DEF \sqsubseteq, Copies

-----------------------------------------------------------------------------
(* Running sums, and what they say of bags added one after the other.      *)
Running(k, v, n) ==
    /\ k \in [0..n -> Nat] /\ v \in [1..n -> Nat]
    /\ k[0] = 0 /\ \A i \in 1..n : k[i] = k[i-1] + v[i]

(* What holds at i and goes from each step to the next holds ever after.   *)
LEMMA Onwards ==
    ASSUME NEW n \in Nat, NEW i \in 0..n, NEW G \in SUBSET (0..n), i \in G,
           \A m \in 1..n : i < m /\ m - 1 \in G => m \in G
    PROVE  \A m \in 0..n : i <= m => m \in G
<1> DEFINE Bad == {m \in 0..n : i <= m /\ m \notin G}
<1> SUFFICES ASSUME Bad # {} PROVE FALSE
  OBVIOUS
<1>1. PICK m \in Bad : \A k \in Bad : ~(k < m)
  <2>1. Bad \in SUBSET Nat
    OBVIOUS
  <2> HIDE DEF Bad
  <2> QED
    BY <2>1, LeastNatural
<1>2. m \in 1..n /\ i < m /\ m - 1 \in 0..n /\ i <= m - 1 /\ m - 1 < m
  BY <1>1
<1>3. m - 1 \in G
  BY <1>1, <1>2
<1> QED
  BY <1>1, <1>2, <1>3

(* A running sum never falls.                                              *)
LEMMA RunningGrows ==
    ASSUME NEW n \in Nat, NEW k, NEW v, Running(k, v, n), NEW i \in 0..n
    PROVE  \A m \in 0..n : i <= m => k[i] <= k[m]
<1> DEFINE G == {m \in 0..n : k[i] <= k[m]}
<1>1. \A m \in 1..n : m - 1 \in 0..n /\ m \in 0..n /\ k[m] = k[m-1] + v[m] /\ v[m] \in Nat
                      /\ k[m-1] \in Nat
  BY DEF Running
<1>2. i \in G /\ k[i] \in Nat
  BY DEF Running
<1>3. ASSUME NEW m \in 1..n, i < m, m - 1 \in G PROVE m \in G
  <2>1. k[i] <= k[m-1]
    BY <1>3
  <2> QED
    BY <1>1, <1>2, <2>1
<1>4. G \in SUBSET (0..n)
  OBVIOUS
<1> HIDE DEF G
<1>5. \A m \in 0..n : i <= m => m \in G
  BY <1>2, <1>3, <1>4, Onwards
<1> QED
  BY <1>5 DEF G

(* It stays where it is when only zeros follow.                            *)
LEMMA RunningRests ==
    ASSUME NEW n \in Nat, NEW k, NEW v, Running(k, v, n), NEW i \in 0..n,
           \A m \in 1..n : i < m => v[m] = 0
    PROVE  k[n] = k[i]
<1> DEFINE G == {m \in 0..n : k[m] = k[i]}
<1>1. \A m \in 1..n : m - 1 \in 0..n /\ m \in 0..n /\ k[m] = k[m-1] + v[m] /\ k[m-1] \in Nat
  BY DEF Running
<1>2. i \in G
  OBVIOUS
<1>3. ASSUME NEW m \in 1..n, i < m, m - 1 \in G PROVE m \in G
  <2>1. k[m-1] = k[i] /\ v[m] = 0
    BY <1>3
  <2> QED
    BY <1>1, <2>1
<1>4. G \in SUBSET (0..n)
  OBVIOUS
<1> HIDE DEF G
<1>5. \A m \in 0..n : i <= m => m \in G
  BY <1>2, <1>3, <1>4, Onwards
<1>6. n \in 0..n /\ i <= n
  OBVIOUS
<1> QED
  BY <1>5, <1>6 DEF G

(* Its last value bounds each term and each two of them, and is the one    *)
(* term that is not zero.                                                  *)
LEMMA RunningSums ==
    ASSUME NEW n \in Nat, NEW k, NEW v, Running(k, v, n)
    PROVE  /\ k[n] \in Nat
           /\ \A i \in 1..n : v[i] <= k[n]
           /\ \A i, j \in 1..n : i < j => v[i] + v[j] <= k[n]
           /\ (\A i \in 1..n : v[i] = 0) => k[n] = 0
           /\ \A i \in 1..n : (\A j \in 1..n : j # i => v[j] = 0) => k[n] = v[i]
<1>1. /\ \A m \in 1..n : /\ m - 1 \in 0..n /\ m \in 0..n /\ k[m] = k[m-1] + v[m] /\ v[m] \in Nat
                         /\ k[m-1] \in Nat /\ k[m] \in Nat
      /\ n \in 0..n /\ 0 \in 0..n /\ k[n] \in Nat /\ k[0] = 0
  BY DEF Running
<1>2. ASSUME NEW i \in 0..n PROVE k[i] <= k[n]
  BY <1>1, RunningGrows
<1>3. ASSUME NEW i \in 1..n PROVE v[i] <= k[n]
  <2>1. k[i] <= k[n]
    BY <1>1, <1>2
  <2> QED
    BY <1>1, <2>1
<1>4. ASSUME NEW i \in 1..n, NEW j \in 1..n, i < j PROVE v[i] + v[j] <= k[n]
  <2>1. k[j] <= k[n]
    BY <1>1, <1>2
  <2>2. k[i] <= k[j-1]
    <3>1. i <= j - 1 /\ j - 1 \in 0..n /\ i \in 0..n
      BY <1>1, <1>4
    <3> QED
      BY <3>1, RunningGrows
  <2>3. v[i] <= k[i]
    BY <1>1
  <2> QED
    BY <1>1, <2>1, <2>2, <2>3
<1>5. ASSUME \A i \in 1..n : v[i] = 0 PROVE k[n] = 0
  BY <1>1, <1>5, RunningRests
<1>6. ASSUME NEW i \in 1..n, \A j \in 1..n : j # i => v[j] = 0 PROVE k[n] = v[i]
  <2>1. k[n] = k[i]
    <3>1. \A m \in 1..n : i < m => v[m] = 0
      BY <1>6
    <3> QED
      BY <1>1, <3>1, RunningRests
  <2>2. k[i-1] = k[0]
    <3> DEFINE q == [m \in 0..(i-1) |-> k[m]]
               w == [m \in 1..(i-1) |-> v[m]]
    <3>1. /\ i - 1 \in Nat /\ \A m \in 1..(i-1) : m \in 1..n /\ m # i /\ m - 1 \in 0..(i-1)
          /\ \A m \in 0..(i-1) : m \in 0..n /\ k[m] \in Nat
      BY DEF Running
    <3>2. Running(q, w, i - 1)
      <4>1. q \in [0..(i-1) -> Nat] /\ q[0] = 0
        BY <1>1, <3>1
      <4>2. w \in [1..(i-1) -> Nat]
        BY <1>1, <3>1
      <4>3. \A m \in 1..(i-1) : q[m] = q[m-1] + w[m]
        BY <1>1, <3>1
      <4> QED
        BY <4>1, <4>2, <4>3 DEF Running
    <3>3. \A m \in 1..(i-1) : w[m] = 0
      BY <1>6, <3>1
    <3>4. 0 \in 0..(i-1) /\ i - 1 \in 0..(i-1) /\ q[i-1] = k[i-1] /\ q[0] = k[0]
      BY <3>1
    <3>5. \A m \in 1..(i-1) : 0 < m => w[m] = 0
      BY <3>3
    <3> HIDE DEF q, w
    <3>6. q[i-1] = q[0]
      BY <3>1, <3>2, <3>4, <3>5, RunningRests
    <3> QED
      BY <3>4, <3>6
  <2> QED
    BY <1>1, <2>1, <2>2
<1> QED
  BY <1>1, <1>3, <1>4, <1>5, <1>6

(* The bags of a list.                                                     *)
BagList(bags, n) == bags = [i \in 1..n |-> bags[i]] /\ \A i \in 1..n : IsABag(bags[i])

Adding(c, bags, n) ==
    /\ c[0] = EmptyBag /\ \A i \in 1..n : c[i] = c[i-1] (+) bags[i]
    /\ \A i \in 0..n : IsABag(c[i])

(* Total adds the bags of a list one after the other.                      *)
LEMMA TotalAdds ==
    ASSUME NEW n \in Nat, NEW bags, BagList(bags, n)
    PROVE  \E c : Adding(c, bags, n) /\ Total(bags) = c[n]
<1> DEFINE K == UNION {DOMAIN bags[i] : i \in 1..n}
           T == {B \in UNION {[D -> Nat] : D \in SUBSET K} : IsABag(B)}
           F == [p \in T \X (1..n) |-> p[1] (+) bags[p[2]]]
           sum == CHOOSE f : f = [i \in 0..n |-> IF i = 0 THEN EmptyBag ELSE f[i-1] (+) bags[i]]
<1>1. \A B : IsABag(B) /\ DOMAIN B \subseteq K => B \in T
  <2> HIDE DEF K
  <2> TAKE B
  <2> HAVE IsABag(B) /\ DOMAIN B \subseteq K
  <2>1. B \in [DOMAIN B -> Nat] /\ DOMAIN B \in SUBSET K
    BY DEF IsABag
  <2> QED
    BY <2>1
<1>2. EmptyBag \in T
  <2>1. IsABag(EmptyBag) /\ DOMAIN EmptyBag \subseteq K
    BY NoBag
  <2> HIDE DEF K, T
  <2> QED
    BY <1>1, <2>1
<1>3. ASSUME NEW B \in T, NEW i \in 1..n PROVE B (+) bags[i] \in T
  <2>1. IsABag(B) /\ DOMAIN B \subseteq K
    OBVIOUS
  <2>2. IsABag(bags[i]) /\ DOMAIN bags[i] \subseteq K
    BY DEF BagList
  <2> HIDE DEF K, T
  <2>3. IsABag(B (+) bags[i])
    BY <2>1, <2>2, BothBags
  <2>4. DOMAIN (B (+) bags[i]) \subseteq K
    BY <2>1, <2>2 DEF (+)
  <2> QED
    BY <1>1, <2>3, <2>4
<1>4. \A B \in T : IsABag(B)
  OBVIOUS
<1>5. F \in [T \X (1..n) -> T]
  <2> HIDE DEF T
  <2> QED
    BY <1>3
<1> HIDE DEF T
<1>6. PICK f \in [0..n -> T] : f[0] = EmptyBag /\ \A i \in 1..n : f[i] = F[<<f[i-1], i>>]
  <2> HIDE DEF F
  <2>1. Solved(T, EmptyBag, n, F)
    BY <1>2, <1>5, Recursion
  <2> QED
    BY <2>1 DEF Solved
<1>7. \A i \in 1..n : f[i] = f[i-1] (+) bags[i]
  <2> TAKE i \in 1..n
  <2>1. i - 1 \in 0..n
    OBVIOUS
  <2>2. <<f[i-1], i>> \in T \X (1..n)
    BY <2>1
  <2> QED
    BY <1>6, <2>2
<1>8. f = [i \in 0..n |-> IF i = 0 THEN EmptyBag ELSE f[i-1] (+) bags[i]]
  <2>1. \A i \in 0..n : f[i] = IF i = 0 THEN EmptyBag ELSE f[i-1] (+) bags[i]
    BY <1>6, <1>7
  <2> QED
    BY <2>1
<1>9. sum = [i \in 0..n |-> IF i = 0 THEN EmptyBag ELSE sum[i-1] (+) bags[i]]
  BY <1>8
<1>10. Total(bags) = sum[n]
  <2>1. Len(bags) = n
    BY DEF BagList
  <2> QED
    BY <2>1 DEF Total
<1> HIDE DEF sum, F
<1>11. sum[0] = EmptyBag /\ \A i \in 1..n : sum[i] = sum[i-1] (+) bags[i]
  <2>1. 0 \in 0..n /\ \A i \in 1..n : i \in 0..n /\ i # 0
    OBVIOUS
  <2> QED
    BY <1>9, <2>1
<1>12. \A i \in 0..n : IsABag(sum[i])
  <2> DEFINE G == {i \in 0..n : IsABag(sum[i])}
  <2>1. 0 \in G
    BY <1>11, NoBag
  <2>2. ASSUME NEW m \in 1..n, 0 < m, m - 1 \in G PROVE m \in G
    <3>1. IsABag(sum[m-1]) /\ IsABag(bags[m]) /\ m \in 0..n
      BY <2>2 DEF BagList
    <3> QED
      BY <1>11, <3>1, BothBags
  <2>3. G \in SUBSET (0..n) /\ 0 \in 0..n
    OBVIOUS
  <2> HIDE DEF G
  <2>4. \A m \in 0..n : 0 <= m => m \in G
    BY <2>1, <2>2, <2>3, Onwards
  <2> QED
    BY <2>4 DEF G
<1> QED
  BY <1>10, <1>11, <1>12 DEF Adding

(* How many copies of x a list of bags holds runs with the list.           *)
LEMMA CopiesRun ==
    ASSUME NEW n \in Nat, NEW bags, BagList(bags, n), NEW c, Adding(c, bags, n), NEW x
    PROVE  Running([i \in 0..n |-> Copies(c[i], x)], [i \in 1..n |-> Copies(bags[i], x)], n)
<1> DEFINE k == [i \in 0..n |-> Copies(c[i], x)]
           v == [i \in 1..n |-> Copies(bags[i], x)]
<1>1. k \in [0..n -> Nat]
  BY CopiesCount DEF Adding
<1>2. v \in [1..n -> Nat]
  BY CopiesCount DEF BagList
<1>3. k[0] = 0
  BY NoBag DEF Adding
<1>4. ASSUME NEW i \in 1..n PROVE k[i] = k[i-1] + v[i]
  <2>1. i - 1 \in 0..n /\ i \in 0..n
    OBVIOUS
  <2>2. Copies(c[i], x) = Copies(c[i-1], x) + Copies(bags[i], x)
    BY <2>1, BothBags DEF Adding, BagList
  <2> QED
    BY <2>1, <2>2
<1> QED
  BY <1>1, <1>2, <1>3, <1>4 DEF Running

Sums(B, bags, n) ==
    /\ IsABag(B)
    /\ \A x : \A i \in 1..n : Copies(bags[i], x) <= Copies(B, x)
    /\ \A x : \A i, j \in 1..n : i < j => Copies(bags[i], x) + Copies(bags[j], x) <= Copies(B, x)
    /\ \A x : (\A i \in 1..n : Copies(bags[i], x) = 0) => Copies(B, x) = 0
    /\ \A x : \A i \in 1..n : (\A j \in 1..n : j # i => Copies(bags[j], x) = 0)
                                 => Copies(B, x) = Copies(bags[i], x)

(* What Total holds of each thing, by what the bags of the list hold.      *)
LEMMA TotalSums ==
    ASSUME NEW n \in Nat, NEW bags, BagList(bags, n)
    PROVE  Sums(Total(bags), bags, n)
<1>1. PICK c : Adding(c, bags, n) /\ Total(bags) = c[n]
  BY TotalAdds
<1> DEFINE B == Total(bags)
<1>2. n \in 0..n /\ IsABag(B)
  BY <1>1 DEF Adding
<1>3. ASSUME NEW x
      PROVE  /\ \A i \in 1..n : Copies(bags[i], x) <= Copies(B, x)
             /\ \A i, j \in 1..n : i < j => Copies(bags[i], x) + Copies(bags[j], x) <= Copies(B, x)
             /\ (\A i \in 1..n : Copies(bags[i], x) = 0) => Copies(B, x) = 0
             /\ \A i \in 1..n : (\A j \in 1..n : j # i => Copies(bags[j], x) = 0)
                                   => Copies(B, x) = Copies(bags[i], x)
  <2> DEFINE k == [i \in 0..n |-> Copies(c[i], x)]
             v == [i \in 1..n |-> Copies(bags[i], x)]
  <2>1. Running(k, v, n)
    BY <1>1, CopiesRun
  <2>2. k[n] = Copies(B, x) /\ \A i \in 1..n : v[i] = Copies(bags[i], x)
    BY <1>1, <1>2
  <2> HIDE DEF k, v, B
  <2>3. /\ \A i \in 1..n : v[i] <= k[n]
        /\ \A i, j \in 1..n : i < j => v[i] + v[j] <= k[n]
        /\ (\A i \in 1..n : v[i] = 0) => k[n] = 0
        /\ \A i \in 1..n : (\A j \in 1..n : j # i => v[j] = 0) => k[n] = v[i]
    BY <2>1, RunningSums
  <2> QED
    BY <2>2, <2>3
<1> HIDE DEF B
<1>4. Sums(B, bags, n)
  BY <1>2, <1>3 DEF Sums
<1> QED
  BY <1>4 DEF B

(* A list of one, and a list of bags of which all are empty.               *)
LEMMA TotalNone ==
    ASSUME NEW n \in Nat, NEW bags, BagList(bags, n), \A i \in 1..n : bags[i] = EmptyBag
    PROVE  Total(bags) = EmptyBag
<1>1. Sums(Total(bags), bags, n)
  BY TotalSums
<1> DEFINE B == Total(bags)
<1>2. \A x : Copies(B, x) = 0
  BY <1>1, NoBag DEF Sums
<1>3. IsABag(B)
  BY <1>1 DEF Sums
<1> HIDE DEF B
<1>4. B = EmptyBag
  BY <1>2, <1>3, NoBag, SameBag
<1> QED
  BY <1>4 DEF B

(* Where all bags but one are empty, that one is their total.              *)
LEMMA TotalOne ==
    ASSUME NEW n \in Nat, NEW bags, BagList(bags, n), NEW i \in 1..n,
           \A j \in 1..n : j # i => bags[j] = EmptyBag
    PROVE  Total(bags) = bags[i]
<1>1. Sums(Total(bags), bags, n)
  BY TotalSums
<1> DEFINE B == Total(bags)
<1>2. IsABag(B) /\ IsABag(bags[i])
  BY <1>1 DEF Sums, BagList
<1>3. \A x : \A j \in 1..n : j # i => Copies(bags[j], x) = 0
  BY NoBag
<1>4. \A x : Copies(B, x) = Copies(bags[i], x)
  BY <1>1, <1>3 DEF Sums
<1> HIDE DEF B
<1>5. B = bags[i]
  BY <1>2, <1>4, SameBag
<1> QED
  BY <1>5 DEF B

(* A list twice as long, of which one of each two is empty.                *)
LEMMA TotalPaired ==
    ASSUME NEW n \in Nat, NEW bags, BagList(bags, 2 * n), NEW t, BagList(t, n),
           \A i \in 1..n : \/ bags[2*i - 1] = EmptyBag /\ bags[2*i] = t[i]
                           \/ bags[2*i - 1] = t[i] /\ bags[2*i] = EmptyBag
    PROVE  Total(bags) = Total(t)
<1>0. 2 * n \in Nat
  OBVIOUS
<1>1. PICK c : Adding(c, bags, 2 * n) /\ Total(bags) = c[2 * n]
  BY <1>0, TotalAdds
<1>2. PICK d : Adding(d, t, n) /\ Total(t) = d[n]
  BY TotalAdds
<1> DEFINE G == {i \in 0..n : c[2 * i] = d[i]}
<1>3. 0 \in G
  BY <1>1, <1>2 DEF Adding
<1>4. ASSUME NEW m \in 1..n, 0 < m, m - 1 \in G PROVE m \in G
  <2>1. /\ 2*m - 1 \in 1..(2 * n) /\ 2*m \in 1..(2 * n) /\ 2 * (m - 1) \in 0..(2 * n)
        /\ (2*m - 1) - 1 = 2 * (m - 1) /\ m - 1 \in 0..n /\ m \in 0..n
    OBVIOUS
  <2>2. /\ c[2*m - 1] = c[2 * (m - 1)] (+) bags[2*m - 1]
        /\ c[2*m] = c[2*m - 1] (+) bags[2*m]
        /\ IsABag(c[2 * (m - 1)])
    BY <1>1, <2>1 DEF Adding
  <2>3. d[m] = d[m-1] (+) t[m] /\ IsABag(d[m]) /\ IsABag(d[m-1])
    BY <1>2, <2>1 DEF Adding
  <2>4. c[2 * (m - 1)] = d[m-1]
    BY <1>4
  <2>5. CASE bags[2*m - 1] = EmptyBag /\ bags[2*m] = t[m]
    <3>1. c[2*m - 1] = d[m-1]
      BY <2>2, <2>3, <2>4, <2>5, NoChange
    <3> QED
      BY <2>1, <2>2, <2>3, <2>5, <3>1
  <2>6. CASE bags[2*m - 1] = t[m] /\ bags[2*m] = EmptyBag
    <3>1. c[2*m - 1] = d[m]
      BY <2>2, <2>3, <2>4, <2>6
    <3>2. c[2*m] = d[m]
      BY <2>2, <2>3, <2>6, <3>1, NoChange
    <3> QED
      BY <2>1, <3>2
  <2> QED
    BY <2>5, <2>6
<1>5. G \in SUBSET (0..n) /\ 0 \in 0..n /\ n \in 0..n
  OBVIOUS
<1> HIDE DEF G
<1>6. \A m \in 0..n : 0 <= m => m \in G
  BY <1>3, <1>4, <1>5, Onwards
<1> QED
  BY <1>1, <1>2, <1>5, <1>6 DEF G

-----------------------------------------------------------------------------
(* What a transaction that lands does to the holdings.                     *)
Books ==
    /\ IsABag(bal) /\ DOMAIN bal \subseteq Assets \X Accounts
    /\ IsABag(pending) /\ DOMAIN pending \subseteq Assets \X Accounts \X Accounts

(* A transfer of one asset from one account to another.                    *)
Paid(x, from, to, amount) ==
    /\ Of(<<x, from>>, amount) \sqsubseteq bal
    /\ bal' = (bal (-) Of(<<x, from>>, amount)) (+) Of(<<x, to>>, amount)
    /\ x \in Assets /\ UNCHANGED <<pending, marks, minted>>

(* A transfer list of one pair, one leaving and one entering, is one       *)
(* payment.                                                                *)
LEMMA PairPaid ==
    ASSUME NEW tx, NEW x, NEW from, NEW to, NEW amount \in Int, amount > 0, NEW decimals,
           tx.adjust = Paired(x, from, to, amount, decimals), tx.moves = <<>>,
           CryptoTransfer(tx)
    PROVE  Paid(x, from, to, amount)
<1> DEFINE outs == [i \in DOMAIN tx.adjust |->
                       Of(<<tx.adjust[i].asset, tx.adjust[i].account>>, -tx.adjust[i].by)]
           ins == [i \in DOMAIN tx.adjust |->
                      Of(<<tx.adjust[i].asset, tx.adjust[i].account>>, tx.adjust[i].by)]
           outm == [i \in DOMAIN tx.moves |-> Of(<<tx.moves[i].asset, tx.moves[i].from>>, 1)]
           inm == [i \in DOMAIN tx.moves |-> Of(<<tx.moves[i].asset, tx.moves[i].to>>, 1)]
           out == Of(<<x, from>>, amount)
           in == Of(<<x, to>>, amount)
<1>1. /\ DOMAIN tx.adjust = 1..2 /\ DOMAIN tx.moves = 1..0
      /\ tx.adjust[1].asset = x /\ tx.adjust[1].account = from /\ tx.adjust[1].by = -amount
      /\ tx.adjust[2].asset = x /\ tx.adjust[2].account = to /\ tx.adjust[2].by = amount
  BY DEF Paired
<1>2. /\ outs[1] = out /\ outs[2] = EmptyBag /\ ins[1] = EmptyBag /\ ins[2] = in
      /\ DOMAIN outs = 1..2 /\ DOMAIN ins = 1..2 /\ DOMAIN outm = 1..0 /\ DOMAIN inm = 1..0
      /\ outs = [i \in 1..2 |-> outs[i]] /\ ins = [i \in 1..2 |-> ins[i]]
      /\ outm = [i \in 1..0 |-> outm[i]] /\ inm = [i \in 1..0 |-> inm[i]]
  <2>1. -(-amount) = amount /\ ~(-amount > 0)
    OBVIOUS
  <2>2. \A y : Of(y, -amount) = EmptyBag
    BY <2>1 DEF Of
  <2>3. outs = [i \in 1..2 |-> outs[i]] /\ ins = [i \in 1..2 |-> ins[i]]
    BY <1>1
  <2>4. outs[1] = out /\ outs[2] = EmptyBag
    BY <1>1, <2>1, <2>2
  <2>5. ins[1] = EmptyBag /\ ins[2] = in
    BY <1>1, <2>2
  <2> QED
    BY <1>1, <2>3, <2>4, <2>5
<1>3. IsABag(out) /\ IsABag(in) /\ IsABag(EmptyBag)
  BY OneBag, NoBag
<1>4. OutOf(tx) = Total(outs) (+) Total(outm) /\ InTo(tx) = Total(ins) (+) Total(inm)
  BY DEF OutOf, InTo
<1> HIDE DEF out, in, outs, ins, outm, inm
<1>5. BagList(outs, 2) /\ BagList(ins, 2) /\ BagList(outm, 0) /\ BagList(inm, 0)
  BY <1>2, <1>3 DEF BagList
<1>6. Total(outs) = out /\ Total(ins) = in
  <2>1. /\ \A j \in 1..2 : j # 1 => outs[j] = EmptyBag
        /\ \A j \in 1..2 : j # 2 => ins[j] = EmptyBag
    <3>1. \A j \in 1..2 : j = 1 \/ j = 2
      OBVIOUS
    <3> QED
      BY <1>2, <3>1
  <2>2. 1 \in 1..2 /\ 2 \in 1..2 /\ 2 \in Nat
    OBVIOUS
  <2>3. Total(outs) = outs[1]
    BY <1>5, <2>1, <2>2, TotalOne
  <2>4. Total(ins) = ins[2]
    BY <1>5, <2>1, <2>2, TotalOne
  <2> QED
    BY <1>2, <2>3, <2>4
<1>7. Total(outm) = EmptyBag /\ Total(inm) = EmptyBag
  BY <1>5, TotalNone
<1>8. OutOf(tx) = out /\ InTo(tx) = in
  BY <1>3, <1>4, <1>6, <1>7, NoChange
<1>9. out \sqsubseteq bal /\ bal' = (bal (-) out) (+) in /\ UNCHANGED <<pending, marks, minted>>
  BY <1>8 DEF CryptoTransfer, Move
<1>10. x \in Assets
  <2>1. \A h \in DOMAIN out : h[1] \in Assets
    BY <1>8 DEF CryptoTransfer, Move, BagToSet
  <2>2. <<x, from>> \in DOMAIN out
    BY DEF out, Of
  <2> QED
    BY <2>1, <2>2
<1> QED
  BY <1>9, <1>10 DEF Paid, out, in

(* A transfer of one serial is one payment.                                *)
LEMMA MovePaid ==
    ASSUME NEW tx, NEW e, tx.adjust = <<>>, tx.moves = <<Moved(e)>>, CryptoTransfer(tx)
    PROVE  Paid(<<e.token, e.serial>>, e.sender, e.receiver, 1)
<1> DEFINE x == <<e.token, e.serial>>
           outs == [i \in DOMAIN tx.adjust |->
                       Of(<<tx.adjust[i].asset, tx.adjust[i].account>>, -tx.adjust[i].by)]
           ins == [i \in DOMAIN tx.adjust |->
                      Of(<<tx.adjust[i].asset, tx.adjust[i].account>>, tx.adjust[i].by)]
           outm == [i \in DOMAIN tx.moves |-> Of(<<tx.moves[i].asset, tx.moves[i].from>>, 1)]
           inm == [i \in DOMAIN tx.moves |-> Of(<<tx.moves[i].asset, tx.moves[i].to>>, 1)]
           out == Of(<<x, e.sender>>, 1)
           in == Of(<<x, e.receiver>>, 1)
<1>1. /\ DOMAIN tx.adjust = 1..0 /\ DOMAIN tx.moves = 1..1
      /\ tx.moves[1].asset = x /\ tx.moves[1].from = e.sender /\ tx.moves[1].to = e.receiver
  BY DEF Moved
<1>2. /\ outm[1] = out /\ inm[1] = in
      /\ outs = [i \in 1..0 |-> outs[i]] /\ ins = [i \in 1..0 |-> ins[i]]
      /\ outm = [i \in 1..1 |-> outm[i]] /\ inm = [i \in 1..1 |-> inm[i]]
  BY <1>1
<1>3. IsABag(out) /\ IsABag(in) /\ IsABag(EmptyBag)
  BY OneBag, NoBag
<1>4. OutOf(tx) = Total(outs) (+) Total(outm) /\ InTo(tx) = Total(ins) (+) Total(inm)
  BY DEF OutOf, InTo
<1> HIDE DEF out, in, outs, ins, outm, inm
<1>5. BagList(outs, 0) /\ BagList(ins, 0) /\ BagList(outm, 1) /\ BagList(inm, 1)
  BY <1>2, <1>3 DEF BagList
<1>6. Total(outm) = out /\ Total(inm) = in
  <2>1. 1 \in 1..1 /\ 1 \in Nat /\ \A j \in 1..1 : j = 1
    OBVIOUS
  <2>2. Total(outm) = outm[1]
    BY <1>5, <2>1, TotalOne
  <2>3. Total(inm) = inm[1]
    BY <1>5, <2>1, TotalOne
  <2> QED
    BY <1>2, <2>2, <2>3
<1>7. Total(outs) = EmptyBag /\ Total(ins) = EmptyBag
  BY <1>5, TotalNone
<1>8. OutOf(tx) = out /\ InTo(tx) = in
  BY <1>3, <1>4, <1>6, <1>7, NoChange
<1>9. out \sqsubseteq bal /\ bal' = (bal (-) out) (+) in /\ UNCHANGED <<pending, marks, minted>>
  BY <1>8 DEF CryptoTransfer, Move
<1>10. x \in Assets
  <2>1. \A h \in DOMAIN out : h[1] \in Assets
    BY <1>8 DEF CryptoTransfer, Move, BagToSet
  <2>2. <<x, e.sender>> \in DOMAIN out
    BY DEF out, Of
  <2> HIDE DEF x
  <2> QED
    BY <2>1, <2>2
<1> QED
  BY <1>9, <1>10 DEF Paid, out, in

-----------------------------------------------------------------------------
(* What was asked for, in one flow, in none, or in a list of them.         *)
Transfers == {"transferHbar", "transferToken", "transferNft"}

Moves(o, F) ==
    /\ bal' = (bal (-) Total([i \in DOMAIN F |-> Leaves(o, F[i])]))
              (+) Total([i \in DOMAIN F |-> Arrives(o, F[i])])
    /\ pending' = [id \in DOMAIN pending \ Settled(o) |-> pending[id]]
                  (+) Total([i \in DOMAIN F |-> Pends(o, F[i])])

(* What was asked for, as a move along the flows that were asked for.      *)
LEMMA AskedMoves ==
    ASSUME NEW o, Moves(o, AskedFlows(o)), marks' = (marks \ AskedOff(o)) \cup AskedOn(o)
    PROVE  AskedFor(o)
BY DEF AskedFor, Moves

(* Flows of whole amounts, of which each leaves a bag.                     *)
FlowBags(o, F, n) ==
    /\ DOMAIN F = 1..n
    /\ BagList([i \in DOMAIN F |-> Leaves(o, F[i])], n)
    /\ BagList([i \in DOMAIN F |-> Arrives(o, F[i])], n)
    /\ BagList([i \in DOMAIN F |-> Pends(o, F[i])], n)

(* What leaves, arrives and waits by each flow is a bag.                   *)
LEMMA FlowsAreBags ==
    ASSUME NEW o, NEW n \in Nat, NEW F, DOMAIN F = 1..n, \A i \in 1..n : F[i].amount \in Int
    PROVE  FlowBags(o, F, n)
<1>1. \A f : f.amount \in Int => IsABag(Leaves(o, f)) /\ IsABag(Arrives(o, f)) /\ IsABag(Pends(o, f))
  BY OneBag, NoBag DEF Leaves, Arrives, Pends
<1> DEFINE L == [i \in DOMAIN F |-> Leaves(o, F[i])]
           A == [i \in DOMAIN F |-> Arrives(o, F[i])]
           P == [i \in DOMAIN F |-> Pends(o, F[i])]
<1>2. /\ L = [i \in 1..n |-> L[i]] /\ A = [i \in 1..n |-> A[i]] /\ P = [i \in 1..n |-> P[i]]
      /\ \A i \in 1..n : L[i] = Leaves(o, F[i]) /\ A[i] = Arrives(o, F[i]) /\ P[i] = Pends(o, F[i])
  OBVIOUS
<1> HIDE DEF L, A, P
<1>3. BagList(L, n) /\ BagList(A, n) /\ BagList(P, n)
  BY <1>1, <1>2 DEF BagList
<1> QED
  BY <1>3 DEF FlowBags, L, A, P

(* What flows is there, and goes from an account to another.               *)
Sound(o, F, n) ==
    /\ FlowBags(o, F, n) /\ Moves(o, F)
    /\ Total([i \in DOMAIN F |-> Leaves(o, F[i])]) \sqsubseteq bal
    /\ \A i \in 1..n : /\ F[i].asset \in Assets /\ F[i].amount \in Int
                       /\ F[i].from \in Accounts /\ F[i].to \in Accounts
                       /\ Waits(o, F[i]) => F[i].asset[1] \in Tokens

Flowed(o) == \E n \in Nat : Sound(o, AskedFlows(o), n)

(* Nothing is waiting, nothing settled: pending stays.                     *)
LEMMA NothingPends ==
    ASSUME Books, NEW o, NEW n \in Nat, NEW F, FlowBags(o, F, n),
           \A i \in 1..n : ~Waits(o, F[i]), Settled(o) = {}
    PROVE  [id \in DOMAIN pending \ Settled(o) |-> pending[id]]
           (+) Total([i \in DOMAIN F |-> Pends(o, F[i])]) = pending
<1> DEFINE P == [i \in DOMAIN F |-> Pends(o, F[i])]
<1>1. BagList(P, n) /\ \A i \in 1..n : P[i] = EmptyBag
  BY DEF FlowBags, Pends
<1> HIDE DEF P
<1>2. Total(P) = EmptyBag
  BY <1>1, TotalNone
<1>3. [id \in DOMAIN pending \ Settled(o) |-> pending[id]] = pending
  BY DEF Books, IsABag
<1> QED
  BY <1>2, <1>3, NoChange DEF P, Books

(* A list of one flow moves what that flow moves.                          *)
LEMMA SingleFlow ==
    ASSUME NEW o, NEW f, f.amount \in Int
    PROVE  LET F == <<f>> IN
           /\ FlowBags(o, F, 1)
           /\ Total([i \in DOMAIN F |-> Leaves(o, F[i])]) = Leaves(o, f)
           /\ Total([i \in DOMAIN F |-> Arrives(o, F[i])]) = Arrives(o, f)
<1> DEFINE F == <<f>>
           L == [i \in DOMAIN F |-> Leaves(o, F[i])]
           A == [i \in DOMAIN F |-> Arrives(o, F[i])]
<1>1. DOMAIN F = 1..1 /\ F[1] = f /\ \A i \in 1..1 : i = 1
  OBVIOUS
<1>2. 1 \in Nat /\ 1 \in 1..1
  OBVIOUS
<1>3. L[1] = Leaves(o, f) /\ A[1] = Arrives(o, f)
  BY <1>1
<1> HIDE DEF F
<1>4. FlowBags(o, F, 1)
  <2>1. \A i \in 1..1 : F[i].amount \in Int
    BY <1>1
  <2> QED
    BY <1>1, <1>2, <2>1, FlowsAreBags
<1>5. BagList(L, 1) /\ BagList(A, 1)
  BY <1>4 DEF FlowBags
<1> HIDE DEF L, A
<1>6. Total(L) = L[1]
  BY <1>1, <1>2, <1>5, TotalOne
<1>7. Total(A) = A[1]
  BY <1>1, <1>2, <1>5, TotalOne
<1> QED
  BY <1>3, <1>4, <1>6, <1>7 DEF F, L, A

(* A payment along the one flow that was asked for is what was asked.      *)
LEMMA PaidAsAsked ==
    ASSUME Books, NEW o, o.call \in Transfers, NEW x, NEW from \in Accounts, NEW to \in Accounts,
           NEW amount \in Int, Paid(x, from, to, amount),
           AskedFlows(o) = <<Flow(x, from, to, amount)>>
    PROVE  AskedFor(o) /\ Flowed(o)
<1> DEFINE f == Flow(x, from, to, amount)
           F == <<f>>
<1>0. from # Absent /\ to # Absent
  BY AbsentAssumption
<1>1. f.asset = x /\ f.from = from /\ f.to = to /\ f.amount = amount
  BY DEF Flow
<1> HIDE DEF f
<1>2. ~Waits(o, f) /\ Settled(o) = {} /\ AskedOn(o) = {} /\ AskedOff(o) = {}
  BY DEF Waits, Settled, AskedOn, AskedOff, Transfers
<1>3. Leaves(o, f) = Of(<<x, from>>, amount) /\ Arrives(o, f) = Of(<<x, to>>, amount)
  BY <1>0, <1>1, <1>2 DEF Leaves, Arrives
<1>4. /\ FlowBags(o, F, 1)
      /\ Total([i \in DOMAIN F |-> Leaves(o, F[i])]) = Of(<<x, from>>, amount)
      /\ Total([i \in DOMAIN F |-> Arrives(o, F[i])]) = Of(<<x, to>>, amount)
  BY <1>1, <1>3, SingleFlow
<1>5. \A i \in 1..1 : F[i] = f
  OBVIOUS
<1> HIDE DEF F
<1>6. Moves(o, F)
  <2>1. [id \in DOMAIN pending \ Settled(o) |-> pending[id]]
        (+) Total([i \in DOMAIN F |-> Pends(o, F[i])]) = pending
    <3>1. 1 \in Nat /\ \A i \in 1..1 : ~Waits(o, F[i])
      BY <1>2, <1>5
    <3> QED
      BY <1>2, <1>4, <3>1, NothingPends
  <2> QED
    BY <1>4, <2>1 DEF Moves, Paid
<1>7. marks' = (marks \ AskedOff(o)) \cup AskedOn(o)
  BY <1>2 DEF Paid
<1>8. AskedFlows(o) = F
  BY DEF F, f
<1>9. Sound(o, F, 1)
  <2>1. x \in Assets /\ Of(<<x, from>>, amount) \sqsubseteq bal
    BY DEF Paid
  <2> QED
    BY <1>1, <1>2, <1>4, <1>5, <1>6, <2>1 DEF Sound
<1>10. Flowed(o)
  <2>1. 1 \in Nat
    OBVIOUS
  <2> QED
    BY <1>8, <1>9, <2>1 DEF Flowed
<1> QED
  BY <1>6, <1>7, <1>8, <1>10, AskedMoves

-----------------------------------------------------------------------------
(* The transfers.                                                          *)
LEMMA TransferHbarEffect ==
    ASSUME Books, NEW o \in TransferHbarOptions, o.call = "transferHbar",
           ~TransferHbarValidator(o), CryptoTransfer(TransferHbar(o))
    PROVE  AskedFor(o) /\ Flowed(o) /\ UNCHANGED minted
<1> DEFINE tx == TransferHbar(o)
<1>1. /\ o.sender \in Accounts /\ o.receiver \in Accounts /\ o.amount \in Int /\ o.amount > 0
  BY DEF TransferHbarOptions, TransferHbarValidator, BadAccounts, BadPositive, Missing, Account, Maybe
<1>2. tx.adjust = Paired(Units(Hbar), o.sender, o.receiver, o.amount, Absent) /\ tx.moves = <<>>
  BY DEF TransferHbar
<1> HIDE DEF tx
<1>3. Paid(Units(Hbar), o.sender, o.receiver, o.amount)
  BY <1>1, <1>2, PairPaid DEF tx
<1>4. AskedFlows(o) = <<Flow(Units(Hbar), o.sender, o.receiver, o.amount)>>
  BY DEF AskedFlows, Units
<1>5. o.call \in Transfers
  BY DEF Transfers
<1> QED
  BY <1>1, <1>3, <1>4, <1>5, PaidAsAsked DEF Paid

LEMMA TransferTokenEffect ==
    ASSUME Books, NEW o \in TransferTokenOptions, o.call = "transferToken",
           ~TransferTokenValidator(o), CryptoTransfer(TransferToken(o))
    PROVE  AskedFor(o) /\ Flowed(o) /\ UNCHANGED minted
<1> DEFINE tx == TransferToken(o)
<1>1. /\ o.sender \in Accounts /\ o.receiver \in Accounts /\ o.amount \in Int /\ o.amount > 0
  BY DEF TransferTokenOptions, TransferTokenValidator, BadAccounts, BadPositive, Missing, Account, Maybe
<1>2. tx.adjust = Paired(Units(o.token), o.sender, o.receiver, o.amount, o.decimals) /\ tx.moves = <<>>
  BY DEF TransferToken
<1> HIDE DEF tx
<1>3. Paid(Units(o.token), o.sender, o.receiver, o.amount)
  BY <1>1, <1>2, PairPaid DEF tx
<1>4. AskedFlows(o) = <<Flow(Units(o.token), o.sender, o.receiver, o.amount)>>
  BY DEF AskedFlows, Units
<1>5. o.call \in Transfers
  BY DEF Transfers
<1> QED
  BY <1>1, <1>3, <1>4, <1>5, PaidAsAsked DEF Paid

LEMMA TransferNftEffect ==
    ASSUME Books, NEW o \in TransferNftOptions, o.call = "transferNft",
           ~TransferNftValidator(o), CryptoTransfer(TransferNft(o))
    PROVE  AskedFor(o) /\ Flowed(o) /\ UNCHANGED minted
<1> DEFINE tx == TransferNft(o)
<1>1. o.sender \in Accounts /\ o.receiver \in Accounts /\ 1 \in Int
  BY DEF TransferNftOptions, TransferNftValidator, BadAccounts, Missing, Account, Maybe
<1>2. tx.adjust = <<>> /\ tx.moves = <<Moved(o)>>
  BY DEF TransferNft
<1> HIDE DEF tx
<1>3. Paid(<<o.token, o.serial>>, o.sender, o.receiver, 1)
  BY <1>2, MovePaid DEF tx
<1>4. AskedFlows(o) = <<Flow(<<o.token, o.serial>>, o.sender, o.receiver, 1)>>
  BY DEF AskedFlows
<1>5. o.call \in Transfers
  BY DEF Transfers
<1> QED
  BY <1>1, <1>3, <1>4, <1>5, PaidAsAsked DEF Paid

-----------------------------------------------------------------------------
(* The airdrops: each entry at once, or when it is claimed.                *)
Airdropping == {"airdropFungibleToken", "airdropNft"}

(* An entry of an airdrop moves what the flow asked for moves.             *)
LEMMA DropIsFlow ==
    ASSUME NEW o, o.call \in Airdropping, NEW f, f.from \in Accounts, f.to \in Accounts
    PROVE  /\ Leaves(o, f) = AtOnce(f, f.from) /\ Arrives(o, f) = AtOnce(f, f.to)
           /\ Pends(o, f) = UntilClaimed(f)
<1>1. f.from # Absent /\ f.to # Absent
  BY AbsentAssumption
<1>2. Waits(o, f) <=> ~Associated(f.to, f.asset[1])
  BY DEF Waits, Airdropping
<1> QED
  BY <1>1, <1>2 DEF Leaves, Arrives, Pends, AtOnce, UntilClaimed

(* What is dropped is what was asked to flow.                              *)
DropsAre(d, o, F) ==
    /\ Total([i \in DOMAIN d |-> AtOnce(d[i], d[i].from)])
          = Total([i \in DOMAIN F |-> Leaves(o, F[i])])
    /\ Total([i \in DOMAIN d |-> AtOnce(d[i], d[i].to)])
          = Total([i \in DOMAIN F |-> Arrives(o, F[i])])
    /\ Total([i \in DOMAIN d |-> UntilClaimed(d[i])])
          = Total([i \in DOMAIN F |-> Pends(o, F[i])])

(* An airdrop whose entries add up to the flows that were asked for.       *)
LEMMA DropsAsAsked ==
    ASSUME Books, NEW o, o.call \in Airdropping, NEW tx, TokenAirdrop(tx),
           NEW F, AskedFlows(o) = F, NEW n \in Nat, DOMAIN F = 1..n,
           \A i \in 1..n : /\ F[i].asset \in Assets /\ F[i].amount \in Int
                           /\ F[i].from \in Accounts /\ F[i].to \in Accounts
                           /\ F[i].asset[1] \in Tokens,
           DropsAre(Drops(tx), o, F)
    PROVE  AskedFor(o) /\ Flowed(o) /\ UNCHANGED minted
<1> DEFINE out == Total([i \in DOMAIN F |-> Leaves(o, F[i])])
           in == Total([i \in DOMAIN F |-> Arrives(o, F[i])])
           late == Total([i \in DOMAIN F |-> Pends(o, F[i])])
<1>1. /\ Move(out, in) /\ pending' = pending (+) late /\ UNCHANGED <<marks, minted>>
  BY DEF TokenAirdrop, DropsAre
<1>2. Settled(o) = {} /\ AskedOn(o) = {} /\ AskedOff(o) = {}
  BY DEF Settled, AskedOn, AskedOff, Airdropping
<1>3. [id \in DOMAIN pending \ Settled(o) |-> pending[id]] = pending
  BY <1>2 DEF Books, IsABag
<1>4. FlowBags(o, F, n)
  BY FlowsAreBags
<1> HIDE DEF out, in, late
<1>5. out \sqsubseteq bal /\ bal' = (bal (-) out) (+) in
  BY <1>1 DEF Move
<1>6. Moves(o, F)
  BY <1>1, <1>3, <1>5 DEF Moves, out, in, late
<1>7. Sound(o, F, n)
  BY <1>4, <1>5, <1>6 DEF Sound, out
<1>8. marks' = (marks \ AskedOff(o)) \cup AskedOn(o)
  BY <1>1, <1>2
<1>9. Flowed(o)
  BY <1>7 DEF Flowed
<1> QED
  BY <1>1, <1>6, <1>8, <1>9, AskedMoves

(* Entry i of the airdrop's moves is flow i of the options.                *)
LEMMA AirdropNftEffect ==
    ASSUME Books, NEW o \in TokenAirdropNftOptions, o.call = "airdropNft",
           ~TokenAirdropNftValidator(o), TokenAirdrop(TokenAirdropNft(o))
    PROVE  AskedFor(o) /\ Flowed(o) /\ UNCHANGED minted
<1> DEFINE n == Len(o.airdrops)
           tx == TokenAirdropNft(o)
           F == [i \in 1..n |-> LET e == o.airdrops[i] IN
                    Flow(<<e.token, e.serial>>, e.sender, e.receiver, 1)]
           outs == [i \in DOMAIN tx.adjust |->
                       Of(<<tx.adjust[i].asset, tx.adjust[i].account>>, -tx.adjust[i].by)]
           outm == [i \in DOMAIN tx.moves |-> Of(<<tx.moves[i].asset, tx.moves[i].from>>, 1)]
<1>1. o.airdrops \in Seq(NftAirdropEntry) /\ o.airdrops # <<>>
  BY DEF TokenAirdropNftOptions, TokenAirdropNftValidator, Empty, Maybe
<1>2. n \in Nat /\ DOMAIN o.airdrops = 1..n
  BY <1>1
<1>3. \A i \in 1..n : /\ o.airdrops[i].sender \in Accounts /\ o.airdrops[i].receiver \in Accounts
                      /\ o.airdrops[i].token \in Tokens
  <2> TAKE i \in 1..n
  <2>1. o.airdrops[i] \in NftAirdropEntry /\ i \in DOMAIN o.airdrops
    BY <1>1, <1>2
  <2> QED
    BY <2>1 DEF NftAirdropEntry, TokenAirdropNftValidator, BadAccounts, Missing, Account, Token, Maybe
<1>4. AskedFlows(o) = F
  BY <1>2 DEF AskedFlows
<1>5. /\ DOMAIN F = 1..n /\ F = [i \in 1..n |-> F[i]]
      /\ \A i \in 1..n : /\ F[i].asset = <<o.airdrops[i].token, o.airdrops[i].serial>>
                         /\ F[i].from = o.airdrops[i].sender /\ F[i].to = o.airdrops[i].receiver
                         /\ F[i].amount = 1
                         /\ F[i] = [asset |-> F[i].asset, from |-> F[i].from, to |-> F[i].to,
                                    amount |-> F[i].amount]
  BY DEF Flow
<1> HIDE DEF F
<1>6. /\ tx.adjust = <<>> /\ DOMAIN tx.moves = 1..n
      /\ \A i \in 1..n : /\ tx.moves[i].asset = F[i].asset
                         /\ tx.moves[i].from = F[i].from /\ tx.moves[i].to = F[i].to
  BY <1>2, <1>5 DEF TokenAirdropNft, Moved
<1>7. Drops(tx) = F
  <2> DEFINE part == [i \in DOMAIN tx.moves |-> LET m == tx.moves[i] IN
                        [asset |-> m.asset, from |-> m.from, to |-> m.to, amount |-> 1]]
             none == [i \in DOMAIN tx.adjust |-> LET e == tx.adjust[i] IN
                        [asset |-> e.asset, from |-> Sender(tx, e.asset), to |-> e.account,
                         amount |-> e.by]]
  <2>1. Drops(tx) = none \o part
    BY DEF Drops
  <2>2. none = <<>>
    BY <1>6
  <2>3. part = F
    <3>1. ASSUME NEW i \in 1..n PROVE part[i] = F[i]
      <4>1. part[i] = [asset |-> F[i].asset, from |-> F[i].from, to |-> F[i].to, amount |-> 1]
        BY <1>6
      <4> QED
        BY <1>5, <4>1
    <3> QED
      BY <1>5, <1>6, <3>1
  <2> HIDE DEF part, none, tx
  <2>4. F \in Seq({F[i] : i \in 1..n})
    BY <1>2, <1>5
  <2> QED
    BY <2>1, <2>2, <2>3, <2>4, ConcatEmptySeq
<1>8. OutOf(tx) = Total(outs) (+) Total(outm)
  BY DEF OutOf
<1>9. BagList(outs, 0) /\ BagList(outm, n)
  <2>1. /\ outs = [i \in 1..0 |-> outs[i]] /\ outm = [i \in 1..n |-> outm[i]]
        /\ \A i \in 1..n : IsABag(outm[i])
    BY <1>6, OneBag
  <2> QED
    BY <2>1 DEF BagList
<1>10. \A i \in 1..n : F[i].asset \in Assets
  <2> TAKE i \in 1..n
  <2> DEFINE h == <<F[i].asset, F[i].from>>
  <2>1. outm[i] = Of(h, 1)
    BY <1>5, <1>6
  <2> HIDE DEF h, outs, outm, tx
  <2>2. IsABag(Total(outm)) /\ Copies(outm[i], h) <= Copies(Total(outm), h)
    BY <1>2, <1>9, TotalSums DEF Sums
  <2>3. Copies(outm[i], h) = 1
    BY <2>1, OneBag
  <2>4. IsABag(Total(outs))
    <3>1. 0 \in Nat
      OBVIOUS
    <3> QED
      BY <1>9, <3>1, TotalSums DEF Sums
  <2>5. IsABag(OutOf(tx)) /\ Copies(OutOf(tx), h) > 0
    <3>1. /\ Copies(OutOf(tx), h) = Copies(Total(outs), h) + Copies(Total(outm), h)
          /\ IsABag(OutOf(tx))
      BY <1>8, <2>2, <2>4, BothBags
    <3>2. Copies(Total(outs), h) \in Nat /\ Copies(Total(outm), h) \in Nat
      BY <2>2, <2>4, CopiesCount
    <3> QED
      BY <2>2, <2>3, <3>1, <3>2
  <2>6. h \in DOMAIN bal
    <3>1. h \in DOMAIN OutOf(tx)
      BY <2>5, CopiesCount
    <3>2. OutOf(tx) \sqsubseteq bal
      BY DEF TokenAirdrop, tx
    <3> QED
      BY <3>1, <3>2 DEF \sqsubseteq
  <2>7. h[1] \in Assets
    BY <2>6 DEF Books
  <2> QED
    BY <2>7 DEF h
<1>11. \A i \in 1..n : /\ F[i].amount \in Int /\ F[i].from \in Accounts /\ F[i].to \in Accounts
                       /\ F[i].asset[1] \in Tokens
  <2> TAKE i \in 1..n
  <2>1. /\ F[i].amount = 1 /\ F[i].from = o.airdrops[i].sender /\ F[i].to = o.airdrops[i].receiver
        /\ F[i].asset = <<o.airdrops[i].token, o.airdrops[i].serial>>
    BY <1>5
  <2> HIDE DEF n
  <2>2. F[i].asset[1] = o.airdrops[i].token
    BY <2>1
  <2> QED
    BY <1>3, <2>1, <2>2
<1>12. o.call \in Airdropping
  BY DEF Airdropping
<1> HIDE DEF tx, outs, outm
<1>13. \A i \in 1..n : /\ Leaves(o, F[i]) = AtOnce(F[i], F[i].from)
                       /\ Arrives(o, F[i]) = AtOnce(F[i], F[i].to)
                       /\ Pends(o, F[i]) = UntilClaimed(F[i])
  BY <1>11, <1>12, DropIsFlow
<1>14. DropsAre(F, o, F)
  <2>1. /\ [i \in DOMAIN F |-> AtOnce(F[i], F[i].from)] = [i \in DOMAIN F |-> Leaves(o, F[i])]
        /\ [i \in DOMAIN F |-> AtOnce(F[i], F[i].to)] = [i \in DOMAIN F |-> Arrives(o, F[i])]
        /\ [i \in DOMAIN F |-> UntilClaimed(F[i])] = [i \in DOMAIN F |-> Pends(o, F[i])]
    BY <1>5, <1>13
  <2> QED
    BY <2>1 DEF DropsAre
<1>15. TokenAirdrop(tx) /\ DropsAre(Drops(tx), o, F)
  BY <1>7, <1>14 DEF tx
<1> QED
  BY <1>2, <1>4, <1>5, <1>10, <1>11, <1>12, <1>15, DropsAsAsked

(* Flow i of the options is the pair of entries 2i - 1 and 2i; the one     *)
(* that leaves only says who the sender is.                                *)
LEMMA AirdropFungibleEffect ==
    ASSUME Books, NEW o \in TokenAirdropOptions, o.call = "airdropFungibleToken",
           ~TokenAirdropValidator(o), TokenAirdrop(TokenAirdropFungible(o))
    PROVE  AskedFor(o) /\ Flowed(o) /\ UNCHANGED minted
<1> DEFINE n == Len(o.airdrops)
           tx == TokenAirdropFungible(o)
           F == [i \in 1..n |-> LET e == o.airdrops[i] IN
                    Flow(<<e.token, 0>>, e.sender, e.receiver, e.amount)]
           outs == [i \in DOMAIN tx.adjust |->
                       Of(<<tx.adjust[i].asset, tx.adjust[i].account>>, -tx.adjust[i].by)]
           outm == [i \in DOMAIN tx.moves |-> Of(<<tx.moves[i].asset, tx.moves[i].from>>, 1)]
           d == Drops(tx)
<1>1. o.airdrops \in Seq(TokenAirdropEntry) /\ o.airdrops # <<>>
  BY DEF TokenAirdropOptions, TokenAirdropValidator, Empty, Maybe
<1>2. n \in Nat /\ 2 * n \in Nat /\ DOMAIN o.airdrops = 1..n
  BY <1>1
<1>3. \A i \in 1..n : /\ o.airdrops[i].sender \in Accounts /\ o.airdrops[i].receiver \in Accounts
                      /\ o.airdrops[i].amount \in Int /\ o.airdrops[i].amount > 0
                      /\ o.airdrops[i].token \in Tokens
  <2> TAKE i \in 1..n
  <2>1. o.airdrops[i] \in TokenAirdropEntry /\ i \in DOMAIN o.airdrops
    BY <1>1, <1>2
  <2> QED
    BY <2>1 DEF TokenAirdropEntry, TokenAirdropValidator, BadAccounts, BadPositive, Missing,
                Account, Token, Maybe
<1>4. AskedFlows(o) = F
  BY <1>2 DEF AskedFlows
<1>5. /\ DOMAIN F = 1..n
      /\ \A i \in 1..n : /\ F[i].asset = Units(o.airdrops[i].token)
                         /\ F[i].from = o.airdrops[i].sender /\ F[i].to = o.airdrops[i].receiver
                         /\ F[i].amount = o.airdrops[i].amount
                         /\ F[i] = [asset |-> F[i].asset, from |-> F[i].from, to |-> F[i].to,
                                    amount |-> F[i].amount]
  BY DEF Flow, Units
<1> HIDE DEF F
<1>6. ASSUME NEW j \in 1..n
      PROVE  /\ 2*j - 1 \in 1..(2 * n) /\ 2*j \in 1..(2 * n)
             /\ tx.adjust[2*j - 1].asset = F[j].asset /\ tx.adjust[2*j - 1].account = F[j].from
             /\ tx.adjust[2*j - 1].by = -F[j].amount
             /\ tx.adjust[2*j].asset = F[j].asset /\ tx.adjust[2*j].account = F[j].to
             /\ tx.adjust[2*j].by = F[j].amount
  <2>1. 2 * j - 1 \in 1..(2 * n) /\ 2 * j \in 1..(2 * n)
    BY <1>2
  <2>2. ((2 * j - 1) + 1) \div 2 = j /\ 2 - ((2 * j - 1) % 2) = 1
    OBVIOUS
  <2>3. ((2 * j) + 1) \div 2 = j /\ 2 - ((2 * j) % 2) = 2
    OBVIOUS
  <2>4. LET e == o.airdrops[j] IN
        /\ tx.adjust[2*j - 1] = Paired(Units(e.token), e.sender, e.receiver, e.amount, e.decimals)[1]
        /\ tx.adjust[2*j] = Paired(Units(e.token), e.sender, e.receiver, e.amount, e.decimals)[2]
    BY <2>1, <2>2, <2>3 DEF TokenAirdropFungible
  <2> HIDE DEF tx, n
  <2> QED
    BY <1>5, <2>1, <2>4 DEF Paired
<1>7. DOMAIN tx.adjust = 1..(2 * n) /\ tx.moves = <<>>
  BY DEF TokenAirdropFungible
<1>8. \A i \in 1..n : /\ F[i].amount \in Int /\ F[i].amount > 0 /\ -F[i].amount \in Int
                      /\ ~(-F[i].amount > 0) /\ -(-F[i].amount) = F[i].amount
                      /\ F[i].from \in Accounts /\ F[i].to \in Accounts
                      /\ F[i].asset[1] \in Tokens
  <2> TAKE i \in 1..n
  <2>1. /\ F[i].amount = o.airdrops[i].amount /\ F[i].from = o.airdrops[i].sender
        /\ F[i].to = o.airdrops[i].receiver /\ F[i].asset = Units(o.airdrops[i].token)
    BY <1>5
  <2> HIDE DEF n
  <2>2. F[i].asset[1] = o.airdrops[i].token
    BY <2>1 DEF Units
  <2> QED
    BY <1>3, <2>1, <2>2
<1>9. OutOf(tx) = Total(outs) (+) Total(outm)
  BY DEF OutOf
<1>10. /\ outs = [i \in 1..(2 * n) |-> outs[i]]
       /\ outm = [i \in 1..0 |-> outm[i]]
       /\ \A j \in 1..n : /\ outs[2*j - 1] = Of(<<F[j].asset, F[j].from>>, F[j].amount)
                          /\ outs[2*j] = EmptyBag
  <2> HIDE DEF tx, n
  <2>1. outs = [i \in 1..(2 * n) |-> outs[i]] /\ outm = [i \in 1..0 |-> outm[i]]
    BY <1>7
  <2>2. ASSUME NEW j \in 1..n
        PROVE  /\ outs[2*j - 1] = Of(<<F[j].asset, F[j].from>>, F[j].amount)
               /\ outs[2*j] = EmptyBag
    <3>1. outs[2*j - 1] = Of(<<F[j].asset, F[j].from>>, -(-F[j].amount))
      BY <1>6, <1>7
    <3>2. outs[2*j] = Of(<<F[j].asset, F[j].to>>, -F[j].amount)
      BY <1>6, <1>7
    <3> QED
      BY <1>8, <3>1, <3>2 DEF Of
  <2> QED
    BY <2>1, <2>2
<1>11. BagList(outs, 2 * n) /\ BagList(outm, 0)
  <2> HIDE DEF tx, n, outs, outm
  <2>1. ASSUME NEW i \in 1..(2 * n) PROVE IsABag(outs[i])
    <3>1. PICK j \in 1..n : i = 2*j - 1 \/ i = 2*j
      BY <1>2, Halves
    <3>2. F[j].amount \in Int /\ outs[2*j] = EmptyBag
          /\ outs[2*j - 1] = Of(<<F[j].asset, F[j].from>>, F[j].amount)
      BY <1>8, <1>10
    <3>3. IsABag(outs[2*j - 1]) /\ IsABag(outs[2*j])
      BY <3>2, OneBag, NoBag
    <3> QED
      BY <3>1, <3>3
  <2> QED
    BY <1>10, <2>1 DEF BagList
<1> HIDE DEF tx, n, outs, outm
<1>12. \A i \in 1..n : <<F[i].asset, F[i].from>> \in DOMAIN OutOf(tx)
  <2> TAKE i \in 1..n
  <2> DEFINE h == <<F[i].asset, F[i].from>>
  <2>1. Copies(outs[2*i - 1], h) > 0 /\ Copies(outs[2*i - 1], h) \in Nat
    <3>1. outs[2*i - 1] = Of(h, F[i].amount)
      BY <1>10
    <3> HIDE DEF h
    <3>2. Copies(outs[2*i - 1], h) = F[i].amount
      BY <1>8, <3>1, OneBag
    <3> QED
      BY <1>8, <3>2
  <2> HIDE DEF h
  <2>2. IsABag(Total(outs)) /\ Copies(outs[2*i - 1], h) <= Copies(Total(outs), h)
    BY <1>2, <1>6, <1>11, TotalSums DEF Sums
  <2>3. IsABag(Total(outm))
    <3>1. 0 \in Nat
      OBVIOUS
    <3> QED
      BY <1>11, <3>1, TotalSums DEF Sums
  <2>4. /\ Copies(OutOf(tx), h) = Copies(Total(outs), h) + Copies(Total(outm), h)
        /\ IsABag(OutOf(tx))
    BY <1>9, <2>2, <2>3, BothBags
  <2>5. Copies(Total(outs), h) \in Nat /\ Copies(Total(outm), h) \in Nat
    BY <2>2, <2>3, CopiesCount
  <2>6. Copies(OutOf(tx), h) > 0
    BY <2>1, <2>2, <2>4, <2>5
  <2>7. h \in DOMAIN OutOf(tx)
    BY <2>4, <2>6, CopiesCount
  <2> QED
    BY <2>7 DEF h
<1>13. TokenAirdrop(tx)
  BY DEF tx
<1>14. \A i \in 1..n : F[i].asset \in Assets /\ Sender(tx, F[i].asset) = F[i].from
  <2> TAKE i \in 1..n
  <2> DEFINE x == F[i].asset
             a == F[i].from
  <2>1. <<x, a>> \in DOMAIN OutOf(tx) /\ a \in Accounts
    BY <1>8, <1>12
  <2>2. /\ OutOf(tx) \sqsubseteq bal
        /\ \A h1, h2 \in DOMAIN OutOf(tx) : h1[1] = h2[1] => h1 = h2
    BY <1>13 DEF TokenAirdrop, BagToSet
  <2>3. x \in Assets
    BY <2>1, <2>2 DEF Books, \sqsubseteq
  <2> HIDE DEF x, a
  <2>4. \A b \in Accounts : <<x, b>> \in DOMAIN OutOf(tx) => b = a
    BY <2>1, <2>2
  <2>5. Sender(tx, x) = a
    BY <2>1, <2>4 DEF Sender, BagToSet
  <2> QED
    BY <2>3, <2>5 DEF x, a
<1>15. /\ DOMAIN d = 1..(2 * n)
       /\ \A j \in 1..n : d[2*j] = F[j] /\ d[2*j - 1].amount = -F[j].amount
  <2> DEFINE part == [i \in DOMAIN tx.adjust |-> LET e == tx.adjust[i] IN
                        [asset |-> e.asset, from |-> Sender(tx, e.asset), to |-> e.account,
                         amount |-> e.by]]
             none == [i \in DOMAIN tx.moves |-> LET m == tx.moves[i] IN
                        [asset |-> m.asset, from |-> m.from, to |-> m.to, amount |-> 1]]
  <2>1. d = part \o none
    BY DEF Drops
  <2>2. none = <<>>
    BY <1>7
  <2>3. DOMAIN part = 1..(2 * n)
    BY <1>7
  <2>4. ASSUME NEW j \in 1..n PROVE part[2*j] = F[j] /\ part[2*j - 1].amount = -F[j].amount
    <3>1. part[2*j] = [asset |-> F[j].asset, from |-> Sender(tx, F[j].asset), to |-> F[j].to,
                       amount |-> F[j].amount]
      BY <1>6, <1>7
    <3>2. part[2*j - 1].amount = -F[j].amount
      BY <1>6, <1>7
    <3> QED
      BY <1>5, <1>14, <3>1, <3>2
  <2>5. part = [i \in 1..(2 * n) |-> part[i]]
    BY <2>3
  <2> HIDE DEF part, none, d
  <2> DEFINE S == {part[i] : i \in 1..(2 * n)}
  <2>7. part \in [1..(2 * n) -> S]
    BY <2>5
  <2> HIDE DEF S
  <2>8. part \in Seq(S)
    BY <1>2, <2>7
  <2>6. d = part
    BY <2>1, <2>2, <2>8, ConcatEmptySeq
  <2> QED
    BY <2>3, <2>4, <2>6
<1> HIDE DEF d
<1>16. o.call \in Airdropping
  BY DEF Airdropping
<1>17. \A i \in 1..n : /\ Leaves(o, F[i]) = AtOnce(F[i], F[i].from)
                       /\ Arrives(o, F[i]) = AtOnce(F[i], F[i].to)
                       /\ Pends(o, F[i]) = UntilClaimed(F[i])
  BY <1>8, <1>16, DropIsFlow
<1>18. FlowBags(o, F, n)
  BY <1>2, <1>5, <1>8, FlowsAreBags
<1>19. DropsAre(d, o, F)
  <2> DEFINE dl == [i \in DOMAIN d |-> AtOnce(d[i], d[i].from)]
             da == [i \in DOMAIN d |-> AtOnce(d[i], d[i].to)]
             dp == [i \in DOMAIN d |-> UntilClaimed(d[i])]
             fl == [i \in DOMAIN F |-> Leaves(o, F[i])]
             fa == [i \in DOMAIN F |-> Arrives(o, F[i])]
             fp == [i \in DOMAIN F |-> Pends(o, F[i])]
  <2>1. BagList(fl, n) /\ BagList(fa, n) /\ BagList(fp, n)
    BY <1>18 DEF FlowBags
  <2>2. ASSUME NEW j \in 1..n
        PROVE  /\ dl[2*j - 1] = EmptyBag /\ dl[2*j] = fl[j]
               /\ da[2*j - 1] = EmptyBag /\ da[2*j] = fa[j]
               /\ dp[2*j - 1] = EmptyBag /\ dp[2*j] = fp[j]
    <3>1. 2*j - 1 \in DOMAIN d /\ 2*j \in DOMAIN d /\ j \in DOMAIN F
      BY <1>5, <1>6, <1>15
    <3>2. d[2*j] = F[j] /\ ~(d[2*j - 1].amount > 0)
      BY <1>8, <1>15
    <3>3. \A f : ~(f.amount > 0) =>
             \A a : AtOnce(f, a) = EmptyBag /\ UntilClaimed(f) = EmptyBag
      BY DEF AtOnce, UntilClaimed, Of
    <3>4. dl[2*j - 1] = EmptyBag /\ da[2*j - 1] = EmptyBag /\ dp[2*j - 1] = EmptyBag
      BY <3>1, <3>2, <3>3
    <3>5. dl[2*j] = fl[j] /\ da[2*j] = fa[j] /\ dp[2*j] = fp[j]
      BY <1>17, <3>1, <3>2
    <3> QED
      BY <3>4, <3>5
  <2>3. /\ dl = [i \in 1..(2 * n) |-> dl[i]] /\ da = [i \in 1..(2 * n) |-> da[i]]
        /\ dp = [i \in 1..(2 * n) |-> dp[i]]
    BY <1>15
  <2> HIDE DEF dl, da, dp, fl, fa, fp
  <2>4. ASSUME NEW i \in 1..(2 * n) PROVE IsABag(dl[i]) /\ IsABag(da[i]) /\ IsABag(dp[i])
    <3>1. PICK j \in 1..n : i = 2*j - 1 \/ i = 2*j
      BY <1>2, Halves
    <3> QED
      BY <2>1, <2>2, <3>1, NoBag DEF BagList
  <2>5. BagList(dl, 2 * n) /\ BagList(da, 2 * n) /\ BagList(dp, 2 * n)
    BY <2>3, <2>4 DEF BagList
  <2>6. Total(dl) = Total(fl)
    BY <1>2, <2>1, <2>2, <2>5, TotalPaired
  <2>7. Total(da) = Total(fa)
    BY <1>2, <2>1, <2>2, <2>5, TotalPaired
  <2>8. Total(dp) = Total(fp)
    BY <1>2, <2>1, <2>2, <2>5, TotalPaired
  <2> QED
    BY <2>6, <2>7, <2>8 DEF DropsAre, dl, da, dp, fl, fa, fp
<1>20. \A i \in 1..n : /\ F[i].asset \in Assets /\ F[i].amount \in Int
                       /\ F[i].from \in Accounts /\ F[i].to \in Accounts
                       /\ F[i].asset[1] \in Tokens
  BY <1>8, <1>14
<1>21. DropsAre(Drops(tx), o, F)
  BY <1>19 DEF d
<1> QED
  BY <1>2, <1>4, <1>5, <1>13, <1>16, <1>20, <1>21, DropsAsAsked

-----------------------------------------------------------------------------
(* What flows between accounts leaves the books well kept.                 *)
Kept == WellKept(bal, pending, marks, minted)

(* Well kept books hold assets of accounts.                                *)
LEMMA KeptBooks == ASSUME Kept PROVE Books
<1>1. {x \in Assets : x[1] \in Tokens} \subseteq Assets
  OBVIOUS
<1> QED
  BY <1>1 DEF Kept, WellKept, Books, BagToSet

(* One serial is in one place, once.                                       *)
LEMMA OnePlace ==
    ASSUME Kept, NEW x, x[2] > 0
    PROVE  /\ \A a : Copies(bal, <<x, a>>) \in {0, 1}
           /\ \A a, b : Copies(bal, <<x, a>>) = 1 /\ Copies(bal, <<x, b>>) = 1 => a = b
           /\ \A a : Copies(bal, <<x, a>>) = 1 => x[2] <= minted[x[1]]
<1>1. ASSUME NEW a, <<x, a>> \in DOMAIN bal
      PROVE  /\ bal[<<x, a>>] = 1 /\ x[2] <= minted[x[1]] /\ a \in Accounts
             /\ \A b \in Accounts \ {a} : <<x, b>> \notin DOMAIN bal
  <2> DEFINE h == <<x, a>>
  <2>1. h[1] = x /\ h[2] = a
    OBVIOUS
  <2>2. h \in DOMAIN bal
    BY <1>1
  <2> HIDE DEF h
  <2>3. /\ bal[h] = 1 /\ h[1][2] <= minted[h[1][1]] /\ h \in Assets \X Accounts
        /\ \A b \in Accounts \ {h[2]} : <<h[1], b>> \notin DOMAIN bal
    BY <2>1, <2>2 DEF Kept, WellKept, BagToSet
  <2>4. h[2] \in Accounts
    BY <2>3
  <2> QED
    BY <2>1, <2>3, <2>4 DEF h
<1> QED
  BY <1>1 DEF Copies

(* A flow that moves some of a serial, and one that moves none of it.      *)
Carries(o, f, x) == ~Waits(o, f) /\ f.asset = x /\ f.amount > 0

(* What one flow takes of one asset from an account, and gives it.         *)
LEMMA CarriesOne ==
    ASSUME NEW o, NEW f, f.amount \in Int, f.from \in Accounts, f.to \in Accounts, NEW x
    PROVE  \A a : /\ Copies(Leaves(o, f), <<x, a>>)
                        = IF Carries(o, f, x) /\ a = f.from THEN f.amount ELSE 0
                  /\ Copies(Arrives(o, f), <<x, a>>)
                        = IF Carries(o, f, x) /\ a = f.to THEN f.amount ELSE 0
<1>1. f.from # Absent /\ f.to # Absent
  BY AbsentAssumption
<1>2. CASE Waits(o, f)
  BY <1>2, NoBag DEF Leaves, Arrives, Carries
<1>3. CASE ~Waits(o, f)
  <2>1. Leaves(o, f) = Of(<<f.asset, f.from>>, f.amount) /\ Arrives(o, f) = Of(<<f.asset, f.to>>, f.amount)
    BY <1>1, <1>3 DEF Leaves, Arrives
  <2>2. \A y : /\ Copies(Leaves(o, f), y) = IF y = <<f.asset, f.from>> /\ f.amount > 0 THEN f.amount ELSE 0
               /\ Copies(Arrives(o, f), y) = IF y = <<f.asset, f.to>> /\ f.amount > 0 THEN f.amount ELSE 0
    BY <2>1, OneBag
  <2>3. \A a, b : <<x, a>> = <<f.asset, b>> <=> f.asset = x /\ a = b
    OBVIOUS
  <2> QED
    BY <1>3, <2>2, <2>3 DEF Carries
<1> QED
  BY <1>2, <1>3

(* The sums of a sound list of flows, and what they make of the holdings.  *)
Summed(o, F, n, L, A, P) ==
    /\ Sums(Total(L), L, n) /\ Sums(Total(A), A, n) /\ Sums(Total(P), P, n)
    /\ \A i \in 1..n : L[i] = Leaves(o, F[i]) /\ A[i] = Arrives(o, F[i]) /\ P[i] = Pends(o, F[i])
    /\ \A y : Copies(Total(L), y) <= Copies(bal, y)
    /\ IsABag(bal')
    /\ \A y : Copies(bal', y) = (Copies(bal, y) - Copies(Total(L), y)) + Copies(Total(A), y)

(* A sound list of flows takes no more than there is.                      *)
LEMMA SoundSums ==
    ASSUME Kept, NEW o, NEW F, NEW n \in Nat, Sound(o, F, n)
    PROVE  Summed(o, F, n, [i \in DOMAIN F |-> Leaves(o, F[i])],
                  [i \in DOMAIN F |-> Arrives(o, F[i])], [i \in DOMAIN F |-> Pends(o, F[i])])
<1> DEFINE L == [i \in DOMAIN F |-> Leaves(o, F[i])]
           A == [i \in DOMAIN F |-> Arrives(o, F[i])]
           P == [i \in DOMAIN F |-> Pends(o, F[i])]
<1>1. /\ DOMAIN F = 1..n /\ BagList(L, n) /\ BagList(A, n) /\ BagList(P, n)
      /\ Total(L) \sqsubseteq bal /\ bal' = (bal (-) Total(L)) (+) Total(A)
  BY DEF Sound, FlowBags, Moves
<1>2. \A i \in 1..n : L[i] = Leaves(o, F[i]) /\ A[i] = Arrives(o, F[i]) /\ P[i] = Pends(o, F[i])
  BY <1>1
<1> HIDE DEF L, A, P
<1>3. Sums(Total(L), L, n) /\ Sums(Total(A), A, n) /\ Sums(Total(P), P, n)
  BY <1>1, TotalSums
<1> DEFINE tl == Total(L)
           ta == Total(A)
<1>4. IsABag(tl) /\ IsABag(ta) /\ IsABag(bal)
  BY <1>3 DEF Sums, Kept, WellKept
<1>5. tl \sqsubseteq bal /\ bal' = (bal (-) tl) (+) ta
  BY <1>1
<1> HIDE DEF tl, ta
<1>6. \A y : Copies(tl, y) <= Copies(bal, y)
  BY <1>4, <1>5, WithinBag
<1>7. IsABag(bal (-) tl) /\ \A y : Copies(bal (-) tl, y) = Copies(bal, y) - Copies(tl, y)
  <2>1. \A y : Copies(tl, y) \in Nat /\ Copies(bal, y) \in Nat
    BY <1>4, CopiesCount
  <2>2. /\ IsABag(bal (-) tl)
        /\ \A y : Copies(bal (-) tl, y) = IF Copies(bal, y) > Copies(tl, y)
                                          THEN Copies(bal, y) - Copies(tl, y) ELSE 0
    BY <1>4, LessBag
  <2> QED
    BY <1>6, <2>1, <2>2
<1>8. IsABag(bal') /\ \A y : Copies(bal', y) = (Copies(bal, y) - Copies(tl, y)) + Copies(ta, y)
  BY <1>4, <1>5, <1>7, BothBags
<1> QED
  BY <1>2, <1>3, <1>6, <1>8 DEF Summed, L, A, P, tl, ta

(* A serial arrives nowhere, or goes from one place to another.            *)
Rests(x) == \A a : Copies(bal', <<x, a>>) <= Copies(bal, <<x, a>>)
Goes(x) == \E b, c : /\ Copies(bal, <<x, b>>) = 1
                     /\ \A a : Copies(bal', <<x, a>>) = IF a = c THEN 1 ELSE 0

(* Of one serial there is one copy, so at most one flow takes it; what     *)
(* several flows would bring, they would have had to take.                 *)
LEMMA SerialFlows ==
    ASSUME Kept, NEW o, NEW F, NEW n \in Nat, Sound(o, F, n), NEW x, x[2] > 0
    PROVE  Rests(x) \/ Goes(x)
<1> DEFINE L == [i \in DOMAIN F |-> Leaves(o, F[i])]
           A == [i \in DOMAIN F |-> Arrives(o, F[i])]
           P == [i \in DOMAIN F |-> Pends(o, F[i])]
           tl == Total(L)
           ta == Total(A)
<1>0. Summed(o, F, n, L, A, P)
  BY SoundSums
<1> HIDE DEF L, A, P
<1>1. /\ Sums(tl, L, n) /\ Sums(ta, A, n)
      /\ \A i \in 1..n : L[i] = Leaves(o, F[i]) /\ A[i] = Arrives(o, F[i])
      /\ \A y : Copies(tl, y) <= Copies(bal, y)
      /\ \A y : Copies(bal', y) = (Copies(bal, y) - Copies(tl, y)) + Copies(ta, y)
  BY <1>0 DEF Summed
<1> HIDE DEF tl, ta
<1>2. \A i \in 1..n : \A a :
         /\ Copies(L[i], <<x, a>>) = IF Carries(o, F[i], x) /\ a = F[i].from THEN F[i].amount ELSE 0
         /\ Copies(A[i], <<x, a>>) = IF Carries(o, F[i], x) /\ a = F[i].to THEN F[i].amount ELSE 0
  <2> TAKE i \in 1..n
  <2>1. F[i].amount \in Int /\ F[i].from \in Accounts /\ F[i].to \in Accounts
    BY DEF Sound
  <2> QED
    BY <1>1, <2>1, CarriesOne
<1>3. /\ \A a : Copies(bal, <<x, a>>) \in {0, 1}
      /\ \A a, b : Copies(bal, <<x, a>>) = 1 /\ Copies(bal, <<x, b>>) = 1 => a = b
  BY OnePlace
<1>4. \A y : Copies(tl, y) \in Nat /\ Copies(ta, y) \in Nat
  BY <1>1, CopiesCount DEF Sums
<1>5. CASE \A i \in 1..n : ~Carries(o, F[i], x)
  <2>1. \A a : Copies(tl, <<x, a>>) = 0 /\ Copies(ta, <<x, a>>) = 0
    BY <1>1, <1>2, <1>5 DEF Sums
  <2>2. \A a : Copies(bal', <<x, a>>) <= Copies(bal, <<x, a>>)
    <3> TAKE a
    <3> DEFINE y == <<x, a>>
    <3>1. /\ Copies(bal', y) = (Copies(bal, y) - Copies(tl, y)) + Copies(ta, y)
          /\ Copies(tl, y) = 0 /\ Copies(ta, y) = 0 /\ Copies(bal, y) \in {0, 1}
      BY <1>1, <1>3, <2>1
    <3> HIDE DEF y
    <3>2. Copies(bal', y) <= Copies(bal, y)
      BY <3>1
    <3> QED
      BY <3>2 DEF y
  <2> QED
    BY <2>2 DEF Rests
<1>6. CASE \E i \in 1..n : Carries(o, F[i], x)
  <2>1. PICK i \in 1..n : Carries(o, F[i], x)
    BY <1>6
  <2> DEFINE b == F[i].from
             c == F[i].to
             m == F[i].amount
  <2>2. m \in Int /\ m > 0
    BY <2>1 DEF Carries, Sound
  <2>3. Copies(L[i], <<x, b>>) = m /\ Copies(A[i], <<x, c>>) = m
    BY <1>2, <2>1
  <2>4. Copies(bal, <<x, b>>) = 1 /\ Copies(tl, <<x, b>>) = 1 /\ m = 1
    <3> DEFINE y == <<x, b>>
    <3>1. /\ Copies(L[i], y) = m /\ Copies(L[i], y) <= Copies(tl, y) /\ Copies(tl, y) <= Copies(bal, y)
          /\ Copies(bal, y) \in {0, 1} /\ Copies(tl, y) \in Nat
      BY <1>1, <1>3, <1>4, <2>3 DEF Sums
    <3> HIDE DEF y, m
    <3>2. Copies(bal, y) = 1 /\ Copies(tl, y) = 1 /\ m = 1
      BY <2>2, <3>1
    <3> QED
      BY <3>2 DEF y
  <2>5. \A j \in 1..n : j # i => ~Carries(o, F[j], x)
    <3> SUFFICES ASSUME NEW j \in 1..n, j # i, Carries(o, F[j], x) PROVE FALSE
      OBVIOUS
    <3> DEFINE d == F[j].from
               k == F[j].amount
    <3>1. k \in Int /\ k > 0 /\ Copies(L[j], <<x, d>>) = k
      BY <1>2 DEF Carries, Sound
    <3>2. Copies(bal, <<x, d>>) = 1
      <4> DEFINE y == <<x, d>>
      <4>1. /\ Copies(L[j], y) = k /\ Copies(L[j], y) <= Copies(tl, y) /\ Copies(tl, y) <= Copies(bal, y)
            /\ Copies(bal, y) \in {0, 1} /\ Copies(tl, y) \in Nat
        BY <1>1, <1>3, <1>4, <3>1 DEF Sums
      <4> HIDE DEF y, k
      <4>2. Copies(bal, y) = 1
        BY <3>1, <4>1
      <4> QED
        BY <4>2 DEF y
    <3>3. d = b
      BY <1>3, <2>4, <3>2
    <3> DEFINE y == <<x, b>>
    <3>4. Copies(L[i], y) = 1 /\ Copies(L[j], y) = k /\ Copies(tl, y) = 1
      BY <2>3, <2>4, <3>1, <3>3
    <3>5. Copies(L[i], y) + Copies(L[j], y) <= Copies(tl, y)
      <4>1. i < j \/ j < i
        OBVIOUS
      <4> HIDE DEF y, k
      <4>2. CASE i < j
        BY <1>1, <4>2 DEF Sums
      <4>3. CASE j < i
        <5>1. Copies(L[j], y) + Copies(L[i], y) <= Copies(tl, y)
          BY <1>1, <4>3 DEF Sums
        <5> QED
          BY <3>1, <3>4, <5>1
      <4> QED
        BY <4>1, <4>2, <4>3
    <3> HIDE DEF y, k
    <3> QED
      BY <3>1, <3>4, <3>5
  <2>6. \A a : /\ Copies(tl, <<x, a>>) = Copies(L[i], <<x, a>>)
               /\ Copies(ta, <<x, a>>) = Copies(A[i], <<x, a>>)
    <3>1. \A a : \A j \in 1..n : j # i => Copies(L[j], <<x, a>>) = 0 /\ Copies(A[j], <<x, a>>) = 0
      BY <1>2, <2>5
    <3> QED
      BY <1>1, <3>1 DEF Sums
  <2>7. \A a : Copies(bal', <<x, a>>) = IF a = c THEN 1 ELSE 0
    <3> TAKE a
    <3> DEFINE y == <<x, a>>
    <3>1. Copies(bal', y) = (Copies(bal, y) - Copies(tl, y)) + Copies(ta, y)
      BY <1>1
    <3>2. Copies(ta, y) = IF a = c THEN 1 ELSE 0
      BY <1>2, <2>1, <2>4, <2>6
    <3>3. Copies(bal, y) = Copies(tl, y) /\ Copies(tl, y) \in Nat
      <4>1. CASE a = b
        BY <1>4, <2>4, <4>1
      <4>2. CASE a # b
        <5>1. Copies(tl, y) = 0
          BY <1>2, <2>6, <4>2
        <5>2. Copies(bal, y) = 0
          BY <1>3, <2>4, <4>2
        <5> QED
          BY <5>1, <5>2
      <4> QED
        BY <4>1, <4>2
    <3> HIDE DEF y, c
    <3>4. Copies(bal', y) = IF a = c THEN 1 ELSE 0
      BY <3>1, <3>2, <3>3
    <3> QED
      BY <3>4 DEF y, c
  <2> QED
    BY <2>4, <2>7 DEF Goes
<1> QED
  BY <1>5, <1>6

(* So each serial is still in one place, once, and was minted.             *)
LEMMA SerialsKept ==
    ASSUME Kept, IsABag(bal'), DOMAIN bal' \subseteq Assets \X Accounts,
           \A x : x[2] > 0 => Rests(x) \/ Goes(x), UNCHANGED minted
    PROVE  \A h \in DOMAIN bal' : h[1][2] > 0 =>
              /\ bal'[h] = 1 /\ h[1][2] <= minted'[h[1][1]]
              /\ \A a \in Accounts \ {h[2]} : <<h[1], a>> \notin DOMAIN bal'
<1> TAKE h \in DOMAIN bal'
<1> HAVE h[1][2] > 0
<1> DEFINE x == h[1]
<1>0. h = <<h[1], h[2]>>
  OBVIOUS
<1>1. h = <<x, h[2]>> /\ x[2] > 0
  BY <1>0
<1> HIDE DEF x
<1>2. /\ \A a : Copies(bal, <<x, a>>) \in {0, 1}
      /\ \A a, b : Copies(bal, <<x, a>>) = 1 /\ Copies(bal, <<x, b>>) = 1 => a = b
      /\ \A a : Copies(bal, <<x, a>>) = 1 => x[2] <= minted[x[1]]
  BY <1>1, OnePlace
<1>3. \A y : Copies(bal', y) \in Nat /\ (y \in DOMAIN bal' <=> Copies(bal', y) > 0)
  BY CopiesCount
<1>4. Copies(bal', <<x, h[2]>>) > 0 /\ bal'[h] = Copies(bal', <<x, h[2]>>)
  BY <1>1, <1>3 DEF Copies
<1>5. /\ Copies(bal', <<x, h[2]>>) = 1
      /\ \E b : Copies(bal, <<x, b>>) = 1
      /\ \A a : a # h[2] => Copies(bal', <<x, a>>) = 0
  <2>1. CASE Rests(x)
    <3>1. \A a : \/ Copies(bal, <<x, a>>) = 0 /\ Copies(bal', <<x, a>>) = 0
                 \/ Copies(bal, <<x, a>>) = 1 /\ Copies(bal', <<x, a>>) \in {0, 1}
      <4> TAKE a
      <4> DEFINE p == Copies(bal, <<x, a>>)
                 q == Copies(bal', <<x, a>>)
      <4>1. p \in {0, 1} /\ q \in Nat /\ q <= p
        BY <1>2, <1>3, <2>1 DEF Rests
      <4> HIDE DEF p, q
      <4>2. (p = 0 /\ q = 0) \/ (p = 1 /\ q \in {0, 1})
        BY <4>1
      <4> QED
        BY <4>2 DEF p, q
    <3>2. Copies(bal', <<x, h[2]>>) = 1 /\ Copies(bal, <<x, h[2]>>) = 1
      BY <1>4, <3>1
    <3>3. \A a : a # h[2] => Copies(bal, <<x, a>>) # 1
      BY <1>2, <3>2
    <3> QED
      BY <3>1, <3>2, <3>3
  <2>2. CASE Goes(x)
    <3>1. PICK b, c : /\ Copies(bal, <<x, b>>) = 1
                      /\ \A a : Copies(bal', <<x, a>>) = IF a = c THEN 1 ELSE 0
      BY <2>2 DEF Goes
    <3>2. h[2] = c
      BY <1>4, <3>1
    <3> QED
      BY <3>1, <3>2
  <2> QED
    BY <1>1, <2>1, <2>2
<1>6. x[2] <= minted[x[1]]
  BY <1>2, <1>5
<1>7. \A a \in Accounts \ {h[2]} : <<x, a>> \notin DOMAIN bal'
  BY <1>3, <1>5
<1> QED
  BY <1>4, <1>5, <1>6, <1>7 DEF x

(* Flows that were sound leave the books well kept.                        *)
LEMMA FlowedKeeps ==
    ASSUME Kept, NEW o, Flowed(o), UNCHANGED minted,
           marks' \subseteq MarkKinds \X Accounts \X Tokens
    PROVE  Kept'
<1> DEFINE F == AskedFlows(o)
           L == [i \in DOMAIN F |-> Leaves(o, F[i])]
           A == [i \in DOMAIN F |-> Arrives(o, F[i])]
           P == [i \in DOMAIN F |-> Pends(o, F[i])]
           Rest == [id \in DOMAIN pending \ Settled(o) |-> pending[id]]
           Waiting == {x \in Assets : x[1] \in Tokens} \X Accounts \X Accounts
<1>1. PICK n \in Nat : Sound(o, F, n)
  BY DEF Flowed
<1>2. Summed(o, F, n, L, A, P) /\ pending' = Rest (+) Total(P)
  BY <1>1, SoundSums DEF Sound, Moves
<1> HIDE DEF F, L, A, P, Rest
<1>3. \A i \in 1..n : /\ F[i].asset \in Assets /\ F[i].amount \in Int
                      /\ F[i].from \in Accounts /\ F[i].to \in Accounts
                      /\ F[i].from # Absent /\ F[i].to # Absent
                      /\ Waits(o, F[i]) => F[i].asset[1] \in Tokens
  BY <1>1, AbsentAssumption DEF Sound
<1>4. IsABag(bal')
  BY <1>2 DEF Summed
<1>5. DOMAIN bal' \subseteq Assets \X Accounts
  <2> SUFFICES ASSUME NEW h \in DOMAIN bal' PROVE h \in Assets \X Accounts
    OBVIOUS
  <2>1. /\ Copies(bal', h) > 0
        /\ Copies(bal', h) = (Copies(bal, h) - Copies(Total(L), h)) + Copies(Total(A), h)
        /\ IsABag(bal) /\ IsABag(Total(L)) /\ IsABag(Total(A))
    BY <1>2, <1>4, CopiesCount DEF Summed, Sums, Kept, WellKept
  <2>2. CASE h \in DOMAIN bal
    BY <2>2 DEF Kept, WellKept, BagToSet
  <2>3. CASE h \notin DOMAIN bal
    <3>1. Copies(bal, h) = 0
      BY <2>3 DEF Copies
    <3>2. Copies(Total(L), h) \in Nat /\ Copies(Total(A), h) \in Nat
      BY <2>1, CopiesCount
    <3>3. Copies(Total(A), h) # 0
      BY <2>1, <3>1, <3>2
    <3>4. PICK i \in 1..n : Copies(A[i], h) # 0
      BY <1>2, <3>3 DEF Summed, Sums
    <3>5. Copies(Arrives(o, F[i]), h) # 0
      BY <1>2, <3>4 DEF Summed
    <3>6. Arrives(o, F[i]) = Of(<<F[i].asset, F[i].to>>, F[i].amount)
      BY <3>5, NoBag DEF Arrives
    <3>7. h = <<F[i].asset, F[i].to>>
      BY <1>3, <3>5, <3>6, OneBag
    <3> QED
      BY <1>3, <3>7
  <2> QED
    BY <2>2, <2>3
<1>6. \A x : x[2] > 0 => Rests(x) \/ Goes(x)
  BY <1>1, SerialFlows
<1>7. IsABag(pending') /\ DOMAIN pending' \subseteq Waiting
  <2>1. IsABag(Rest) /\ DOMAIN Rest \subseteq Waiting
    BY DEF Rest, Kept, WellKept, IsABag, BagToSet
  <2>2. IsABag(Total(P))
    BY <1>2 DEF Summed, Sums
  <2>3. DOMAIN Total(P) \subseteq Waiting
    <3> SUFFICES ASSUME NEW h \in DOMAIN Total(P) PROVE h \in Waiting
      OBVIOUS
    <3>1. Copies(Total(P), h) # 0
      BY <2>2, CopiesCount
    <3>2. PICK i \in 1..n : Copies(P[i], h) # 0
      BY <1>2, <3>1 DEF Summed, Sums
    <3>3. Copies(Pends(o, F[i]), h) # 0
      BY <1>2, <3>2 DEF Summed
    <3>4. Waits(o, F[i]) /\ Pends(o, F[i]) = Of(<<F[i].asset, F[i].from, F[i].to>>, F[i].amount)
      BY <3>3, NoBag DEF Pends
    <3>5. h = <<F[i].asset, F[i].from, F[i].to>>
      BY <1>3, <3>3, <3>4, OneBag
    <3> QED
      BY <1>3, <3>4, <3>5
  <2> HIDE DEF Waiting
  <2>4. DOMAIN pending' = DOMAIN Rest \cup DOMAIN Total(P)
    BY <1>2 DEF (+)
  <2> QED
    BY <1>2, <2>1, <2>2, <2>3, <2>4, BothBags
<1>8. \A h \in DOMAIN bal' : h[1][2] > 0 =>
         /\ bal'[h] = 1 /\ h[1][2] <= minted'[h[1][1]]
         /\ \A a \in Accounts \ {h[2]} : <<h[1], a>> \notin DOMAIN bal'
  BY <1>4, <1>5, <1>6, SerialsKept
<1>9. minted' \in [Collections -> 0..MaxSerial]
  BY DEF Kept, WellKept
<1> QED
  BY <1>4, <1>5, <1>7, <1>8, <1>9 DEF Kept, WellKept, BagToSet

-----------------------------------------------------------------------------
(* What lands is what was asked, and the books stay well kept.             *)
Lands(o) == AskedFor(o) /\ Kept'

(* A call that only moves what its flows say lands as asked.               *)
LEMMA FlowingLands ==
    ASSUME Kept, NEW o, AskedFor(o), Flowed(o), UNCHANGED minted, AskedOn(o) = {}
    PROVE  Lands(o)
<1>1. marks' \subseteq MarkKinds \X Accounts \X Tokens
  BY DEF AskedFor, Kept, WellKept
<1> QED
  BY <1>1, FlowedKeeps DEF Lands

(* The calls that move nothing.                                            *)
Flowing == {"transferHbar", "transferToken", "transferNft", "airdropFungibleToken", "airdropNft",
            "claimAirdrop", "mintToken", "burnToken", "wipeToken", "rejectTokensFlow"}

(* They ask for no flow, and but for one settle nothing.                   *)
LEMMA QuietCalls ==
    ASSUME NEW o, o.call \notin Flowing
    PROVE  /\ AskedFlows(o) = <<>>
           /\ o.call # "cancelAirdrop" => Settled(o) = {}
<1>1. AskedFlows(o) = <<>>
  BY DEF AskedFlows, Flowing
<1>2. o.call # "cancelAirdrop" => Settled(o) = {}
  BY DEF Settled, Flowing
<1> QED
  BY <1>1, <1>2

(* A call that moves nothing lands as asked.                               *)
LEMMA NothingFlows ==
    ASSUME Kept, NEW o, AskedFlows(o) = <<>>, UNCHANGED <<bal, minted>>,
           pending' = [id \in DOMAIN pending \ Settled(o) |-> pending[id]],
           marks' = (marks \ AskedOff(o)) \cup AskedOn(o),
           AskedOn(o) \subseteq MarkKinds \X Accounts \X Tokens
    PROVE  Lands(o)
<1> DEFINE F == AskedFlows(o)
           L == [i \in DOMAIN F |-> Leaves(o, F[i])]
           A == [i \in DOMAIN F |-> Arrives(o, F[i])]
           P == [i \in DOMAIN F |-> Pends(o, F[i])]
           Rest == [id \in DOMAIN pending \ Settled(o) |-> pending[id]]
<1>1. F = <<>> /\ DOMAIN F = 1..0 /\ 0 \in Nat /\ \A i \in 1..0 : F[i].amount \in Int
  OBVIOUS
<1>2. IsABag(bal) /\ IsABag(Rest)
  BY DEF Kept, WellKept, IsABag
<1> HIDE DEF F, Rest
<1>3. FlowBags(o, F, 0)
  BY <1>1, FlowsAreBags
<1>4. BagList(L, 0) /\ BagList(A, 0) /\ BagList(P, 0)
  BY <1>3 DEF FlowBags
<1> HIDE DEF L, A, P
<1>5. Total(L) = EmptyBag /\ Total(A) = EmptyBag /\ Total(P) = EmptyBag
  <2>1. \A i \in 1..0 : FALSE
    OBVIOUS
  <2> QED
    BY <1>1, <1>4, <2>1, TotalNone
<1>6. (bal (-) EmptyBag) (+) EmptyBag = bal /\ Rest (+) EmptyBag = Rest
  BY <1>2, NoChange
<1>7. Moves(o, F)
  BY <1>5, <1>6 DEF Moves, L, A, P, Rest
<1>8. Total(L) \sqsubseteq bal
  <2>1. DOMAIN EmptyBag = {}
    BY NoBag
  <2> QED
    BY <1>5, <2>1 DEF \sqsubseteq
<1>9. Sound(o, F, 0)
  BY <1>1, <1>3, <1>7, <1>8 DEF Sound, L
<1>10. Flowed(o)
  BY <1>1, <1>9 DEF Flowed, F
<1>11. AskedFor(o)
  BY <1>7, AskedMoves DEF F
<1>12. marks' \subseteq MarkKinds \X Accounts \X Tokens
  BY DEF Kept, WellKept
<1> QED
  BY <1>10, <1>11, <1>12, FlowedKeeps DEF Lands

(* So does one that only sets or clears marks.                             *)
LEMMA OnlyMarks ==
    ASSUME Kept, NEW o, o.call \notin Flowing, o.call # "cancelAirdrop",
           UNCHANGED <<bal, pending, minted>>,
           marks' = (marks \ AskedOff(o)) \cup AskedOn(o),
           AskedOn(o) \subseteq MarkKinds \X Accounts \X Tokens
    PROVE  Lands(o)
<1>1. AskedFlows(o) = <<>> /\ Settled(o) = {}
  BY QuietCalls
<1>2. [id \in DOMAIN pending \ Settled(o) |-> pending[id]] = pending
  BY <1>1 DEF Kept, WellKept, IsABag
<1> QED
  BY <1>1, <1>2, NothingFlows

(* A cancelled airdrop is no longer pending, and that is all.              *)
LEMMA CancelLands ==
    ASSUME Kept, NEW o, o.call = "cancelAirdrop", TokenCancelAirdrop(TokenCancel(o))
    PROVE  Lands(o)
<1>1. AskedFlows(o) = <<>>
  BY QuietCalls DEF Flowing
<1>2. Settled(o) = ToSet(o.ids) /\ AskedOn(o) = {} /\ AskedOff(o) = {}
  BY DEF Settled, AskedOn, AskedOff
<1>3. /\ pending' = [id \in DOMAIN pending \ ToSet(o.ids) |-> pending[id]]
      /\ UNCHANGED <<bal, marks, minted>>
  BY DEF TokenCancelAirdrop, TokenCancel
<1>4. marks' = (marks \ AskedOff(o)) \cup AskedOn(o)
  BY <1>2, <1>3
<1> QED
  BY <1>1, <1>2, <1>3, <1>4, NothingFlows

(* Approvals: neither holdings nor marks.                                  *)
LEMMA ApprovalLands ==
    ASSUME Kept, NEW o, o.call \in Approvals, UNCHANGED <<bal, pending, marks, minted>>
    PROVE  Lands(o)
<1>1. o.call \notin Flowing /\ o.call # "cancelAirdrop"
  BY DEF Approvals, Flowing
<1>2. AskedOn(o) = {} /\ AskedOff(o) = {}
  BY DEF Approvals, AskedOn, AskedOff
<1>3. marks' = (marks \ AskedOff(o)) \cup AskedOn(o)
  BY <1>2
<1> QED
  BY <1>1, <1>2, <1>3, OnlyMarks

-----------------------------------------------------------------------------
(* Who may hold a token.                                                   *)
LEMMA MarkLands ==
    ASSUME Kept, NEW o, o.call \notin Flowing, o.call # "cancelAirdrop",
           NEW tx, SetMark(tx), NEW kind \in MarkKinds, NEW on \in BOOLEAN,
           Marking[tx.type].kind = kind, Marking[tx.type].on = on,
           AskedOn(o) = IF on THEN {<<kind, tx.account, tx.token>>} ELSE {},
           AskedOff(o) = IF on THEN {} ELSE {<<kind, tx.account, tx.token>>}
    PROVE  Lands(o)
<1>1. tx.account \in Accounts /\ tx.token \in Tokens
  BY DEF SetMark, Associated, Kept, WellKept
<1>2. marks' = (marks \ AskedOff(o)) \cup AskedOn(o) /\ UNCHANGED <<bal, pending, minted>>
  BY DEF SetMark
<1>3. AskedOn(o) \subseteq MarkKinds \X Accounts \X Tokens
  BY <1>1
<1> QED
  BY <1>2, <1>3, OnlyMarks

(* Each of the six calls sets or clears its own mark.                      *)
LEMMA FreezeLands ==
    ASSUME Kept, NEW o, o.call = "freezeToken", SetMark(TokenFrozen(o)) PROVE Lands(o)
<1> DEFINE tx == TokenFrozen(o)
<1>1. /\ Marking[tx.type].kind = "frozen" /\ Marking[tx.type].on = TRUE
      /\ tx.account = o.account /\ tx.token = o.token
  BY DEF TokenFrozen, MarkTx, Marking
<1>2. AskedOn(o) = {<<"frozen", o.account, o.token>>} /\ AskedOff(o) = {}
  BY DEF AskedOn, AskedOff
<1>3. o.call \notin Flowing /\ o.call # "cancelAirdrop" /\ "frozen" \in MarkKinds
  BY DEF Flowing, MarkKinds
<1> HIDE DEF tx
<1> QED
  BY <1>1, <1>2, <1>3, MarkLands DEF tx

LEMMA UnfreezeLands ==
    ASSUME Kept, NEW o, o.call = "unfreezeToken", SetMark(TokenUnfrozen(o)) PROVE Lands(o)
<1> DEFINE tx == TokenUnfrozen(o)
<1>1. /\ Marking[tx.type].kind = "frozen" /\ Marking[tx.type].on = FALSE
      /\ tx.account = o.account /\ tx.token = o.token
  BY DEF TokenUnfrozen, MarkTx, Marking
<1>2. AskedOff(o) = {<<"frozen", o.account, o.token>>} /\ AskedOn(o) = {}
  BY DEF AskedOn, AskedOff
<1>3. o.call \notin Flowing /\ o.call # "cancelAirdrop" /\ "frozen" \in MarkKinds
  BY DEF Flowing, MarkKinds
<1> HIDE DEF tx
<1> QED
  BY <1>1, <1>2, <1>3, MarkLands DEF tx

LEMMA GrantKycLands ==
    ASSUME Kept, NEW o, o.call = "grantKycToken", SetMark(TokenKycGranted(o)) PROVE Lands(o)
<1> DEFINE tx == TokenKycGranted(o)
<1>1. /\ Marking[tx.type].kind = "kyc" /\ Marking[tx.type].on = TRUE
      /\ tx.account = o.account /\ tx.token = o.token
  BY DEF TokenKycGranted, MarkTx, Marking
<1>2. AskedOn(o) = {<<"kyc", o.account, o.token>>} /\ AskedOff(o) = {}
  BY DEF AskedOn, AskedOff
<1>3. o.call \notin Flowing /\ o.call # "cancelAirdrop" /\ "kyc" \in MarkKinds
  BY DEF Flowing, MarkKinds
<1> HIDE DEF tx
<1> QED
  BY <1>1, <1>2, <1>3, MarkLands DEF tx

LEMMA RevokeKycLands ==
    ASSUME Kept, NEW o, o.call = "revokeKycToken", SetMark(TokenKycRevoked(o)) PROVE Lands(o)
<1> DEFINE tx == TokenKycRevoked(o)
<1>1. /\ Marking[tx.type].kind = "kyc" /\ Marking[tx.type].on = FALSE
      /\ tx.account = o.account /\ tx.token = o.token
  BY DEF TokenKycRevoked, MarkTx, Marking
<1>2. AskedOff(o) = {<<"kyc", o.account, o.token>>} /\ AskedOn(o) = {}
  BY DEF AskedOn, AskedOff
<1>3. o.call \notin Flowing /\ o.call # "cancelAirdrop" /\ "kyc" \in MarkKinds
  BY DEF Flowing, MarkKinds
<1> HIDE DEF tx
<1> QED
  BY <1>1, <1>2, <1>3, MarkLands DEF tx

LEMMA PauseLands ==
    ASSUME Kept, NEW o, o.call = "pauseToken", SetMark(TokenPaused(o)) PROVE Lands(o)
<1> DEFINE tx == TokenPaused(o)
<1>1. /\ Marking[tx.type].kind = "paused" /\ Marking[tx.type].on = TRUE
      /\ tx.account = Treasury /\ tx.token = o.token
  BY DEF TokenPaused, MarkTx, Marking
<1>2. AskedOn(o) = {<<"paused", Treasury, o.token>>} /\ AskedOff(o) = {}
  BY DEF AskedOn, AskedOff
<1>3. o.call \notin Flowing /\ o.call # "cancelAirdrop" /\ "paused" \in MarkKinds
  BY DEF Flowing, MarkKinds
<1> HIDE DEF tx
<1> QED
  BY <1>1, <1>2, <1>3, MarkLands DEF tx

LEMMA UnpauseLands ==
    ASSUME Kept, NEW o, o.call = "unpauseToken", SetMark(TokenUnpaused(o)) PROVE Lands(o)
<1> DEFINE tx == TokenUnpaused(o)
<1>1. /\ Marking[tx.type].kind = "paused" /\ Marking[tx.type].on = FALSE
      /\ tx.account = Treasury /\ tx.token = o.token
  BY DEF TokenUnpaused, MarkTx, Marking
<1>2. AskedOff(o) = {<<"paused", Treasury, o.token>>} /\ AskedOn(o) = {}
  BY DEF AskedOn, AskedOff
<1>3. o.call \notin Flowing /\ o.call # "cancelAirdrop" /\ "paused" \in MarkKinds
  BY DEF Flowing, MarkKinds
<1> HIDE DEF tx
<1> QED
  BY <1>1, <1>2, <1>3, MarkLands DEF tx

(* Association marks every token of the list, and no other.                *)
LEMMA AssociateLands ==
    ASSUME Kept, NEW o \in TokenAssociateOptions, o.call = "associateToken",
           ~TokenAssociateValidator(o), TokenAssociate(TokenAssociated(o))
    PROVE  Lands(o)
<1>1. o.account \in Accounts /\ o.token \in Tokens
  BY DEF TokenAssociateOptions, TokenAssociateValidator, Missing, Account, Token, Maybe
<1>2. AskedOn(o) = Both(o.account, {o.token}) /\ AskedOff(o) = {}
  BY DEF AskedOn, AskedOff
<1>3. ToSet(<<o.token>>) = {o.token}
  BY DEF ToSet
<1>4. /\ marks' = marks \cup Both(o.account, {o.token}) /\ UNCHANGED <<bal, pending, minted>>
  BY <1>3 DEF TokenAssociate, TokenAssociated, Both
<1>5. Both(o.account, {o.token}) \subseteq MarkKinds \X Accounts \X Tokens
  BY <1>1 DEF Both, MarkKinds
<1>6. o.call \notin Flowing /\ o.call # "cancelAirdrop"
  BY DEF Flowing
<1>7. marks' = (marks \ AskedOff(o)) \cup AskedOn(o)
  BY <1>2, <1>4
<1> QED
  BY <1>2, <1>4, <1>5, <1>6, <1>7, OnlyMarks

(* Dissociation clears every mark of the list, and no other.               *)
LEMMA DissociateLands ==
    ASSUME Kept, NEW o, o.call = "dissociateToken", TokenDissociate(TokenDissociated(o))
    PROVE  Lands(o)
<1>1. /\ AskedOn(o) = {}
      /\ AskedOff(o) = {"associated", "kyc", "frozen"} \X {o.account} \X ToSet(o.tokens)
  BY DEF AskedOn, AskedOff
<1>2. /\ marks' = marks \ ({"associated", "kyc", "frozen"} \X {o.account} \X ToSet(o.tokens))
      /\ UNCHANGED <<bal, pending, minted>>
  BY DEF TokenDissociate, TokenDissociated
<1>3. o.call \notin Flowing /\ o.call # "cancelAirdrop"
  BY DEF Flowing
<1>4. marks' = (marks \ AskedOff(o)) \cup AskedOn(o)
  BY <1>1, <1>2
<1> QED
  BY <1>1, <1>2, <1>3, <1>4, OnlyMarks

(* The second transaction of the flow clears the owner's association with  *)
(* each token that the first one listed, once however often it occurs.     *)
LEMMA RejectSecondLands ==
    ASSUME Kept, NEW o \in TokenRejectOptions, ~TokenRejectValidator(o),
           TokenDissociate(RejectSecond(o))
    PROVE  Lands([o EXCEPT !.call = "dissociateRejected"])
<1> DEFINE p == [o EXCEPT !.call = "dissociateRejected"]
           T == ToSet(Listed(o.tokens)) \cup {n[1] : n \in ToSet(Listed(o.nfts))}
<1>1. /\ p.call = "dissociateRejected" /\ p.owner = o.owner
      /\ p.tokens = o.tokens /\ p.nfts = o.nfts
  BY DEF TokenRejectOptions
<1> HIDE DEF p
<1>2. /\ AskedOn(p) = {}
      /\ AskedOff(p) = {"associated", "kyc", "frozen"} \X {o.owner} \X T
  BY <1>1 DEF AskedOn, AskedOff
<1>3. RejectedTokens(o) = T
  BY DEF RejectedTokens, ToSet
<1>4. ToSet(SetToSeq(RejectedTokens(o))) = RejectedTokens(o)
  BY RejectedFinite, SetListed
<1> HIDE DEF T
<1>5. /\ marks' = marks \ ({"associated", "kyc", "frozen"} \X {o.owner} \X T)
      /\ UNCHANGED <<bal, pending, minted>>
  BY <1>3, <1>4 DEF TokenDissociate, RejectSecond
<1>6. p.call \notin Flowing /\ p.call # "cancelAirdrop"
  BY <1>1 DEF Flowing
<1>7. marks' = (marks \ AskedOff(p)) \cup AskedOn(p)
  BY <1>2, <1>5
<1>8. Lands(p)
  BY <1>2, <1>5, <1>6, <1>7, OnlyMarks
<1> QED
  BY <1>8 DEF p

-----------------------------------------------------------------------------
(* The transfers and airdrops land.                                        *)
LEMMA TransferLands ==
    ASSUME Kept, NEW o, o.call \in Transfers \cup Airdropping,
           AskedFor(o) /\ Flowed(o) /\ UNCHANGED minted
    PROVE  Lands(o)
<1>1. AskedOn(o) = {}
  BY DEF AskedOn, Transfers, Airdropping
<1> QED
  BY <1>1, FlowingLands

(* A claim: each pending airdrop goes from its sender to its receiver.     *)
LEMMA ClaimLands ==
    ASSUME Kept, NEW o \in TokenClaimAirdropOptions, o.call = "claimAirdrop",
           ~TokenClaimAirdropValidator(o), TokenClaimAirdrop(TokenClaim(o))
    PROVE  Lands(o)
<1> DEFINE n == Len(o.ids)
           F == [i \in 1..n |-> Flow(o.ids[i][1], o.ids[i][2], o.ids[i][3], pending[o.ids[i]])]
           L == [i \in DOMAIN F |-> Leaves(o, F[i])]
           A == [i \in DOMAIN F |-> Arrives(o, F[i])]
           P == [i \in DOMAIN F |-> Pends(o, F[i])]
           Rest == [id \in DOMAIN pending \ ToSet(o.ids) |-> pending[id]]
           Joined == {<<kind, id[3], id[1][1]>> : kind \in {"associated", "kyc"}, id \in ToSet(o.ids)}
<1>1. o.ids \in Seq(Maybe(Assets \X Accounts \X Accounts)) /\ Absent \notin ToSet(o.ids)
  BY DEF TokenClaimAirdropOptions, TokenClaimAirdropValidator, BadIds, Empty, Missing, ListOf, Maybe
<1>2. n \in Nat /\ DOMAIN o.ids = 1..n
  BY <1>1
<1>3. /\ ToSet(o.ids) \subseteq DOMAIN pending
      /\ Claimed(o.ids, 2) \sqsubseteq bal
      /\ bal' = (bal (-) Claimed(o.ids, 2)) (+) Claimed(o.ids, 3)
      /\ pending' = Rest /\ marks' = marks \cup Joined /\ UNCHANGED minted
  BY DEF TokenClaimAirdrop, TokenClaim, BagToSet
<1>4. \A i \in 1..n : /\ o.ids[i] \in ToSet(o.ids) /\ o.ids[i] \in DOMAIN pending
                      /\ o.ids[i][1] \in Assets /\ o.ids[i][1][1] \in Tokens
                      /\ o.ids[i][2] \in Accounts /\ o.ids[i][3] \in Accounts
                      /\ o.ids[i][2] # Absent /\ o.ids[i][3] # Absent
                      /\ pending[o.ids[i]] \in Int
  <2> TAKE i \in 1..n
  <2>1. o.ids[i] \in ToSet(o.ids)
    BY <1>2 DEF ToSet
  <2> DEFINE id == o.ids[i]
  <2>2. id \in DOMAIN pending
    BY <1>3, <2>1
  <2> HIDE DEF id, n
  <2>3. id \in {x \in Assets : x[1] \in Tokens} \X Accounts \X Accounts /\ pending[id] \in Int
    BY <2>2 DEF Kept, WellKept, BagToSet, IsABag
  <2>4. /\ id[1] \in Assets /\ id[1][1] \in Tokens /\ id[2] \in Accounts /\ id[3] \in Accounts
        /\ id[2] # Absent /\ id[3] # Absent
    BY <2>3, AbsentAssumption
  <2> QED
    BY <2>1, <2>2, <2>3, <2>4 DEF id
<1>5. AskedFlows(o) = F
  BY <1>2 DEF AskedFlows
<1>6. /\ Settled(o) = ToSet(o.ids) /\ AskedOff(o) = {}
      /\ \A f : ~Waits(o, f)
  BY DEF Settled, AskedOff, Waits
<1>7. AskedOn(o) = Joined
  <2>1. AskedOn(o) = UNION {Both(o.ids[i][3], {o.ids[i][1][1]}) : i \in DOMAIN o.ids}
    BY DEF AskedOn
  <2>2. \A m : m \in AskedOn(o) <=> \E i \in DOMAIN o.ids : m \in Both(o.ids[i][3], {o.ids[i][1][1]})
    BY <2>1
  <2>3. \A m : m \in Joined <=> \E id \in ToSet(o.ids) : m \in Both(id[3], {id[1][1]})
    BY DEF Both
  <2>4. ToSet(o.ids) = {o.ids[i] : i \in DOMAIN o.ids}
    BY DEF ToSet
  <2> HIDE DEF n, Joined
  <2>5. \A m : m \in AskedOn(o) <=> m \in Joined
    BY <2>2, <2>3, <2>4
  <2> QED
    BY <2>5
<1>8. DOMAIN F = 1..n /\ \A i \in 1..n : /\ F[i].asset = o.ids[i][1] /\ F[i].from = o.ids[i][2]
                                         /\ F[i].to = o.ids[i][3] /\ F[i].amount = pending[o.ids[i]]
  BY DEF Flow
<1> HIDE DEF F, n
<1>9. \A i \in 1..n : /\ Leaves(o, F[i]) = Of(<<o.ids[i][1], o.ids[i][2]>>, pending[o.ids[i]])
                      /\ Arrives(o, F[i]) = Of(<<o.ids[i][1], o.ids[i][3]>>, pending[o.ids[i]])
                      /\ Pends(o, F[i]) = EmptyBag
  BY <1>4, <1>6, <1>8 DEF Leaves, Arrives, Pends
<1>10. L = [i \in DOMAIN o.ids |-> Of(<<o.ids[i][1], o.ids[i][2]>>, pending[o.ids[i]])]
  BY <1>2, <1>8, <1>9
<1>11. A = [i \in DOMAIN o.ids |-> Of(<<o.ids[i][1], o.ids[i][3]>>, pending[o.ids[i]])]
  BY <1>2, <1>8, <1>9
<1>12. Total(L) = Claimed(o.ids, 2) /\ Total(A) = Claimed(o.ids, 3)
  BY <1>10, <1>11 DEF Claimed
<1>13. FlowBags(o, F, n)
  BY <1>2, <1>4, <1>8, FlowsAreBags
<1>14. Total(P) = EmptyBag
  <2>1. BagList(P, n) /\ \A i \in 1..n : P[i] = EmptyBag
    BY <1>8, <1>9, <1>13 DEF FlowBags
  <2> HIDE DEF P
  <2> QED
    BY <1>2, <2>1, TotalNone
<1>15. Rest (+) EmptyBag = Rest
  <2>1. IsABag(Rest)
    BY DEF Kept, WellKept, IsABag
  <2> HIDE DEF Rest
  <2> QED
    BY <2>1, NoChange
<1> HIDE DEF L, A, P, Rest, Joined
<1>16. Moves(o, F)
  BY <1>3, <1>6, <1>12, <1>14, <1>15 DEF Moves, L, A, P, Rest
<1>17. marks' = (marks \ AskedOff(o)) \cup AskedOn(o)
  BY <1>3, <1>6, <1>7
<1>18. AskedFor(o)
  BY <1>5, <1>16, <1>17, AskedMoves
<1>19. Sound(o, F, n)
  <2>1. Total(L) \sqsubseteq bal
    BY <1>3, <1>12
  <2>2. \A i \in 1..n : /\ F[i].asset \in Assets /\ F[i].amount \in Int
                        /\ F[i].from \in Accounts /\ F[i].to \in Accounts
                        /\ F[i].asset[1] \in Tokens
    BY <1>4, <1>8
  <2> QED
    BY <1>13, <1>16, <2>1, <2>2 DEF Sound, L
<1>20. Flowed(o)
  BY <1>2, <1>5, <1>19 DEF Flowed
<1>21. marks' \subseteq MarkKinds \X Accounts \X Tokens
  <2>1. \A id \in ToSet(o.ids) : id[3] \in Accounts /\ id[1][1] \in Tokens
    <3>1. \A id \in ToSet(o.ids) : \E i \in 1..n : id = o.ids[i]
      BY <1>2 DEF ToSet
    <3> QED
      BY <1>4, <3>1
  <2>2. {"associated", "kyc"} \subseteq MarkKinds
    BY DEF MarkKinds
  <2>3. Joined \subseteq MarkKinds \X Accounts \X Tokens
    BY <2>1, <2>2 DEF Joined
  <2> QED
    BY <1>3, <2>3 DEF Kept, WellKept
<1> QED
  BY <1>3, <1>18, <1>20, <1>21, FlowedKeeps DEF Lands

(* Flows none of which waits, and nothing to settle or mark.               *)
LEMMA PlainMoves ==
    ASSUME Kept, NEW o, NEW F, AskedFlows(o) = F, NEW n \in Nat, FlowBags(o, F, n),
           \A i \in 1..n : ~Waits(o, F[i]), Settled(o) = {}, AskedOn(o) = {}, AskedOff(o) = {},
           UNCHANGED <<pending, marks>>,
           bal' = (bal (-) Total([i \in DOMAIN F |-> Leaves(o, F[i])]))
                  (+) Total([i \in DOMAIN F |-> Arrives(o, F[i])])
    PROVE  AskedFor(o) /\ Moves(o, F)
<1>1. [id \in DOMAIN pending \ Settled(o) |-> pending[id]]
      (+) Total([i \in DOMAIN F |-> Pends(o, F[i])]) = pending
  BY KeptBooks, NothingPends
<1>2. Moves(o, F)
  BY <1>1 DEF Moves
<1>3. marks' = (marks \ AskedOff(o)) \cup AskedOn(o)
  OBVIOUS
<1> QED
  BY <1>2, <1>3, AskedMoves

(* A rejection: the owner's units and the serials, to the treasury.        *)
LEMMA RejectLands ==
    ASSUME Kept, NEW o \in TokenRejectOptions, o.call = "rejectTokensFlow",
           ~TokenRejectValidator(o), TokenReject(RejectFirst(o))
    PROVE  Lands(o)
<1> DEFINE tokens == Listed(o.tokens)
           nfts == Listed(o.nfts)
           k == Len(tokens)
           l == Len(nfts)
           n == k + l
           tx == RejectFirst(o)
           gone == Rejected(tx)
           Count(x) == IF x[2] = 0 THEN Balance(x, o.owner) ELSE 1
           s == [i \in DOMAIN tokens |-> LET x == <<o.tokens[i], 0>> IN
                   Flow(x, o.owner, Treasury, Balance(x, o.owner))]
           t == [i \in DOMAIN nfts |-> Flow(o.nfts[i], o.owner, Treasury, 1)]
           F == s \o t
           L == [i \in DOMAIN F |-> Leaves(o, F[i])]
           A == [i \in DOMAIN F |-> Arrives(o, F[i])]
<1>1. /\ o.owner # Absent
      /\ tokens \in Seq(Maybe(Tokens)) /\ Absent \notin ToSet(tokens)
      /\ nfts \in Seq(Maybe(Tokens \X Int)) /\ Absent \notin ToSet(nfts)
      /\ tokens # <<>> \/ nfts # <<>>
  BY ListedOptions
<1>2. o.owner \in Accounts /\ Treasury # Absent /\ Treasury \in Accounts
  BY <1>1, AbsentAssumption DEF TokenRejectOptions, Account, Maybe
<1>3. /\ DOMAIN tokens = 1..k /\ k \in Nat /\ DOMAIN nfts = 1..l /\ l \in Nat /\ n \in Nat
      /\ \A i \in 1..k : tokens[i] = o.tokens[i]
      /\ \A i \in 1..l : nfts[i] = o.nfts[i]
  <2>1. DOMAIN tokens = 1..k /\ k \in Nat /\ DOMAIN nfts = 1..l /\ l \in Nat
    BY <1>1
  <2>2. \A i \in DOMAIN tokens : tokens[i] = o.tokens[i]
    BY DEF Listed
  <2>3. \A i \in DOMAIN nfts : nfts[i] = o.nfts[i]
    BY DEF Listed
  <2> HIDE DEF tokens, nfts
  <2> QED
    BY <2>1, <2>2, <2>3
<1>4. AskedFlows(o) = F
  BY DEF AskedFlows
<1>5. tx.tokens = tokens /\ tx.nfts = nfts /\ tx.owner = o.owner
  BY DEF RejectFirst
<1>6. /\ \A i \in DOMAIN gone : <<gone[i], o.owner>> \in DOMAIN bal
      /\ \A i \in DOMAIN nfts : nfts[i][2] > 0
      /\ Move(Total([i \in DOMAIN gone |-> Of(<<gone[i], o.owner>>, Count(gone[i]))]),
              Total([i \in DOMAIN gone |-> Of(<<gone[i], Treasury>>, Count(gone[i]))]))
      /\ UNCHANGED <<pending, marks, minted>>
  BY <1>5 DEF TokenReject, BagToSet
<1> HIDE DEF tx
<1>7. gone = [i \in DOMAIN tokens |-> Units(tokens[i])] \o nfts
  BY <1>5 DEF Rejected
<1> HIDE DEF tokens, nfts, F, gone
<1>8. DOMAIN gone = 1..n /\ \A i \in 1..n : gone[i] = IF i <= k THEN Units(tokens[i]) ELSE nfts[i - k]
  <2> DEFINE units == [i \in DOMAIN tokens |-> Units(tokens[i])]
             V == {units[i] : i \in 1..k} \cup {nfts[i] : i \in 1..l}
  <2>1. Len(units) = k /\ units \in Seq(V)
    BY <1>3
  <2>2. Len(nfts) = l /\ nfts \in Seq(V)
    <3>1. nfts = [i \in 1..l |-> nfts[i]]
      BY <1>1, <1>3
    <3> HIDE DEF l
    <3> QED
      BY <1>1, <1>3, <3>1 DEF l
  <2>3. \A i \in 1..k : units[i] = Units(tokens[i])
    BY <1>3
  <2> HIDE DEF V, units
  <2>4. DOMAIN (units \o nfts) = 1..n
    BY <2>1, <2>2
  <2>5. \A i \in 1..n : (units \o nfts)[i] = IF i <= k THEN units[i] ELSE nfts[i - k]
    BY <2>1, <2>2
  <2>6. \A i \in 1..n : i <= k => i \in 1..k
    BY <1>3
  <2>7. gone = units \o nfts
    BY <1>7 DEF units
  <2> QED
    BY <2>3, <2>4, <2>5, <2>6, <2>7
<1>9. DOMAIN F = 1..n /\ \A i \in 1..n : F[i] = IF i <= k THEN s[i] ELSE t[i - k]
  <2> DEFINE V == {s[i] : i \in 1..k} \cup {t[i] : i \in 1..l}
  <2>1. Len(s) = k /\ s \in Seq(V)
    BY <1>3
  <2>2. Len(t) = l /\ t \in Seq(V)
    BY <1>3
  <2> HIDE DEF V, s, t
  <2> QED
    BY <1>3, <2>1, <2>2 DEF F
<1>10. \A i \in 1..n : /\ F[i].asset = gone[i] /\ F[i].from = o.owner /\ F[i].to = Treasury
                       /\ F[i].amount = Count(gone[i])
  <2> HIDE DEF n, k, l, s, t, Count
  <2> TAKE i \in 1..n
  <2>1. CASE i <= k
    <3>1. i \in 1..k
      BY <1>3, <2>1 DEF n
    <3>2. s[i] = Flow(Units(tokens[i]), o.owner, Treasury, Balance(Units(tokens[i]), o.owner))
      BY <1>3, <3>1 DEF Units, s
    <3>3. gone[i] = Units(tokens[i]) /\ F[i] = s[i]
      BY <1>8, <1>9, <2>1
    <3>4. gone[i][2] = 0
      BY <3>3 DEF Units
    <3>5. Count(gone[i]) = Balance(gone[i], o.owner)
      BY <3>4 DEF Count
    <3> QED
      BY <3>2, <3>3, <3>5 DEF Flow
  <2>2. CASE ~(i <= k)
    <3>1. i - k \in 1..l
      BY <1>3, <2>2 DEF n
    <3>2. t[i - k] = Flow(nfts[i - k], o.owner, Treasury, 1)
      BY <1>3, <3>1 DEF t
    <3>3. nfts[i - k][2] > 0
      BY <1>3, <1>6, <3>1
    <3>4. gone[i] = nfts[i - k] /\ F[i] = t[i - k]
      BY <1>8, <1>9, <2>2
    <3>5. gone[i][2] # 0
      BY <3>3, <3>4
    <3>6. Count(gone[i]) = 1
      BY <3>5 DEF Count
    <3> QED
      BY <3>2, <3>4, <3>6 DEF Flow
  <2> QED
    BY <2>1, <2>2
<1>11. n \in Nat
  BY <1>3
<1> HIDE DEF s, t, n, k, l
<1>12. \A i \in 1..n : Count(gone[i]) \in Int
  <2>1. \A x : Balance(x, o.owner) \in Int
    BY DEF Balance, Kept, WellKept, IsABag, BagToSet
  <2> QED
    BY <2>1
<1> HIDE DEF Count
<1>13. /\ \A f : ~Waits(o, f)
       /\ Settled(o) = {} /\ AskedOn(o) = {} /\ AskedOff(o) = {}
  BY DEF Waits, Settled, AskedOn, AskedOff
<1>14. \A i \in 1..n : /\ Leaves(o, F[i]) = Of(<<gone[i], o.owner>>, Count(gone[i]))
                       /\ Arrives(o, F[i]) = Of(<<gone[i], Treasury>>, Count(gone[i]))
  BY <1>1, <1>2, <1>10, <1>13 DEF Leaves, Arrives
<1>15. /\ L = [i \in DOMAIN gone |-> Of(<<gone[i], o.owner>>, Count(gone[i]))]
       /\ A = [i \in DOMAIN gone |-> Of(<<gone[i], Treasury>>, Count(gone[i]))]
  BY <1>8, <1>9, <1>14
<1>16. Total(L) \sqsubseteq bal /\ bal' = (bal (-) Total(L)) (+) Total(A)
  BY <1>6, <1>15 DEF Move
<1>17. \A i \in 1..n : /\ F[i].asset \in Assets /\ F[i].amount \in Int
                       /\ F[i].from \in Accounts /\ F[i].to \in Accounts
  <2> TAKE i \in 1..n
  <2>1. <<gone[i], o.owner>> \in DOMAIN bal
    BY <1>6, <1>8
  <2>2. gone[i] \in Assets
    BY <2>1 DEF Kept, WellKept, BagToSet
  <2> QED
    BY <1>2, <1>10, <1>12, <2>2
<1>18. FlowBags(o, F, n)
  BY <1>9, <1>11, <1>17, FlowsAreBags
<1>19. AskedFor(o) /\ Moves(o, F)
  BY <1>4, <1>6, <1>11, <1>13, <1>16, <1>18, PlainMoves
<1>20. Sound(o, F, n)
  BY <1>13, <1>16, <1>17, <1>18, <1>19 DEF Sound
<1>21. Flowed(o)
  BY <1>4, <1>11, <1>20 DEF Flowed
<1> QED
  BY <1>6, <1>13, <1>19, <1>21, FlowingLands

-----------------------------------------------------------------------------
(* One copy of each thing in a list, and one of each thing in a set.       *)
LEMMA OneOfEach ==
    ASSUME NEW S
    PROVE  LET B == [h \in S |-> 1] IN
           IsABag(B) /\ \A x : Copies(B, x) = IF x \in S THEN 1 ELSE 0
BY DEF IsABag, Copies

Singles(bags, f, n) == /\ DOMAIN bags = 1..n /\ bags = [i \in 1..n |-> bags[i]]
                       /\ \A i \in 1..n : bags[i] = Of(f[i], 1)
OnesOf(B, f, n) == /\ IsABag(B)
                   /\ \A i \in 1..n : Copies(B, f[i]) > 0
                   /\ \A x : (\A i \in 1..n : f[i] # x) => Copies(B, x) = 0
                   /\ (\A i, j \in 1..n : f[i] = f[j] => i = j)
                         => \A i \in 1..n : Copies(B, f[i]) = 1

(* The total of bags of one: one copy of each thing where none is named    *)
(* twice.                                                                  *)
LEMMA TotalOnes ==
    ASSUME NEW n \in Nat, NEW f, NEW bags, Singles(bags, f, n)
    PROVE  BagList(bags, n) /\ OnesOf(Total(bags), f, n)
<1>0. /\ DOMAIN bags = 1..n /\ bags = [i \in 1..n |-> bags[i]]
      /\ \A i \in 1..n : bags[i] = Of(f[i], 1)
  BY DEF Singles
<1>1. \A i \in 1..n : IsABag(bags[i]) /\ \A x : Copies(bags[i], x) = IF x = f[i] THEN 1 ELSE 0
  BY <1>0, OneBag
<1>2. BagList(bags, n)
  BY <1>0, <1>1 DEF BagList
<1>3. Sums(Total(bags), bags, n)
  BY <1>2, TotalSums
<1>4. IsABag(Total(bags))
  BY <1>3 DEF Sums
<1>5. \A i \in 1..n : Copies(Total(bags), f[i]) > 0
  <2> TAKE i \in 1..n
  <2>1. Copies(bags[i], f[i]) = 1 /\ Copies(bags[i], f[i]) <= Copies(Total(bags), f[i])
    BY <1>1, <1>3 DEF Sums
  <2>2. Copies(Total(bags), f[i]) \in Nat
    BY <1>4, CopiesCount
  <2> QED
    BY <2>1, <2>2
<1>6. \A x : (\A i \in 1..n : f[i] # x) => Copies(Total(bags), x) = 0
  BY <1>1, <1>3 DEF Sums
<1>7. ASSUME \A i, j \in 1..n : f[i] = f[j] => i = j, NEW i \in 1..n
      PROVE  Copies(Total(bags), f[i]) = 1
  <2>1. \A j \in 1..n : j # i => Copies(bags[j], f[i]) = 0
    BY <1>1, <1>7
  <2>2. Copies(bags[i], f[i]) = 1
    BY <1>1
  <2> QED
    BY <1>3, <2>1, <2>2 DEF Sums
<1> QED
  BY <1>2, <1>4, <1>5, <1>6, <1>7 DEF OnesOf

(* What only leaves, and what only arrives.                                *)
LEMMA DepartsKept ==
    ASSUME Kept, NEW out, IsABag(out), bal' = (bal (-) out) (+) EmptyBag,
           UNCHANGED <<pending, marks, minted>>
    PROVE  Kept'
<1>1. IsABag(bal) /\ DOMAIN bal \subseteq Assets \X Accounts
  BY DEF Kept, WellKept, BagToSet
<1>2. /\ IsABag(bal (-) out)
      /\ \A y : Copies(bal (-) out, y) = IF Copies(bal, y) > Copies(out, y)
                                         THEN Copies(bal, y) - Copies(out, y) ELSE 0
  BY <1>1, LessBag
<1>3. bal' = bal (-) out
  BY <1>2, NoChange
<1>4. \A y : /\ Copies(bal, y) \in Nat /\ Copies(out, y) \in Nat
             /\ Copies(bal', y) <= Copies(bal, y)
  <2>1. \A y : Copies(bal, y) \in Nat /\ Copies(out, y) \in Nat
    BY <1>1, CopiesCount
  <2> QED
    BY <1>2, <1>3, <2>1
<1>5. IsABag(bal')
  BY <1>2, <1>3
<1>6. DOMAIN bal' \subseteq Assets \X Accounts
  <2>1. \A y : y \in DOMAIN bal' => Copies(bal', y) > 0
    BY <1>5, CopiesCount
  <2>2. \A y : Copies(bal', y) > 0 => y \in DOMAIN bal
    <3> SUFFICES ASSUME NEW y, Copies(bal', y) > 0 PROVE y \in DOMAIN bal
      OBVIOUS
    <3>1. Copies(bal, y) > 0
      <4>1. Copies(bal', y) \in Nat
        BY <1>5, CopiesCount
      <4> QED
        BY <1>4, <4>1
    <3> QED
      BY <1>1, <3>1, CopiesCount
  <2> QED
    BY <1>1, <2>1, <2>2
<1>7. \A x : Rests(x)
  BY <1>4 DEF Rests
<1>8. \A h \in DOMAIN bal' : h[1][2] > 0 =>
         /\ bal'[h] = 1 /\ h[1][2] <= minted'[h[1][1]]
         /\ \A a \in Accounts \ {h[2]} : <<h[1], a>> \notin DOMAIN bal'
  BY <1>5, <1>6, <1>7, SerialsKept
<1> QED
  BY <1>5, <1>6, <1>8 DEF Kept, WellKept, BagToSet

(* New serials are in nobody's hands, their numbers being past all there   *)
(* were.                                                                   *)
LEMMA ArrivesKept ==
    ASSUME Kept, NEW in, IsABag(in), bal' = (bal (-) EmptyBag) (+) in,
           DOMAIN in \subseteq Assets \X {Treasury}, UNCHANGED <<pending, marks>>,
           minted' \in [Collections -> 0..MaxSerial],
           \A c \in Collections : minted[c] <= minted'[c],
           \A h \in DOMAIN in : h[1][2] > 0 => /\ in[h] = 1 /\ minted[h[1][1]] < h[1][2]
                                               /\ h[1][2] <= minted'[h[1][1]]
    PROVE  Kept'
<1>1. IsABag(bal) /\ DOMAIN bal \subseteq Assets \X Accounts
  BY DEF Kept, WellKept, BagToSet
<1>2. bal' = bal (+) in
  BY <1>1, NoChange
<1>3. IsABag(bal') /\ \A y : Copies(bal', y) = Copies(bal, y) + Copies(in, y)
  BY <1>1, <1>2, BothBags
<1>4. DOMAIN bal' = DOMAIN bal \cup DOMAIN in
  BY <1>2 DEF (+)
<1>5. DOMAIN bal' \subseteq Assets \X Accounts
  BY <1>1, <1>4, AbsentAssumption
<1>6. ASSUME NEW h \in DOMAIN bal', h[1][2] > 0
      PROVE  /\ bal'[h] = 1 /\ h[1][2] <= minted'[h[1][1]]
             /\ \A a \in Accounts \ {h[2]} : <<h[1], a>> \notin DOMAIN bal'
  <2> DEFINE x == h[1]
             m == minted[x[1]]
             q == minted'[x[1]]
  <2>1. h = <<x, h[2]>> /\ x \in Assets /\ h[2] \in Accounts
    BY <1>5
  <2>2. x[1] \in Collections /\ x[2] \in Int
    BY <1>6, <2>1, HoldingsAssumption DEF Assets
  <2>3. m \in Int /\ q \in Int /\ m <= q /\ x[2] > 0
    BY <1>6, <2>2, HoldingsAssumption DEF Kept, WellKept
  <2>4. \A a : <<x, a>> \in DOMAIN in => /\ in[<<x, a>>] = 1 /\ m < x[2] /\ x[2] <= q /\ a = Treasury
    <3> SUFFICES ASSUME NEW a, <<x, a>> \in DOMAIN in
                 PROVE  in[<<x, a>>] = 1 /\ m < x[2] /\ x[2] <= q /\ a = Treasury
      OBVIOUS
    <3> DEFINE g == <<x, a>>
    <3>1. g \in DOMAIN in /\ g[1] = x /\ g[2] = a
      OBVIOUS
    <3> HIDE DEF g, x
    <3>2. in[g] = 1 /\ minted[g[1][1]] < g[1][2] /\ g[1][2] <= minted'[g[1][1]]
      BY <2>3, <3>1
    <3>3. g[2] = Treasury
      BY <3>1
    <3> QED
      BY <3>1, <3>2, <3>3 DEF g
  <2> HIDE DEF x
  <2>5. /\ \A a : Copies(bal, <<x, a>>) \in {0, 1}
        /\ \A a, b : Copies(bal, <<x, a>>) = 1 /\ Copies(bal, <<x, b>>) = 1 => a = b
        /\ \A a : Copies(bal, <<x, a>>) = 1 => x[2] <= m
    BY <2>3, OnePlace
  <2> HIDE DEF m, q
  <2>6. \A a : <<x, a>> \in DOMAIN bal' <=> Copies(bal', <<x, a>>) > 0
    BY <1>3, CopiesCount
  <2>7. bal'[h] = Copies(bal', <<x, h[2]>>)
    BY <2>1 DEF Copies
  <2>8. CASE m < x[2]
    <3>1. \A a : Copies(bal, <<x, a>>) = 0
      BY <2>2, <2>3, <2>5, <2>8
    <3>2. \A a : Copies(in, <<x, a>>) = IF <<x, a>> \in DOMAIN in THEN 1 ELSE 0
      BY <2>4 DEF Copies
    <3>3. \A a : Copies(bal', <<x, a>>) = IF <<x, a>> \in DOMAIN in THEN 1 ELSE 0
      BY <1>3, <3>1, <3>2
    <3>4. \A a : <<x, a>> \in DOMAIN bal' => <<x, a>> \in DOMAIN in
      BY <2>6, <3>3
    <3>5. <<x, h[2]>> \in DOMAIN in
      BY <2>1, <3>4
    <3>6. h[2] = Treasury /\ x[2] <= q
      BY <2>4, <3>5
    <3>7. \A a \in Accounts \ {h[2]} : <<x, a>> \notin DOMAIN bal'
      BY <2>4, <3>4, <3>6
    <3> QED
      BY <2>7, <3>3, <3>5, <3>6, <3>7 DEF x, q
  <2>9. CASE ~(m < x[2])
    <3>1. \A a : <<x, a>> \notin DOMAIN in
      BY <2>4, <2>9
    <3>2. \A a : Copies(in, <<x, a>>) = 0
      BY <3>1 DEF Copies
    <3>3. \A a : Copies(bal', <<x, a>>) = Copies(bal, <<x, a>>)
      <4> TAKE a
      <4>1. Copies(bal, <<x, a>>) \in Nat
        BY <1>1, CopiesCount
      <4> QED
        BY <1>3, <3>2, <4>1
    <3>4. Copies(bal', <<x, h[2]>>) > 0
      BY <2>1, <2>6
    <3>5. Copies(bal, <<x, h[2]>>) = 1
      BY <2>5, <3>3, <3>4
    <3>6. \A a : a # h[2] => Copies(bal, <<x, a>>) = 0
      BY <2>5, <3>5
    <3>7. \A a \in Accounts \ {h[2]} : <<x, a>> \notin DOMAIN bal'
      BY <2>6, <3>3, <3>6
    <3>8. x[2] <= q
      BY <2>2, <2>3, <2>9
    <3> QED
      BY <2>7, <3>3, <3>5, <3>7, <3>8 DEF x, q
  <2> QED
    BY <2>8, <2>9
<1> QED
  BY <1>3, <1>5, <1>6 DEF Kept, WellKept, BagToSet

-----------------------------------------------------------------------------
(* Supply: new units or serials, to the treasury.                          *)
LEMMA MintUnitsLands ==
    ASSUME Kept, NEW o \in TokenMintOptions, o.call = "mintToken", o.amount \in Int,
           Move(EmptyBag, Of(<<Units(o.token), Treasury>>, o.amount)),
           UNCHANGED <<pending, marks, minted>>
    PROVE  Lands(o)
<1> DEFINE f == Flow(Units(o.token), Absent, Treasury, o.amount)
           F == <<f>>
           in == Of(<<Units(o.token), Treasury>>, o.amount)
<1>1. f.asset = Units(o.token) /\ f.from = Absent /\ f.to = Treasury /\ f.amount = o.amount
  BY DEF Flow
<1>2. AskedFlows(o) = F
  BY AbsentAssumption DEF AskedFlows, Units
<1> HIDE DEF f
<1>3. /\ ~Waits(o, f) /\ Settled(o) = {} /\ AskedOn(o) = {} /\ AskedOff(o) = {}
  BY DEF Waits, Settled, AskedOn, AskedOff
<1>4. Leaves(o, f) = EmptyBag /\ Arrives(o, f) = in
  BY <1>1, <1>3, AbsentAssumption DEF Leaves, Arrives
<1>5. /\ FlowBags(o, F, 1)
      /\ Total([i \in DOMAIN F |-> Leaves(o, F[i])]) = EmptyBag
      /\ Total([i \in DOMAIN F |-> Arrives(o, F[i])]) = in
  BY <1>1, <1>4, SingleFlow
<1>6. 1 \in Nat /\ \A i \in 1..1 : F[i] = f
  OBVIOUS
<1>7. /\ bal' = (bal (-) EmptyBag) (+) in
      /\ \A h \in DOMAIN in : h[1] \in Assets
  BY DEF Move, BagToSet
<1>8. IsABag(in) /\ DOMAIN in \subseteq {<<Units(o.token), Treasury>>}
  BY OneBag DEF Of, EmptyBag, SetToBag
<1> HIDE DEF F, in
<1>9. AskedFor(o)
  BY <1>2, <1>3, <1>5, <1>6, <1>7, PlainMoves
<1>10. Kept'
  <2>1. DOMAIN in \subseteq Assets \X {Treasury}
    BY <1>7, <1>8
  <2>2. \A h \in DOMAIN in : h[1][2] = 0
    BY <1>8 DEF Units
  <2>3. minted' \in [Collections -> 0..MaxSerial] /\ \A c \in Collections : minted[c] <= minted'[c]
    BY HoldingsAssumption DEF Kept, WellKept
  <2> QED
    BY <1>7, <1>8, <2>1, <2>2, <2>3, ArrivesKept
<1> QED
  BY <1>9, <1>10 DEF Lands

(* New serials are numbered on from the last, and all go to the treasury.  *)
LEMMA MintSerialsLands ==
    ASSUME Kept, NEW o \in TokenMintOptions, o.call = "mintToken", o.amount = Absent,
           o.metadata \in Nat, o.token \in Collections,
           minted[o.token] + o.metadata <= MaxSerial,
           Move(EmptyBag, [h \in {<<<<o.token, minted[o.token] + i>>, Treasury>> :
                                     i \in 1..o.metadata} |-> 1]),
           minted' = [minted EXCEPT ![o.token] = @ + o.metadata],
           UNCHANGED <<pending, marks>>
    PROVE  Lands(o)
<1> DEFINE n == o.metadata
           m == minted[o.token]
           g == [i \in 1..n |-> <<<<o.token, m + i>>, Treasury>>]
           S == {<<<<o.token, m + i>>, Treasury>> : i \in 1..n}
           in == [h \in S |-> 1]
           F == [i \in 1..n |-> Flow(<<o.token, m + i>>, Absent, Treasury, 1)]
           L == [i \in DOMAIN F |-> Leaves(o, F[i])]
           A == [i \in DOMAIN F |-> Arrives(o, F[i])]
<1>1. n \in Nat /\ m \in Nat /\ m + n <= MaxSerial /\ MaxSerial \in Nat /\ m + n \in Nat
  BY HoldingsAssumption DEF Kept, WellKept
<1>2. AskedFlows(o) = F
  BY DEF AskedFlows
<1>3. /\ \A f : ~Waits(o, f)
      /\ Settled(o) = {} /\ AskedOn(o) = {} /\ AskedOff(o) = {}
  BY DEF Waits, Settled, AskedOn, AskedOff
<1>4. /\ DOMAIN F = 1..n
      /\ \A i \in 1..n : /\ F[i].asset = <<o.token, m + i>> /\ F[i].from = Absent
                         /\ F[i].to = Treasury /\ F[i].amount = 1
  BY DEF Flow
<1>5. S = {g[i] : i \in 1..n} /\ \A i \in 1..n : g[i] = <<<<o.token, m + i>>, Treasury>>
  OBVIOUS
<1>6. /\ bal' = (bal (-) EmptyBag) (+) in
      /\ \A h \in DOMAIN in : h[1] \in Assets
  BY DEF Move, BagToSet
<1>7. /\ IsABag(in) /\ DOMAIN in = S /\ \A h \in S : in[h] = 1
      /\ \A x : Copies(in, x) = IF x \in S THEN 1 ELSE 0
  BY OneOfEach
<1> HIDE DEF F, in, S, g
<1>8. \A i \in 1..n : Leaves(o, F[i]) = EmptyBag /\ Arrives(o, F[i]) = Of(g[i], 1)
  BY <1>3, <1>4, <1>5, AbsentAssumption DEF Leaves, Arrives
<1>9. FlowBags(o, F, n)
  <2>1. \A i \in 1..n : F[i].amount \in Int
    BY <1>4
  <2> QED
    BY <1>1, <1>4, <2>1, FlowsAreBags
<1>10. /\ BagList(L, n) /\ BagList(A, n)
       /\ \A i \in 1..n : L[i] = EmptyBag /\ A[i] = Of(g[i], 1)
       /\ Singles(A, g, n)
  BY <1>4, <1>8, <1>9 DEF FlowBags, Singles
<1> HIDE DEF L, A
<1>11. Total(L) = EmptyBag
  BY <1>1, <1>10, TotalNone
<1>12. Total(A) = in
  <2> DEFINE B == Total(A)
  <2>1. \A i, j \in 1..n : g[i] = g[j] => i = j
    <3> TAKE i, j \in 1..n
    <3> HAVE g[i] = g[j]
    <3>1. m + i = m + j
      BY <1>5
    <3> HIDE DEF m, n
    <3>2. i \in Int /\ j \in Int
      OBVIOUS
    <3> QED
      BY <1>1, <3>1, <3>2
  <2> HIDE DEF m, n
  <2>2. /\ IsABag(B)
        /\ \A x : (\A i \in 1..n : g[i] # x) => Copies(B, x) = 0
        /\ \A i \in 1..n : Copies(B, g[i]) = 1
    <3>1. OnesOf(B, g, n)
      BY <1>1, <1>10, TotalOnes
    <3> HIDE DEF B
    <3> QED
      BY <2>1, <3>1 DEF OnesOf
  <2> HIDE DEF B
  <2>3. \A x : Copies(B, x) = Copies(in, x)
    <3> TAKE x
    <3>1. CASE x \in S
      BY <1>5, <1>7, <2>2, <3>1
    <3>2. CASE x \notin S
      BY <1>5, <1>7, <2>2, <3>2
    <3> QED
      BY <3>1, <3>2
  <2>4. B = in
    BY <1>7, <2>2, <2>3, SameBag
  <2> QED
    BY <2>4 DEF B
<1>13. AskedFor(o)
  BY <1>1, <1>2, <1>3, <1>6, <1>9, <1>11, <1>12, PlainMoves DEF L, A
<1>14. Kept'
  <2>1. \A h \in S : /\ h[2] = Treasury /\ h[1][1] = o.token /\ h = <<h[1], h[2]>>
                     /\ m < h[1][2] /\ h[1][2] <= m + n
    <3> SUFFICES ASSUME NEW i \in 1..n
                 PROVE  LET h == g[i] IN /\ h[2] = Treasury /\ h[1][1] = o.token /\ h = <<h[1], h[2]>>
                                         /\ m < h[1][2] /\ h[1][2] <= m + n
      BY <1>5
    <3>1. g[i] = <<<<o.token, m + i>>, Treasury>>
      BY <1>5
    <3> HIDE DEF m, n
    <3>2. m < m + i /\ m + i <= m + n
      BY <1>1
    <3> QED
      BY <3>1, <3>2
  <2>2. /\ minted' \in [Collections -> 0..MaxSerial]
        /\ \A c \in Collections : minted'[c] = IF c = o.token THEN m + n ELSE minted[c]
    <3>1. minted \in [Collections -> 0..MaxSerial]
      BY DEF Kept, WellKept
    <3>2. m + n \in 0..MaxSerial
      BY <1>1
    <3> QED
      BY <3>1, <3>2
  <2>3. \A c \in Collections : minted[c] <= minted'[c]
    <3> TAKE c \in Collections
    <3>1. minted[c] \in Nat
      BY HoldingsAssumption DEF Kept, WellKept
    <3> QED
      BY <1>1, <2>2, <3>1
  <2>4. DOMAIN in \subseteq Assets \X {Treasury}
    BY <1>6, <1>7, <2>1
  <2>5. \A h \in DOMAIN in : in[h] = 1 /\ minted[h[1][1]] < h[1][2] /\ h[1][2] <= minted'[h[1][1]]
    BY <1>7, <2>1, <2>2
  <2> QED
    BY <1>6, <1>7, <2>2, <2>3, <2>4, <2>5, ArrivesKept
<1> QED
  BY <1>13, <1>14 DEF Lands

(* Units or serials, as the validator has made sure that it is one.        *)
LEMMA MintLands ==
    ASSUME Kept, NEW o \in TokenMintOptions, o.call = "mintToken", ~TokenMintValidator(o),
           TokenMint(TokenMinted(o))
    PROVE  Lands(o)
<1> DEFINE tx == TokenMinted(o)
<1>1. /\ tx.token = o.token /\ tx.amount = o.amount
      /\ tx.metadata = IF o.metadata = Absent THEN 0 ELSE o.metadata
  BY DEF TokenMinted
<1>2. /\ o.amount \in Maybe(Int) /\ o.metadata \in Maybe(Nat)
      /\ ~((o.amount = Absent) = (o.metadata \in {Absent, 0}))
  BY DEF TokenMintOptions, TokenMintValidator
<1> HIDE DEF tx
<1>3. TokenMint(tx)
  BY DEF tx
<1>4. CASE /\ tx.metadata = 0 /\ tx.token \in Fungibles
           /\ Move(EmptyBag, Of(<<Units(tx.token), Treasury>>, tx.amount))
           /\ UNCHANGED minted
  <2>1. o.amount \in Int
    BY <1>1, <1>2, <1>4 DEF Maybe
  <2>2. UNCHANGED <<pending, marks, minted>>
    BY <1>3, <1>4 DEF TokenMint
  <2> QED
    BY <1>1, <1>4, <2>1, <2>2, MintUnitsLands
<1>5. CASE /\ tx.amount = Absent /\ tx.token \in Collections
           /\ minted[tx.token] + tx.metadata <= MaxSerial
           /\ Move(EmptyBag, [h \in {<<<<tx.token, minted[tx.token] + i>>, Treasury>> :
                                        i \in 1..tx.metadata} |-> 1])
           /\ minted' = [minted EXCEPT ![tx.token] = @ + tx.metadata]
  <2>1. o.metadata \in Nat /\ tx.metadata = o.metadata
    BY <1>1, <1>2, <1>5 DEF Maybe
  <2>2. UNCHANGED <<pending, marks>>
    BY <1>3 DEF TokenMint
  <2> QED
    BY <1>1, <1>5, <2>1, <2>2, MintSerialsLands
<1> QED
  BY <1>3, <1>4, <1>5 DEF TokenMint

-----------------------------------------------------------------------------
(* Units or serials cease to be.                                           *)
Removing == {"burnToken", "wipeToken"}

(* No removal leaves anything waiting, settles or marks.                   *)
LEMMA QuietRemoval ==
    ASSUME NEW o, o.call \in Removing
    PROVE  /\ \A f : ~Waits(o, f)
           /\ Settled(o) = {} /\ AskedOn(o) = {} /\ AskedOff(o) = {}
BY DEF Removing, Waits, Settled, AskedOn, AskedOff

(* Units are taken from one holder, and given to nobody.                   *)
LEMMA UnitsRemoved ==
    ASSUME Kept, NEW o, o.call \in Removing, NEW holder \in Accounts,
           AskedFlows(o) = RemovedFrom(o, holder), o.amount \in Int,
           Move(Of(<<Units(o.token), holder>>, o.amount), EmptyBag),
           UNCHANGED <<pending, marks, minted>>
    PROVE  Lands(o)
<1> DEFINE f == Flow(Units(o.token), holder, Absent, o.amount)
           F == <<f>>
           out == Of(<<Units(o.token), holder>>, o.amount)
<1>1. f.asset = Units(o.token) /\ f.from = holder /\ f.to = Absent /\ f.amount = o.amount
  BY DEF Flow
<1>2. AskedFlows(o) = F
  BY AbsentAssumption DEF RemovedFrom
<1> HIDE DEF f
<1>3. ~Waits(o, f) /\ Settled(o) = {} /\ AskedOn(o) = {} /\ AskedOff(o) = {}
  BY QuietRemoval
<1>4. Leaves(o, f) = out /\ Arrives(o, f) = EmptyBag
  BY <1>1, <1>3, AbsentAssumption DEF Leaves, Arrives
<1>5. /\ FlowBags(o, F, 1)
      /\ Total([i \in DOMAIN F |-> Leaves(o, F[i])]) = out
      /\ Total([i \in DOMAIN F |-> Arrives(o, F[i])]) = EmptyBag
  BY <1>1, <1>4, SingleFlow
<1>6. 1 \in Nat /\ \A i \in 1..1 : F[i] = f
  OBVIOUS
<1>7. bal' = (bal (-) out) (+) EmptyBag
  BY DEF Move
<1>8. IsABag(out)
  BY OneBag
<1> HIDE DEF F, out
<1>9. AskedFor(o)
  BY <1>2, <1>3, <1>5, <1>6, <1>7, PlainMoves
<1>10. Kept'
  BY <1>7, <1>8, DepartsKept
<1> QED
  BY <1>9, <1>10 DEF Lands

(* The serials of a list, each taken once: a second mention finds none     *)
(* left to take.                                                           *)
LEMMA SerialsRemoved ==
    ASSUME Kept, NEW o, o.call \in Removing, NEW holder \in Accounts,
           AskedFlows(o) = RemovedFrom(o, holder), o.amount = Absent,
           o.serials \in Seq(Maybe(Int)), ~Empty(o.serials), ~BadSerials(o.serials),
           Move([h \in {<<<<o.token, o.serials[i]>>, holder>> : i \in DOMAIN o.serials} |-> 1],
                EmptyBag),
           UNCHANGED <<pending, marks, minted>>
    PROVE  Lands(o)
<1> DEFINE n == Len(o.serials)
           g == [i \in 1..n |-> <<<<o.token, o.serials[i]>>, holder>>]
           S == {<<<<o.token, o.serials[i]>>, holder>> : i \in DOMAIN o.serials}
           out == [h \in S |-> 1]
           F == [i \in 1..n |-> Flow(<<o.token, o.serials[i]>>, holder, Absent, 1)]
           L == [i \in DOMAIN F |-> Leaves(o, F[i])]
           A == [i \in DOMAIN F |-> Arrives(o, F[i])]
<1>1. n \in Nat /\ DOMAIN o.serials = 1..n
  OBVIOUS
<1>2. \A i \in 1..n : o.serials[i] > 0
  <2>1. \A i \in DOMAIN o.serials : ~(o.serials[i] = Absent \/ o.serials[i] <= 0)
    BY DEF BadSerials, Empty
  <2>2. \A i \in 1..n : o.serials[i] \in Maybe(Int)
    OBVIOUS
  <2> HIDE DEF n
  <2> QED
    BY <1>1, <2>1, <2>2 DEF Maybe
<1>3. AskedFlows(o) = F
  BY <1>1 DEF RemovedFrom
<1>4. /\ \A f : ~Waits(o, f)
      /\ Settled(o) = {} /\ AskedOn(o) = {} /\ AskedOff(o) = {}
  BY QuietRemoval
<1>5. /\ DOMAIN F = 1..n
      /\ \A i \in 1..n : /\ F[i].asset = <<o.token, o.serials[i]>> /\ F[i].from = holder
                         /\ F[i].to = Absent /\ F[i].amount = 1
  BY DEF Flow
<1>6. S = {g[i] : i \in 1..n} /\ \A i \in 1..n : g[i] = <<<<o.token, o.serials[i]>>, holder>>
  BY <1>1
<1>7. out \sqsubseteq bal /\ bal' = (bal (-) out) (+) EmptyBag
  BY DEF Move
<1>8. /\ IsABag(out) /\ DOMAIN out = S
      /\ \A x : Copies(out, x) = IF x \in S THEN 1 ELSE 0
  BY OneOfEach
<1> HIDE DEF F, out, S, g
<1>9. \A i \in 1..n : Leaves(o, F[i]) = Of(g[i], 1) /\ Arrives(o, F[i]) = EmptyBag
  BY <1>4, <1>5, <1>6, AbsentAssumption DEF Leaves, Arrives
<1>10. FlowBags(o, F, n)
  <2>1. \A i \in 1..n : F[i].amount \in Int
    BY <1>5
  <2> QED
    BY <1>1, <1>5, <2>1, FlowsAreBags
<1>11. /\ BagList(L, n) /\ BagList(A, n)
       /\ \A i \in 1..n : A[i] = EmptyBag
       /\ Singles(L, g, n)
  BY <1>5, <1>9, <1>10 DEF FlowBags, Singles
<1> HIDE DEF L, A
<1>12. Total(A) = EmptyBag
  BY <1>1, <1>11, TotalNone
<1>13. IsABag(bal) /\ DOMAIN bal \subseteq Assets \X Accounts
  BY DEF Kept, WellKept, BagToSet
(* Each of these serials is held, and is all there is of it.               *)
<1>14. \A h \in S : Copies(bal, h) = 1
  <2> SUFFICES ASSUME NEW i \in 1..n PROVE Copies(bal, g[i]) = 1
    BY <1>6
  <2>1. g[i] \in DOMAIN bal
    BY <1>6, <1>7, <1>8 DEF \sqsubseteq
  <2> DEFINE x == <<o.token, o.serials[i]>>
  <2>2. x[2] > 0 /\ g[i] = <<x, holder>>
    BY <1>2, <1>6
  <2> HIDE DEF x
  <2>3. Copies(bal, <<x, holder>>) \in {0, 1}
    BY <2>2, OnePlace
  <2>4. Copies(bal, g[i]) > 0
    BY <1>13, <2>1, CopiesCount
  <2> QED
    BY <2>2, <2>3, <2>4
<1>15. IsABag(Total(L)) /\ bal (-) out = bal (-) Total(L)
  <2> DEFINE B == Total(L)
             C == bal (-) out
             D == bal (-) B
  <2>1. OnesOf(B, g, n)
    BY <1>1, <1>11, TotalOnes
  <2> HIDE DEF B, n
  <2>2. /\ IsABag(B) /\ \A h \in S : Copies(B, h) > 0
        /\ \A x : x \notin S => Copies(B, x) = 0
    BY <1>6, <2>1 DEF OnesOf
  <2>3. /\ IsABag(C) /\ IsABag(D)
        /\ \A x : /\ Copies(C, x) = IF Copies(bal, x) > Copies(out, x)
                                    THEN Copies(bal, x) - Copies(out, x) ELSE 0
                  /\ Copies(D, x) = IF Copies(bal, x) > Copies(B, x)
                                    THEN Copies(bal, x) - Copies(B, x) ELSE 0
    BY <1>8, <1>13, <2>2, LessBag
  <2> HIDE DEF C, D
  <2>4. \A x : Copies(C, x) = Copies(D, x)
    <3> TAKE x
    <3>1. CASE x \in S
      <4>1. Copies(bal, x) = 1 /\ Copies(out, x) = 1 /\ Copies(B, x) > 0
        BY <1>8, <1>14, <2>2, <3>1
      <4>2. Copies(B, x) \in Nat
        BY <2>2, CopiesCount
      <4> QED
        BY <2>3, <4>1, <4>2
    <3>2. CASE x \notin S
      BY <1>8, <2>2, <2>3, <3>2
    <3> QED
      BY <3>1, <3>2
  <2>5. C = D
    BY <2>3, <2>4, SameBag
  <2> QED
    BY <2>2, <2>5 DEF B, C, D
<1>16. bal' = (bal (-) Total(L)) (+) Total(A)
  BY <1>7, <1>12, <1>15
<1>17. AskedFor(o)
  BY <1>1, <1>3, <1>4, <1>10, <1>16, PlainMoves DEF L, A
<1>18. Kept'
  BY <1>7, <1>8, DepartsKept
<1> QED
  BY <1>17, <1>18 DEF Lands

(* Either of the two, by whichever option the validator found.             *)
LEMMA RemovedLands ==
    ASSUME Kept, NEW o, o.call \in Removing, NEW holder \in Accounts,
           AskedFlows(o) = RemovedFrom(o, holder), o.amount \in Maybe(Int),
           o.serials \in ListOf(Int), ~BadSerials(o.serials),
           ~((o.amount = Absent) = Empty(o.serials)),
           NEW tx, tx.token = o.token, tx.amount = o.amount, tx.serials = Serials(o.serials),
           Removed(tx, holder)
    PROVE  Lands(o)
<1>1. UNCHANGED <<pending, marks, minted>>
  BY DEF Removed
<1>2. CASE tx.serials = <<>> /\ Move(Of(<<Units(tx.token), holder>>, tx.amount), EmptyBag)
  <2>1. Empty(o.serials)
    BY <1>2 DEF Serials, Empty
  <2>2. o.amount \in Int
    BY <2>1 DEF Maybe
  <2> QED
    BY <1>1, <1>2, <2>2, UnitsRemoved
<1>3. CASE /\ tx.amount = Absent
           /\ Move([h \in {<<<<tx.token, tx.serials[i]>>, holder>> : i \in DOMAIN tx.serials}
                          |-> 1], EmptyBag)
  <2>1. ~Empty(o.serials)
    BY <1>3
  <2>2. o.serials \in Seq(Maybe(Int)) /\ tx.serials = o.serials
    BY <2>1 DEF Serials, Empty, ListOf, Maybe
  <2>3. Move([h \in {<<<<o.token, o.serials[i]>>, holder>> : i \in DOMAIN o.serials} |-> 1],
             EmptyBag)
    BY <1>3, <2>2
  <2> QED
    BY <1>1, <1>3, <2>1, <2>2, <2>3, SerialsRemoved
<1> QED
  BY <1>2, <1>3 DEF Removed

(* Burnt from the treasury.                                                *)
LEMMA BurnLands ==
    ASSUME Kept, NEW o \in TokenBurnOptions, o.call = "burnToken",
           ~TokenBurnValidator(o), TokenBurn(TokenBurned(o))
    PROVE  Lands(o)
<1> DEFINE tx == TokenBurned(o)
<1>1. tx.token = o.token /\ tx.amount = o.amount /\ tx.serials = Serials(o.serials)
  BY DEF TokenBurned
<1> HIDE DEF tx
<1>2. Removed(tx, Treasury) /\ Treasury \in Accounts
  BY AbsentAssumption DEF TokenBurn, tx
<1>3. /\ o.amount \in Maybe(Int) /\ o.serials \in ListOf(Int) /\ ~BadSerials(o.serials)
      /\ ~((o.amount = Absent) = Empty(o.serials))
  BY DEF TokenBurnOptions, TokenBurnValidator
<1>4. AskedFlows(o) = RemovedFrom(o, Treasury) /\ o.call \in Removing
  BY DEF AskedFlows, Removing
<1> QED
  BY <1>1, <1>2, <1>3, <1>4, RemovedLands

(* Wiped from the account named.                                           *)
LEMMA WipeLands ==
    ASSUME Kept, NEW o \in TokenWipeOptions, o.call = "wipeToken",
           ~TokenWipeValidator(o), TokenWipe(TokenWiped(o))
    PROVE  Lands(o)
<1> DEFINE tx == TokenWiped(o)
<1>1. /\ tx.token = o.token /\ tx.amount = o.amount /\ tx.serials = Serials(o.serials)
      /\ tx.account = o.account
  BY DEF TokenWiped
<1> HIDE DEF tx
<1>2. Removed(tx, o.account)
  BY <1>1 DEF TokenWipe, tx
<1>3. /\ o.amount \in Maybe(Int) /\ o.serials \in ListOf(Int) /\ ~BadSerials(o.serials)
      /\ ~((o.amount = Absent) = Empty(o.serials)) /\ o.account \in Accounts
  BY DEF TokenWipeOptions, TokenWipeValidator, Missing, Account, Maybe
<1>4. AskedFlows(o) = RemovedFrom(o, o.account) /\ o.call \in Removing
  BY DEF AskedFlows, Removing
<1> QED
  BY <1>1, <1>2, <1>3, <1>4, RemovedLands

-----------------------------------------------------------------------------
(* Whatever lands, allowances are of things that exist.                    *)
Granted == IsABag(allow) /\ BagToSet(allow) \subseteq Grantable

(* What only lapses stays of things that exist.                            *)
LEMMA FewerGranted == ASSUME Granted, Fewer PROVE Granted'
BY FewerIsABag DEF Granted, BagToSet

(* Transactions other than the two on allowances let them lapse at most.   *)
LEMMA OthersGranted ==
    ASSUME Granted, NEW tx, Succeeds(tx), tx.type \notin AllowanceTypes
    PROVE  Granted'
BY OthersRevoke, FewerGranted DEF Granted

(* Every grant is of a thing that exists, so what it leaves is too.        *)
LEMMA GrantsKnown ==
    ASSUME Kept, Granted, NEW tx, tx.grants \in Seq(Grants), AccountAllowanceApprove(tx)
    PROVE  Granted'
<1> DEFINE gs == tx.grants
           n == Len(gs)
<1>1. Traced(allow', gs, n)
  BY GrantedLast DEF Granted
<1>2. \A i \in 1..n : i \in DOMAIN gs /\ gs[i] \in Grants
  OBVIOUS
<1>3. \A i \in DOMAIN gs : /\ gs[i].nft <=> gs[i].key[1][1] \in Collections
                           /\ gs[i].key[1][2] > 0 => <<gs[i].key[1], gs[i].key[2]>> \in DOMAIN bal
  BY DEF AccountAllowanceApprove, BagToSet
<1> HIDE DEF gs, n
<1>4. ASSUME NEW i \in 1..n PROVE gs[i].key \in Grantable
  <2> DEFINE g == gs[i]
             key == g.key
  <2>1. /\ g \in Grants
        /\ g.nft <=> key[1][1] \in Collections
        /\ key[1][2] > 0 => <<key[1], key[2]>> \in DOMAIN bal
    BY <1>2, <1>3
  <2> HIDE DEF g
  <2>2. /\ key \in ((Tokens \cup {Hbar}) \X Nat) \X Accounts \X Accounts
        /\ g.nft \/ key[1][2] = 0
    BY <2>1 DEF Grants
  <2> HIDE DEF key
  <2>3. /\ key = <<key[1], key[2], key[3]>> /\ key[2] \in Accounts /\ key[3] \in Accounts
        /\ key[1] = <<key[1][1], key[1][2]>>
        /\ key[1][1] \in Tokens \cup {Hbar} /\ key[1][2] \in Nat
    BY <2>2
  <2>4. key[1] \in Assets \cup (Collections \X {0})
    <3>1. CASE key[1][2] > 0
      <4>1. <<key[1], key[2]>> \in Assets \X Accounts
        BY <2>1, <3>1 DEF Kept, WellKept, BagToSet, key
      <4> QED
        BY <4>1
    <3>2. CASE key[1][2] = 0 /\ key[1][1] \in Collections
      BY <2>3, <3>2
    <3>3. CASE key[1][2] = 0 /\ key[1][1] \notin Collections
      <4>1. key[1][1] \in {Hbar} \cup Fungibles
        BY <2>3, <3>3 DEF Tokens
      <4> QED
        BY <2>3, <3>3, <4>1 DEF Assets
    <3> QED
      BY <2>3, <3>1, <3>2, <3>3
  <2>5. key \in Grantable
    BY <2>3, <2>4 DEF Grantable
  <2> QED
    BY <2>5 DEF key, g
<1>5. ASSUME NEW h \in DOMAIN allow' PROVE h \in Grantable
  <2>1. Stems(allow', gs, n, h)
    BY <1>1 DEF Traced
  <2>2. CASE h \in DOMAIN allow
    BY <2>2 DEF Granted, BagToSet
  <2>3. CASE \E i \in 1..n : gs[i].key = h
    BY <1>4, <2>3
  <2> QED
    BY <2>1, <2>2, <2>3 DEF Stems
<1> QED
  BY <1>1, <1>5 DEF Granted, BagToSet, Traced

-----------------------------------------------------------------------------
(* What an approval, or the deletion of one, hands over: one of a negative *)
(* Hbar is malformed.                                                      *)
Approves(o, tx) ==
    /\ o.call \in Approvals
    /\ \/ tx.type = "AccountAllowanceDelete"
       \/ tx.type = "AccountAllowanceApprove" /\ (Malformed(tx) \/ tx.grants \in Seq(Grants))

(* An approval moves and marks nothing, as asked, and grants known things. *)
LEMMA ApprovesLands ==
    ASSUME Kept, Granted, NEW o, NEW tx, Approves(o, tx), ~Malformed(tx), Succeeds(tx)
    PROVE  Lands(o) /\ Granted'
<1>1. CASE tx.type = "AccountAllowanceDelete"
  <2>1. AccountAllowanceDelete(tx)
    BY <1>1, SucceedsKind
  <2>2. Fewer /\ UNCHANGED <<bal, pending, marks, minted>>
    BY <2>1 DEF AccountAllowanceDelete, Fewer
  <2> QED
    BY <2>2, FewerGranted, ApprovalLands DEF Approves
<1>2. CASE tx.type = "AccountAllowanceApprove" /\ tx.grants \in Seq(Grants)
  <2>1. AccountAllowanceApprove(tx)
    BY <1>2, SucceedsKind
  <2>2. Granted' /\ UNCHANGED <<bal, pending, marks, minted>>
    BY <1>2, <2>1, GrantsKnown DEF AccountAllowanceApprove
  <2> QED
    BY <2>2, ApprovalLands DEF Approves
<1> QED
  BY <1>1, <1>2 DEF Approves

(* What the approval's build() makes of entries that were checked.         *)
LEMMA ApprovedGrants ==
    ASSUME NEW a, a.hbars \in Seq(AllowanceEntry), a.units \in Seq(AllowanceEntry),
           a.nfts \in Seq(AllowanceEntry), ~ApproveAllowanceValidator(a),
           \A i \in DOMAIN a.hbars : ~(a.hbars[i].amount < 0),
           NEW o, o.call \in Approvals
    PROVE  Approves(o, ApproveAllowance(a))
<1>1. ApproveAllowance(a).type = "AccountAllowanceApprove"
  BY DEF ApproveAllowance
<1>2. ApproveAllowance(a).grants \in Seq(Grants)
  BY ApproveGranted
<1> QED
  BY <1>1, <1>2 DEF Approves

(* The approvals of hbar and their deletion, which approves zero.          *)
LEMMA HbarsApproved ==
    ASSUME NEW o \in HbarAllowances, ~Empty(o.hbars), o.call \in Approvals,
           NEW a, a = o \/ a = [o EXCEPT !.hbars = Zeroed(@)], ~ApproveAllowanceValidator(a)
    PROVE  Approves(o, ApproveAllowance(a))
<1>0. \A S : <<>> \in Seq(S)
  OBVIOUS
<1>1. /\ o.hbars \in Seq(AllowanceEntry) /\ o.units = <<>> /\ o.nfts = <<>>
  BY EnteredListed DEF HbarAllowances
<1>2. CASE a = o
  <2>1. CASE Malformed(ApproveAllowance(a))
    BY <2>1 DEF Approves, ApproveAllowance
  <2>2. CASE ~Malformed(ApproveAllowance(a))
    <3>1. \A i \in DOMAIN a.hbars : ~(a.hbars[i].amount < 0)
      BY <1>1, <1>2, <2>2, NoneNegative
    <3>2. /\ a.hbars \in Seq(AllowanceEntry) /\ a.units \in Seq(AllowanceEntry)
          /\ a.nfts \in Seq(AllowanceEntry)
      BY <1>0, <1>1, <1>2
    <3> QED
      BY <3>1, <3>2, ApprovedGrants
  <2> QED
    BY <2>1, <2>2
<1>3. CASE a = [o EXCEPT !.hbars = Zeroed(@)]
  <2>1. /\ a.hbars \in Seq(AllowanceEntry) /\ a.units = <<>> /\ a.nfts = <<>>
        /\ \A i \in DOMAIN a.hbars : ~(a.hbars[i].amount < 0)
    BY <1>1, <1>3, ZeroedWellFormed
  <2>2. a.units \in Seq(AllowanceEntry) /\ a.nfts \in Seq(AllowanceEntry)
    BY <1>0, <2>1
  <2> QED
    BY <2>1, <2>2, ApprovedGrants
<1> QED
  BY <1>2, <1>3

(* The same of units.                                                      *)
LEMMA UnitsApproved ==
    ASSUME NEW o \in TokenAllowances, ~Empty(o.units), o.call \in Approvals,
           NEW a, a = o \/ a = [o EXCEPT !.units = Zeroed(@)], ~ApproveAllowanceValidator(a)
    PROVE  Approves(o, ApproveAllowance(a))
<1>0. \A S : <<>> \in Seq(S)
  OBVIOUS
<1>1. /\ o.units \in Seq(AllowanceEntry) /\ o.hbars = <<>> /\ o.nfts = <<>>
  BY EnteredListed DEF TokenAllowances
<1>2. Zeroed(o.units) \in Seq(AllowanceEntry)
  BY <1>1, ZeroedEntries
<1>3. /\ a.hbars \in Seq(AllowanceEntry) /\ a.units \in Seq(AllowanceEntry)
      /\ a.nfts \in Seq(AllowanceEntry) /\ a.hbars = <<>>
  <2>1. CASE a = o
    BY <1>0, <1>1, <2>1
  <2>2. CASE a = [o EXCEPT !.units = Zeroed(@)]
    <3>1. a.units = Zeroed(o.units) /\ a.hbars = o.hbars /\ a.nfts = o.nfts
      BY <2>2 DEF TokenAllowances
    <3> QED
      BY <1>0, <1>1, <1>2, <3>1
  <2> QED
    BY <2>1, <2>2
<1>4. DOMAIN a.hbars = {}
  BY <1>3
<1> QED
  BY <1>3, <1>4, ApprovedGrants

(* The approvals of NFTs and both ways of deleting them.                   *)
LEMMA NftsApproved ==
    ASSUME NEW o \in NftAllowances, ~Empty(o.nfts), o.call \in Approvals
    PROVE  /\ ~ApproveAllowanceValidator(o) => Approves(o, ApproveAllowance(o))
           /\ Approves(o, DeleteAllowance(o))
           /\ ~DeleteAllNftAllowancesValidator(o) => Approves(o, DeleteAllNftAllowances(o))
<1>1. /\ o.hbars \in Seq(AllowanceEntry) /\ o.units \in Seq(AllowanceEntry)
      /\ o.nfts \in Seq(AllowanceEntry)
  <2>1. \A S : <<>> \in Seq(S)
    OBVIOUS
  <2> QED
    BY <2>1, EnteredListed DEF NftAllowances
<1>2. Approves(o, DeleteAllowance(o))
  BY DEF DeleteAllowance, Approves
<1>3. ASSUME ~DeleteAllNftAllowancesValidator(o) PROVE Approves(o, DeleteAllNftAllowances(o))
  <2>1. DeleteAllNftAllowances(o).type = "AccountAllowanceApprove"
    BY DEF DeleteAllNftAllowances
  <2>2. DeleteAllNftAllowances(o).grants \in Seq(Grants)
    BY <1>1, <1>3, DeleteAllGranted
  <2> QED
    BY <2>1, <2>2 DEF Approves
<1>4. DOMAIN o.hbars = {}
  BY DEF NftAllowances
<1> QED
  BY <1>1, <1>2, <1>3, <1>4, ApprovedGrants

-----------------------------------------------------------------------------
(* What the calls build of options that their validators passed.           *)
BuiltMove(o, tx) ==
    \/ o.call = "transferHbar" /\ ~TransferHbarValidator(o) /\ tx = TransferHbar(o)
    \/ o.call = "transferToken" /\ ~TransferTokenValidator(o) /\ tx = TransferToken(o)
    \/ o.call = "transferNft" /\ ~TransferNftValidator(o) /\ tx = TransferNft(o)
    \/ o.call = "airdropFungibleToken" /\ ~TokenAirdropValidator(o) /\ tx = TokenAirdropFungible(o)
    \/ o.call = "airdropNft" /\ ~TokenAirdropNftValidator(o) /\ tx = TokenAirdropNft(o)
    \/ o.call = "claimAirdrop" /\ ~TokenClaimAirdropValidator(o) /\ tx = TokenClaim(o)
    \/ o.call = "cancelAirdrop" /\ tx = TokenCancel(o)

BuiltSupply(o, tx) ==
    \/ o.call = "mintToken" /\ ~TokenMintValidator(o) /\ tx = TokenMinted(o)
    \/ o.call = "burnToken" /\ ~TokenBurnValidator(o) /\ tx = TokenBurned(o)
    \/ o.call = "wipeToken" /\ ~TokenWipeValidator(o) /\ tx = TokenWiped(o)
    \/ o.call = "rejectTokensFlow" /\ ~TokenRejectValidator(o) /\ tx = RejectFirst(o)

BuiltAdmission(o, tx) ==
    \/ o.call = "associateToken" /\ ~TokenAssociateValidator(o) /\ tx = TokenAssociated(o)
    \/ o.call = "dissociateToken" /\ tx = TokenDissociated(o)
    \/ o.call = "freezeToken" /\ tx = TokenFrozen(o)
    \/ o.call = "unfreezeToken" /\ tx = TokenUnfrozen(o)
    \/ o.call = "grantKycToken" /\ tx = TokenKycGranted(o)
    \/ o.call = "revokeKycToken" /\ tx = TokenKycRevoked(o)
    \/ o.call = "pauseToken" /\ tx = TokenPaused(o)
    \/ o.call = "unpauseToken" /\ tx = TokenUnpaused(o)

Built(o, tx) == \/ BuiltMove(o, tx) \/ BuiltSupply(o, tx) \/ BuiltAdmission(o, tx)
                \/ Approves(o, tx)

(* A transaction that succeeds is of the kind its type says.               *)
LEMMA SucceedsAs ==
    ASSUME NEW tx, Succeeds(tx)
    PROVE  /\ tx.type = "CryptoTransfer" => CryptoTransfer(tx)
           /\ tx.type = "TokenAirdrop" => TokenAirdrop(tx)
           /\ tx.type = "TokenClaimAirdrop" => TokenClaimAirdrop(tx)
           /\ tx.type = "TokenCancelAirdrop" => TokenCancelAirdrop(tx)
           /\ tx.type = "TokenMint" => TokenMint(tx)
           /\ tx.type = "TokenBurn" => TokenBurn(tx)
           /\ tx.type = "TokenWipe" => TokenWipe(tx)
           /\ tx.type = "TokenReject" => TokenReject(tx)
           /\ tx.type = "TokenAssociate" => TokenAssociate(tx)
           /\ tx.type = "TokenDissociate" => TokenDissociate(tx)
           /\ tx.type \in DOMAIN Marking => SetMark(tx)
BY MarkTypes DEF Succeeds

(* What the transfers, airdrops and claims built lands as asked.           *)
LEMMA MovesLand ==
    ASSUME Kept, Granted, NEW o \in Options, NEW tx, BuiltMove(o, tx), Succeeds(tx)
    PROVE  Lands(o) /\ Granted'
<1>0. Books
  BY KeptBooks
<1>1. CASE o.call = "transferHbar" /\ ~TransferHbarValidator(o) /\ tx = TransferHbar(o)
  <2>1. tx.type = "CryptoTransfer" /\ o \in TransferHbarOptions
    BY <1>1, OptionsTyped DEF TransferHbar
  <2>2. CryptoTransfer(TransferHbar(o))
    BY <1>1, <2>1, SucceedsAs
  <2>3. Lands(o)
    BY <1>0, <1>1, <2>1, <2>2, TransferHbarEffect, TransferLands DEF Transfers
  <2> QED
    BY <2>1, <2>3, OthersGranted DEF AllowanceTypes
<1>2. CASE o.call = "transferToken" /\ ~TransferTokenValidator(o) /\ tx = TransferToken(o)
  <2>1. tx.type = "CryptoTransfer" /\ o \in TransferTokenOptions
    BY <1>2, OptionsTyped DEF TransferToken
  <2>2. CryptoTransfer(TransferToken(o))
    BY <1>2, <2>1, SucceedsAs
  <2>3. Lands(o)
    BY <1>0, <1>2, <2>1, <2>2, TransferTokenEffect, TransferLands DEF Transfers
  <2> QED
    BY <2>1, <2>3, OthersGranted DEF AllowanceTypes
<1>3. CASE o.call = "transferNft" /\ ~TransferNftValidator(o) /\ tx = TransferNft(o)
  <2>1. tx.type = "CryptoTransfer" /\ o \in TransferNftOptions
    BY <1>3, OptionsTyped DEF TransferNft
  <2>2. CryptoTransfer(TransferNft(o))
    BY <1>3, <2>1, SucceedsAs
  <2>3. Lands(o)
    BY <1>0, <1>3, <2>1, <2>2, TransferNftEffect, TransferLands DEF Transfers
  <2> QED
    BY <2>1, <2>3, OthersGranted DEF AllowanceTypes
<1>4. CASE o.call = "airdropFungibleToken" /\ ~TokenAirdropValidator(o) /\ tx = TokenAirdropFungible(o)
  <2>1. tx.type = "TokenAirdrop" /\ o \in TokenAirdropOptions
    BY <1>4, OptionsTyped DEF TokenAirdropFungible
  <2>2. TokenAirdrop(TokenAirdropFungible(o))
    BY <1>4, <2>1, SucceedsAs
  <2>3. Lands(o)
    BY <1>0, <1>4, <2>1, <2>2, AirdropFungibleEffect, TransferLands DEF Airdropping
  <2> QED
    BY <2>1, <2>3, OthersGranted DEF AllowanceTypes
<1>5. CASE o.call = "airdropNft" /\ ~TokenAirdropNftValidator(o) /\ tx = TokenAirdropNft(o)
  <2>1. tx.type = "TokenAirdrop" /\ o \in TokenAirdropNftOptions
    BY <1>5, OptionsTyped DEF TokenAirdropNft
  <2>2. TokenAirdrop(TokenAirdropNft(o))
    BY <1>5, <2>1, SucceedsAs
  <2>3. Lands(o)
    BY <1>0, <1>5, <2>1, <2>2, AirdropNftEffect, TransferLands DEF Airdropping
  <2> QED
    BY <2>1, <2>3, OthersGranted DEF AllowanceTypes
<1>6. CASE o.call = "claimAirdrop" /\ ~TokenClaimAirdropValidator(o) /\ tx = TokenClaim(o)
  <2>1. tx.type = "TokenClaimAirdrop" /\ o \in TokenClaimAirdropOptions
    BY <1>6, OptionsTyped DEF TokenClaim
  <2>2. TokenClaimAirdrop(TokenClaim(o))
    BY <1>6, <2>1, SucceedsAs
  <2>3. Lands(o)
    BY <1>6, <2>1, <2>2, ClaimLands
  <2> QED
    BY <2>1, <2>3, OthersGranted DEF AllowanceTypes
<1>7. CASE o.call = "cancelAirdrop" /\ tx = TokenCancel(o)
  <2>1. tx.type = "TokenCancelAirdrop"
    BY <1>7 DEF TokenCancel
  <2>2. TokenCancelAirdrop(TokenCancel(o))
    BY <1>7, <2>1, SucceedsAs
  <2>3. Lands(o)
    BY <1>7, <2>2, CancelLands
  <2> QED
    BY <2>1, <2>3, OthersGranted DEF AllowanceTypes
<1> QED
  BY <1>1, <1>2, <1>3, <1>4, <1>5, <1>6, <1>7 DEF BuiltMove

(* So does what mint, burn, wipe and reject built.                         *)
LEMMA SuppliesLand ==
    ASSUME Kept, Granted, NEW o \in Options, NEW tx, BuiltSupply(o, tx), Succeeds(tx)
    PROVE  Lands(o) /\ Granted'
<1>1. CASE o.call = "mintToken" /\ ~TokenMintValidator(o) /\ tx = TokenMinted(o)
  <2>1. tx.type = "TokenMint" /\ o \in TokenMintOptions
    BY <1>1, OptionsTyped DEF TokenMinted
  <2>2. TokenMint(TokenMinted(o))
    BY <1>1, <2>1, SucceedsAs
  <2>3. Lands(o)
    BY <1>1, <2>1, <2>2, MintLands
  <2> QED
    BY <2>1, <2>3, OthersGranted DEF AllowanceTypes
<1>2. CASE o.call = "burnToken" /\ ~TokenBurnValidator(o) /\ tx = TokenBurned(o)
  <2>1. tx.type = "TokenBurn" /\ o \in TokenBurnOptions
    BY <1>2, OptionsTyped DEF TokenBurned
  <2>2. TokenBurn(TokenBurned(o))
    BY <1>2, <2>1, SucceedsAs
  <2>3. Lands(o)
    BY <1>2, <2>1, <2>2, BurnLands
  <2> QED
    BY <2>1, <2>3, OthersGranted DEF AllowanceTypes
<1>3. CASE o.call = "wipeToken" /\ ~TokenWipeValidator(o) /\ tx = TokenWiped(o)
  <2>1. tx.type = "TokenWipe" /\ o \in TokenWipeOptions
    BY <1>3, OptionsTyped DEF TokenWiped
  <2>2. TokenWipe(TokenWiped(o))
    BY <1>3, <2>1, SucceedsAs
  <2>3. Lands(o)
    BY <1>3, <2>1, <2>2, WipeLands
  <2> QED
    BY <2>1, <2>3, OthersGranted DEF AllowanceTypes
<1>4. CASE o.call = "rejectTokensFlow" /\ ~TokenRejectValidator(o) /\ tx = RejectFirst(o)
  <2>1. tx.type = "TokenReject" /\ o \in TokenRejectOptions
    BY <1>4, OptionsTyped DEF RejectFirst
  <2>2. TokenReject(RejectFirst(o))
    BY <1>4, <2>1, SucceedsAs
  <2>3. Lands(o)
    BY <1>4, <2>1, <2>2, RejectLands
  <2> QED
    BY <2>1, <2>3, OthersGranted DEF AllowanceTypes
<1> QED
  BY <1>1, <1>2, <1>3, <1>4 DEF BuiltSupply

(* So does what admits to a token or bars from it.                         *)
LEMMA AdmissionsLand ==
    ASSUME Kept, Granted, NEW o \in Options, NEW tx, BuiltAdmission(o, tx), Succeeds(tx)
    PROVE  Lands(o) /\ Granted'
<1>1. CASE o.call = "associateToken" /\ ~TokenAssociateValidator(o) /\ tx = TokenAssociated(o)
  <2>1. tx.type = "TokenAssociate" /\ o \in TokenAssociateOptions
    BY <1>1, OptionsTyped DEF TokenAssociated
  <2>2. TokenAssociate(TokenAssociated(o))
    BY <1>1, <2>1, SucceedsAs
  <2>3. Lands(o)
    BY <1>1, <2>1, <2>2, AssociateLands
  <2> QED
    BY <2>1, <2>3, OthersGranted DEF AllowanceTypes
<1>2. CASE o.call = "dissociateToken" /\ tx = TokenDissociated(o)
  <2>1. tx.type = "TokenDissociate"
    BY <1>2 DEF TokenDissociated
  <2>2. TokenDissociate(TokenDissociated(o))
    BY <1>2, <2>1, SucceedsAs
  <2>3. Lands(o)
    BY <1>2, <2>2, DissociateLands
  <2> QED
    BY <2>1, <2>3, OthersGranted DEF AllowanceTypes
<1>3. ASSUME tx.type \in DOMAIN Marking PROVE SetMark(tx) /\ Granted'
  BY <1>3, SucceedsAs, MarkTypes, OthersGranted DEF AllowanceTypes
<1>4. CASE o.call = "freezeToken" /\ tx = TokenFrozen(o)
  <2>1. tx.type = "TokenFreeze"
    BY <1>4 DEF TokenFrozen, MarkTx
  <2> QED
    BY <1>3, <1>4, <2>1, MarkTypes, FreezeLands
<1>5. CASE o.call = "unfreezeToken" /\ tx = TokenUnfrozen(o)
  <2>1. tx.type = "TokenUnfreeze"
    BY <1>5 DEF TokenUnfrozen, MarkTx
  <2> QED
    BY <1>3, <1>5, <2>1, MarkTypes, UnfreezeLands
<1>6. CASE o.call = "grantKycToken" /\ tx = TokenKycGranted(o)
  <2>1. tx.type = "TokenGrantKyc"
    BY <1>6 DEF TokenKycGranted, MarkTx
  <2> QED
    BY <1>3, <1>6, <2>1, MarkTypes, GrantKycLands
<1>7. CASE o.call = "revokeKycToken" /\ tx = TokenKycRevoked(o)
  <2>1. tx.type = "TokenRevokeKyc"
    BY <1>7 DEF TokenKycRevoked, MarkTx
  <2> QED
    BY <1>3, <1>7, <2>1, MarkTypes, RevokeKycLands
<1>8. CASE o.call = "pauseToken" /\ tx = TokenPaused(o)
  <2>1. tx.type = "TokenPause"
    BY <1>8 DEF TokenPaused, MarkTx
  <2> QED
    BY <1>3, <1>8, <2>1, MarkTypes, PauseLands
<1>9. CASE o.call = "unpauseToken" /\ tx = TokenUnpaused(o)
  <2>1. tx.type = "TokenUnpause"
    BY <1>9 DEF TokenUnpaused, MarkTx
  <2> QED
    BY <1>3, <1>9, <2>1, MarkTypes, UnpauseLands
<1> QED
  BY <1>1, <1>2, <1>4, <1>5, <1>6, <1>7, <1>8, <1>9 DEF BuiltAdmission

(* Whatever was built of options, now or earlier, lands as they say.       *)
LEMMA BuiltLands ==
    ASSUME Kept, Granted, NEW o \in Options, NEW tx, Built(o, tx), ~Malformed(tx), Succeeds(tx)
    PROVE  Lands(o) /\ Granted'
BY MovesLand, SuppliesLand, AdmissionsLand, ApprovesLands DEF Built

-----------------------------------------------------------------------------
(* Every call but the flow sends or schedules what is built of its options.*)
Sends(o) == \E refused \in BOOLEAN : \E tx :
               /\ run(o, refused, tx) \/ scheduleRun(o, refused, tx)
               /\ ~refused => Built(o, tx)

(* The calls that move.                                                    *)
LEMMA MovingSends == ASSUME NEW o \in Options, Moving(o) PROVE Sends(o)
<1>1. CASE transferHbar(o) \/ scheduleTransferHbar(o)
  <2>1. TransferHbarValidator(o) \in BOOLEAN
    BY DEF TransferHbarValidator
  <2>2. ~TransferHbarValidator(o) => Built(o, TransferHbar(o))
    BY <1>1 DEF transferHbar, scheduleTransferHbar, Now, Later, Built, BuiltMove
  <2> QED
    BY <1>1, <2>1, <2>2 DEF transferHbar, scheduleTransferHbar, Sends
<1>2. CASE transferToken(o) \/ scheduleTransferToken(o)
  <2>1. TransferTokenValidator(o) \in BOOLEAN
    BY DEF TransferTokenValidator
  <2>2. ~TransferTokenValidator(o) => Built(o, TransferToken(o))
    BY <1>2 DEF transferToken, scheduleTransferToken, Now, Later, Built, BuiltMove
  <2> QED
    BY <1>2, <2>1, <2>2 DEF transferToken, scheduleTransferToken, Sends
<1>3. CASE transferNft(o) \/ scheduleTransferNft(o)
  <2>1. TransferNftValidator(o) \in BOOLEAN
    BY DEF TransferNftValidator
  <2>2. ~TransferNftValidator(o) => Built(o, TransferNft(o))
    BY <1>3 DEF transferNft, scheduleTransferNft, Now, Later, Built, BuiltMove
  <2> QED
    BY <1>3, <2>1, <2>2 DEF transferNft, scheduleTransferNft, Sends
<1>4. CASE airdropFungibleToken(o)
  <2>1. TokenAirdropValidator(o) \in BOOLEAN
    BY DEF TokenAirdropValidator
  <2>2. ~TokenAirdropValidator(o) => Built(o, TokenAirdropFungible(o))
    BY <1>4 DEF airdropFungibleToken, Now, Built, BuiltMove
  <2> QED
    BY <1>4, <2>1, <2>2 DEF airdropFungibleToken, Sends
<1>5. CASE airdropNft(o)
  <2>1. TokenAirdropNftValidator(o) \in BOOLEAN
    BY DEF TokenAirdropNftValidator
  <2>2. ~TokenAirdropNftValidator(o) => Built(o, TokenAirdropNft(o))
    BY <1>5 DEF airdropNft, Now, Built, BuiltMove
  <2> QED
    BY <1>5, <2>1, <2>2 DEF airdropNft, Sends
<1>6. CASE claimAirdrop(o)
  <2>1. TokenClaimAirdropValidator(o) \in BOOLEAN
    BY DEF TokenClaimAirdropValidator, BadIds
  <2>2. ~TokenClaimAirdropValidator(o) => Built(o, TokenClaim(o))
    BY <1>6 DEF claimAirdrop, Now, Built, BuiltMove
  <2> QED
    BY <1>6, <2>1, <2>2 DEF claimAirdrop, Sends
<1>7. CASE cancelAirdrop(o)
  <2>1. TokenCancelAirdropValidator(o) \in BOOLEAN
    BY DEF TokenCancelAirdropValidator, BadIds
  <2>2. Built(o, TokenCancel(o))
    BY <1>7 DEF cancelAirdrop, Now, Built, BuiltMove
  <2> QED
    BY <1>7, <2>1, <2>2 DEF cancelAirdrop, Sends
<1> QED
  BY <1>1, <1>2, <1>3, <1>4, <1>5, <1>6, <1>7 DEF Moving

(* Supply: all but the flow, whose second transaction is yet to come.      *)
LEMMA SupplyingSends ==
    ASSUME NEW o \in Options, Supplying(o), ~rejectTokensFlow(o)
    PROVE  Sends(o)
<1>1. CASE mintToken(o) \/ scheduleMintToken(o)
  <2>1. TokenMintValidator(o) \in BOOLEAN
    BY DEF TokenMintValidator
  <2>2. ~TokenMintValidator(o) => Built(o, TokenMinted(o))
    BY <1>1 DEF mintToken, scheduleMintToken, Now, Later, Built, BuiltSupply
  <2> QED
    BY <1>1, <2>1, <2>2 DEF mintToken, scheduleMintToken, Sends
<1>2. CASE burnToken(o) \/ scheduleBurnToken(o)
  <2>1. TokenBurnValidator(o) \in BOOLEAN
    BY DEF TokenBurnValidator
  <2>2. ~TokenBurnValidator(o) => Built(o, TokenBurned(o))
    BY <1>2 DEF burnToken, scheduleBurnToken, Now, Later, Built, BuiltSupply
  <2> QED
    BY <1>2, <2>1, <2>2 DEF burnToken, scheduleBurnToken, Sends
<1>3. CASE wipeToken(o)
  <2>1. TokenWipeValidator(o) \in BOOLEAN
    BY DEF TokenWipeValidator
  <2>2. ~TokenWipeValidator(o) => Built(o, TokenWiped(o))
    BY <1>3 DEF wipeToken, Now, Built, BuiltSupply
  <2> QED
    BY <1>3, <2>1, <2>2 DEF wipeToken, Sends
<1> QED
  BY <1>1, <1>2, <1>3 DEF Supplying

(* The calls on who may hold a token.                                      *)
LEMMA AdmittingSends == ASSUME NEW o \in Options, Admitting(o) PROVE Sends(o)
<1>1. CASE associateToken(o) \/ scheduleAssociateToken(o)
  <2>1. TokenAssociateValidator(o) \in BOOLEAN
    BY DEF TokenAssociateValidator, Missing
  <2>2. ~TokenAssociateValidator(o) => Built(o, TokenAssociated(o))
    BY <1>1 DEF associateToken, scheduleAssociateToken, Now, Later, Built, BuiltAdmission
  <2> QED
    BY <1>1, <2>1, <2>2 DEF associateToken, scheduleAssociateToken, Sends
<1>2. CASE dissociateToken(o) \/ scheduleDissociateToken(o)
  <2>1. TokenDissociateValidator(o) \in BOOLEAN
    BY DEF TokenDissociateValidator
  <2>2. Built(o, TokenDissociated(o))
    BY <1>2 DEF dissociateToken, scheduleDissociateToken, Now, Later, Built, BuiltAdmission
  <2> QED
    BY <1>2, <2>1, <2>2 DEF dissociateToken, scheduleDissociateToken, Sends
<1>3. CASE freezeToken(o)
  <2>1. TokenFreezeValidator(o) \in BOOLEAN /\ Built(o, TokenFrozen(o))
    BY <1>3 DEF freezeToken, Now, Built, BuiltAdmission, TokenFreezeValidator, Missing
  <2> QED
    BY <1>3, <2>1 DEF freezeToken, Sends
<1>4. CASE unfreezeToken(o)
  <2>1. TokenUnfreezeValidator(o) \in BOOLEAN /\ Built(o, TokenUnfrozen(o))
    BY <1>4 DEF unfreezeToken, Now, Built, BuiltAdmission, TokenUnfreezeValidator, Missing
  <2> QED
    BY <1>4, <2>1 DEF unfreezeToken, Sends
<1>5. CASE grantKycToken(o)
  <2>1. TokenGrantKycValidator(o) \in BOOLEAN /\ Built(o, TokenKycGranted(o))
    BY <1>5 DEF grantKycToken, Now, Built, BuiltAdmission, TokenGrantKycValidator, Missing
  <2> QED
    BY <1>5, <2>1 DEF grantKycToken, Sends
<1>6. CASE revokeKycToken(o)
  <2>1. TokenRevokeKycValidator(o) \in BOOLEAN /\ Built(o, TokenKycRevoked(o))
    BY <1>6 DEF revokeKycToken, Now, Built, BuiltAdmission, TokenRevokeKycValidator, Missing
  <2> QED
    BY <1>6, <2>1 DEF revokeKycToken, Sends
<1>7. CASE pauseToken(o)
  <2>1. TokenPauseValidator(o) \in BOOLEAN /\ Built(o, TokenPaused(o))
    BY <1>7 DEF pauseToken, Now, Built, BuiltAdmission, TokenPauseValidator, Missing
  <2> QED
    BY <1>7, <2>1 DEF pauseToken, Sends
<1>8. CASE unpauseToken(o)
  <2>1. TokenUnpauseValidator(o) \in BOOLEAN /\ Built(o, TokenUnpaused(o))
    BY <1>8 DEF unpauseToken, Now, Built, BuiltAdmission, TokenUnpauseValidator, Missing
  <2> QED
    BY <1>8, <2>1 DEF unpauseToken, Sends
<1> QED
  BY <1>1, <1>2, <1>3, <1>4, <1>5, <1>6, <1>7, <1>8 DEF Admitting

(* Approvals and their deletions.                                          *)
LEMMA ApprovingSends == ASSUME NEW o \in Options, Approving(o) PROVE Sends(o)
<1>0. ASSUME NEW empty \in BOOLEAN, NEW bad \in BOOLEAN, NEW tx, run(o, empty \/ bad, tx),
             ~empty /\ ~bad => Approves(o, tx)
      PROVE  Sends(o)
  <2>1. ~(empty \/ bad) => Built(o, tx)
    BY <1>0 DEF Built
  <2>2. (empty \/ bad) \in BOOLEAN
    BY <1>0
  <2> QED
    BY <1>0, <2>1, <2>2 DEF Sends
<1>1. /\ \A list : Empty(list) \in BOOLEAN
      /\ \A a : ApproveAllowanceValidator(a) \in BOOLEAN
      /\ DeleteAllowanceValidator(o) \in BOOLEAN /\ DeleteAllNftAllowancesValidator(o) \in BOOLEAN
  BY DEF Empty, ApproveAllowanceValidator, DeleteAllowanceValidator, DeleteAllNftAllowancesValidator
<1>2. CASE approveHbarAllowance(o)
  <2>1. /\ o \in HbarAllowances /\ o.call \in Approvals
        /\ run(o, Empty(o.hbars) \/ ApproveAllowanceValidator(o), ApproveAllowance(o))
    BY <1>2, OptionsTyped DEF approveHbarAllowance, Now, Approvals
  <2> QED
    BY <1>0, <1>1, <2>1, HbarsApproved
<1>3. CASE deleteHbarAllowance(o)
  <2> DEFINE z == [o EXCEPT !.hbars = Zeroed(@)]
  <2>1. /\ o \in HbarAllowances /\ o.call \in Approvals
        /\ run(o, Empty(o.hbars) \/ ApproveAllowanceValidator(z), ApproveAllowance(z))
    BY <1>3, OptionsTyped DEF deleteHbarAllowance, Now, Approvals
  <2>2. ~Empty(o.hbars) /\ ~ApproveAllowanceValidator(z) => Approves(o, ApproveAllowance(z))
    BY <2>1, HbarsApproved
  <2> HIDE DEF z
  <2> QED
    BY <1>0, <1>1, <2>1, <2>2
<1>4. CASE approveTokenAllowance(o)
  <2>1. /\ o \in TokenAllowances /\ o.call \in Approvals
        /\ run(o, Empty(o.units) \/ ApproveAllowanceValidator(o), ApproveAllowance(o))
    BY <1>4, OptionsTyped DEF approveTokenAllowance, Now, Approvals
  <2> QED
    BY <1>0, <1>1, <2>1, UnitsApproved
<1>5. CASE deleteTokenAllowance(o)
  <2> DEFINE z == [o EXCEPT !.units = Zeroed(@)]
  <2>1. /\ o \in TokenAllowances /\ o.call \in Approvals
        /\ run(o, Empty(o.units) \/ ApproveAllowanceValidator(z), ApproveAllowance(z))
    BY <1>5, OptionsTyped DEF deleteTokenAllowance, Now, Approvals
  <2>2. ~Empty(o.units) /\ ~ApproveAllowanceValidator(z) => Approves(o, ApproveAllowance(z))
    BY <2>1, UnitsApproved
  <2> HIDE DEF z
  <2> QED
    BY <1>0, <1>1, <2>1, <2>2
<1>6. CASE approveNftAllowance(o)
  <2>1. /\ o \in NftAllowances /\ o.call \in Approvals
        /\ run(o, Empty(o.nfts) \/ ApproveAllowanceValidator(o), ApproveAllowance(o))
    BY <1>6, OptionsTyped DEF approveNftAllowance, Now, Approvals
  <2> QED
    BY <1>0, <1>1, <2>1, NftsApproved
<1>7. CASE deleteNftAllowance(o)
  <2>1. /\ o \in NftAllowances /\ o.call \in Approvals
        /\ run(o, Empty(o.nfts) \/ DeleteAllowanceValidator(o), DeleteAllowance(o))
    BY <1>7, OptionsTyped DEF deleteNftAllowance, Now, Approvals
  <2> QED
    BY <1>0, <1>1, <2>1, NftsApproved
<1>8. CASE deleteAllNftAllowances(o)
  <2>1. /\ o \in NftAllowances /\ o.call \in Approvals
        /\ run(o, Empty(o.nfts) \/ DeleteAllNftAllowancesValidator(o), DeleteAllNftAllowances(o))
    BY <1>8, OptionsTyped DEF deleteAllNftAllowances, Now, Approvals
  <2> QED
    BY <1>0, <1>1, <2>1, NftsApproved
<1> QED
  BY <1>2, <1>3, <1>4, <1>5, <1>6, <1>7, <1>8 DEF Approving

-----------------------------------------------------------------------------
(* The invariant: the books are well kept, allowances are of things that   *)
(* exist, and what waits for signatures is what was built of the options   *)
(* it was asked with, which their validator had passed.                    *)
EInv ==
    /\ Kept /\ Granted
    /\ calls \in 0..MaxCalls /\ flow \in Options \cup {NoOptions}
    /\ \A s \in scheduled : s.ask \in Options /\ Built(s.ask, s.tx)

(* A step does what was asked, or nothing.                                 *)
AsAsked == IF step'.did = "landed" THEN AskedFor(step'.ask) ELSE UNCHANGED net

(* A step that lands nothing changes nothing.                              *)
LEMMA IdlyKept ==
    ASSUME Kept, Granted, UNCHANGED net, NEW did, did # "landed", NEW o,
           step' = Step(did, o) \/ step' = Idly(did)
    PROVE  Kept' /\ Granted' /\ AsAsked
<1>1. UNCHANGED <<bal, pending, allow, marks, minted>>
  BY DEF net
<1>2. Kept' /\ Granted'
  BY <1>1 DEF Kept, WellKept, Granted, BagToSet
<1>3. step'.did # "landed"
  BY DEF Idly, Step
<1> QED
  BY <1>2, <1>3 DEF AsAsked

(* A transaction that the network decides on lands as asked, or fails.     *)
LEMMA LandKept ==
    ASSUME Kept, Granted, NEW o, NEW tx, Land(o, tx),
           ~Malformed(tx) /\ Succeeds(tx) => Lands(o) /\ Granted'
    PROVE  Kept' /\ Granted' /\ AsAsked
<1>1. CASE ~Malformed(tx) /\ Succeeds(tx) /\ step' = Step("landed", o)
  <2>1. Lands(o) /\ Granted'
    BY <1>1
  <2>2. step'.did = "landed" /\ step'.ask = o
    BY <1>1 DEF Step
  <2>3. AskedFor(step'.ask)
    BY <2>1, <2>2 DEF Lands
  <2> QED
    BY <2>1, <2>2, <2>3 DEF Lands, AsAsked
<1>2. CASE /\ step' = IF Malformed(tx) THEN Step("malformed", o) ELSE Idly("failed")
           /\ UNCHANGED <<net, granted>>
  <2>1. PICK did \in {"malformed", "failed"} : step' = Step(did, o) \/ step' = Idly(did)
    BY <1>2
  <2>2. UNCHANGED net /\ did # "landed"
    BY <1>2
  <2> QED
    BY <2>1, <2>2, IdlyKept
<1> QED
  BY <1>1, <1>2 DEF Land

(* A call at once, or one that leaves a schedule.                          *)
LEMMA SendsKept ==
    ASSUME EInv, NEW o \in Options, Sends(o)
    PROVE  EInv' /\ AsAsked
<1>1. PICK refused \in BOOLEAN : \E tx : /\ run(o, refused, tx) \/ scheduleRun(o, refused, tx)
                                         /\ ~refused => Built(o, tx)
  BY DEF Sends
<1>2. PICK tx : /\ run(o, refused, tx) \/ scheduleRun(o, refused, tx)
                /\ ~refused => Built(o, tx)
  BY <1>1
<1>3. Call /\ UNCHANGED flow
  BY <1>2 DEF run, scheduleRun, Refuse
<1>4. calls' \in 0..MaxCalls
  BY <1>3, HoldingsAssumption DEF Call, EInv
<1>5. CASE Refuse
  <2>1. UNCHANGED net /\ UNCHANGED scheduled /\ step' = Idly("refused")
    BY <1>5 DEF Refuse
  <2>2. Kept' /\ Granted' /\ AsAsked
    BY <2>1, IdlyKept DEF EInv
  <2> QED
    BY <1>3, <1>4, <2>1, <2>2 DEF EInv
<1>6. CASE ~refused /\ Land(o, tx) /\ UNCHANGED scheduled
  <2>1. ~Malformed(tx) /\ Succeeds(tx) => Lands(o) /\ Granted'
    BY <1>2, <1>6, BuiltLands DEF EInv
  <2>2. Kept' /\ Granted' /\ AsAsked
    BY <1>6, <2>1, LandKept DEF EInv
  <2> QED
    BY <1>3, <1>4, <1>6, <2>2 DEF EInv
<1>7. CASE /\ ~refused /\ scheduled' = scheduled \cup {[ask |-> o, tx |-> tx]}
           /\ step' = IF Malformed(tx) THEN Step("malformed", o) ELSE Idly("scheduled")
           /\ UNCHANGED net
  <2>1. PICK did \in {"malformed", "scheduled"} : step' = Step(did, o) \/ step' = Idly(did)
    BY <1>7
  <2>2. Kept' /\ Granted' /\ AsAsked
    BY <1>7, <2>1, IdlyKept DEF EInv
  <2>3. \A s \in scheduled' : s.ask \in Options /\ Built(s.ask, s.tx)
    BY <1>2, <1>7 DEF EInv
  <2> QED
    BY <1>3, <1>4, <2>2, <2>3 DEF EInv
<1> QED
  BY <1>2, <1>5, <1>6, <1>7 DEF run, scheduleRun

(* The flow's first transaction, with the second put off.                  *)
LEMMA FlowKept ==
    ASSUME EInv, NEW o \in Options, rejectTokensFlow(o)
    PROVE  EInv' /\ AsAsked
<1>1. Call /\ o.call = "rejectTokensFlow"
  BY DEF rejectTokensFlow, Now
<1>2. calls' \in 0..MaxCalls
  BY <1>1, HoldingsAssumption DEF Call, EInv
<1>3. CASE Refuse
  <2>1. UNCHANGED net /\ UNCHANGED <<scheduled, flow>> /\ step' = Idly("refused")
    BY <1>3 DEF Refuse
  <2>2. Kept' /\ Granted' /\ AsAsked
    BY <2>1, IdlyKept DEF EInv
  <2> QED
    BY <1>2, <2>1, <2>2 DEF EInv
<1>4. CASE /\ ~TokenRejectValidator(o) /\ Land(o, RejectFirst(o))
           /\ flow' \in {o, NoOptions} /\ UNCHANGED scheduled
  <2> DEFINE tx == RejectFirst(o)
  <2>1. Built(o, tx)
    BY <1>1, <1>4 DEF Built, BuiltSupply
  <2> HIDE DEF tx
  <2>2. ~Malformed(tx) /\ Succeeds(tx) => Lands(o) /\ Granted'
    BY <2>1, BuiltLands DEF EInv
  <2>3. Kept' /\ Granted' /\ AsAsked
    BY <1>4, <2>2, LandKept DEF EInv, tx
  <2> QED
    BY <1>2, <1>4, <2>3 DEF EInv
<1> QED
  BY <1>3, <1>4 DEF rejectTokensFlow

(* Every step: a call, a schedule that executes, the flow's second half.   *)
LEMMA EffectsNext ==
    ASSUME HInv, EInv, Next
    PROVE  EInv' /\ AsAsked
<1>1. ASSUME NEW o \in Options, Moving(o) \/ Supplying(o) \/ Admitting(o) \/ Approving(o)
      PROVE  EInv' /\ AsAsked
  <2>1. CASE rejectTokensFlow(o)
    BY <2>1, FlowKept
  <2>2. CASE ~rejectTokensFlow(o)
    <3>1. Sends(o)
      BY <1>1, <2>2, MovingSends, SupplyingSends, AdmittingSends, ApprovingSends
    <3> QED
      BY <3>1, SendsKept
  <2> QED
    BY <2>1, <2>2
<1>2. CASE ExecuteScheduled
  <2>1. PICK s \in scheduled : Land(s.ask, s.tx) /\ scheduled' = scheduled \ {s}
                               /\ UNCHANGED <<calls, flow>>
    BY <1>2 DEF ExecuteScheduled
  <2>2. s.ask \in Options /\ Built(s.ask, s.tx)
    BY DEF EInv
  <2>3. ~Malformed(s.tx) /\ Succeeds(s.tx) => Lands(s.ask) /\ Granted'
    BY <2>2, BuiltLands DEF EInv
  <2>4. Kept' /\ Granted' /\ AsAsked
    BY <2>1, <2>3, LandKept DEF EInv
  <2> QED
    BY <2>1, <2>4 DEF EInv
<1>3. CASE DissociateRejected
  <2> DEFINE o == [flow EXCEPT !.call = "dissociateRejected"]
             tx == RejectSecond(flow)
  <2>1. /\ Land(o, tx) /\ flow' = NoOptions /\ UNCHANGED <<calls, scheduled>>
        /\ flow \in TokenRejectOptions /\ ~TokenRejectValidator(flow)
    BY <1>3 DEF DissociateRejected, HInv
  <2>2. tx.type = "TokenDissociate"
    BY DEF RejectSecond
  <2>3. ASSUME Succeeds(tx) PROVE Lands(o) /\ Granted'
    <3>1. TokenDissociate(RejectSecond(flow))
      BY <2>2, <2>3, SucceedsAs
    <3>2. Lands(o)
      BY <2>1, <3>1, RejectSecondLands DEF EInv
    <3> QED
      BY <2>2, <2>3, <3>2, OthersGranted DEF EInv, AllowanceTypes
  <2> HIDE DEF o, tx
  <2>4. Kept' /\ Granted' /\ AsAsked
    BY <2>1, <2>3, LandKept DEF EInv
  <2> QED
    BY <2>1, <2>4 DEF EInv
<1> QED
  BY <1>1, <1>2, <1>3 DEF Next

(* What the network held at the outset was well kept.                      *)
LEMMA EffectsInit == ASSUME Init PROVE EInv
<1>1. PICK s \in Starts : /\ bal = s.bal /\ pending = s.pending /\ allow = s.allow
                          /\ marks = s.marks /\ minted = s.minted
  BY DEF Init
<1>2. Kept
  BY <1>1, HoldingsAssumption DEF Kept
<1>3. Granted
  BY <1>1, HoldingsAssumption DEF Granted
<1>4. calls = 0 /\ scheduled = {} /\ flow = NoOptions /\ 0 \in 0..MaxCalls
  BY HoldingsAssumption DEF Init
<1> QED
  BY <1>2, <1>3, <1>4 DEF EInv

(* A step of somebody else changes none of it.                             *)
LEMMA EffectsStutter == ASSUME EInv, UNCHANGED vars PROVE EInv'
BY DEF vars, net, EInv, Kept, WellKept, Granted, BagToSet

(* Account and token services: the network's books stay well kept, and     *)
(* what waits for signatures stays what was built of its caller's options. *)
THEOREM EffectsInvariant == Spec => []EInv
BY EffectsInit, EffectsNext, EffectsStutter, HoldingsInvariant, PTL DEF Spec

(* Every holding, pending airdrop and allowance is of things that exist,   *)
(* each serial once and in one place, whatever is called.                  *)
THEOREM HoldingsTypeOK == Spec => []TypeOK
<1>1. HInv /\ EInv => TypeOK
  BY DEF HInv, EInv, Kept, Granted, TypeOK
<1> QED
  BY <1>1, HoldingsInvariant, EffectsInvariant, PTL

(* build: whichever of the 26 kinds of call lands, at once or when its     *)
(* schedule executes, it moves, leaves pending and marks exactly what its  *)
(* options said, whatever came in between; every other step does nothing.  *)
THEOREM HoldingsEffectAsAsked == Spec => EffectAsAsked
<1>1. HInv /\ EInv /\ [Next]_vars => [AsAsked]_vars
  BY EffectsNext
<1>2. HInv /\ EInv /\ [Next]_vars
         => [IF step'.did = "landed" THEN AskedFor(step'.ask) ELSE UNCHANGED net]_vars
  BY <1>1 DEF AsAsked
<1> QED
  BY <1>2, HoldingsInvariant, EffectsInvariant, PTL DEF Spec, EffectAsAsked
=============================================================================
