---------------------------- MODULE TokenNetwork ----------------------------
(***************************************************************************)
(* External: what the network keeps of hbar and tokens, and what it makes  *)
(* of the transactions that the account and token services send.  It knows *)
(* nothing of the services' options: a transaction is what build() put     *)
(* into it.  The network may fail any transaction; these actions say what  *)
(* one does that succeeds, and when it cannot.                             *)
(*                                                                         *)
(* An asset is <<token, serial>>, with serial 0 for hbar and for units of  *)
(* a fungible token.  Holdings, pending airdrops and allowances are bags:  *)
(* so many copies of <<asset, account>>, of <<asset, from, to>>, and of    *)
(* <<asset, owner, spender>> (serial 0 of a collection stands for all of   *)
(* its serials).                                                           *)
(***************************************************************************)
EXTENDS Integers, SequencesExt, Bags

CONSTANTS Accounts, Treasury,      \* accounts, and the treasury of every token
          Hbar, Fungibles, Collections,
          MaxSerial,               \* bound: serials a collection may have
          Decimals,                \* of every fungible token
          Absent                   \* a value left out: undefined, null, blank

VARIABLES bal, pending, allow,
          marks,                   \* <<kind, account, token>>: see Marking
          minted                   \* the last serial of each collection

net == <<bal, pending, allow, marks, minted>>

Tokens == Fungibles \cup Collections
Assets == (({Hbar} \cup Fungibles) \X {0}) \cup (Collections \X (1..MaxSerial))
MarkKinds == {"associated", "kyc", "frozen", "paused"}

Of(x, n) == IF n > 0 THEN [e \in {x} |-> n] ELSE EmptyBag
Total(bags) ==
    LET sum[i \in 0..Len(bags)] == IF i = 0 THEN EmptyBag ELSE sum[i-1] (+) bags[i]
    IN sum[Len(bags)]
Units(token) == <<token, 0>>

Balance(x, a) == IF <<x, a>> \in BagToSet(bal) THEN bal[<<x, a>>] ELSE 0

Associated(a, t) == <<"associated", a, t>> \in marks
Usable(t, a) == \/ t = Hbar
                \/ /\ Associated(a, t) /\ <<"kyc", a, t>> \in marks
                   /\ <<"frozen", a, t>> \notin marks
                   /\ <<"paused", Treasury, t>> \notin marks

(* Holdings leave and arrive; whoever could spend a serial no longer can.  *)
Move(out, in) ==
    /\ out \sqsubseteq bal
    /\ \A h \in BagToSet(out) \cup BagToSet(in) : h[1] \in Assets /\ Usable(h[1][1], h[2])
    /\ bal' = (bal (-) out) (+) in
    /\ LET moved == {h[1] : h \in BagToSet(out)} IN
       allow' = [g \in {g \in DOMAIN allow : g[1][2] = 0 \/ g[1] \notin moved} |-> allow[g]]

(* A transfer list: signed adjustments of balances, and serials moved.     *)
OutOf(tx) == Total([i \in DOMAIN tx.adjust |->
                       Of(<<tx.adjust[i].asset, tx.adjust[i].account>>, -tx.adjust[i].by)])
             (+) Total([i \in DOMAIN tx.moves |-> Of(<<tx.moves[i].asset, tx.moves[i].from>>, 1)])
InTo(tx)  == Total([i \in DOMAIN tx.adjust |->
                       Of(<<tx.adjust[i].asset, tx.adjust[i].account>>, tx.adjust[i].by)])
             (+) Total([i \in DOMAIN tx.moves |-> Of(<<tx.moves[i].asset, tx.moves[i].to>>, 1)])
DecimalsFit(tx) == \A i \in DOMAIN tx.adjust : tx.adjust[i].decimals \in {Absent, Decimals}

CryptoTransfer(tx) == /\ DecimalsFit(tx)
                      /\ Move(OutOf(tx), InTo(tx))
                      /\ UNCHANGED <<pending, marks, minted>>

(* An airdrop names one sender for each asset; what is for an account that *)
(* is not associated waits, undebited, until the account claims it.        *)
Sender(tx, x) == CHOOSE a \in Accounts : <<x, a>> \in BagToSet(OutOf(tx))
Drops(tx) ==
    [i \in DOMAIN tx.adjust |-> LET e == tx.adjust[i] IN
        [asset |-> e.asset, from |-> Sender(tx, e.asset), to |-> e.account, amount |-> e.by]]
    \o [i \in DOMAIN tx.moves |-> LET m == tx.moves[i] IN
          [asset |-> m.asset, from |-> m.from, to |-> m.to, amount |-> 1]]

AtOnce(d, account) == IF Associated(d.to, d.asset[1]) THEN Of(<<d.asset, account>>, d.amount)
                      ELSE EmptyBag
UntilClaimed(d) == IF Associated(d.to, d.asset[1]) THEN EmptyBag
                   ELSE Of(<<d.asset, d.from, d.to>>, d.amount)

TokenAirdrop(tx) ==
    LET drops == Drops(tx) IN
    /\ DecimalsFit(tx) /\ OutOf(tx) \sqsubseteq bal
    /\ \A h1, h2 \in BagToSet(OutOf(tx)) : h1[1] = h2[1] => h1 = h2
    /\ Move(Total([i \in DOMAIN drops |-> AtOnce(drops[i], drops[i].from)]),
            Total([i \in DOMAIN drops |-> AtOnce(drops[i], drops[i].to)]))
    /\ pending' = pending (+) Total([i \in DOMAIN drops |-> UntilClaimed(drops[i])])
    /\ UNCHANGED <<marks, minted>>

(* What a claim or a cancellation names is no longer pending.              *)
Claimed(ids, place) ==
    Total([i \in DOMAIN ids |-> Of(<<ids[i][1], ids[i][place]>>, pending[ids[i]])])

TokenClaimAirdrop(tx) ==
    LET ids == ToSet(tx.ids)
        joined == {<<kind, id[3], id[1][1]>> : kind \in {"associated", "kyc"}, id \in ids}
    IN /\ ids \subseteq BagToSet(pending) /\ IsInjective(tx.ids)
       /\ Claimed(tx.ids, 2) \sqsubseteq bal
       /\ \A id \in ids : /\ Usable(id[1][1], id[2])
                          /\ <<"frozen", id[3], id[1][1]>> \notin marks
       /\ bal' = (bal (-) Claimed(tx.ids, 2)) (+) Claimed(tx.ids, 3)
       /\ pending' = [id \in DOMAIN pending \ ids |-> pending[id]]
       /\ marks' = marks \cup joined
       /\ allow' = [g \in {g \in DOMAIN allow :
                            g[1][2] = 0 \/ g[1] \notin {id[1] : id \in ids}} |-> allow[g]]
       /\ UNCHANGED minted

TokenCancelAirdrop(tx) ==
    /\ ToSet(tx.ids) \subseteq BagToSet(pending)
    /\ pending' = [id \in DOMAIN pending \ ToSet(tx.ids) |-> pending[id]]
    /\ UNCHANGED <<bal, allow, marks, minted>>

(* Units or new serials, to the treasury.                                  *)
TokenMint(tx) ==
    /\ \/ /\ tx.metadata = 0 /\ tx.token \in Fungibles
          /\ Move(EmptyBag, Of(<<Units(tx.token), Treasury>>, tx.amount))
          /\ UNCHANGED minted
       \/ /\ tx.amount = Absent /\ tx.token \in Collections
          /\ minted[tx.token] + tx.metadata <= MaxSerial
          /\ Move(EmptyBag, [h \in {<<<<tx.token, minted[tx.token] + i>>, Treasury>> :
                                       i \in 1..tx.metadata} |-> 1])
          /\ minted' = [minted EXCEPT ![tx.token] = @ + tx.metadata]
    /\ UNCHANGED <<pending, marks>>

(* Units or serials cease to be, at the treasury or at an account.         *)
Removed(tx, holder) ==
    /\ \/ /\ tx.serials = <<>> /\ tx.token \in Fungibles
          /\ Move(Of(<<Units(tx.token), holder>>, tx.amount), EmptyBag)
       \/ /\ tx.amount = Absent /\ tx.token \in Collections
          /\ Move([h \in {<<<<tx.token, tx.serials[i]>>, holder>> : i \in DOMAIN tx.serials}
                         |-> 1], EmptyBag)
    /\ UNCHANGED <<pending, marks, minted>>

TokenBurn(tx) == Removed(tx, Treasury)
TokenWipe(tx) == tx.account # Treasury /\ Removed(tx, tx.account)

(* The owner's units and serials go back to the treasury, each named once. *)
Rejected(tx) == [i \in DOMAIN tx.tokens |-> Units(tx.tokens[i])] \o tx.nfts

TokenReject(tx) ==
    LET gone == Rejected(tx)
        Count(x) == IF x[2] = 0 THEN Balance(x, tx.owner) ELSE 1
        At(account) == Total([i \in DOMAIN gone |-> Of(<<gone[i], account>>, Count(gone[i]))])
    IN /\ tx.owner # Treasury
       /\ IsInjective(gone)
       /\ \A i \in DOMAIN gone : <<gone[i], tx.owner>> \in BagToSet(bal)
       /\ \A i \in DOMAIN tx.nfts : tx.nfts[i][2] > 0
       /\ Move(At(tx.owner), At(Treasury))
       /\ UNCHANGED <<pending, marks, minted>>

TokenAssociate(tx) ==
    /\ \A i \in DOMAIN tx.tokens : ~Associated(tx.account, tx.tokens[i])
    /\ marks' = marks \cup ({"associated", "kyc"} \X {tx.account} \X ToSet(tx.tokens))
    /\ UNCHANGED <<bal, pending, allow, minted>>

TokenDissociate(tx) ==
    /\ tx.account # Treasury
    /\ \A t \in ToSet(tx.tokens) : /\ Associated(tx.account, t)
                                   /\ \A h \in BagToSet(bal) : h[2] = tx.account => h[1][1] # t
    /\ marks' = marks \ ({"associated", "kyc", "frozen"} \X {tx.account} \X ToSet(tx.tokens))
    /\ UNCHANGED <<bal, pending, allow, minted>>

(* The transactions that set or clear one mark of an account and a token.  *)
Marking == [TokenFreeze   |-> [kind |-> "frozen", on |-> TRUE],
            TokenUnfreeze |-> [kind |-> "frozen", on |-> FALSE],
            TokenGrantKyc |-> [kind |-> "kyc", on |-> TRUE],
            TokenRevokeKyc |-> [kind |-> "kyc", on |-> FALSE],
            TokenPause    |-> [kind |-> "paused", on |-> TRUE],
            TokenUnpause  |-> [kind |-> "paused", on |-> FALSE]]

SetMark(tx) ==
    LET m == <<Marking[tx.type].kind, tx.account, tx.token>> IN
    /\ Associated(tx.account, tx.token)
    /\ marks' = IF Marking[tx.type].on THEN marks \cup {m} ELSE marks \ {m}
    /\ UNCHANGED <<bal, pending, allow, minted>>

(* A grant replaces the one before, and a serial has one spender.          *)
Replaces(g, h) == h = g.key \/ (g.key[1][2] > 0 /\ h[1] = g.key[1])
Granting(all, g) == [h \in {h \in DOMAIN all : ~Replaces(g, h)} |-> all[h]]
                    (+) Of(g.key, g.amount)

(* One grant after the other, each of its kind of token.                   *)
AccountAllowanceApprove(tx) ==
    LET After[i \in 0..Len(tx.grants)] ==
            IF i = 0 THEN allow ELSE Granting(After[i-1], tx.grants[i])
    IN /\ \A i \in DOMAIN tx.grants : LET g == tx.grants[i] IN
             /\ g.nft <=> g.key[1][1] \in Collections
             /\ g.key[1][2] > 0 => <<g.key[1], g.key[2]>> \in BagToSet(bal)
       /\ allow' = After[Len(tx.grants)]
       /\ UNCHANGED <<bal, pending, marks, minted>>

AccountAllowanceDelete(tx) ==
    /\ \A i \in DOMAIN tx.nfts : tx.nfts[i][1][1] \in Collections
    /\ allow' = [g \in {g \in DOMAIN allow :
                         \A i \in DOMAIN tx.nfts : <<g[1], g[2]>> # tx.nfts[i]} |-> allow[g]]
    /\ UNCHANGED <<bal, pending, marks, minted>>

(* A transaction succeeds.                                                 *)
Succeeds(tx) ==
    \/ tx.type = "CryptoTransfer" /\ CryptoTransfer(tx)
    \/ tx.type = "TokenAirdrop" /\ TokenAirdrop(tx)
    \/ tx.type = "TokenClaimAirdrop" /\ TokenClaimAirdrop(tx)
    \/ tx.type = "TokenCancelAirdrop" /\ TokenCancelAirdrop(tx)
    \/ tx.type = "TokenMint" /\ TokenMint(tx)
    \/ tx.type = "TokenBurn" /\ TokenBurn(tx)
    \/ tx.type = "TokenWipe" /\ TokenWipe(tx)
    \/ tx.type = "TokenReject" /\ TokenReject(tx)
    \/ tx.type = "TokenAssociate" /\ TokenAssociate(tx)
    \/ tx.type = "TokenDissociate" /\ TokenDissociate(tx)
    \/ tx.type \in DOMAIN Marking /\ SetMark(tx)
    \/ tx.type = "AccountAllowanceApprove" /\ AccountAllowanceApprove(tx)
    \/ tx.type = "AccountAllowanceDelete" /\ AccountAllowanceDelete(tx)

(* What no network takes, whatever it holds.  Nothing that is left out may *)
(* be named, and a transfer balances, moves something, and not to itself.  *)
NothingAbsent(S) == Absent \notin S

(* What leaves and what enters the holdings of an asset, one by one.       *)
Leaving(tx, x)  == UNION {{i} \X (1..-tx.adjust[i].by) :
                             i \in {i \in DOMAIN tx.adjust : tx.adjust[i].asset = x}}
Entering(tx, x) == UNION {{i} \X (1..tx.adjust[i].by) :
                             i \in {i \in DOMAIN tx.adjust : tx.adjust[i].asset = x}}

BadTransfer(tx) ==
    \/ tx.adjust = <<>> /\ tx.moves = <<>>
    \/ \E i \in DOMAIN tx.adjust : LET e == tx.adjust[i] IN
          ~NothingAbsent({e.asset[1], e.account}) \/ e.by = 0
    \/ \E i \in DOMAIN tx.moves : LET m == tx.moves[i] IN
          ~NothingAbsent({m.asset[1], m.from, m.to}) \/ m.asset[2] <= 0 \/ m.from = m.to
    \/ \E x \in {tx.adjust[i].asset : i \in DOMAIN tx.adjust} :
          LET on == {i \in DOMAIN tx.adjust : tx.adjust[i].asset = x} IN
          \/ Cardinality(Leaving(tx, x)) # Cardinality(Entering(tx, x))
          \/ \A i, j \in on : tx.adjust[i].account = tx.adjust[j].account

(* One of an amount and of serials (or metadata), and a sensible one.      *)
BadQuantity(amount, some, serials) ==
    \/ (amount = Absent) = ~some
    \/ amount # Absent /\ amount < 0
    \/ \E i \in DOMAIN serials : serials[i] = Absent \/ serials[i] <= 0

Malformed(tx) ==
    \/ tx.type \in {"CryptoTransfer", "TokenAirdrop"} /\ BadTransfer(tx)
    \/ tx.type = "TokenMint" /\ (tx.token = Absent \/ BadQuantity(tx.amount, tx.metadata > 0, <<>>))
    \/ /\ tx.type \in {"TokenBurn", "TokenWipe"}
       /\ ~NothingAbsent({tx.token, tx.account}) \/ BadQuantity(tx.amount, tx.serials # <<>>, tx.serials)
    \/ /\ tx.type \in {"TokenAssociate", "TokenDissociate"}
       /\ tx.tokens = <<>> \/ ~NothingAbsent({tx.account} \cup ToSet(tx.tokens))
    \/ tx.type \in DOMAIN Marking /\ ~NothingAbsent({tx.account, tx.token})
    \/ /\ tx.type \in {"TokenClaimAirdrop", "TokenCancelAirdrop"}
       /\ tx.ids = <<>> \/ ~NothingAbsent(ToSet(tx.ids))
    \/ /\ tx.type = "TokenReject"
       /\ \/ tx.owner = Absent \/ tx.tokens \o tx.nfts = <<>>
          \/ ~NothingAbsent(ToSet(tx.tokens)) \/ ~NothingAbsent(ToSet(tx.nfts))
    \/ /\ tx.type = "AccountAllowanceApprove"
       /\ \/ tx.grants = <<>>
          \/ \E i \in DOMAIN tx.grants : LET g == tx.grants[i] IN
                ~NothingAbsent({g.key[1][1], g.key[2], g.key[3]}) \/ g.key[1][2] < 0 \/ g.amount < 0
    \/ /\ tx.type = "AccountAllowanceDelete"
       /\ tx.nfts = <<>> \/ \E i \in DOMAIN tx.nfts :
             ~NothingAbsent({tx.nfts[i][1][1], tx.nfts[i][2]}) \/ tx.nfts[i][1][2] <= 0
=============================================================================
