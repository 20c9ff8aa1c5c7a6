----------------------------- MODULE MCHoldings -----------------------------
(* A treasury and two accounts, one of which is not associated yet; a      *)
(* fungible token and a collection.  For each call its options run over    *)
(* values that are fine, on the edge, left out, and in conflict.           *)
EXTENDS Holdings

CONSTANTS treasury, alice, bob, hbar, coin, art, absent

MCAccounts == {treasury, alice, bob}
MCFungibles == {coin}
MCCollections == {art}

Call0(call, later) == [call |-> call, later |-> later]
Now0(call) == Call0(call, FALSE)
EitherWay(call) == {Call0(call, TRUE), Call0(call, FALSE)}
With(heads, tails) == {h @@ t : h \in heads, t \in tails}

Parties == {[sender |-> alice, receiver |-> treasury], [sender |-> treasury, receiver |-> alice],
            [sender |-> alice, receiver |-> alice], [sender |-> absent, receiver |-> bob]}
Amounts == {absent, -1, 0, 2}

Transfers ==
    With(EitherWay("transferHbar"), With(Parties, [amount : Amounts]))
    \cup With(EitherWay("transferToken"),
              With(Parties, [token : {coin}, amount : {0, 2}, decimals : {absent, 0}]
                            \cup [token : {coin}, amount : {1}, decimals : {-1, 1}]))
    \cup With(EitherWay("transferNft"), With(Parties, [token : {art, absent}, serial : {0, 1}]))

Drop(from, to, n) == [token |-> coin, sender |-> from, receiver |-> to, amount |-> n,
                      decimals |-> absent]
DropNft(from, to, n) == [token |-> art, sender |-> from, receiver |-> to, serial |-> n]
Ids == {<<<<coin, 0>>, treasury, bob>>, <<<<art, 2>>, treasury, bob>>}

Airdrops ==
    With({Now0("airdropFungibleToken")},
         [airdrops : {absent, <<>>, <<Drop(treasury, alice, 0)>>, <<Drop(treasury, treasury, 1)>>,
                      <<Drop(treasury, alice, 1), Drop(treasury, bob, 2)>>,
                      <<Drop(treasury, alice, 1), Drop(alice, bob, 1)>>}])
    \cup With({Now0("airdropNft")},
         [airdrops : {<<>>, <<DropNft(treasury, alice, 0)>>,
                      <<DropNft(treasury, alice, 2), DropNft(alice, bob, 1)>>}])
    \cup With({Now0("claimAirdrop"), Now0("cancelAirdrop")},
         [ids : {absent, <<>>, <<absent>>} \cup {<<i>> : i \in Ids}
                \cup {<<i, j>> : i, j \in Ids}])

Quantities == [token : {coin}, amount : {absent, -1, 0, 1}, serials : {absent, <<>>}]
              \cup [token : {art}, amount : {absent, 1}, serials : {<<1>>, <<2, 1>>, <<2, 2>>, <<0>>}]
              \cup [token : {absent}, amount : {1}, serials : {absent}]
Supplies ==
    With(EitherWay("mintToken"),
         [token : {coin}, amount : {-1, 0, 2}, metadata : {absent, 0}]
         \cup [token : {art, absent}, amount : {absent, 1}, metadata : {1}]
         \cup [token : {art}, amount : {absent}, metadata : {absent, 0}])
    \cup With(EitherWay("burnToken"), Quantities)
    \cup With({Now0("wipeToken")}, With([account : {alice, absent}], Quantities))
    \cup With({Now0("rejectTokensFlow")},
              [owner : {alice}, tokens : {absent, <<>>, <<coin>>},
               nfts : {<<>>, <<<<art, 1>>>>, <<<<art, 1>>, <<art, 1>>>>}]
              \cup [owner : {alice}, tokens : {<<absent>>}, nfts : {absent}]
              \cup [owner : {absent}, tokens : {<<coin>>}, nfts : {<<absent>>}])

Admissions ==
    With(EitherWay("associateToken"), [account : {bob}, token : {coin, art, absent}])
    \cup With(EitherWay("dissociateToken"),
              [account : {bob, absent, alice}, tokens : {<<>>, <<coin>>, <<coin, art>>, <<absent>>}])
    \cup With({Now0(c) : c \in {"freezeToken", "unfreezeToken", "grantKycToken", "revokeKycToken"}},
              [account : {alice, absent}, token : {coin}] \cup [account : {alice}, token : {absent}])
    \cup With({Now0("pauseToken"), Now0("unpauseToken")}, [token : {coin, absent}])

Entry(token, owner, spender, amount, serials, all) ==
    [token |-> token, owner |-> owner, spender |-> spender, amount |-> amount,
     instance |-> FALSE, serials |-> serials, all |-> all, delegate |-> absent]
Money(token, n) == Entry(token, alice, bob, n, absent, FALSE)
Instance(n) == [Money(hbar, n) EXCEPT !.instance = TRUE]
Art(spender, serials, all) == Entry(art, alice, spender, absent, serials, all)
Lists(fine, odd) == {absent, <<>>} \cup {<<e>> : e \in fine \cup odd}
                    \cup {<<e, f>> : e, f \in fine}
Arts == Lists({Art(bob, <<1>>, FALSE), Art(treasury, <<1>>, FALSE)},
              {Art(bob, <<>>, TRUE), Art(bob, <<0>>, FALSE), Art(bob, <<1>>, TRUE),
               Art(bob, <<>>, FALSE), Art(absent, <<1>>, FALSE)})
Allowances ==
    With({Now0(c) : c \in {"approveHbarAllowance", "deleteHbarAllowance"}},
         [hbars : Lists({Money(hbar, 0), Money(hbar, 2)},
                        {Entry(hbar, alice, absent, 1, absent, FALSE), Money(hbar, -1), Instance(2)})
                  \cup {<<Money(hbar, 2), Instance(-1)>>, <<Instance(-1), Money(hbar, -1)>>},
          units : {<<>>}, nfts : {<<>>}])
    \cup With({Now0(c) : c \in {"approveTokenAllowance", "deleteTokenAllowance"}},
         [units : Lists({Money(coin, 1), Money(coin, 2)}, {Money(coin, absent), Money(art, 2)}),
          hbars : {<<>>}, nfts : {<<>>}])
    \cup With({Now0(c) : c \in {"approveNftAllowance", "deleteNftAllowance"}},
         [nfts : Arts \cup {<<[Art(bob, <<1>>, FALSE) EXCEPT !.delegate = ""]>>,
                           <<[Art(bob, absent, TRUE) EXCEPT !.token = coin]>>,
                           <<[Art(bob, <<1>>, FALSE) EXCEPT !.token = coin]>>},
          hbars : {<<>>}, units : {<<>>}])
    \cup With({Now0("deleteAllNftAllowances")},
         [nfts : Lists({}, {Art(bob, <<>>, TRUE), Art(absent, <<>>, TRUE)}),
          hbars : {<<>>}, units : {<<>>}])

MCOptions == Transfers \cup Airdrops \cup Supplies \cup Admissions \cup Allowances

(* At the outset alice holds units and a serial, of which bob may spend    *)
(* some; an airdrop to bob is pending; or alice is frozen and the rest void.*)
Held == [h \in {<<<<hbar, 0>>, alice>>, <<<<coin, 0>>, alice>>, <<<<coin, 0>>, treasury>>,
                <<<<hbar, 0>>, treasury>>} |-> 3]
        (+) SetToBag({<<<<art, 1>>, alice>>, <<<<art, 2>>, treasury>>})
Members == {"associated", "kyc"} \X {alice, treasury} \X {coin, art}
MCStarts ==
    {[bal |-> Held, pending |-> [id \in Ids |-> 1], marks |-> Members,
      allow |-> SetToBag({<<<<hbar, 0>>, alice, bob>>, <<<<coin, 0>>, alice, bob>>,
                          <<<<art, 1>>, alice, bob>>, <<<<art, 0>>, alice, bob>>}),
      minted |-> [c \in {art} |-> 2]],
     [bal |-> Held, pending |-> EmptyBag,
      marks |-> Members \cup {<<"frozen", alice, coin>>, <<"paused", treasury, coin>>},
      allow |-> EmptyBag, minted |-> [c \in {art} |-> 2]]}
=============================================================================
