------------------------------ MODULE Holdings ------------------------------
(***************************************************************************)
(* packages/core/src/services/account and token: the calls that move hbar  *)
(* and tokens about, say who may hold them and who may spend them.  Each   *)
(* validates its options, builds one SDK transaction out of them and sends *)
(* or schedules it; rejectTokensFlow sends two.                            *)
(*                                                                         *)
(* How a call is listened to, sent and answered is CallLifecycle's; this   *)
(* module is about what it sends and what that does.  Amounts are whole    *)
(* and small; a value left out, null and blank are one: Absent.            *)
(***************************************************************************)
EXTENDS HoldingsOptions

CONSTANTS Options,          \* what the calls may be given
          MaxCalls,         \* bound: calls of the services
          Starts            \* what the network may hold at the outset

Schedulable == {"transferHbar", "transferToken", "transferNft", "mintToken",
                "burnToken", "associateToken", "dissociateToken"}

(* Holdings and pending airdrops are of things that exist, of each serial  *)
(* one and in one place; what is pending or marked is of a token.          *)
WellKept(held, waiting, marked, last) ==
    /\ IsABag(held) /\ BagToSet(held) \subseteq Assets \X Accounts
    /\ \A h \in BagToSet(held) : h[1][2] > 0 =>
          /\ held[h] = 1 /\ h[1][2] <= last[h[1][1]]
          /\ \A a \in Accounts \ {h[2]} : <<h[1], a>> \notin BagToSet(held)
    /\ IsABag(waiting)
    /\ BagToSet(waiting) \subseteq {x \in Assets : x[1] \in Tokens} \X Accounts \X Accounts
    /\ marked \subseteq MarkKinds \X Accounts \X Tokens
    /\ last \in [Collections -> 0..MaxSerial]

Grantable == (Assets \cup (Collections \X {0})) \X Accounts \X Accounts

ASSUME HoldingsAssumption ==
    /\ MaxCalls \in Nat /\ MaxSerial \in Nat
    /\ \A o \in Options : /\ o.call \in DOMAIN OptionsOf /\ o \in OptionsOf[o.call]
                          /\ o.later => o.call \in Schedulable
    /\ \A s \in Starts : /\ WellKept(s.bal, s.pending, s.marks, s.minted)
                         /\ IsABag(s.allow) /\ BagToSet(s.allow) \subseteq Grantable

VARIABLES calls,        \* how many calls were made
          scheduled,    \* transactions the network holds for signatures
          flow,         \* the rejectTokensFlow that has yet to dissociate
          step,         \* what the last step did, and for which options
          granted       \* history: the allowances asked for and not since revoked

vars == <<net, calls, scheduled, flow, step, granted>>

NoOptions == [call |-> "none"]
Step(did, o) == [did |-> did, ask |-> o]
Idly(did) == Step(did, NoOptions)

Init == \E s \in Starts :
    /\ bal = s.bal /\ pending = s.pending /\ allow = s.allow
    /\ marks = s.marks /\ minted = s.minted
    /\ calls = 0 /\ scheduled = {} /\ flow = NoOptions
    /\ step = Idly("none")
    /\ granted = s.allow

Missing(S) == Absent \in S
Empty(list) == list \in {Absent, <<>>}
-----------------------------------------------------------------------------
(* Transfers.  A list of signed adjustments: what one gives, one gets.     *)

BadAccounts(o) == Missing({o.sender, o.receiver}) \/ o.sender = o.receiver
BadPositive(n) == n = Absent \/ n <= 0

Paired(asset, from, to, amount, decimals) ==
    <<[asset |-> asset, account |-> from, by |-> -amount, decimals |-> decimals],
      [asset |-> asset, account |-> to, by |-> amount, decimals |-> decimals]>>

TransferHbarValidator(o) == BadAccounts(o) \/ BadPositive(o.amount)

TransferHbar(o) == [type |-> "CryptoTransfer", moves |-> <<>>,
                    adjust |-> Paired(Units(Hbar), o.sender, o.receiver, o.amount, Absent)]

BadDecimals(d) == d # Absent /\ d < 0

(* Faulty: a transfer to oneself is let through.                          *)
TransferToSelfAllowed(o) == \/ Missing({o.token, o.sender, o.receiver})
                            \/ BadPositive(o.amount) \/ BadDecimals(o.decimals)

TransferTokenValidator(o) == \/ Missing({o.token}) \/ BadAccounts(o)
                             \/ BadPositive(o.amount) \/ BadDecimals(o.decimals)

TransferToken(o) ==
    [type |-> "CryptoTransfer", moves |-> <<>>,
     adjust |-> Paired(Units(o.token), o.sender, o.receiver, o.amount, o.decimals)]

TransferNftValidator(o) == Missing({o.token}) \/ BadPositive(o.serial) \/ BadAccounts(o)

Moved(e) == [asset |-> <<e.token, e.serial>>, from |-> e.sender, to |-> e.receiver]

TransferNft(o) == [type |-> "CryptoTransfer", adjust |-> <<>>, moves |-> <<Moved(o)>>]

-----------------------------------------------------------------------------
(* Airdrops: as many transfers in one transaction as there are entries.    *)

TokenAirdropValidator(o) ==
    \/ Empty(o.airdrops)
    \/ \E i \in DOMAIN o.airdrops : LET e == o.airdrops[i] IN
          \/ Missing({e.token}) \/ BadAccounts(e)
          \/ BadPositive(e.amount) \/ BadDecimals(e.decimals)

TokenAirdropFungible(o) ==
    [type |-> "TokenAirdrop", moves |-> <<>>,
     adjust |-> [k \in 1..(2 * Len(o.airdrops)) |-> LET e == o.airdrops[(k + 1) \div 2] IN
                   Paired(Units(e.token), e.sender, e.receiver, e.amount, e.decimals)[2 - (k % 2)]]]

TokenAirdropNftValidator(o) ==
    \/ Empty(o.airdrops)
    \/ \E i \in DOMAIN o.airdrops : LET e == o.airdrops[i] IN
          Missing({e.token}) \/ BadPositive(e.serial) \/ BadAccounts(e)

TokenAirdropNft(o) ==
    [type |-> "TokenAirdrop", adjust |-> <<>>,
     moves |-> [i \in DOMAIN o.airdrops |-> Moved(o.airdrops[i])]]

BadIds(ids) == Empty(ids) \/ Missing(ToSet(ids))

TokenClaimAirdropValidator(o) == BadIds(o.ids)
TokenClaim(o) == [type |-> "TokenClaimAirdrop", ids |-> o.ids]

TokenCancelAirdropValidator(o) == BadIds(o.ids)
TokenCancel(o) == [type |-> "TokenCancelAirdrop", ids |-> o.ids]
-----------------------------------------------------------------------------
(* Supply.  Units by their amount, serials one by one, and never both.     *)

BadAmount(n)  == n # Absent /\ n < 0
BadSerials(s) == s # Absent /\ (s = <<>> \/ \E i \in DOMAIN s : s[i] = Absent \/ s[i] <= 0)
Serials(s)    == IF Empty(s) THEN <<>> ELSE s

(* Metadata is the number of its entries.                                  *)
TokenMintValidator(o) ==
    \/ Missing({o.token})
    \/ (o.amount = Absent) = (o.metadata \in {Absent, 0})
    \/ BadAmount(o.amount) \/ o.metadata = 0

TokenMinted(o) == [type |-> "TokenMint", token |-> o.token, amount |-> o.amount,
                   metadata |-> IF o.metadata = Absent THEN 0 ELSE o.metadata]

(* Faulty: amount and serials may come together.                           *)
BurnBothAllowed(o) ==
    \/ Missing({o.token}) \/ BadSerials(o.serials)
    \/ o.amount = Absent /\ Empty(o.serials)
    \/ BadAmount(o.amount)

TokenBurnValidator(o) ==
    \/ Missing({o.token}) \/ BadSerials(o.serials)
    \/ (o.amount = Absent) = Empty(o.serials)
    \/ BadAmount(o.amount)

TokenBurned(o) == [type |-> "TokenBurn", token |-> o.token, account |-> Treasury,
                   amount |-> o.amount, serials |-> Serials(o.serials)]

TokenWipeValidator(o) ==
    \/ Missing({o.token, o.account}) \/ BadSerials(o.serials)
    \/ (o.amount = Absent) = Empty(o.serials)
    \/ BadAmount(o.amount)

TokenWiped(o) == [type |-> "TokenWipe", token |-> o.token, account |-> o.account,
                  amount |-> o.amount, serials |-> Serials(o.serials)]

(* Nothing but a null entry is refused among the NFTs.                     *)
TokenRejectValidator(o) ==
    \/ Missing({o.owner})
    \/ o.tokens # Absent /\ Missing(ToSet(o.tokens))
    \/ o.nfts # Absent /\ Missing(ToSet(o.nfts))
    \/ Empty(o.tokens) /\ Empty(o.nfts)

(* buildFlow and the SDK's flow: a rejection, then a dissociation.         *)
Listed(list) == IF Empty(list) THEN <<>> ELSE list

(* Faulty: the serials are not handed to the flow's rejection.             *)
RejectTokensOnly(o) == [type |-> "TokenReject", owner |-> o.owner,
                        tokens |-> Listed(o.tokens), nfts |-> <<>>]

RejectFirst(o) == [type |-> "TokenReject", owner |-> o.owner,
                   tokens |-> Listed(o.tokens), nfts |-> Listed(o.nfts)]
RejectedTokens(o) ==
    ToSet(Listed(o.tokens)) \cup {Listed(o.nfts)[i][1] : i \in DOMAIN Listed(o.nfts)}
RejectSecond(o) == [type |-> "TokenDissociate", account |-> o.owner,
                    tokens |-> SetToSeq(RejectedTokens(o))]
-----------------------------------------------------------------------------
(* Who may hold a token.                                                   *)

TokenAssociateValidator(o) == Missing({o.account, o.token})
TokenAssociated(o) == [type |-> "TokenAssociate", account |-> o.account, tokens |-> <<o.token>>]

TokenDissociateValidator(o) ==
    Missing({o.account}) \/ Empty(o.tokens) \/ Missing(ToSet(o.tokens))
TokenDissociated(o) == [type |-> "TokenDissociate", account |-> o.account, tokens |-> o.tokens]

MarkTx(type, o) == [type |-> type, account |-> o.account, token |-> o.token]

TokenFreezeValidator(o)    == Missing({o.token, o.account})
TokenUnfreezeValidator(o)  == Missing({o.token, o.account})
TokenGrantKycValidator(o)  == Missing({o.token, o.account})
TokenRevokeKycValidator(o) == Missing({o.token, o.account})

TokenFrozen(o)     == MarkTx("TokenFreeze", o)
TokenUnfrozen(o)   == MarkTx("TokenUnfreeze", o)
TokenKycGranted(o) == MarkTx("TokenGrantKyc", o)
TokenKycRevoked(o) == MarkTx("TokenRevokeKyc", o)

(* A pause is of the token: it names no account, the mark is its treasury's.*)
TokenPauseValidator(o)   == Missing({o.token})
TokenUnpauseValidator(o) == Missing({o.token})
TokenPaused(o)   == MarkTx("TokenPause", [account |-> Treasury, token |-> o.token])
TokenUnpaused(o) == MarkTx("TokenUnpause", [account |-> Treasury, token |-> o.token])
-----------------------------------------------------------------------------
(* Allowances, approved one by one in the order of the lists.  Of amounts  *)
(* of hbar only numbers are tested for their sign.                         *)

BadParties(e) == Missing({e.owner, e.spender})

ApproveAllowanceValidator(o) ==
    \/ Empty(o.hbars) /\ Empty(o.units) /\ Empty(o.nfts)
    \/ \E i \in DOMAIN o.hbars : \/ BadParties(o.hbars[i]) \/ o.hbars[i].amount = Absent
                                 \/ ~o.hbars[i].instance /\ BadAmount(o.hbars[i].amount)
    \/ \E i \in DOMAIN o.units : \/ Missing({o.units[i].token, o.units[i].amount})
                                 \/ BadParties(o.units[i]) \/ BadAmount(o.units[i].amount)
    \/ \E i \in DOMAIN o.nfts : LET e == o.nfts[i] IN
          \/ Missing({e.token}) \/ BadParties(e)
          \/ Empty(e.serials) = ~e.all
          \/ \E k \in DOMAIN Serials(e.serials) : e.serials[k] <= 0
          \/ e.delegate = ""

Grant(asset, e, amount) ==
    [nft |-> FALSE, key |-> <<asset, e.owner, e.spender>>, amount |-> amount]
GrantNft(serial, e, amount) ==
    [nft |-> TRUE, key |-> <<<<e.token, serial>>, e.owner, e.spender>>, amount |-> amount]

(* An NFT entry approves all serials (serial 0) or each that it lists.     *)
NftGrants(e) ==
    IF e.all THEN <<GrantNft(0, e, 1)>>
    ELSE [k \in DOMAIN Serials(e.serials) |-> GrantNft(e.serials[k], e, 1)]

ApproveAllowance(o) ==
    [type |-> "AccountAllowanceApprove",
     grants |-> [i \in DOMAIN o.hbars |-> Grant(Units(Hbar), o.hbars[i], o.hbars[i].amount)]
                \o [i \in DOMAIN o.units |->
                       Grant(Units(o.units[i].token), o.units[i], o.units[i].amount)]
                \o FlattenSeq([i \in DOMAIN o.nfts |-> NftGrants(o.nfts[i])])]

(* deleteHbarAllowance and deleteTokenAllowance approve an amount of zero. *)
Zeroed(list) == [i \in DOMAIN list |-> [list[i] EXCEPT !.amount = 0]]

DeleteAllowanceValidator(o) ==
    \/ Empty(o.nfts)
    \/ \E i \in DOMAIN o.nfts : LET e == o.nfts[i] IN
          \/ Missing({e.token, e.owner}) \/ Empty(e.serials)
          \/ \E k \in DOMAIN e.serials : e.serials[k] <= 0

DeleteAllowance(o) ==
    [type |-> "AccountAllowanceDelete",
     nfts |-> FlattenSeq([i \in DOMAIN o.nfts |-> LET e == o.nfts[i] IN
                 [k \in DOMAIN e.serials |-> <<<<e.token, e.serials[k]>>, e.owner>>]])]

DeleteAllNftAllowancesValidator(o) ==
    Empty(o.nfts) \/ \E i \in DOMAIN o.nfts : Missing({o.nfts[i].token}) \/ BadParties(o.nfts[i])

(* Faulty: owner and spender change places.                                *)
DeleteAllSwapped(o) ==
    [type |-> "AccountAllowanceApprove",
     grants |-> [i \in DOMAIN o.nfts |-> LET e == o.nfts[i] IN
                    [nft |-> TRUE, key |-> <<<<e.token, 0>>, e.spender, e.owner>>, amount |-> 0]]]

(* Deleting the approval for all serials is an approval of none of them.   *)
DeleteAllNftAllowances(o) ==
    [type |-> "AccountAllowanceApprove",
     grants |-> [i \in DOMAIN o.nfts |-> GrantNft(0, o.nfts[i], 0)]]
-----------------------------------------------------------------------------
(* History: after an approval each allowance it names is what its last     *)
(* entry says, after a deletion nothing.                                   *)
Entries(o) == Listed(o.hbars) \o Listed(o.units) \o Listed(o.nfts)

Keys(o, e) ==
    LET serials  == IF \/ e.token \notin Collections \/ o.call = "deleteAllNftAllowances"
                       \/ o.call = "approveNftAllowance" /\ e.all
                    THEN {0} ELSE ToSet(e.serials)
        spenders == IF o.call = "deleteNftAllowance" THEN Accounts ELSE {e.spender}
    IN ({e.token} \X serials) \X {e.owner} \X spenders

AmountOf(o, e) == IF o.call \notin {"approveHbarAllowance", "approveTokenAllowance",
                                    "approveNftAllowance"} THEN 0
                  ELSE IF e.token \in Collections THEN 1 ELSE e.amount

Approvals == {"approveHbarAllowance", "approveTokenAllowance", "approveNftAllowance",
              "deleteHbarAllowance", "deleteTokenAllowance", "deleteNftAllowance",
              "deleteAllNftAllowances"}

Renewed(o) ==
    LET E == Entries(o)
        About(g) == {i \in DOMAIN E : g \in Keys(o, E[i])}
        After(g) == IF About(g) = {} THEN granted[g]
                    ELSE AmountOf(o, E[CHOOSE i \in About(g) : \A j \in About(g) : j <= i])
        all == DOMAIN granted \cup UNION {Keys(o, E[i]) : i \in DOMAIN E}
    IN [g \in {g \in all : After(g) > 0} |-> After(g)]

(* The network makes something of a transaction, or nothing.               *)
Land(o, tx) ==
    \/ /\ ~Malformed(tx) /\ Succeeds(tx)
       /\ step' = Step("landed", o)
       /\ granted' = IF o.call \in Approvals THEN Renewed(o) ELSE granted
    \/ /\ step' = IF Malformed(tx) THEN Step("malformed", o) ELSE Idly("failed")
       /\ UNCHANGED <<net, granted>>

Call == calls < MaxCalls /\ calls' = calls + 1

Refuse == /\ step' = Idly("refused")
          /\ UNCHANGED <<net, scheduled, flow, granted>>

(* BaseOperation.run: validate, build, send.                               *)
run(o, refused, tx) ==
    /\ Call
    /\ IF refused THEN Refuse
       ELSE Land(o, tx) /\ UNCHANGED <<scheduled, flow>>

(* BaseOperation.scheduleRun: the same, but the network holds what was     *)
(* built until it has the signatures it needs.                             *)
scheduleRun(o, refused, tx) ==
    /\ Call
    /\ IF refused THEN Refuse
       ELSE
          /\ scheduled' = scheduled \cup {[ask |-> o, tx |-> tx]}
          /\ step' = IF Malformed(tx) THEN Step("malformed", o) ELSE Idly("scheduled")
          /\ UNCHANGED <<net, flow, granted>>

(* External: a scheduled transaction is signed at last, or expires.        *)
ExecuteScheduled == \E s \in scheduled :
    /\ Land(s.ask, s.tx)
    /\ scheduled' = scheduled \ {s}
    /\ UNCHANGED <<calls, flow>>

Now(o, call)   == o.call = call /\ ~o.later
Later(o, call) == o.call = call /\ o.later

transferHbar(o) == Now(o, "transferHbar") /\ run(o, TransferHbarValidator(o), TransferHbar(o))
scheduleTransferHbar(o) ==
    Later(o, "transferHbar") /\ scheduleRun(o, TransferHbarValidator(o), TransferHbar(o))
transferToken(o) == Now(o, "transferToken") /\ run(o, TransferTokenValidator(o), TransferToken(o))
scheduleTransferToken(o) ==
    Later(o, "transferToken") /\ scheduleRun(o, TransferTokenValidator(o), TransferToken(o))
transferNft(o) == Now(o, "transferNft") /\ run(o, TransferNftValidator(o), TransferNft(o))
scheduleTransferNft(o) ==
    Later(o, "transferNft") /\ scheduleRun(o, TransferNftValidator(o), TransferNft(o))

airdropFungibleToken(o) ==
    Now(o, "airdropFungibleToken") /\ run(o, TokenAirdropValidator(o), TokenAirdropFungible(o))
airdropNft(o) == Now(o, "airdropNft") /\ run(o, TokenAirdropNftValidator(o), TokenAirdropNft(o))
claimAirdrop(o) == Now(o, "claimAirdrop") /\ run(o, TokenClaimAirdropValidator(o), TokenClaim(o))
cancelAirdrop(o) == Now(o, "cancelAirdrop") /\ run(o, TokenCancelAirdropValidator(o), TokenCancel(o))

mintToken(o) == Now(o, "mintToken") /\ run(o, TokenMintValidator(o), TokenMinted(o))
scheduleMintToken(o) ==
    Later(o, "mintToken") /\ scheduleRun(o, TokenMintValidator(o), TokenMinted(o))
burnToken(o) == Now(o, "burnToken") /\ run(o, TokenBurnValidator(o), TokenBurned(o))
scheduleBurnToken(o) ==
    Later(o, "burnToken") /\ scheduleRun(o, TokenBurnValidator(o), TokenBurned(o))
wipeToken(o) == Now(o, "wipeToken") /\ run(o, TokenWipeValidator(o), TokenWiped(o))

associateToken(o) ==
    Now(o, "associateToken") /\ run(o, TokenAssociateValidator(o), TokenAssociated(o))
scheduleAssociateToken(o) ==
    Later(o, "associateToken") /\ scheduleRun(o, TokenAssociateValidator(o), TokenAssociated(o))
dissociateToken(o) ==
    Now(o, "dissociateToken") /\ run(o, TokenDissociateValidator(o), TokenDissociated(o))
scheduleDissociateToken(o) ==
    Later(o, "dissociateToken") /\ scheduleRun(o, TokenDissociateValidator(o), TokenDissociated(o))

freezeToken(o)    == Now(o, "freezeToken") /\ run(o, TokenFreezeValidator(o), TokenFrozen(o))
unfreezeToken(o)  == Now(o, "unfreezeToken") /\ run(o, TokenUnfreezeValidator(o), TokenUnfrozen(o))
grantKycToken(o)  == Now(o, "grantKycToken") /\ run(o, TokenGrantKycValidator(o), TokenKycGranted(o))
revokeKycToken(o) == Now(o, "revokeKycToken") /\ run(o, TokenRevokeKycValidator(o), TokenKycRevoked(o))
pauseToken(o)     == Now(o, "pauseToken") /\ run(o, TokenPauseValidator(o), TokenPaused(o))
unpauseToken(o)   == Now(o, "unpauseToken") /\ run(o, TokenUnpauseValidator(o), TokenUnpaused(o))

approveHbarAllowance(o) ==
    /\ Now(o, "approveHbarAllowance")
    /\ run(o, Empty(o.hbars) \/ ApproveAllowanceValidator(o), ApproveAllowance(o))
approveTokenAllowance(o) ==
    /\ Now(o, "approveTokenAllowance")
    /\ run(o, Empty(o.units) \/ ApproveAllowanceValidator(o), ApproveAllowance(o))
approveNftAllowance(o) ==
    /\ Now(o, "approveNftAllowance")
    /\ run(o, Empty(o.nfts) \/ ApproveAllowanceValidator(o), ApproveAllowance(o))
deleteHbarAllowance(o) ==
    /\ Now(o, "deleteHbarAllowance")
    /\ LET z == [o EXCEPT !.hbars = Zeroed(@)] IN
       run(o, Empty(o.hbars) \/ ApproveAllowanceValidator(z), ApproveAllowance(z))
deleteTokenAllowance(o) ==
    /\ Now(o, "deleteTokenAllowance")
    /\ LET z == [o EXCEPT !.units = Zeroed(@)] IN
       run(o, Empty(o.units) \/ ApproveAllowanceValidator(z), ApproveAllowance(z))
deleteNftAllowance(o) ==
    /\ Now(o, "deleteNftAllowance")
    /\ run(o, Empty(o.nfts) \/ DeleteAllowanceValidator(o), DeleteAllowance(o))
deleteAllNftAllowances(o) ==
    /\ Now(o, "deleteAllNftAllowances")
    /\ run(o, Empty(o.nfts) \/ DeleteAllNftAllowancesValidator(o), DeleteAllNftAllowances(o))

(* The flow's rejection; others may act before it dissociates.             *)
rejectTokensFlow(o) ==
    /\ Now(o, "rejectTokensFlow") /\ flow = NoOptions /\ Call
    /\ IF TokenRejectValidator(o) THEN Refuse
       ELSE
          /\ Land(o, RejectFirst(o))
          /\ flow' = IF step'.did = "landed" THEN o ELSE NoOptions
          /\ UNCHANGED scheduled

(* The dissociation of a rejection that landed; it fails while another     *)
(* serial is held, and the rejection stands.                               *)
DissociateRejected ==
    /\ flow # NoOptions
    /\ Land([flow EXCEPT !.call = "dissociateRejected"], RejectSecond(flow))
    /\ flow' = NoOptions
    /\ UNCHANGED <<calls, scheduled>>

Moving(o) == \/ transferHbar(o) \/ scheduleTransferHbar(o)
             \/ transferToken(o) \/ scheduleTransferToken(o)
             \/ transferNft(o) \/ scheduleTransferNft(o)
             \/ airdropFungibleToken(o) \/ airdropNft(o)
             \/ claimAirdrop(o) \/ cancelAirdrop(o)
Supplying(o) == \/ mintToken(o) \/ scheduleMintToken(o)
                \/ burnToken(o) \/ scheduleBurnToken(o)
                \/ wipeToken(o) \/ rejectTokensFlow(o)
Admitting(o) == \/ associateToken(o) \/ scheduleAssociateToken(o)
                \/ dissociateToken(o) \/ scheduleDissociateToken(o)
                \/ freezeToken(o) \/ unfreezeToken(o)
                \/ grantKycToken(o) \/ revokeKycToken(o)
                \/ pauseToken(o) \/ unpauseToken(o)
Approving(o) == \/ approveHbarAllowance(o) \/ approveTokenAllowance(o)
                \/ approveNftAllowance(o) \/ deleteHbarAllowance(o)
                \/ deleteTokenAllowance(o) \/ deleteNftAllowance(o)
                \/ deleteAllNftAllowances(o)

Next == \/ \E o \in Options : Moving(o) \/ Supplying(o) \/ Admitting(o) \/ Approving(o)
        \/ ExecuteScheduled \/ DissociateRejected

Spec == Init /\ [][Next]_vars
-----------------------------------------------------------------------------
(* Every holding, pending airdrop and allowance is about things that exist *)
(* and at most one serial of each; what is held for signatures can run.    *)
TypeOK ==
    /\ WellKept(bal, pending, marks, minted)
    /\ IsABag(allow) /\ BagToSet(allow) \subseteq Grantable
    /\ calls \in 0..MaxCalls /\ flow \in Options \cup {NoOptions}
    /\ \A s \in scheduled : s.ask \in Options /\ ~Malformed(s.tx)

(* The one fault that the validators let through: in a call that approves  *)
(* hbar an instance of Hbar that is negative, and nothing besides.         *)
NegativeHbar(o) ==
    /\ o.call = "approveHbarAllowance"
    /\ \E i \in DOMAIN o.hbars : o.hbars[i].instance /\ o.hbars[i].amount < 0
    /\ ~Malformed(ApproveAllowance([o EXCEPT !.hbars = Zeroed(@)]))

(* Validators: whatever the options, nothing is sent or scheduled that no  *)
(* network takes: a value left out, a quantity of neither or of both kinds,*)
(* a transfer to oneself or of nothing, a list of nothing, an amount below *)
(* zero; but for that negative Hbar.                                       *)
NothingMalformedSent == step.did = "malformed" => NegativeHbar(step.ask)

(* What the caller of o asked to move, said by his options alone: so much  *)
(* of an asset from one account to another, Absent being neither's.        *)
Flow(asset, from, to, amount) == [asset |-> asset, from |-> from, to |-> to, amount |-> amount]

RemovedFrom(o, holder) ==
    IF o.amount # Absent THEN <<Flow(Units(o.token), holder, Absent, o.amount)>>
    ELSE [i \in DOMAIN o.serials |-> Flow(<<o.token, o.serials[i]>>, holder, Absent, 1)]

AskedFlows(o) ==
    CASE o.call = "transferHbar"  -> <<Flow(<<Hbar, 0>>, o.sender, o.receiver, o.amount)>>
      [] o.call = "transferToken" -> <<Flow(<<o.token, 0>>, o.sender, o.receiver, o.amount)>>
      [] o.call = "transferNft"   -> <<Flow(<<o.token, o.serial>>, o.sender, o.receiver, 1)>>
      [] o.call = "airdropFungibleToken" ->
            [i \in DOMAIN o.airdrops |-> LET e == o.airdrops[i] IN
                Flow(<<e.token, 0>>, e.sender, e.receiver, e.amount)]
      [] o.call = "airdropNft" ->
            [i \in DOMAIN o.airdrops |-> LET e == o.airdrops[i] IN
                Flow(<<e.token, e.serial>>, e.sender, e.receiver, 1)]
      [] o.call = "claimAirdrop" ->
            [i \in DOMAIN o.ids |-> Flow(o.ids[i][1], o.ids[i][2], o.ids[i][3], pending[o.ids[i]])]
      [] o.call = "mintToken" ->
            IF o.amount # Absent THEN <<Flow(<<o.token, 0>>, Absent, Treasury, o.amount)>>
            ELSE [i \in 1..o.metadata |-> Flow(<<o.token, minted[o.token] + i>>, Absent, Treasury, 1)]
      [] o.call = "burnToken" -> RemovedFrom(o, Treasury)
      [] o.call = "wipeToken" -> RemovedFrom(o, o.account)
      [] o.call = "rejectTokensFlow" ->
            [i \in DOMAIN Listed(o.tokens) |-> LET x == <<o.tokens[i], 0>> IN
                Flow(x, o.owner, Treasury, Balance(x, o.owner))]
            \o [i \in DOMAIN Listed(o.nfts) |-> Flow(o.nfts[i], o.owner, Treasury, 1)]
      [] OTHER -> <<>>

(* An airdrop to an account that cannot hold the token yet waits for it.   *)
Waits(o, f) == o.call \in {"airdropFungibleToken", "airdropNft"} /\ ~Associated(f.to, f.asset[1])

(* Who was asked to be marked, and unmarked.                               *)
Both(account, tokens) == {"associated", "kyc"} \X {account} \X tokens
AskedOn(o) ==
    CASE o.call = "freezeToken"    -> {<<"frozen", o.account, o.token>>}
      [] o.call = "grantKycToken"  -> {<<"kyc", o.account, o.token>>}
      [] o.call = "pauseToken"     -> {<<"paused", Treasury, o.token>>}
      [] o.call = "associateToken" -> Both(o.account, {o.token})
      [] o.call = "claimAirdrop"   ->
            UNION {Both(o.ids[i][3], {o.ids[i][1][1]}) : i \in DOMAIN o.ids}
      [] OTHER -> {}
AskedOff(o) ==
    CASE o.call = "unfreezeToken"  -> {<<"frozen", o.account, o.token>>}
      [] o.call = "revokeKycToken" -> {<<"kyc", o.account, o.token>>}
      [] o.call = "unpauseToken"   -> {<<"paused", Treasury, o.token>>}
      [] o.call = "dissociateToken" ->
            {"associated", "kyc", "frozen"} \X {o.account} \X ToSet(o.tokens)
      [] o.call = "dissociateRejected" ->
            {"associated", "kyc", "frozen"} \X {o.owner}
               \X (ToSet(Listed(o.tokens)) \cup {n[1] : n \in ToSet(Listed(o.nfts))})
      [] OTHER -> {}

(* What so leaves one account, arrives at another, and is left pending.    *)
Leaves(o, f)  == IF Waits(o, f) \/ f.from = Absent THEN EmptyBag
                 ELSE Of(<<f.asset, f.from>>, f.amount)
Arrives(o, f) == IF Waits(o, f) \/ f.to = Absent THEN EmptyBag
                 ELSE Of(<<f.asset, f.to>>, f.amount)
Pends(o, f)   == IF Waits(o, f) THEN Of(<<f.asset, f.from, f.to>>, f.amount) ELSE EmptyBag
Settled(o)    == IF o.call \in {"claimAirdrop", "cancelAirdrop"} THEN ToSet(o.ids) ELSE {}

AskedFor(o) ==
    LET F == AskedFlows(o) IN
    /\ bal' = (bal (-) Total([i \in DOMAIN F |-> Leaves(o, F[i])]))
              (+) Total([i \in DOMAIN F |-> Arrives(o, F[i])])
    /\ pending' = [id \in DOMAIN pending \ Settled(o) |-> pending[id]]
                  (+) Total([i \in DOMAIN F |-> Pends(o, F[i])])
    /\ marks' = (marks \ AskedOff(o)) \cup AskedOn(o)

(* build: a transaction that lands, at once or when its schedule executes, *)
(* moves, leaves pending and marks exactly what its caller asked, however  *)
(* many others came in between; any other step moves and marks nothing.    *)
EffectAsAsked == [][IF step'.did = "landed" THEN AskedFor(step'.ask)
                    ELSE UNCHANGED net]_vars

(* Approve and delete operations: nobody can spend more than the owner last*)
(* approved, and nothing once that approval was deleted, whichever call    *)
(* approved it and whichever deleted it.                                   *)
SpendersWereApproved == allow \sqsubseteq granted
=============================================================================
