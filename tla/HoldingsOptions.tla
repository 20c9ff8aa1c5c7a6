--------------------------- MODULE HoldingsOptions ---------------------------
(***************************************************************************)
(* What the calls of Holdings may be given: the options of each, as        *)
(* packages/core/src/services/account and token declare them, but for what *)
(* all transactions share and the keys that sign.  The declarations bind   *)
(* nobody at run time, which is what the validators are for: anything may  *)
(* be left out, null or blank, and any number is a number.                 *)
(***************************************************************************)
EXTENDS TokenNetwork

Maybe(S)  == S \cup {Absent}
Account   == Maybe(Accounts)
Token     == Maybe(Tokens)
ListOf(S) == Maybe(Seq(Maybe(S)))

TransferHbarOptions ==
    [call : STRING, later : BOOLEAN, sender : Account, receiver : Account, amount : Maybe(Int)]
TransferTokenOptions ==
    [call : STRING, later : BOOLEAN, token : Token, sender : Account, receiver : Account,
     amount : Maybe(Int), decimals : Maybe(Int)]
TransferNftOptions ==
    [call : STRING, later : BOOLEAN, token : Token, serial : Maybe(Int),
     sender : Account, receiver : Account]

(* Entries of lists; an entry itself is an object, whatever it lacks.      *)
TokenAirdropEntry == [token : Token, sender : Account, receiver : Account,
                      amount : Maybe(Int), decimals : Maybe(Int)]
NftAirdropEntry   == [token : Token, serial : Maybe(Int), sender : Account, receiver : Account]
TokenAirdropOptions ==
    [call : STRING, later : BOOLEAN, airdrops : Maybe(Seq(TokenAirdropEntry))]
TokenAirdropNftOptions ==
    [call : STRING, later : BOOLEAN, airdrops : Maybe(Seq(NftAirdropEntry))]
TokenClaimAirdropOptions ==
    [call : STRING, later : BOOLEAN, ids : ListOf(Assets \X Accounts \X Accounts)]

(* Metadata is the number of its entries.                                  *)
TokenMintOptions ==
    [call : STRING, later : BOOLEAN, token : Token, amount : Maybe(Int), metadata : Maybe(Nat)]
TokenBurnOptions ==
    [call : STRING, later : BOOLEAN, token : Token, amount : Maybe(Int), serials : ListOf(Int)]
TokenWipeOptions ==
    [call : STRING, later : BOOLEAN, token : Token, account : Account, amount : Maybe(Int),
     serials : ListOf(Int)]
TokenRejectOptions ==
    [call : STRING, later : BOOLEAN, owner : Account, tokens : ListOf(Tokens),
     nfts : ListOf(Tokens \X Int)]

TokenAssociateOptions == [call : STRING, later : BOOLEAN, account : Account, token : Token]
TokenDissociateOptions ==
    [call : STRING, later : BOOLEAN, account : Account, tokens : ListOf(Tokens)]
TokenPauseOptions == [call : STRING, later : BOOLEAN, token : Token]

(* One shape of entry for the three kinds of allowance, of which one of    *)
(* hbar names no token, and lists of the other kinds that are empty.  An   *)
(* amount of hbar is a number, or an instance of the SDK's Hbar.           *)
AllowanceEntry ==
    [token : Maybe(Tokens \cup {Hbar}), owner : Account, spender : Account,
     amount : Maybe(Int), instance : BOOLEAN,
     serials : Maybe(Seq(Int)), all : BOOLEAN, delegate : Account \cup {""}]
HbarEntry == {e \in AllowanceEntry : e.token = Hbar}
Entered == Maybe(Seq(AllowanceEntry))
HbarAllowances ==
    [call : STRING, later : BOOLEAN, hbars : Maybe(Seq(HbarEntry)), units : {<<>>}, nfts : {<<>>}]
TokenAllowances ==
    [call : STRING, later : BOOLEAN, hbars : {<<>>}, units : Entered, nfts : {<<>>}]
NftAllowances ==
    [call : STRING, later : BOOLEAN, hbars : {<<>>}, units : {<<>>}, nfts : Entered]

OptionsOf ==
    [transferHbar |-> TransferHbarOptions, transferToken |-> TransferTokenOptions,
     transferNft |-> TransferNftOptions,
     airdropFungibleToken |-> TokenAirdropOptions, airdropNft |-> TokenAirdropNftOptions,
     claimAirdrop |-> TokenClaimAirdropOptions, cancelAirdrop |-> TokenClaimAirdropOptions,
     mintToken |-> TokenMintOptions, burnToken |-> TokenBurnOptions,
     wipeToken |-> TokenWipeOptions, rejectTokensFlow |-> TokenRejectOptions,
     associateToken |-> TokenAssociateOptions, dissociateToken |-> TokenDissociateOptions,
     freezeToken |-> TokenAssociateOptions, unfreezeToken |-> TokenAssociateOptions,
     grantKycToken |-> TokenAssociateOptions, revokeKycToken |-> TokenAssociateOptions,
     pauseToken |-> TokenPauseOptions, unpauseToken |-> TokenPauseOptions,
     approveHbarAllowance |-> HbarAllowances, deleteHbarAllowance |-> HbarAllowances,
     approveTokenAllowance |-> TokenAllowances, deleteTokenAllowance |-> TokenAllowances,
     approveNftAllowance |-> NftAllowances, deleteNftAllowance |-> NftAllowances,
     deleteAllNftAllowances |-> NftAllowances]

(* What is left out is no value of any kind, and neither is it a list.     *)
ASSUME AbsentAssumption ==
    /\ Absent \notin Int /\ Absent # <<>> /\ Absent \notin Seq(AllowanceEntry)
    /\ Absent \notin Accounts /\ Absent \notin Tokens /\ Absent # Hbar
    /\ Treasury \in Accounts
=============================================================================
