----------------------------- MODULE TokenCalls -----------------------------
(***************************************************************************)
(* packages/core/src/services/token: creating, updating and deleting a     *)
(* token, its NFTs' metadata and its fee schedule, and reading it back.    *)
(* What moves tokens about is the business of Holdings.                    *)
(***************************************************************************)
EXTENDS CallOptions

TokenCreateOptions ==
    [tokenName |-> "text", tokenSymbol |-> "text", decimals |-> "number",
     initialSupply |-> "number", treasuryAccountId |-> "id", adminKey |-> "key",
     kycKey |-> "key", freezeKey |-> "key", pauseKey |-> "key", wipeKey |-> "key",
     supplyKey |-> "key", feeScheduleKey |-> "key", freezeDefault |-> "flag",
     autoRenewAccountId |-> "id", expirationTime |-> "time", autoRenewPeriod |-> "number",
     tokenMemo |-> "text", customFees |-> "list", tokenType |-> "tokenType",
     supplyType |-> "supplyType", maxSupply |-> "number", metadataKey |-> "key",
     metadata |-> "bytes"]

(* TokenService has two calls to create a token; each fills in what a      *)
(* token of its kind has, and a limit means that the supply is finite.     *)
CreateFungibleTokenOptions == Without(TokenCreateOptions, {"tokenType"})
CreateNftOptions == Without(TokenCreateOptions, {"tokenType", "decimals", "initialSupply"})

resolveSupplyType(o) ==
    IF Given(o, "supplyType") THEN o.supplyType
    ELSE IF Given(o, "maxSupply") THEN "Finite" ELSE "undefined"
buildFungibleOperationOptions(o) ==
    Over([tokenType |-> "FungibleCommon", supplyType |-> resolveSupplyType(o)], o)
buildNftOperationOptions(o) ==
    Over([tokenType |-> "NonFungibleUnique", decimals |-> "0", initialSupply |-> "0",
          supplyType |-> resolveSupplyType(o)], o)

BadName(o, n) == Blank(o, n) \/ TooLong(o, n)

TokenCreateValidator(o) ==
    \/ \E n \in {"tokenName", "tokenSymbol"} : Missing(o, n) \/ BadName(o, n)
    \/ NoId(o, "treasuryAccountId")
    \/ \E n \in {"decimals", "initialSupply", "maxSupply"} : Val(o, n) = "-1"
    \/ TooLong(o, "tokenMemo")
    \/ Val(o, "supplyType") = "Finite" /\ (Missing(o, "maxSupply") \/ NotPositive(o, "maxSupply"))
    \/ /\ Val(o, "tokenType") = "NonFungibleUnique"
       /\ \/ Missing(o, "supplyKey")
          \/ \E n \in {"decimals", "initialSupply"} : Given(o, n) /\ o[n] # "0"

TokenCreate(o) ==
    Over(IF Val(o, "customFees") = "empty" THEN NoFields ELSE Keep(o, {"customFees"}),
         Keep(o, {"tokenName", "tokenSymbol", "treasuryAccountId", "tokenType", "decimals",
                  "initialSupply", "adminKey", "kycKey", "freezeKey", "pauseKey", "wipeKey",
                  "supplyKey", "feeScheduleKey", "freezeDefault", "autoRenewAccountId",
                  "expirationTime", "autoRenewPeriod", "tokenMemo", "supplyType",
                  "maxSupply", "metadataKey", "metadata"}))
-----------------------------------------------------------------------------
TokenUpdateOptions ==
    [tokenId |-> "id", tokenName |-> "text", tokenSymbol |-> "text",
     treasuryAccountId |-> "id", adminKey |-> "key", kycKey |-> "key", freezeKey |-> "key",
     wipeKey |-> "key", supplyKey |-> "key", autoRenewAccountId |-> "id",
     expirationTime |-> "time", autoRenewPeriod |-> "number", tokenMemo |-> "text",
     feeScheduleKey |-> "key", pauseKey |-> "key", metadataKey |-> "key",
     metadata |-> "bytes", keyVerificationMode |-> "flag"]

TokenUpdateValidator(o) ==
    \/ NoId(o, "tokenId")
    \/ BadName(o, "tokenName") \/ BadName(o, "tokenSymbol")
    \/ TooLong(o, "tokenMemo")
    \/ BlankId(o, "treasuryAccountId") \/ BlankId(o, "autoRenewAccountId")

(* Faulty: the metadata key is forgotten.                                  *)
TokenUpdateForgetful(o) ==
    Keep(o, {"tokenId", "tokenName", "tokenSymbol", "treasuryAccountId", "adminKey", "kycKey",
             "freezeKey", "wipeKey", "supplyKey", "autoRenewAccountId", "expirationTime",
             "autoRenewPeriod", "tokenMemo", "feeScheduleKey", "pauseKey",
             "metadata", "keyVerificationMode"})
TokenUpdate(o) ==
    Keep(o, {"tokenId", "tokenName", "tokenSymbol", "treasuryAccountId", "adminKey", "kycKey",
             "freezeKey", "wipeKey", "supplyKey", "autoRenewAccountId", "expirationTime",
             "autoRenewPeriod", "tokenMemo", "feeScheduleKey", "pauseKey", "metadataKey",
             "metadata", "keyVerificationMode"})
-----------------------------------------------------------------------------
TokenUpdateNftsOptions == [tokenId |-> "id", serialNumbers |-> "serials", metadata |-> "bytes"]

TokenUpdateNftsValidator(o) ==
    \/ NoId(o, "tokenId")
    \/ Missing(o, "serialNumbers") \/ o.serialNumbers # "list"
    \/ Missing(o, "metadata") \/ o.metadata = "noBytes"

TokenUpdateNfts(o) == Keep(o, {"tokenId", "serialNumbers", "metadata"})

(* An empty list of fees is a request: it clears them.                     *)
TokenFeeScheduleUpdateOptions == [tokenId |-> "id", customFees |-> "list"]
TokenFeeScheduleUpdateValidator(o) == NoId(o, "tokenId") \/ Missing(o, "customFees")
TokenFeeScheduleUpdate(o) == Keep(o, {"tokenId", "customFees"})

TokenDeleteOptions == [tokenId |-> "id"]
TokenDeleteValidator(o) == NoId(o, "tokenId")
TokenDelete(o) == Keep(o, {"tokenId"})
-----------------------------------------------------------------------------
(* What getTokenInfo calls the fields of the token it found: its results   *)
(* by the names of the fields they come from.                              *)
TokenInfoResult ==
    Over([name |-> "tokenName", symbol |-> "tokenSymbol", totalSupply |-> "initialSupply",
          defaultFreezeStatus |-> "freezeDefault"],
         Same({"decimals", "treasuryAccountId", "adminKey", "kycKey", "freezeKey", "pauseKey",
               "wipeKey", "supplyKey", "feeScheduleKey", "metadataKey", "autoRenewAccountId",
               "autoRenewPeriod", "expirationTime", "tokenMemo", "customFees", "tokenType",
               "supplyType", "maxSupply", "metadata"}))

(* getNftInfo: the first answer of the network, if there is one.           *)
(* Faulty: that there is none is not noticed.                              *)
TokenNftInfoQueryBlind(found) ==
    Answer("ok", TRUE, With("accountId", IF found = <<>> THEN "undefined" ELSE "id"))
TokenNftInfoQuery(found) ==
    IF found = <<>> THEN Answer("NOT_FOUND", FALSE, NoFields)
    ELSE Answer("ok", TRUE, With("accountId", "id"))
=============================================================================
