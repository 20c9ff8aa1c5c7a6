----------------------------- MODULE AccountCalls -----------------------------
(***************************************************************************)
(* packages/core/src/services/account: what creating, updating and         *)
(* deleting an account may be given, what the validators refuse, and the   *)
(* transaction that build() makes of the rest.                             *)
(***************************************************************************)
EXTENDS CallOptions

CreateAccountOptions ==
    [publicKey |-> "keyText", keyType |-> "keyType", key |-> "key", alias |-> "alias",
     initialBalance |-> "hbar", receiverSignatureRequired |-> "flag", memo |-> "text",
     maxAutomaticTokenAssociations |-> "number", stakedAccountId |-> "id",
     stakedNodeId |-> "number", declineStakingReward |-> "flag",
     autoRenewPeriod |-> "number", hooks |-> "hooks"]

KeyTypeOf(o) == IF Given(o, "keyType") THEN o.keyType ELSE "ED25519"
TextAlias(o) == Val(o, "alias") \in {"evm", "notEvm"}

CreateAccountValidator(o) ==
    \/ Val(o, "keyType") = "RSA"
    \/ Both(o, "key", "publicKey") \/ Neither(o, "key", "publicKey")
    \/ Both(o, "key", "alias") /\ ~TextAlias(o)
    \/ Val(o, "alias") = "true" /\ KeyTypeOf(o) # "ECDSA"
    \/ Val(o, "alias") = "notEvm"
    \/ Val(o, "initialBalance") = "-1"
    \/ Staking(o)
    \/ TooLong(o, "memo")
    \/ validateHookCreations(o, "hooks")

(* The key, read as a key of its type, and the alias that goes with it.    *)
PublicKeyOf(o) == IF o.publicKey = KeyTypeOf(o) THEN o.publicKey ELSE "badKey"
AccountKey(o) ==
    IF Given(o, "key") THEN With("key", "key")
    ELSE Over(CASE Val(o, "alias") = "true"     -> With("alias", "ofTheKey")
                [] Val(o, "alias") = "otherKey" -> With("alias", "ofTheOtherKey")
                [] Val(o, "alias") = "badKey"   -> With("alias", "badKey")
                [] OTHER                        -> NoFields,
              With("key", PublicKeyOf(o)))

AccountCreate(o) ==
    Over(IF TextAlias(o) THEN With("alias", o.alias) ELSE NoFields,
    Over(AccountKey(o),
    Over(With("initialBalance", IF Given(o, "initialBalance") THEN o.initialBalance ELSE "0"),
         Keep(o, {"receiverSignatureRequired", "memo", "maxAutomaticTokenAssociations",
                  "stakedAccountId", "stakedNodeId", "autoRenewPeriod",
                  "declineStakingReward", "hooks"}))))

(* What the caller is told of the new account besides its ID.              *)
toAccount(o) ==
    Over(IF TextAlias(o) THEN With("evmAddress", o.alias)
         ELSE IF Given(o, "key") THEN NoFields
         ELSE CASE Val(o, "alias") = "true"     -> With("evmAddress", "ofTheKey")
                [] Val(o, "alias") = "otherKey" -> With("evmAddress", "ofTheOtherKey")
                [] OTHER                        -> NoFields,
         With("publicKey", IF Given(o, "key") THEN "key" ELSE PublicKeyOf(o)))
-----------------------------------------------------------------------------
UpdateAccountOptions ==
    [accountId |-> "id", key |-> "key", expirationTime |-> "time",
     receiverSignatureRequired |-> "flag", memo |-> "text",
     maxAutomaticTokenAssociations |-> "number", stakedAccountId |-> "id",
     stakedNodeId |-> "number", declineStakingReward |-> "flag",
     autoRenewPeriod |-> "number", hooksToCreate |-> "hooks", hooksToDelete |-> "hookIds"]

UpdateAccountValidator(o) ==
    \/ NoId(o, "accountId")
    \/ Given(o, "key") /\ Val(o, "additionalSigners") # "keys" /\ Val(o, "externalSigners") # "keys"
    \/ Val(o, "expirationTime") = "past"
    \/ Staking(o)
    \/ TooLong(o, "memo")
    \/ validateHookCreations(o, "hooksToCreate")
    \/ validateHookIds(o, "hooksToDelete")

AccountUpdate(o) ==
    Keep(o, {"accountId", "key", "expirationTime", "receiverSignatureRequired", "memo",
             "maxAutomaticTokenAssociations", "stakedAccountId", "stakedNodeId",
             "autoRenewPeriod", "declineStakingReward", "hooksToCreate", "hooksToDelete"})
-----------------------------------------------------------------------------
DeleteAccountOptions ==
    [accountId |-> "id", accountKey |-> "key", transferAccountId |-> "id"]

DeleteAccountValidator(o) == NoId(o, "accountId") \/ BlankId(o, "transferAccountId")
validateAccountKey(o) == Missing(o, "accountKey")

AccountDelete(o) ==
    Over(With("transferAccountId",
              IF Given(o, "transferAccountId") THEN o.transferAccountId ELSE "operator"),
         Keep(o, {"accountId"}))

AutoCreateEvmAccountOptions == [evmAddress |-> "evm", amount |-> "hbar"]

AutoCreateEvmAccountValidator(o) ==
    \/ Missing(o, "evmAddress") \/ o.evmAddress = "notEvm"
    \/ Missing(o, "amount") \/ NotPositive(o, "amount") \/ o.amount = "-1Hbar"

(* A transfer from the operator makes the account that it is sent to.      *)
AccountAutoCreate(o) == Over(With("alias", o.evmAddress), With("initialBalance", o.amount))
-----------------------------------------------------------------------------
(* Queries about accounts: what they ask, and what they answer.            *)

AccountBalanceQuery == [accountId |-> "id"]
TokenBalanceQuery == [accountId |-> "id", tokenId |-> "id"]
AccountRecordsQuery == [accountId |-> "id"]
parseAccountId(o) == Missing(o, "accountId") \/ o.accountId \in {"emptyId", "blankId", "badId"}

(* A signature is checked against a key, and never against a list of keys. *)
AccountSignatureQuery(key, valid) == key = "single" /\ valid
=============================================================================
