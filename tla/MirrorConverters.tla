-------------------------- MODULE MirrorConverters --------------------------
(***************************************************************************)
(* packages/mirror/src/utils: LosslessJson, Units and MirrorNodeConverters *)
(* as they treat one field of a response body each.  A converter says how  *)
(* each public field is made from the wire field of its path; the digits   *)
(* are the business of modules LosslessJson and Units.                     *)
(*                                                                         *)
(* A value is what typeof says it is and the literal whose number or text  *)
(* it holds: "rounded" when the digits are gone.  Throws stands for a      *)
(* MirrorError of code MirrorNodeSchemaMismatch.  Fields that are derived  *)
(* from others (paused, successful, a transaction's type, the decoded      *)
(* metadata and memo) are left out.                                        *)
(***************************************************************************)
EXTENDS Naturals, MirrorPublicTypes

Value(js, of) == [js |-> js, of |-> of]
Undef  == Value("undefined", "absent")
Throws == Value("throws", "none")
None(v) == v.js \in {"undefined", "null"}

(* JSON.parse rounds what it reads as a number; integers of QUOTE_DIGITS   *)
(* digits and more it never gets to see, they are strings by then.         *)
quoteLargeIntegers(literal) == literal \in {"safe", "large"}
parseLossless(literal) ==
    IF quoteLargeIntegers(literal) THEN Value("string", literal)
    ELSE Value(IF literal \in {"safe", "large"} THEN "number" ELSE JsOf(literal),
               IF literal \in {"large", "exponent"} THEN "rounded" ELSE literal)

isSafeInteger(v) == v.js = "number" /\ v.of \in {"small", "safe", "quoted"}
isDigits(v) == v.js = "string" /\ v.of \in {"small", "safe", "large", "quoted"}
assertAmountArms(v) == isDigits(v) \/ isSafeInteger(v)

amountString(v) == IF None(v) THEN v
                   ELSE IF ~assertAmountArms(v) THEN Throws ELSE Value("string", v.of)

Narrowed(v) == Value("number", IF v.of = "large" THEN "rounded" ELSE v.of)
(* Faulty: what no double holds is narrowed all the same.                  *)
amountNumberUnchecked(v) ==
    IF None(v) THEN v ELSE IF ~assertAmountArms(v) THEN Throws ELSE Narrowed(v)
amountNumber(v) == IF None(v) THEN v
                   ELSE IF ~assertAmountArms(v) \/ ~isSafeInteger(Narrowed(v)) THEN Throws
                   ELSE Narrowed(v)

(* Nanoseconds, quoted by the parse or not, become a timestamp of the same *)
(* digits.                                                                 *)
normalizeTokenExpiry(v) ==
    IF None(v) THEN Undef
    ELSE IF v.js = "number" /\ ~isSafeInteger(v) THEN Throws ELSE Value("string", v.of)

convertKey(v) == IF None(v) THEN Undef ELSE v

(* `v ?? value', and decodeMemo: what is left out is not decoded.          *)
Or(v, value) == IF None(v) THEN value ELSE v

Convert(how, v) ==
    CASE how = "same" -> v
      [] how = "amountString" -> amountString(v)
      [] how = "amountNumber" -> amountNumber(v)
      [] how = "balanceOrZero" -> amountString(Or(v, Value("number", "small")))
      [] how = "convertKey" -> convertKey(v)
      [] how = "normalizeTokenExpiry" -> normalizeTokenExpiry(v)
      [] how = "String" -> Value("string", v.of)
      [] how = "parseInt" -> Value("number", v.of)
      [] how = "orUndefined" -> Or(v, Undef)
      [] how = "orNull"  -> Or(v, Value("null", "null"))
      [] how = "orFalse" -> Or(v, Value("boolean", "flag"))
      [] how = "orZero"  -> Or(v, Value("number", "small"))
      [] how = "orBlank" -> Or(v, Value("string", "text"))
      [] how = "orEmpty" -> Or(v, Value("array", "list"))
      [] how = "list"    -> Value("array", "list")
-----------------------------------------------------------------------------
To(how, names) == Fields(names, how)
Same(wire) == [f \in DOMAIN wire |-> "same"]
Amount(names) == To("amountString", names)
Gas(names) == To("amountNumber", names)

convertTokenBalances == Inside("balance", Nested("tokens", "orEmpty",
                                  Amount({"balance"}) ++ Same(MirrorTokenBalance)))

(* Faulty: the snapshot's timestamp is forgotten.                          *)
convertBalanceUntimed ==
    Inside("balance", To("balanceOrZero", {"balance"})) ++ convertTokenBalances
    ++ To("same", {"account"})
convertBalance ==
    Inside("balance", To("balanceOrZero", {"balance"}) ++ To("same", {"timestamp"}))
    ++ convertTokenBalances ++ To("same", {"account"})

convertAccountInfo ==
    convertBalance ++ To("convertKey", {"key"}) ++ To("orFalse", {"deleted"})
    ++ To("orUndefined", {"evm_address", "alias", "delegation_address", "auto_renew_period",
           "memo", "max_automatic_token_associations", "staked_account_id", "staked_node_id",
           "stake_period_start", "created_timestamp"})
    ++ Amount({"pending_reward"}) ++ Hide({"balance"}, Same(MirrorAccountResponse))

convertTokenHolder ==
    Amount({"balance"}) ++ To("orUndefined", {"decimals"}) ++ Same(MirrorTokenHolderBalance)

convertNetworkNode ==
    Amount({"stake", "min_stake", "max_stake", "stake_rewarded", "stake_not_rewarded",
            "reward_rate_start"})
    ++ To("convertKey", {"admin_key"}) ++ Same(MirrorNetworkNode)

convertAccountTokenBalance ==
    Amount({"balance"}) ++ To("orZero", {"decimals"})
    ++ To("orUndefined", {"automatic_association", "created_timestamp", "freeze_status",
                          "kyc_status"})
    ++ Same(MirrorAccountTokenBalance)

convertNft ==
    To("orUndefined", {"created_timestamp", "delegating_spender", "spender"}) ++ Same(MirrorNft)

convertTokenSummary == To("convertKey", {"admin_key"}) ++ Same(MirrorTokenListRow)

(* The fractions of fees leave the objects that held them.                 *)
Fraction == Inside("amount", Amount({"numerator", "denominator"}))

convertCustomFees ==
    Nested("custom_fees", "list",
        To("same", {"created_timestamp"})
        ++ Nested("fixed_fees", "orEmpty",
               Amount({"amount"}) ++ To("orFalse", {"all_collectors_are_exempt"})
               ++ To("orUndefined", {"denominating_token_id"}) ++ Same(MirrorFixedFeeRaw))
        ++ Nested("fractional_fees", "orEmpty",
               Fraction ++ Amount({"minimum", "maximum"})
               ++ To("orFalse", {"all_collectors_are_exempt"})
               ++ Hide({"amount"}, Same(MirrorFractionalFeeRaw)))
        ++ Nested("royalty_fees", "orEmpty",
               Fraction ++ To("orFalse", {"all_collectors_are_exempt"})
               ++ Nested("fallback_fee", "orUndefined",
                         Amount({"amount"}) ++ To("orUndefined", {"denominating_token_id"}))
               ++ Hide({"amount"}, Same(MirrorRoyaltyFeeRaw))))

convertTokenInfo ==
    convertCustomFees ++ To("parseInt", {"decimals"})
    ++ To("convertKey", {"admin_key", "supply_key", "freeze_key", "wipe_key", "kyc_key",
                         "pause_key", "fee_schedule_key", "metadata_key"})
    ++ To("normalizeTokenExpiry", {"expiry_timestamp"})
    ++ Outside("custom_fees", Same(MirrorTokenResponse))

convertTopicMessage == To("String", {"sequence_number"}) ++ Same(MirrorTopicMessageRaw)

convertTransfer == Amount({"amount"}) ++ Same(MirrorTransfer)
convertTokenTransfer == Amount({"amount"}) ++ Same(MirrorTokenTransfer)
convertNftTransfer == Same(MirrorNftTransfer)
convertStakingRewardTransfer == Amount({"amount"}) ++ Same(MirrorStakingRewardTransfer)

convertTransactionInfo ==
    To("orBlank", {"name"}) ++ Amount({"charged_tx_fee"}) ++ To("orUndefined", {"memo_base64"})
    ++ Nested("transfers", "orEmpty", convertTransfer)
    ++ Nested("token_transfers", "orEmpty", convertTokenTransfer)
    ++ Nested("nft_transfers", "orEmpty", convertNftTransfer)
    ++ Nested("staking_reward_transfers", "orEmpty", convertStakingRewardTransfer)
    ++ Nested("max_custom_fees", "same", Amount({"amount"}) ++ Same(MirrorCustomFeeLimit))
    ++ Nested("assessed_custom_fees", "same",
              Amount({"amount"}) ++ To("orEmpty", {"effective_payer_account_ids"})
              ++ Same(MirrorAssessedCustomFee))
    ++ Same(MirrorTransaction)

convertExchangeRate == To("String", {"expiration_time"}) ++ Same(MirrorExchangeRate)

convertNetworkStake ==
    Amount({"max_stake_rewarded", "max_staking_reward_rate_per_hbar", "max_total_reward",
            "reserved_staking_rewards", "reward_balance_threshold", "stake_total",
            "staking_reward_rate", "staking_start_threshold",
            "unreserved_staking_reward_balance"})
    ++ Same(MirrorNetworkStakeResponse)

convertAccountBalanceSnapshot ==
    Amount({"balance"})
    ++ Nested("tokens", "orEmpty", Amount({"balance"}) ++ Same(MirrorTokenBalance))
    ++ Same(MirrorAccountBalanceSnapshot)

convertAirdrop == Amount({"amount"}) ++ Same(MirrorAirdrop)
convertCryptoAllowance == Amount({"amount", "amount_granted"}) ++ Same(MirrorCryptoAllowance)
convertTokenAllowance == convertCryptoAllowance ++ Same(MirrorTokenAllowance)
convertNftAllowance == Same(MirrorNftAllowance)

convertSchedule ==
    To("convertKey", {"admin_key"}) ++ To("orEmpty", {"signatures"}) ++ Same(MirrorScheduleResponse)

convertTopicInfo ==
    To("convertKey", {"admin_key", "fee_schedule_key", "submit_key"})
    ++ Inside("custom_fees", Inside("fixed_fees", Amount({"amount"})))
    ++ Hide({"custom_fees"}, Same(MirrorTopicResponse))

convertNetworkFees == To("orEmpty", {"fees"}) ++ Same(MirrorNetworkFeesResponse)
convertNftTransaction == Same(MirrorNftTransaction)
convertBlock == Gas({"gas_used"}) ++ Same(MirrorBlock)
convertHook == To("convertKey", {"admin_key"}) ++ Amount({"hook_id"}) ++ Same(MirrorHook)
convertHookStorageSlot == Same(MirrorHookStorageSlot)

convertRegisteredNode ==
    To("convertKey", {"admin_key"}) ++ To("orEmpty", {"service_endpoints"})
    ++ Same(MirrorRegisteredNode)

convertContract ==
    To("convertKey", {"admin_key"}) ++ To("orNull", {"proxy_account_id"}) ++ Same(MirrorContractRaw)
convertContractDetail == convertContract ++ Same(MirrorContractResponse)

convertContractResult ==
    Nested("access_list", "same", To("orEmpty", {"storage_keys"}) ++ Same(MirrorAccessListEntry))
    ++ Nested("authorization_list", "same", Amount({"nonce"}) ++ Same(MirrorAuthorizationListEntry))
    ++ Amount({"amount"}) ++ Gas({"block_gas_used", "gas_consumed", "gas_limit", "gas_used"})
    ++ To("orUndefined", {"failed_initcode"}) ++ Same(MirrorContractResult)

convertContractLogEntry == To("orEmpty", {"topics"}) ++ Same(MirrorContractResultLog)

convertContractResultDetails ==
    Nested("logs", "orEmpty", convertContractLogEntry)
    ++ Nested("state_changes", "orEmpty", Same(MirrorContractStateChange))
    ++ convertContractResult

convertContractLog == convertContractLogEntry ++ Same(MirrorContractLog)
convertContractState == Same(MirrorContractState)
convertContractAction == Gas({"gas", "gas_used"}) ++ Amount({"value"}) ++ Same(MirrorContractAction)
convertStakingReward == Amount({"amount"}) ++ Same(MirrorStakingReward)

convertFeeEstimateComponent == To("orEmpty", {"extras"}) ++ Same(MirrorFeeEstimateComponent)
convertFeeEstimate ==
    Inside("node", convertFeeEstimateComponent) ++ Inside("service", convertFeeEstimateComponent)
    ++ Same(MirrorFeeEstimateResponse)

convertOpcodeTrace ==
    Gas({"gas"})
    ++ Nested("opcodes", "orEmpty", Gas({"gas"}) ++ Same(MirrorOpcode))
    ++ Same(MirrorOpcodesResponse)
-----------------------------------------------------------------------------
(* A field of a body; below what is null or left out there is nothing.     *)
Holders(f) == {SubSeq(f, 1, n) : n \in 1..(Len(f) - 1)}
At(body, f) == IF \E p \in Holders(f) : body[p] \in {"null", "absent"} THEN "absent" ELSE body[f]

(* The fields that a converted body has: those of the lists and objects    *)
(* that it has.                                                            *)
Converted(converter, body) ==
    LET Of(f) == Convert(converter[f], parseLossless(At(body, f)))
    IN [f \in {f \in DOMAIN converter :
                 \A p \in Holders(f) \cap DOMAIN converter : Of(p).js \in {"array", "object"}
                                                             /\ At(body, p) # "absent"}
          |-> Of(f)]
=============================================================================
