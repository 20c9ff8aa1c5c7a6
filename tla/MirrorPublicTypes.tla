------------------------- MODULE MirrorPublicTypes -------------------------
(***************************************************************************)
(* packages/mirror/src/types: what the client's callers are promised.      *)
(*                                                                         *)
(* An interface gives each field the results of typeof that it may have.   *)
(* A field goes by the path of the wire field that it is read from.  Each  *)
(* is stated against its wire type: its fields are of the same types, an   *)
(* amount being a string, but for those that it names.  A key is never     *)
(* null.                                                                   *)
(***************************************************************************)
EXTENDS MirrorWireTypes

JsOf(literal) ==
    CASE literal \in {"small", "fraction", "exponent"} -> "number"
      [] literal \in {"safe", "large", "quoted", "text", "words"} -> "string"
      [] literal = "flag"   -> "boolean"
      [] literal = "list"   -> "array"
      [] literal = "null"   -> "null"
      [] literal = "absent" -> "undefined"
      [] OTHER -> "object"

TypeOf(S) == IF "key" \in S THEN {IF x = "key" THEN "object" ELSE "undefined" : x \in S}
             ELSE IF MirrorAmount \subseteq S THEN {JsOf(x) : x \in S \ {"small"}}
             ELSE {JsOf(x) : x \in S}

AsWire(wire) == [f \in DOMAIN wire |-> TypeOf(wire[f])]

(* Some fields of P otherwise: never null, never left out, hidden, of T.   *)
Named(names) == {<<n>> : n \in names}
NeverNull(names, P) == [f \in DOMAIN P |-> IF f \in Named(names) THEN P[f] \ {"null"} ELSE P[f]]
Always(names, P) ==
    [f \in DOMAIN P |-> IF f \in Named(names) THEN P[f] \ {"null", "undefined"} ELSE P[f]]
Hide(names, P) == [f \in DOMAIN P \ Named(names) |-> P[f]]
Have(names, T, P) == [f \in DOMAIN P |-> IF f \in Named(names) THEN T ELSE P[f]]
Undefined(T) == T \cup {"undefined"}

(* What P has outside the objects of a name.                               *)
Outside(name, P) == [f \in {g \in DOMAIN P : g[1] # name} |-> P[f]]
-----------------------------------------------------------------------------
(* The interfaces that differ from their wire types.                       *)
TokenBalance == NeverNull({"decimals", "automatic_association", "created_timestamp",
                           "freeze_status", "kyc_status"}, AsWire(MirrorAccountTokenBalance))

Balance ==
    Fields({"account"}, {"string"})
    ++ Inside("balance", Fields({"balance"}, {"string"})
                         ++ Fields({"timestamp"}, {"string", "null", "undefined"})
                         ++ Nested("tokens", {"array"}, AsWire(MirrorTokenBalance)))

MirrorAccountInfo ==
    Balance ++ Always({"deleted"},
        NeverNull({"alias", "evm_address", "delegation_address", "memo", "staked_account_id",
                   "stake_period_start", "created_timestamp", "auto_renew_period",
                   "max_automatic_token_associations", "staked_node_id"},
                  Hide({"balance"}, AsWire(MirrorAccountResponse))))

TokenHolder == NeverNull({"decimals"}, AsWire(MirrorTokenHolderBalance))

AccountBalanceSnapshot == Always({"tokens"}, AsWire(MirrorAccountBalanceSnapshot))

Nft == NeverNull({"created_timestamp", "delegating_spender", "spender"}, AsWire(MirrorNft))

MirrorFixedFee ==
    Always({"all_collectors_are_exempt"},
           NeverNull({"denominating_token_id"}, AsWire(MirrorFixedFeeRaw)))

(* numerator and denominator leave the object that held them.              *)
FractionOf(P) == [f \in DOMAIN P |-> IF Len(f) = 2 /\ f[1] = "amount" THEN Undefined(P[f]) ELSE P[f]]

MirrorFractionalFee ==
    Always({"all_collectors_are_exempt"},
           FractionOf(Hide({"amount"}, AsWire(MirrorFractionalFeeRaw))))

MirrorRoyaltyFee ==
    Inside("fallback_fee", Fields({"denominating_token_id"}, {"string", "undefined"}))
    ++ Always({"all_collectors_are_exempt"},
              NeverNull({"fallback_fee"},
                        FractionOf(Hide({"amount"}, AsWire(MirrorRoyaltyFeeRaw)))))

MirrorTokenInfo ==
    Nested("custom_fees", {"array"},
           Fields({"created_timestamp"}, {"string", "undefined"})
           ++ Nested("fixed_fees", {"array"}, MirrorFixedFee)
           ++ Nested("fractional_fees", {"array"}, MirrorFractionalFee)
           ++ Nested("royalty_fees", {"array"}, MirrorRoyaltyFee))
    ++ Have({"decimals"}, {"number"},
            Have({"expiry_timestamp"}, {"string", "undefined"},
                 Outside("custom_fees", AsWire(MirrorTokenResponse))))

MirrorTopicMessage == Have({"sequence_number"}, {"string"}, AsWire(MirrorTopicMessageRaw))

MirrorTopicInfo ==
    Inside("custom_fees", Fields({"created_timestamp"}, {"string", "undefined"})
                          ++ Fields({"fixed_fees"}, {"array", "undefined"}))
    ++ Hide({"custom_fees"}, AsWire(MirrorTopicResponse))

TransactionInfo == Have({"batch_key"}, {"object", "null", "undefined"}, AsWire(MirrorTransaction))

ExchangeRates ==
    LET Rate == Have({"expiration_time"}, {"string"}, AsWire(MirrorExchangeRate)) IN
    Inside("current_rate", Rate) ++ Inside("next_rate", Rate) ++ AsWire(MirrorExchangeRatesResponse)

Block == Have({"gas_used"}, {"number", "null"}, AsWire(MirrorBlock))

MirrorContract == Have({"proxy_account_id"}, {"string", "null"}, AsWire(MirrorContractRaw))
MirrorContractDetail ==
    Have({"proxy_account_id"}, {"string", "null"}, AsWire(MirrorContractResponse))

ContractGas(P) == Have({"gas_limit"}, {"number"},
                       Have({"gas_used"}, {"number", "null"},
                            Have({"gas_consumed"}, {"number", "null", "undefined"},
                                 NeverNull({"failed_initcode"}, P))))

ContractResult == Have({"block_gas_used"}, {"number", "null", "undefined"},
                       ContractGas(AsWire(MirrorContractResult)))

ContractResultDetails ==
    Have({"block_gas_used"}, {"number", "null"},
         Always({"logs", "state_changes"}, ContractGas(AsWire(MirrorContractResultDetails))))

ContractAction == Have({"gas", "gas_used"}, {"number"}, AsWire(MirrorContractAction))

OpcodeTrace == Inside("opcodes", Fields({"gas"}, {"number"}))
               ++ Have({"gas"}, {"number"}, AsWire(MirrorOpcodesResponse))
-----------------------------------------------------------------------------
(* Those that do not.                                                      *)
StakingReward    == AsWire(MirrorStakingReward)
Hook             == AsWire(MirrorHook)
HookStorageSlot  == AsWire(MirrorHookStorageSlot)
Airdrop          == AsWire(MirrorAirdrop)
CryptoAllowance  == AsWire(MirrorCryptoAllowance)
TokenAllowance   == AsWire(MirrorTokenAllowance)
NftAllowance     == AsWire(MirrorNftAllowance)
NftTransaction   == AsWire(MirrorNftTransaction)
TokenSummary     == AsWire(MirrorTokenListRow)
MirrorSchedule   == AsWire(MirrorScheduleResponse)
NetworkNode      == AsWire(MirrorNetworkNode)
NetworkSupplies  == AsWire(MirrorNetworkSupplyResponse)
NetworkStake     == AsWire(MirrorNetworkStakeResponse)
NetworkFees      == AsWire(MirrorNetworkFeesResponse)
RegisteredNode   == AsWire(MirrorRegisteredNode)
FeeEstimate      == AsWire(MirrorFeeEstimateResponse)
ContractLog      == AsWire(MirrorContractLog)
ContractStateEntry == AsWire(MirrorContractState)
ContractCallResult == AsWire(MirrorContractCallResponse)
=============================================================================
