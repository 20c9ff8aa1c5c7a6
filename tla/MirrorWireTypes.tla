-------------------------- MODULE MirrorWireTypes --------------------------
(***************************************************************************)
(* packages/mirror/src/types/mirror-node.ts: the shape of every response   *)
(* body of the mirror node, as the wire declares it.                       *)
(*                                                                         *)
(* A field is the path of names that leads to it, <<"balance", "tokens">>; *)
(* a list stands for its elements, which are all alike.  A wire type gives *)
(* each field the literals that it admits:                                 *)
(*   small    an integer of fewer digits than QUOTE_DIGITS                 *)
(*   safe     one of QUOTE_DIGITS digits that a double holds exactly       *)
(*   large    one that no double holds exactly                             *)
(*   quoted   a string of digits that the node itself has quoted           *)
(*   text, flag, key, range, object, list, null, absent                    *)
(* and these are never admitted:                                           *)
(*   fraction, exponent    a number that is not written as an integer      *)
(*   words                 a string that is not what it ought to be        *)
(***************************************************************************)
EXTENDS Sequences

Literals == {"small", "safe", "large", "quoted", "text", "flag", "key", "range",
             "object", "list", "null", "absent", "fraction", "exponent", "words"}

Text   == {"text"}
Count  == {"small"}       \* a `number': a counter, or one that nobody chooses
Flag   == {"flag"}
Key    == {"key"}
Period == {"range"}
Object == {"object"}
List   == {"list"}
MirrorAmount == {"small", "safe", "large", "quoted"}

Nullable(S) == S \cup {"null"}
Optional(S) == S \cup {"absent"}
Maybe(S)    == S \cup {"null", "absent"}
MaybeKey    == Maybe(Key)

(* Two functions made one: where both have a value the first one's counts. *)
Over(f, g) == [x \in DOMAIN f \cup DOMAIN g |-> IF x \in DOMAIN f THEN f[x] ELSE g[x]]
f ++ g == Over(f, g)

Fields(names, S) == [f \in {<<n>> : n \in names} |-> S]
Inside(name, type) == [f \in {<<name>> \o g : g \in DOMAIN type} |-> type[Tail(f)]]
Nested(name, S, type) == Fields({name}, S) ++ Inside(name, type)
-----------------------------------------------------------------------------
(* Accounts and balances.                                                  *)
MirrorTokenBalance == Fields({"token_id"}, Text) ++ Fields({"balance"}, MirrorAmount)

MirrorAccountResponse ==
    Fields({"account"}, Text)
    ++ Fields({"alias", "evm_address", "delegation_address", "memo", "staked_account_id",
               "stake_period_start", "created_timestamp"}, Maybe(Text))
    ++ Fields({"key"}, Optional(Key))
    ++ Nested("balance", Optional(Object),
              Fields({"timestamp"}, Maybe(Text)) ++ Fields({"balance"}, MirrorAmount)
              ++ Nested("tokens", List, MirrorTokenBalance))
    ++ Fields({"deleted", "decline_reward"}, Optional(Flag))
    ++ Fields({"receiver_sig_required"}, Maybe(Flag))
    ++ Fields({"auto_renew_period", "max_automatic_token_associations", "staked_node_id",
               "ethereum_nonce"}, Maybe(Count))
    ++ Fields({"expiry_timestamp"}, Optional(Text))
    ++ Fields({"pending_reward"}, Optional(MirrorAmount))

MirrorTokenHolderBalance ==
    Fields({"account"}, Text) ++ Fields({"balance"}, MirrorAmount)
    ++ Fields({"decimals"}, Maybe(Count))

MirrorAccountTokenBalance ==
    MirrorTokenBalance
    ++ Fields({"decimals"}, Maybe(Count)) ++ Fields({"automatic_association"}, Maybe(Flag))
    ++ Fields({"created_timestamp", "freeze_status", "kyc_status"}, Maybe(Text))

MirrorAccountBalanceSnapshot ==
    Fields({"account"}, Text) ++ Fields({"balance"}, MirrorAmount)
    ++ Nested("tokens", Optional(List), MirrorTokenBalance)

MirrorStakingReward ==
    Fields({"account_id"}, Nullable(Text)) ++ Fields({"amount"}, MirrorAmount)
    ++ Fields({"timestamp"}, Text)

MirrorHook ==
    Fields({"admin_key"}, MaybeKey) ++ Fields({"extension_point", "type"}, Text)
    ++ Fields({"contract_id", "created_timestamp", "owner_id"}, Nullable(Text))
    ++ Fields({"deleted"}, Flag) ++ Fields({"hook_id"}, MirrorAmount)
    ++ Fields({"timestamp_range"}, Period)

MirrorHookStorageSlot ==
    Fields({"key", "timestamp"}, Text) ++ Fields({"value"}, Nullable(Text))
-----------------------------------------------------------------------------
(* Airdrops and allowances.                                                *)
MirrorAirdrop ==
    Fields({"amount"}, MirrorAmount) ++ Fields({"receiver_id", "sender_id", "token_id"}, Text)
    ++ Fields({"serial_number"}, Nullable(Count)) ++ Fields({"timestamp"}, Period)

MirrorCryptoAllowance ==
    Fields({"amount", "amount_granted"}, MirrorAmount) ++ Fields({"owner", "spender"}, Text)
    ++ Fields({"timestamp"}, Period)

MirrorTokenAllowance == MirrorCryptoAllowance ++ Fields({"token_id"}, Text)

MirrorNftAllowance ==
    Fields({"approved_for_all"}, Flag) ++ Fields({"owner", "spender", "token_id"}, Text)
    ++ Fields({"timestamp"}, Period)
-----------------------------------------------------------------------------
(* Tokens and NFTs.                                                        *)
MirrorNft ==
    Fields({"token_id", "metadata"}, Text) ++ Fields({"serial_number"}, Count)
    ++ Fields({"account_id"}, Nullable(Text)) ++ Fields({"deleted"}, Flag)
    ++ Fields({"created_timestamp", "modified_timestamp", "delegating_spender", "spender"},
              Maybe(Text))

MirrorNftTransaction ==
    Fields({"consensus_timestamp", "transaction_id", "type"}, Text)
    ++ Fields({"is_approval"}, Optional(Flag)) ++ Fields({"nonce"}, Optional(Count))
    ++ Fields({"receiver_account_id", "sender_account_id"}, Nullable(Text))

MirrorTokenListRow ==
    Fields({"admin_key"}, Nullable(Key)) ++ Fields({"decimals"}, Count)
    ++ Fields({"metadata"}, Optional(Text)) ++ Fields({"name", "symbol", "token_id", "type"}, Text)

FeeFraction == Fields({"numerator", "denominator"}, MirrorAmount)

MirrorFixedFeeRaw ==
    Fields({"amount"}, MirrorAmount) ++ Fields({"collector_account_id"}, Text)
    ++ Fields({"denominating_token_id"}, Maybe(Text))
    ++ Fields({"all_collectors_are_exempt"}, Optional(Flag))

MirrorFractionalFeeRaw ==
    Nested("amount", Optional(Object), FeeFraction)
    ++ Fields({"minimum"}, Optional(MirrorAmount)) ++ Fields({"maximum"}, Maybe(MirrorAmount))
    ++ Fields({"net_of_transfers", "all_collectors_are_exempt"}, Optional(Flag))
    ++ Fields({"collector_account_id"}, Text) ++ Fields({"denominating_token_id"}, Maybe(Text))

MirrorRoyaltyFeeRaw ==
    Nested("amount", Optional(Object), FeeFraction)
    ++ Nested("fallback_fee", Maybe(Object),
              Fields({"amount"}, MirrorAmount) ++ Fields({"denominating_token_id"}, Maybe(Text)))
    ++ Fields({"collector_account_id"}, Text)
    ++ Fields({"all_collectors_are_exempt"}, Optional(Flag))

MirrorTokenResponse ==
    Fields({"token_id", "name", "symbol", "type", "total_supply", "max_supply",
            "treasury_account_id"}, Text)
    ++ Fields({"decimals"}, {"quoted"}) ++ Fields({"deleted"}, Flag)
    ++ Fields({"admin_key", "supply_key", "freeze_key", "wipe_key", "kyc_key", "pause_key",
               "fee_schedule_key"}, Optional(Key))
    ++ Fields({"metadata_key"}, MaybeKey)
    ++ Fields({"pause_status", "created_timestamp", "memo", "initial_supply", "metadata",
               "modified_timestamp", "supply_type"}, Optional(Text))
    ++ Fields({"auto_renew_account"}, Maybe(Text)) ++ Fields({"auto_renew_period"}, Maybe(Count))
    ++ Fields({"freeze_default"}, Optional(Flag))
    ++ Fields({"expiry_timestamp"}, Maybe({"small", "safe", "large", "text"}))
    ++ Nested("custom_fees", Optional(Object),
              Fields({"created_timestamp"}, Optional(Text))
              ++ Nested("fixed_fees", Optional(List), MirrorFixedFeeRaw)
              ++ Nested("fractional_fees", Optional(List), MirrorFractionalFeeRaw)
              ++ Nested("royalty_fees", Optional(List), MirrorRoyaltyFeeRaw))
-----------------------------------------------------------------------------
(* Topics and schedules.                                                   *)
MirrorChunkInfo ==
    Fields({"number", "total"}, Count)
    ++ Nested("initial_transaction_id", Nullable(Object),
              Fields({"account_id"}, Nullable(Text)) ++ Fields({"nonce"}, Nullable(Count))
              ++ Fields({"scheduled"}, Nullable(Flag)) ++ Fields({"transaction_valid_start"}, Text))

MirrorTopicMessageRaw ==
    Fields({"topic_id", "message", "running_hash", "consensus_timestamp"}, Text)
    ++ Fields({"sequence_number"}, Count) ++ Fields({"running_hash_version"}, Optional(Count))
    ++ Fields({"payer_account_id"}, Optional(Text))
    ++ Nested("chunk_info", Maybe(Object), MirrorChunkInfo)

MirrorTopicResponse ==
    Fields({"admin_key", "fee_schedule_key", "submit_key"}, MaybeKey)
    ++ Fields({"auto_renew_account", "created_timestamp"}, Nullable(Text))
    ++ Fields({"auto_renew_period"}, Nullable(Count)) ++ Fields({"deleted"}, Nullable(Flag))
    ++ Fields({"memo", "topic_id"}, Text) ++ Fields({"timestamp"}, Optional(Period))
    ++ Fields({"fee_exempt_key_list"}, Optional(List))
    ++ Nested("custom_fees", Optional(Object),
              Fields({"created_timestamp"}, Optional(Text))
              ++ Nested("fixed_fees", Optional(List),
                        Fields({"amount"}, MirrorAmount) ++ Fields({"collector_account_id"}, Text)
                        ++ Fields({"denominating_token_id"}, Nullable(Text))))

MirrorScheduleSignature ==
    Fields({"consensus_timestamp", "public_key_prefix", "signature", "type"}, Text)

MirrorScheduleResponse ==
    Fields({"admin_key"}, MaybeKey) ++ Fields({"deleted", "wait_for_expiry"}, Flag)
    ++ Fields({"consensus_timestamp", "creator_account_id", "memo", "payer_account_id",
               "schedule_id", "transaction_body"}, Text)
    ++ Fields({"executed_timestamp", "expiration_time"}, Nullable(Text))
    ++ Nested("signatures", List, MirrorScheduleSignature)
-----------------------------------------------------------------------------
(* Transactions.                                                           *)
MirrorTransfer ==
    Fields({"account"}, Text) ++ Fields({"amount"}, MirrorAmount) ++ Fields({"is_approval"}, Flag)

MirrorTokenTransfer ==
    Fields({"token_id", "account"}, Text) ++ Fields({"amount"}, MirrorAmount)
    ++ Fields({"is_approval"}, Optional(Flag))

MirrorNftTransfer ==
    Fields({"token_id"}, Text) ++ Fields({"serial_number"}, Count)
    ++ Fields({"sender_account_id", "receiver_account_id"}, Nullable(Text))
    ++ Fields({"is_approval"}, Optional(Flag))

MirrorStakingRewardTransfer == Fields({"account"}, Text) ++ Fields({"amount"}, MirrorAmount)

MirrorCustomFeeLimit ==
    Fields({"account_id", "denominating_token_id"}, Nullable(Text))
    ++ Fields({"amount"}, MirrorAmount)

MirrorAssessedCustomFee ==
    Fields({"amount"}, MirrorAmount) ++ Fields({"effective_payer_account_ids"}, List)
    ++ Fields({"collector_account_id", "token_id"}, Nullable(Text))

MirrorTransaction ==
    Fields({"transaction_id", "name", "result", "consensus_timestamp", "valid_start_timestamp"},
           Text)
    ++ Fields({"charged_tx_fee"}, MirrorAmount)
    ++ Fields({"memo_base64", "max_fee", "transaction_hash"}, Optional(Text))
    ++ Nested("transfers", List, MirrorTransfer)
    ++ Nested("token_transfers", List, MirrorTokenTransfer)
    ++ Nested("nft_transfers", List, MirrorNftTransfer)
    ++ Nested("staking_reward_transfers", List, MirrorStakingRewardTransfer)
    ++ Nested("max_custom_fees", Optional(List), MirrorCustomFeeLimit)
    ++ Nested("assessed_custom_fees", Optional(List), MirrorAssessedCustomFee)
    ++ Fields({"batch_key"}, MaybeKey)
    ++ Fields({"bytes", "entity_id", "node", "parent_consensus_timestamp",
               "valid_duration_seconds"}, Maybe(Text))
    ++ Fields({"high_volume", "scheduled"}, Optional(Flag))
    ++ Fields({"high_volume_pricing_multiplier"}, Maybe(Count)) ++ Fields({"nonce"}, Optional(Count))
-----------------------------------------------------------------------------
(* The network.                                                            *)
MirrorServiceEndpoint ==
    Fields({"ip_address_v4", "domain_name"}, Optional(Text)) ++ Fields({"port"}, Optional(Count))

MirrorNetworkNode ==
    Fields({"node_id"}, Count) ++ Fields({"node_account_id", "description"}, Text)
    ++ Fields({"stake", "min_stake", "max_stake", "stake_rewarded", "stake_not_rewarded"},
              MirrorAmount)
    ++ Fields({"admin_key"}, MaybeKey) ++ Fields({"associated_registered_nodes"}, Optional(List))
    ++ Fields({"decline_reward"}, Maybe(Flag))
    ++ Fields({"file_id", "memo", "node_cert_hash", "public_key"}, Maybe(Text))
    ++ Nested("grpc_proxy_endpoint", Maybe(Object), MirrorServiceEndpoint)
    ++ Fields({"reward_rate_start"}, Maybe(MirrorAmount))
    ++ Nested("service_endpoints", Optional(List), MirrorServiceEndpoint)
    ++ Fields({"staking_period"}, Maybe(Period)) ++ Fields({"timestamp"}, Optional(Period))

MirrorExchangeRate ==
    Fields({"cent_equivalent", "hbar_equivalent", "expiration_time"}, Count)

MirrorExchangeRatesResponse ==
    Nested("current_rate", Object, MirrorExchangeRate)
    ++ Nested("next_rate", Object, MirrorExchangeRate) ++ Fields({"timestamp"}, Optional(Text))

MirrorNetworkSupplyResponse ==
    Fields({"released_supply", "total_supply"}, {"quoted"}) ++ Fields({"timestamp"}, Text)

MirrorNetworkStakeResponse ==
    Fields({"max_stake_rewarded", "max_staking_reward_rate_per_hbar", "max_total_reward",
            "reserved_staking_rewards", "reward_balance_threshold", "stake_total",
            "staking_reward_rate", "staking_start_threshold",
            "unreserved_staking_reward_balance"}, MirrorAmount)
    ++ Fields({"node_reward_fee_fraction", "staking_reward_fee_fraction"}, {"small", "fraction"})
    ++ Fields({"staking_period_duration", "staking_periods_stored"}, Count)
    ++ Fields({"staking_period"}, Nullable(Period))

MirrorNetworkFeesResponse ==
    Nested("fees", List, Fields({"gas"}, Count) ++ Fields({"transaction_type"}, Text))
    ++ Fields({"timestamp"}, Text)

MirrorRegisteredServiceEndpoint ==
    Nested("block_node", Maybe(Object), Fields({"endpoint_apis"}, Optional(List)))
    ++ Nested("general_service", Maybe(Object), Fields({"description"}, Optional(Text)))
    ++ Fields({"domain_name", "ip_address"}, Maybe(Text))
    ++ Fields({"mirror_node", "rpc_relay"}, Maybe(Object))
    ++ Fields({"port"}, Optional(Count)) ++ Fields({"requires_tls"}, Optional(Flag))
    ++ Fields({"type"}, Optional(Text))

MirrorRegisteredNode ==
    Fields({"admin_key"}, MaybeKey) ++ Fields({"created_timestamp", "description"}, Nullable(Text))
    ++ Fields({"registered_node_id"}, Count) ++ Fields({"timestamp"}, Period)
    ++ Nested("service_endpoints", List, MirrorRegisteredServiceEndpoint)

MirrorFeeEstimateComponent ==
    Fields({"base"}, Count)
    ++ Nested("extras", List,
              Fields({"charged", "count", "fee_per_unit", "included", "subtotal"}, Count)
              ++ Fields({"name"}, Text))

MirrorFeeEstimateResponse ==
    Fields({"high_volume_multiplier", "total"}, Count)
    ++ Nested("network", Object, Fields({"multiplier", "subtotal"}, Count))
    ++ Nested("node", Object, MirrorFeeEstimateComponent)
    ++ Nested("service", Object, MirrorFeeEstimateComponent)

MirrorBlock ==
    Fields({"count", "number"}, Count) ++ Fields({"gas_used"}, Nullable(MirrorAmount))
    ++ Fields({"hapi_version", "logs_bloom"}, Nullable(Text))
    ++ Fields({"hash", "name", "previous_hash"}, Text) ++ Fields({"size"}, Nullable(Count))
    ++ Fields({"timestamp"}, Period)
-----------------------------------------------------------------------------
(* Contracts.                                                              *)
MirrorContractRaw ==
    Fields({"admin_key"}, MaybeKey) ++ Fields({"contract_id", "evm_address", "memo"}, Text)
    ++ Fields({"auto_renew_account", "created_timestamp", "expiration_timestamp", "file_id",
               "obtainer_id"}, Nullable(Text))
    ++ Fields({"auto_renew_period", "max_automatic_token_associations", "nonce"}, Nullable(Count))
    ++ Fields({"deleted"}, Flag) ++ Fields({"permanent_removal"}, Nullable(Flag))
    ++ Fields({"proxy_account_id"}, Maybe(Text)) ++ Fields({"timestamp"}, Period)

MirrorContractResponse ==
    MirrorContractRaw ++ Fields({"bytecode", "runtime_bytecode"}, Nullable(Text))

MirrorAccessListEntry == Fields({"address"}, Text) ++ Fields({"storage_keys"}, List)

MirrorAuthorizationListEntry ==
    Fields({"address", "chain_id", "r", "s", "y_parity"}, Text) ++ Fields({"nonce"}, MirrorAmount)

(* Detail responses always carry these; list rows may not.                 *)
DetailTexts  == {"block_hash", "chain_id", "gas_price", "max_fee_per_gas",
                 "max_priority_fee_per_gas"}
DetailCounts == {"block_number", "nonce", "transaction_index", "type"}

MirrorContractResult ==
    Nested("access_list", Maybe(List), MirrorAccessListEntry)
    ++ Nested("authorization_list", Maybe(List), MirrorAuthorizationListEntry)
    ++ Fields({"address", "result", "status"}, Optional(Text))
    ++ Fields({"amount", "gas_used"}, Nullable(MirrorAmount)) ++ Fields({"gas_limit"}, MirrorAmount)
    ++ Fields({"block_gas_used", "gas_consumed"}, Maybe(MirrorAmount))
    ++ Fields(DetailTexts \cup {"bloom", "call_result", "error_message", "failed_initcode",
                                "function_parameters", "r", "s"}, Maybe(Text))
    ++ Fields(DetailCounts \cup {"v"}, Maybe(Count))
    ++ Fields({"created_contract_ids"}, Maybe(List))
    ++ Fields({"contract_id", "from", "to"}, Nullable(Text)) ++ Fields({"hash", "timestamp"}, Text)

MirrorContractResultLog ==
    Fields({"address"}, Text) ++ Fields({"bloom"}, Maybe(Text))
    ++ Fields({"contract_id", "data"}, Nullable(Text)) ++ Fields({"index"}, Count)
    ++ Fields({"topics"}, List)

MirrorContractStateChange ==
    Fields({"address", "slot", "value_read"}, Text)
    ++ Fields({"contract_id", "value_written"}, Nullable(Text))

MirrorContractResultDetails ==
    Fields({"block_gas_used"}, Nullable(MirrorAmount)) ++ Fields({"result", "status"}, Text)
    ++ Fields(DetailTexts, Nullable(Text)) ++ Fields(DetailCounts, Nullable(Count))
    ++ Nested("logs", Optional(List), MirrorContractResultLog)
    ++ Nested("state_changes", Optional(List), MirrorContractStateChange)
    ++ MirrorContractResult

MirrorContractLog ==
    Fields({"block_hash", "timestamp", "transaction_hash"}, Text)
    ++ Fields({"block_number"}, Count) ++ Fields({"root_contract_id"}, Maybe(Text))
    ++ Fields({"transaction_index"}, Nullable(Count)) ++ MirrorContractResultLog

MirrorContractState ==
    Fields({"address", "timestamp", "slot", "value"}, Text)
    ++ Fields({"contract_id"}, Nullable(Text))

MirrorContractAction ==
    Fields({"call_depth", "index"}, Count) ++ Fields({"gas", "gas_used", "value"}, MirrorAmount)
    ++ Fields({"call_operation_type", "call_type", "caller_type", "from", "result_data_type",
               "timestamp"}, Text)
    ++ Fields({"caller", "input", "recipient", "recipient_type", "result_data", "to"},
              Nullable(Text))

MirrorOpcode ==
    Fields({"depth", "gas_cost", "pc"}, Count) ++ Fields({"gas"}, MirrorAmount)
    ++ Fields({"memory", "stack"}, Nullable(List)) ++ Fields({"storage"}, Nullable(Object))
    ++ Fields({"op"}, Text) ++ Fields({"reason"}, Maybe(Text))

MirrorOpcodesResponse ==
    Fields({"address", "return_value"}, Text) ++ Fields({"contract_id"}, Nullable(Text))
    ++ Fields({"failed"}, Flag) ++ Fields({"gas"}, MirrorAmount)
    ++ Nested("opcodes", List, MirrorOpcode)

MirrorContractCallResponse == Fields({"result"}, Text)
=============================================================================
