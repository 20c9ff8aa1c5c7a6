--------------------------- MODULE MirrorEndpoints ---------------------------
(***************************************************************************)
(* packages/mirror/src: the queries of types/query.ts, the assertions of   *)
(* MirrorNodeValidators and the endpoints of MirrorNodeClient.             *)
(*                                                                         *)
(* A query interface gives each option the values that it may have: one    *)
(* value, zero, a flag, a list of two, a range of two bounds, or nothing   *)
(* (an empty list, a range without a bound).  An endpoint has the name of  *)
(* the client's method that asks it and says                               *)
(*   query, keys   its options, and the parameter that each is sent as     *)
(*   path          the kinds of its path's arguments                       *)
(*   raw, convert, public     what is answered, and what becomes of it     *)
(*   asserts, page            what is asserted of a body that is no page   *)
(*   fixed         the options that an argument takes the place of         *)
(***************************************************************************)
EXTENDS MirrorConverters

One          == {"one"}
Number       == {"one", "zero"}
Bool         == {"true", "false"}
NumberFilter == Number \cup {"range", "nothing"}
TimestampFilter == {"one", "range", "nothing"}
BalanceFilter   == NumberFilter
EntityIdFilter  == {"one", "list", "range", "nothing"}

Options(names, values) == [o \in names |-> values]

PageQuery == Options({"limit"}, Number) ++ Options({"order"}, One)
AccountQuery ==
    Options({"timestamp"}, TimestampFilter) ++ Options({"includeTransactions"}, Bool)
NetworkSupplyQuery == Options({"timestamp"}, TimestampFilter)
AccountListQuery ==
    Options({"accountId"}, EntityIdFilter) ++ Options({"balance"}, BalanceFilter)
    ++ Options({"publicKey"}, One) ++ Options({"includeBalance"}, Bool) ++ PageQuery
TokenBalancesQuery ==
    Options({"accountBalance"}, BalanceFilter) ++ Options({"accountId"}, EntityIdFilter)
    ++ Options({"publicKey"}, One) ++ Options({"timestamp"}, TimestampFilter) ++ PageQuery
TokenQuery == Options({"timestamp"}, TimestampFilter)
TokensQuery ==
    Options({"accountId", "name", "publicKey", "type"}, One)
    ++ Options({"tokenId"}, EntityIdFilter) ++ PageQuery
AccountTokensQuery == Options({"tokenId"}, EntityIdFilter) ++ PageQuery
AccountNftsQuery ==
    Options({"tokenId"}, One) ++ Options({"serialNumber"}, NumberFilter)
    ++ Options({"spenderId"}, EntityIdFilter) ++ PageQuery
TokenNftsQuery ==
    Options({"accountId"}, One) ++ Options({"serialNumber"}, NumberFilter) ++ PageQuery
BalancesQuery ==
    Options({"accountId"}, EntityIdFilter) ++ Options({"balance"}, BalanceFilter)
    ++ Options({"publicKey"}, One) ++ Options({"timestamp"}, TimestampFilter) ++ PageQuery
AirdropsQuery ==
    Options({"senderId", "receiverId", "tokenId"}, EntityIdFilter)
    ++ Options({"serialNumber"}, NumberFilter) ++ PageQuery
AllowancesQuery == Options({"spenderId", "tokenId"}, EntityIdFilter) ++ PageQuery
NftAllowancesQuery ==
    Options({"accountId", "tokenId"}, EntityIdFilter) ++ Options({"owner"}, Bool) ++ PageQuery
SchedulesQuery == Options({"accountId", "scheduleId"}, EntityIdFilter) ++ PageQuery
NftTransactionsQuery == Options({"timestamp"}, TimestampFilter) ++ PageQuery
NetworkFeesQuery == Options({"timestamp"}, TimestampFilter) ++ Options({"order"}, One)
ExchangeRateQuery == Options({"timestamp"}, TimestampFilter)
NetworkNodesQuery == Options({"nodeId"}, NumberFilter) ++ Options({"fileId"}, One) ++ PageQuery
StakingRewardsQuery == Options({"timestamp"}, TimestampFilter) ++ PageQuery
FeeEstimateQuery == Options({"mode"}, One) ++ Options({"highVolumeThrottle"}, Number)
TransactionQuery ==
    Options({"accountId", "result", "transactionType", "type"}, One)
    ++ Options({"timestamp"}, TimestampFilter) ++ PageQuery
TransactionLookupQuery == Options({"nonce"}, Number) ++ Options({"scheduled"}, Bool)
TopicMessagesQuery ==
    Options({"sequenceNumber"}, NumberFilter) ++ Options({"timestamp"}, TimestampFilter) ++ PageQuery
BlocksQuery ==
    Options({"blockNumber"}, NumberFilter) ++ Options({"timestamp"}, TimestampFilter) ++ PageQuery
HooksQuery == Options({"hookId"}, NumberFilter) ++ PageQuery
HookStorageQuery == Options({"key"}, One) ++ Options({"timestamp"}, TimestampFilter) ++ PageQuery
RegisteredNodesQuery == Options({"registeredNodeId"}, NumberFilter) ++ Options({"type"}, One) ++ PageQuery
ContractsQuery == Options({"contractId"}, EntityIdFilter) ++ PageQuery
ContractQuery == Options({"timestamp"}, TimestampFilter)
ContractResultsQuery ==
    Options({"blockHash", "from"}, One) ++ Options({"blockNumber"}, NumberFilter)
    ++ Options({"internal"}, Bool) ++ Options({"timestamp"}, TimestampFilter)
    ++ Options({"transactionIndex"}, Number) ++ PageQuery
ContractResultQuery == Options({"nonce"}, Number)
ContractStateQuery == Options({"slot"}, One) ++ Options({"timestamp"}, TimestampFilter) ++ PageQuery
ContractLogsQuery ==
    Options({"index"}, NumberFilter) ++ Options({"timestamp"}, TimestampFilter)
    ++ Options({"topic0", "topic1", "topic2", "topic3", "transactionHash"}, One) ++ PageQuery
ContractActionsQuery == Options({"index"}, NumberFilter) ++ PageQuery
OpcodesQuery == Options({"stack", "memory", "storage"}, Bool)
NoQuery == Options({}, One)
-----------------------------------------------------------------------------
(* MirrorNodeValidators: the results of typeof that a field must have.     *)
(* "amount" is assertAmountField, "array" is Array.isArray.                *)
assertAccountResponse == Fields({"account"}, "string")
assertNftResponse == Fields({"token_id"}, "string") ++ Fields({"serial_number"}, "number")
assertTokenResponse == Fields({"token_id"}, "string")
assertTopicMessageResponse ==
    Fields({"topic_id"}, "string") ++ Fields({"sequence_number"}, "number")
assertTransactionResponse == Fields({"transaction_id"}, "string")
assertExchangeRatesResponse == Fields({"current_rate", "next_rate"}, "object")
assertNetworkSupplyResponse == Fields({"released_supply", "total_supply"}, "string")
assertNetworkStakeResponse == Fields({"max_stake_rewarded"}, "amount")
assertScheduleResponse == Fields({"schedule_id"}, "string")
assertTopicResponse == Fields({"topic_id"}, "string")
assertNetworkFeesResponse == Fields({"fees"}, "array")
assertBlockResponse == Fields({"hash"}, "string") ++ Fields({"number"}, "number")
assertContractResponse == Fields({"contract_id"}, "string")
assertContractResultResponse == Fields({"result"}, "string")
assertOpcodesResponse == Fields({"opcodes"}, "array")
assertContractCallResponse == Fields({"result"}, "string")
assertFeeEstimateResponse == Fields({"total"}, "number")

assertField(v, type) == IF type = "amount" THEN assertAmountArms(v) ELSE v.js = type
-----------------------------------------------------------------------------
(* MirrorNodeQuery.  A part of a query string is a parameter and the value *)
(* or the bound that it is given; zero and false are values.               *)
Parts(key, value) ==
    CASE value = "list"    -> {<<key, "first">>, <<key, "second">>}
      [] value = "range"   -> {<<key, "gte:">>, <<key, "lt:">>}
      [] value = "nothing" -> {}
      [] OTHER -> {<<key, value>>}

(* Faulty: what is falsy is left out.                                      *)
appendTruthyQuery(keys, options) ==
    UNION {Parts(keys[o], options[o]) :
             o \in {o \in DOMAIN options \cap DOMAIN keys : options[o] \notin {"zero", "false"}}}
appendQuery(keys, options) ==
    UNION {Parts(keys[o], options[o]) : o \in DOMAIN options \cap DOMAIN keys}

(* An argument of a path stays one segment.  The SDK's form of a           *)
(* transaction id, 0.0.2@1.3, becomes the node's, 0.0.2-1-3.               *)
segment(argument) == IF argument = "slashed" THEN "escaped" ELSE argument
transactionIdSegment(argument) == IF argument = "sdkId" THEN "dashed" ELSE segment(argument)

Arguments(kind) ==
    CASE kind = "transaction" -> {"plain", "sdkId", "slashed"}
      [] kind = "account"     -> {"accountId", "alias", "evmAddress", "slashed"}
      [] kind = "number"      -> {"plain"}
      [] OTHER                -> {"plain", "slashed"}
PathSegment(kind, argument) ==
    IF kind = "transaction" THEN transactionIdSegment(argument) ELSE segment(argument)
-----------------------------------------------------------------------------
(* MirrorNodeClient.  The parameter of an option, when it is not its name. *)
KeyOf ==
    [accountId |-> "account.id", tokenId |-> "token.id", spenderId |-> "spender.id",
     senderId |-> "sender.id", receiverId |-> "receiver.id", scheduleId |-> "schedule.id",
     nodeId |-> "node.id", fileId |-> "file.id", contractId |-> "contract.id",
     hookId |-> "hook.id", registeredNodeId |-> "registerednode.id",
     serialNumber |-> "serialnumber", sequenceNumber |-> "sequencenumber",
     balance |-> "account.balance", accountBalance |-> "account.balance",
     includeBalance |-> "balance", includeTransactions |-> "transactions",
     publicKey |-> "account.publickey", transactionType |-> "transactiontype",
     blockNumber |-> "block.number", blockHash |-> "block.hash",
     transactionIndex |-> "transaction.index", transactionHash |-> "transaction.hash",
     highVolumeThrottle |-> "high_volume_throttle"]
Keys(names) == [o \in names |-> IF o \in DOMAIN KeyOf THEN KeyOf[o] ELSE o]
PageKeys(names) == Keys(names \cup {"limit", "order"})

Listing(path, query, keys, raw, convert, public) ==
    [page |-> TRUE, path |-> path, query |-> query, keys |-> keys, raw |-> raw,
     convert |-> convert, public |-> public, asserts |-> Fields({}, "string"), fixed |-> {}]
Lookup(path, query, keys, raw, asserts, convert, public) ==
    [page |-> FALSE, path |-> path, query |-> query, keys |-> keys, raw |-> raw,
     convert |-> convert, public |-> public, asserts |-> asserts, fixed |-> {}]

NoPath == <<>>
ById == <<"id">>
ByTransaction == <<"transaction">>

queryAccount == Lookup(<<"account">>, AccountQuery, Keys({"timestamp", "includeTransactions"}),
    MirrorAccountResponse, assertAccountResponse, convertAccountInfo, MirrorAccountInfo)
queryAccountBalance == Lookup(ById, AccountQuery, Keys({"timestamp", "includeTransactions"}),
    MirrorAccountResponse, assertAccountResponse, convertBalance, Balance)
queryAccountTokens == Listing(ById, AccountTokensQuery, PageKeys({"tokenId"}),
    MirrorAccountTokenBalance, convertAccountTokenBalance, TokenBalance)
queryAccounts == Listing(NoPath, AccountListQuery,
    PageKeys({"balance", "accountId", "publicKey", "includeBalance"}),
    MirrorAccountResponse, convertAccountInfo, MirrorAccountInfo)
queryNftsByAccount == Listing(ById, AccountNftsQuery,
    PageKeys({"tokenId", "serialNumber", "spenderId"}), MirrorNft, convertNft, Nft)
queryNftsByTokenId == Listing(ById, TokenNftsQuery, PageKeys({"accountId", "serialNumber"}),
    MirrorNft, convertNft, Nft)
queryNftsByTokenIdAndSerial == Lookup(<<"id", "number">>, NoQuery, Keys({}),
    MirrorNft, assertNftResponse, convertNft, Nft)
queryTokenById == Lookup(ById, TokenQuery, Keys({"timestamp"}),
    MirrorTokenResponse, assertTokenResponse, convertTokenInfo, MirrorTokenInfo)
queryTokens == Listing(NoPath, TokensQuery,
    [publicKey |-> "publickey"] ++ PageKeys({"accountId", "name", "tokenId", "type"}),
    MirrorTokenListRow, convertTokenSummary, TokenSummary)
queryTokenBalances == Listing(ById, TokenBalancesQuery,
    PageKeys({"accountBalance", "accountId", "publicKey", "timestamp"}),
    MirrorTokenHolderBalance, convertTokenHolder, TokenHolder)
queryTopicMessages == Listing(ById, TopicMessagesQuery, PageKeys({"sequenceNumber", "timestamp"}),
    MirrorTopicMessageRaw, convertTopicMessage, MirrorTopicMessage)
queryTopicMessageBySequence == Lookup(<<"id", "number">>, NoQuery, Keys({}),
    MirrorTopicMessageRaw, assertTopicMessageResponse, convertTopicMessage, MirrorTopicMessage)
queryTopicMessageByTimestamp == Lookup(ById, NoQuery, Keys({}),
    MirrorTopicMessageRaw, assertTopicMessageResponse, convertTopicMessage, MirrorTopicMessage)
queryTransactions == Listing(NoPath, TransactionQuery,
    PageKeys({"accountId", "transactionType", "timestamp", "result", "type"}),
    MirrorTransaction, convertTransactionInfo, TransactionInfo)
(* queryTransaction: the first of these rows; none is NotFound.            *)
queryTransactionRows == Lookup(ByTransaction, TransactionLookupQuery, Keys({"nonce", "scheduled"}),
    MirrorTransaction, assertTransactionResponse, convertTransactionInfo, TransactionInfo)
queryExchangeRates == Lookup(NoPath, ExchangeRateQuery, Keys({"timestamp"}),
    MirrorExchangeRatesResponse, assertExchangeRatesResponse,
    Inside("current_rate", convertExchangeRate) ++ Inside("next_rate", convertExchangeRate)
    ++ Same(MirrorExchangeRatesResponse), ExchangeRates)
queryNetworkSupplies == Lookup(NoPath, NetworkSupplyQuery, Keys({"timestamp"}),
    MirrorNetworkSupplyResponse, assertNetworkSupplyResponse, Same(MirrorNetworkSupplyResponse),
    NetworkSupplies)
queryNetworkStake == Lookup(NoPath, NoQuery, Keys({}),
    MirrorNetworkStakeResponse, assertNetworkStakeResponse, convertNetworkStake, NetworkStake)
queryNetworkNodes == Listing(NoPath, NetworkNodesQuery, PageKeys({"nodeId", "fileId"}),
    MirrorNetworkNode, convertNetworkNode, NetworkNode)
queryStakingRewards == Listing(ById, StakingRewardsQuery, PageKeys({"timestamp"}),
    MirrorStakingReward, convertStakingReward, StakingReward)
queryFeeEstimate == Lookup(NoPath, FeeEstimateQuery, Keys({"mode", "highVolumeThrottle"}),
    MirrorFeeEstimateResponse, assertFeeEstimateResponse, convertFeeEstimate, FeeEstimate)
queryBalances == Listing(NoPath, BalancesQuery,
    PageKeys({"accountId", "balance", "publicKey", "timestamp"}),
    MirrorAccountBalanceSnapshot, convertAccountBalanceSnapshot, AccountBalanceSnapshot)
queryPendingAirdrops == Listing(ById, AirdropsQuery,
    PageKeys({"senderId", "serialNumber", "tokenId"}), MirrorAirdrop, convertAirdrop, Airdrop)
queryOutstandingAirdrops == Listing(ById, AirdropsQuery,
    PageKeys({"receiverId", "serialNumber", "tokenId"}), MirrorAirdrop, convertAirdrop, Airdrop)
queryCryptoAllowances == Listing(ById, AllowancesQuery, PageKeys({"spenderId"}),
    MirrorCryptoAllowance, convertCryptoAllowance, CryptoAllowance)
queryTokenAllowances == Listing(ById, AllowancesQuery, PageKeys({"spenderId", "tokenId"}),
    MirrorTokenAllowance, convertTokenAllowance, TokenAllowance)
queryNftAllowances == Listing(ById, NftAllowancesQuery, PageKeys({"accountId", "tokenId", "owner"}),
    MirrorNftAllowance, convertNftAllowance, NftAllowance)
querySchedules == Listing(NoPath, SchedulesQuery, PageKeys({"accountId", "scheduleId"}),
    MirrorScheduleResponse, convertSchedule, MirrorSchedule)
querySchedule == Lookup(ById, NoQuery, Keys({}),
    MirrorScheduleResponse, assertScheduleResponse, convertSchedule, MirrorSchedule)
queryTopic == Lookup(ById, NoQuery, Keys({}),
    MirrorTopicResponse, assertTopicResponse, convertTopicInfo, MirrorTopicInfo)
queryNetworkFees == Lookup(NoPath, NetworkFeesQuery, Keys({"timestamp", "order"}),
    MirrorNetworkFeesResponse, assertNetworkFeesResponse, convertNetworkFees, NetworkFees)
queryNftTransactions == Listing(<<"id", "number">>, NftTransactionsQuery, PageKeys({"timestamp"}),
    MirrorNftTransaction, convertNftTransaction, NftTransaction)
queryBlocks == Listing(NoPath, BlocksQuery, PageKeys({"blockNumber", "timestamp"}),
    MirrorBlock, convertBlock, Block)
queryBlock == Lookup(ById, NoQuery, Keys({}), MirrorBlock, assertBlockResponse, convertBlock, Block)
queryHooks == Listing(ById, HooksQuery, PageKeys({"hookId"}), MirrorHook, convertHook, Hook)
queryHookStorage == Listing(<<"id", "number">>, HookStorageQuery, PageKeys({"key", "timestamp"}),
    MirrorHookStorageSlot, convertHookStorageSlot, HookStorageSlot)
queryRegisteredNodes == Listing(NoPath, RegisteredNodesQuery, PageKeys({"registeredNodeId", "type"}),
    MirrorRegisteredNode, convertRegisteredNode, RegisteredNode)
queryContracts == Listing(NoPath, ContractsQuery, PageKeys({"contractId"}),
    MirrorContractRaw, convertContract, MirrorContract)
queryContract == Lookup(ById, ContractQuery, Keys({"timestamp"}),
    MirrorContractResponse, assertContractResponse, convertContractDetail, MirrorContractDetail)

contractResultsQueryParams ==
    PageKeys({"blockHash", "blockNumber", "from", "internal", "timestamp", "transactionIndex"})
contractLogsQueryParams ==
    PageKeys({"index", "timestamp", "topic0", "topic1", "topic2", "topic3"})

queryContractResults == Listing(ById, ContractResultsQuery, contractResultsQueryParams,
    MirrorContractResult, convertContractResult, ContractResult)
queryAllContractResults == Listing(NoPath, ContractResultsQuery, contractResultsQueryParams,
    MirrorContractResult, convertContractResult, ContractResult)
queryContractResultByTimestamp == Lookup(<<"id", "id">>, NoQuery, Keys({}),
    MirrorContractResultDetails, assertContractResultResponse, convertContractResultDetails,
    ContractResultDetails)
queryContractResult == Lookup(ByTransaction, ContractResultQuery, Keys({"nonce"}),
    MirrorContractResultDetails, assertContractResultResponse, convertContractResultDetails,
    ContractResultDetails)
queryContractActions == Listing(ByTransaction, ContractActionsQuery, PageKeys({"index"}),
    MirrorContractAction, convertContractAction, ContractAction)
queryContractOpcodes == Lookup(ByTransaction, OpcodesQuery, Keys({"stack", "memory", "storage"}),
    MirrorOpcodesResponse, assertOpcodesResponse, convertOpcodeTrace, OpcodeTrace)
queryContractState == Listing(ById, ContractStateQuery, PageKeys({"slot", "timestamp"}),
    MirrorContractState, convertContractState, ContractStateEntry)
queryContractLogs == Listing(ById, ContractLogsQuery, contractLogsQueryParams,
    MirrorContractLog, convertContractLog, ContractLog)
queryAllContractLogs == Listing(NoPath, ContractLogsQuery,
    Keys({"transactionHash"}) ++ contractLogsQueryParams,
    MirrorContractLog, convertContractLog, ContractLog)
queryContractCall == Lookup(NoPath, NoQuery, Keys({}),
    MirrorContractCallResponse, assertContractCallResponse, Same(MirrorContractCallResponse),
    ContractCallResult)
-----------------------------------------------------------------------------
(* An argument that becomes an option, over one of the same name.          *)
queryNftsByAccountAndTokenId == [queryNftsByAccount EXCEPT !.fixed = {"tokenId"}]
queryTokensByAccountId == [queryTokens EXCEPT !.fixed = {"accountId"}]
queryTransactionsByAccount == [queryTransactions EXCEPT !.fixed = {"accountId"}]

Given(endpoint, options) == [o \in endpoint.fixed |-> "argument"] ++ options
=============================================================================
