------------------------- MODULE MirrorRepositories -------------------------
(***************************************************************************)
(* packages/mirror/src/repositories: the read side that applications use.  *)
(* A repository gives each of its methods the endpoint that it asks.       *)
(***************************************************************************)
EXTENDS MirrorEndpoints

AccountRepository ==
    [findAccount |-> queryAccount, findByAccountId |-> queryAccount,
     findByAlias |-> queryAccount, findByEvmAddress |-> queryAccount,
     getBalance |-> queryAccountBalance, findTokens |-> queryAccountTokens,
     findRewards |-> queryStakingRewards, list |-> queryAccounts, listBalances |-> queryBalances,
     findPendingAirdrops |-> queryPendingAirdrops,
     findOutstandingAirdrops |-> queryOutstandingAirdrops,
     findCryptoAllowances |-> queryCryptoAllowances, findTokenAllowances |-> queryTokenAllowances,
     findNftAllowances |-> queryNftAllowances, findHooks |-> queryHooks,
     findHookStorage |-> queryHookStorage]

NftRepository ==
    [findByOwner |-> queryNftsByAccount, findByType |-> queryNftsByTokenId,
     findBySerial |-> queryNftsByTokenIdAndSerial, findTransactions |-> queryNftTransactions,
     findByOwnerAndType |-> queryNftsByAccountAndTokenId]

TokenRepository ==
    [findById |-> queryTokenById, list |-> queryTokens,
     findByAccountId |-> queryTokensByAccountId, findHolders |-> queryTokenBalances]

TopicRepository ==
    [findById |-> queryTopic, findByTopicId |-> queryTopicMessages,
     findByTopicIdAndSequenceNumber |-> queryTopicMessageBySequence,
     findMessageByTimestamp |-> queryTopicMessageByTimestamp]

TransactionRepository ==
    [find |-> queryTransactions, findByAccount |-> queryTransactionsByAccount,
     findById |-> queryTransactionRows, findAllById |-> queryTransactionRows]

NetworkRepository ==
    [findExchangeRates |-> queryExchangeRates, findNetworkSupplies |-> queryNetworkSupplies,
     findStakingRewards |-> queryNetworkStake, findNodes |-> queryNetworkNodes,
     findFees |-> queryNetworkFees, findRegisteredNodes |-> queryRegisteredNodes,
     estimateFees |-> queryFeeEstimate]

ScheduleRepository == [list |-> querySchedules, findById |-> querySchedule]
BlockRepository == [list |-> queryBlocks, findByHashOrNumber |-> queryBlock]

ContractRepository ==
    [list |-> queryContracts, findById |-> queryContract, findResults |-> queryContractResults,
     listResults |-> queryAllContractResults,
     findResultByTimestamp |-> queryContractResultByTimestamp, findResult |-> queryContractResult,
     findActions |-> queryContractActions, findOpcodes |-> queryContractOpcodes,
     findState |-> queryContractState, findLogs |-> queryContractLogs,
     listLogs |-> queryAllContractLogs, call |-> queryContractCall]

createMirrorRepositories ==
    [accountRepository |-> AccountRepository, nftRepository |-> NftRepository,
     tokenRepository |-> TokenRepository, topicRepository |-> TopicRepository,
     transactionRepository |-> TransactionRepository, networkRepository |-> NetworkRepository,
     scheduleRepository |-> ScheduleRepository, blockRepository |-> BlockRepository,
     contractRepository |-> ContractRepository]

(* What a method refuses before anything is sent, with ConfigInvalid.      *)
findByAlias(arguments) == arguments # <<"alias">>
findByEvmAddress(arguments) == arguments # <<"evmAddress">>
Refuses(method, arguments) ==
    \/ method = "findByAlias" /\ findByAlias(arguments)
    \/ method = "findByEvmAddress" /\ findByEvmAddress(arguments)
=============================================================================
