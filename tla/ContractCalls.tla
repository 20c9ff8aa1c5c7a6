---------------------------- MODULE ContractCalls ----------------------------
(***************************************************************************)
(* packages/core/src/services/contract and network: what their calls may   *)
(* be given, what the validators refuse, and what is built of the rest.    *)
(***************************************************************************)
EXTENDS CallOptions

ContractFields == {"initialBalance", "adminKey", "constructorParameters", "contractMemo",
                   "autoRenewPeriod", "autoRenewAccountId", "stakedAccountId",
                   "stakedNodeId", "declineStakingReward", "maxAutomaticTokenAssociations"}

ContractCreateOptions ==
    [bytecodeFileId |-> "id", bytecode |-> "bytes", gas |-> "number",
     initialBalance |-> "amount", adminKey |-> "key",
     constructorParameters |-> "parameters", contractMemo |-> "text",
     autoRenewPeriod |-> "number", autoRenewAccountId |-> "id", stakedAccountId |-> "id",
     stakedNodeId |-> "number", declineStakingReward |-> "flag",
     maxAutomaticTokenAssociations |-> "count", hooks |-> "hooks"]

NoGas(o) == Missing(o, "gas") \/ NotPositive(o, "gas")

ContractCreateValidator(o) ==
    \/ Both(o, "bytecodeFileId", "bytecode") \/ Neither(o, "bytecodeFileId", "bytecode")
    \/ Val(o, "bytecode") = "noBytes"
    \/ NoGas(o)
    \/ Val(o, "initialBalance") \in {"-1", "-1Long", "bigint"}
    \/ TooLong(o, "contractMemo")
    \/ Staking(o)
    \/ validateHookCreations(o, "hooks")

ContractCreate(o) == Keep(o, ContractFields \cup {"gas", "bytecodeFileId", "bytecode", "hooks"})

ContractCreateFlowOptions ==
    [bytecode |-> "bytes", gas |-> "number", maxChunks |-> "count",
     initialBalance |-> "amount", adminKey |-> "key",
     constructorParameters |-> "parameters", contractMemo |-> "text",
     autoRenewPeriod |-> "number", autoRenewAccountId |-> "id", stakedAccountId |-> "id",
     stakedNodeId |-> "number", declineStakingReward |-> "flag",
     maxAutomaticTokenAssociations |-> "count"]

NegativeAmount(o, n) == NegativeOfAny(o, n) \/ Val(o, n) = "bigint"

ContractCreateFlowValidator(o) ==
    \/ Missing(o, "bytecode") \/ o.bytecode = "noBytes"
    \/ NoGas(o)
    \/ NegativeAmount(o, "initialBalance")
    \/ TooLong(o, "contractMemo")
    \/ Staking(o)
    \/ NotCounting(o, "maxChunks")

ContractCreateFlow(o) == Keep(o, ContractFields \cup {"bytecode", "gas", "maxChunks"})
-----------------------------------------------------------------------------
ContractUpdateOptions ==
    [contractId |-> "id", adminKey |-> "key", contractMemo |-> "text",
     autoRenewPeriod |-> "number", autoRenewAccountId |-> "id", expirationTime |-> "time",
     bytecodeFileId |-> "id", stakedAccountId |-> "id", stakedNodeId |-> "number",
     declineStakingReward |-> "flag", maxAutomaticTokenAssociations |-> "count",
     hooksToCreate |-> "hooks", hooksToDelete |-> "hookIds"]

ContractUpdateValidator(o) ==
    \/ NoId(o, "contractId")
    \/ TooLong(o, "contractMemo")
    \/ Staking(o)
    \/ Val(o, "maxAutomaticTokenAssociations") = "1.5"
    \/ validateHookCreations(o, "hooksToCreate")
    \/ validateHookIds(o, "hooksToDelete")

ContractUpdate(o) ==
    Keep(o, {"contractId", "adminKey", "contractMemo", "autoRenewPeriod", "autoRenewAccountId",
             "expirationTime", "bytecodeFileId", "stakedAccountId", "stakedNodeId",
             "declineStakingReward", "maxAutomaticTokenAssociations", "hooksToCreate",
             "hooksToDelete"})

ContractDeleteOptions ==
    [contractId |-> "id", transferAccountId |-> "id", transferContractId |-> "id"]

ContractDeleteValidator(o) ==
    \/ NoId(o, "contractId")
    \/ Both(o, "transferAccountId", "transferContractId")
    \/ Neither(o, "transferAccountId", "transferContractId")

ContractDelete(o) == Keep(o, {"contractId", "transferAccountId", "transferContractId"})
-----------------------------------------------------------------------------
ContractExecuteOptions ==
    [contractId |-> "id", gas |-> "number", functionName |-> "text",
     functionParameters |-> "parameters", rawFunctionParameters |-> "bytes",
     payableAmount |-> "amount", withFunctionResult |-> "flag"]

ContractExecuteValidator(o) ==
    \/ Missing(o, "contractId") \/ EmptyId(o, "contractId")
    \/ NoGas(o)
    \/ validateCallTarget(o)
    \/ Val(o, "rawFunctionParameters") = "noBytes"
    \/ NegativeAmount(o, "payableAmount")

(* A name and its parameters, or raw parameters.                           *)
CallData(o) == Keep(o, IF HasFunction(o) THEN {"functionName", "functionParameters"}
                       ELSE {"rawFunctionParameters"})

ContractExecute(o) == Over(CallData(o), Keep(o, {"contractId", "gas", "payableAmount"}))

EthereumOptions ==
    [ethereumData |-> "signed", callDataFileId |-> "id", maxGasAllowance |-> "hbar",
     withFunctionResult |-> "flag"]

EthereumValidator(o) ==
    \/ Missing(o, "ethereumData") \/ o.ethereumData \in {"unsignedData", "noBytes"}
    \/ Val(o, "callDataFileId") \in {"emptyId", "blankId", "badId"}
    \/ NegativeOfAny(o, "maxGasAllowance")

Ethereum(o) == Keep(o, {"ethereumData", "callDataFileId", "maxGasAllowance"})

HookStoreOptions ==
    [accountId |-> "id", contractId |-> "id", hookId |-> "count", storageUpdates |-> "updates"]

HookStoreValidator(o) ==
    \/ Both(o, "accountId", "contractId") \/ Neither(o, "accountId", "contractId")
    \/ BlankId(o, "accountId") \/ BlankId(o, "contractId")
    \/ Missing(o, "hookId") \/ validateHookId(o, "hookId")
    \/ Missing(o, "storageUpdates") \/ UpdateLists[o.storageUpdates] = <<>>
    \/ validateStorageUpdates(UpdateLists[o.storageUpdates])

HookStore(o) ==
    Over(Keep(o, IF Given(o, "accountId") THEN {"accountId"} ELSE {"contractId"}),
         Keep(o, {"hookId", "storageUpdates"}))

(* The function result that the record of a transaction carries, or null;  *)
(* a record that cannot be had is told as such, with the transaction's ID. *)
(* Faulty: it is told like a transaction that failed.                      *)
fetchFunctionResultLost(record) ==
    IF record = "unavailable" THEN Answer("SDK_ERROR", FALSE, NoFields)
    ELSE Answer("ok", TRUE, With("functionResult", record))
fetchFunctionResult(record) ==
    IF record = "unavailable" THEN Answer("RESULT_MAPPING_FAILED", TRUE, NoFields)
    ELSE Answer("ok", TRUE, With("functionResult", record))
-----------------------------------------------------------------------------
(* Calls that only read: on a consensus node, and free on a mirror node.   *)

ContractCallOptions ==
    [contractId |-> "id", gas |-> "number", functionName |-> "text",
     functionParameters |-> "parameters", rawFunctionParameters |-> "bytes",
     senderAccountId |-> "id", maxResultSize |-> "number"]

ContractCallQuery(o) ==
    Over(CallData(o), Keep(o, {"contractId", "gas", "senderAccountId", "maxResultSize"}))

MirrorNodeContractOptions ==
    [contractId |-> "id", functionName |-> "text", functionParameters |-> "parameters",
     rawFunctionParameters |-> "callData", sender |-> "id", senderEvmAddress |-> "evm",
     value |-> "count", gasLimit |-> "count", gasPrice |-> "count"]

MirrorContractCallValidator(o) ==
    \/ Missing(o, "contractId") \/ EmptyId(o, "contractId")
    \/ validateCallTarget(o)
    \/ Both(o, "sender", "senderEvmAddress") \/ Val(o, "senderEvmAddress") = "notEvm"
    \/ \E n \in {"value", "gasPrice"} : Val(o, n) \in {"-1", "1.5"}
    \/ NotCounting(o, "gasLimit")

CallDataTooBig(o) == ~HasFunction(o) /\ Val(o, "rawFunctionParameters") = "hugeBytes"
MirrorNodeContractQuery(o) ==
    Over(CallData(o),
         Keep(o, {"contractId", "sender", "senderEvmAddress", "value", "gasLimit", "gasPrice"}))
-----------------------------------------------------------------------------
PrngOptions == [range |-> "count"]
PrngValidator(o) == NotCounting(o, "range")
Prng(o) == Keep(o, {"range"})

(* What a batch may hold: frozen, batch-keyed transactions of other types. *)
Inner(type, frozen, keyed) == [type |-> type, frozen |-> frozen, keyed |-> keyed]
MaxInnerTransactions == 2   \* bound: 25 in the code
BatchLists ==
    [noTxs       |-> <<>>,
     txs         |-> <<Inner("other", TRUE, TRUE), Inner("other", TRUE, TRUE)>>,
     batchInside |-> <<Inner("other", TRUE, TRUE), Inner("batch", TRUE, TRUE)>>,
     unfrozen    |-> <<Inner("other", FALSE, TRUE)>>,
     unkeyed     |-> <<Inner("other", TRUE, FALSE)>>,
     tooMany     |-> [i \in 1..(MaxInnerTransactions + 1) |-> Inner("other", TRUE, TRUE)]]

BatchOptions == [transactions |-> "batch", batchKeys |-> "signers"]

BatchValidator(o) ==
    \/ Missing(o, "transactions")
    \/ LET txs == BatchLists[o.transactions]
       IN \/ Len(txs) \notin 1..MaxInnerTransactions
          \/ \E tx \in ToSet(txs) : tx.type \in {"batch", "freeze"} \/ ~tx.frozen \/ ~tx.keyed

Batch(o) == Keep(o, {"transactions"})
-----------------------------------------------------------------------------
(* Queries of the network service.                                         *)

TransactionReceiptOptions ==
    [transactionId |-> "txId", includeChildren |-> "flag", includeDuplicates |-> "flag"]

parseTransactionId(o) == Missing(o, "transactionId") \/ o.transactionId = "badTxId"
TransactionReceiptQuery(o) == Keep(o, DOMAIN TransactionReceiptOptions)

AddressBookOptions == [fileId |-> "bookFile", limit |-> "count"]
AddressBookRefused(o) == NotCounting(o, "limit") \/ Val(o, "fileId") = "0.0.5"
AddressBookQuery(o) ==
    Over(IF Given(o, "fileId") THEN NoFields ELSE With("fileId", "0.0.102"),
         Keep(o, {"fileId", "limit"}))

FeeEstimateOptions == [transaction |-> "frozen", mode |-> "feeMode", highVolumeThrottle |-> "count"]
FeeEstimateRefused(o) ==
    \/ Missing(o, "transaction") \/ o.transaction = "notFrozen"
    \/ Val(o, "mode") = "2"
    \/ Val(o, "highVolumeThrottle") \in {"-1", "1.5"}
FeeEstimateQuery(o) == Keep(o, DOMAIN FeeEstimateOptions)
=============================================================================
