----------------------------- MODULE EntityCalls -----------------------------
(***************************************************************************)
(* The services of the core package at work on one entity of the ledger:   *)
(* an account, a token, a topic, a file or a contract is created, updated, *)
(* deleted and read, at once or through the schedule service, and the      *)
(* network service's calls are made.  A call is one step here, from its    *)
(* options to its answer; how it is listened to and what may happen        *)
(* between its stages is CallLifecycle's.                                  *)
(***************************************************************************)
EXTENDS AccountCalls, TokenCalls, TopicCalls, ContractCalls

CONSTANTS MaxCalls,     \* bound: transactions sent in a behaviour
          MaxOdd,       \* bound: of these, how many are given unusual options
          Tried(_, _)   \* bound: which unusual options, by their types and the usual ones
ASSUME EntityCallsAssumption == MaxCalls \in Nat /\ MaxOdd \in 0..MaxCalls

VARIABLES kind,         \* what the entity is: "account", "token", ...
          ledger,       \* external: the entity, as the network has it
          schedule,     \* external: the schedule, as the network has it
          asked,        \* history: what the calls that landed were to make of it
          step,         \* the last call: what it was given, sent and answered
          calls, odd    \* transactions sent, and those given an unusual option

vars == <<kind, ledger, schedule, asked, step, calls, odd>>
world == <<ledger, asked, schedule>>

Kinds == {"account", "token", "topic", "file", "contract", "network"}

Entity(state, has) == [state |-> state, has |-> has]
NoSchedule == [status |-> "none"]

Sent(is, fields, signed) == [is |-> is, fields |-> fields, signed |-> signed]
Nothing == Sent("nothing", NoFields, {})
Ok(gives) == Answer("ok", TRUE, gives)
Unmapped  == Answer("RESULT_MAPPING_FAILED", TRUE, NoFields)
Created(id) == {Ok(With(id, "id")), Answer("SDK_ERROR", TRUE, NoFields)}

(* reached: "refused" before anything is sent, "failed" or "lost" on the   *)
(* network, "receipt" when its receipt came, "read" for a query.           *)
Done(call, o, sent, reached, answer) ==
    step' = [call |-> call, ask |-> o, sent |-> sent, reached |-> reached, answer |-> answer]

NoStep == [call |-> "none", ask |-> NoFields, sent |-> Nothing, reached |-> "read",
           answer |-> Ok(NoFields)]
(* A caller hears the answer of one call before the next is made.          *)
Hears == /\ step # NoStep
         /\ step' = NoStep
         /\ UNCHANGED <<kind, ledger, schedule, asked, calls, odd>>

Init == /\ kind \in Kinds
        /\ ledger \in {Entity("none", NoFields), Entity("live", NoFields)}
        /\ schedule = NoSchedule
        /\ asked = NoFields
        /\ step = NoStep
        /\ calls = 0 /\ odd = 0

(* The options of a call, of its own and those that all calls of its sort  *)
(* share: usual ones, or unusual ones, and always such as their types      *)
(* admit.                                                                  *)
Asked(types, usuals, shared) ==
    LET all == Over(types, shared)
    IN {a \in {<<u, 0>> : u \in usuals} \cup
              (IF odd = MaxOdd THEN {}
               ELSE {<<v, 1>> : v \in UNION {Tried(all, u) : u \in usuals}}) :
          Admits(all, a[1])}
-----------------------------------------------------------------------------
(* External: the network.  What an update clears is nothing from then on.  *)

EntityIds == {"accountId", "tokenId", "topicId", "fileId", "contractId"}
Taken(fields) == [n \in DOMAIN fields \ EntityIds |->
                    IF fields[n] \in {"emptyKey", "cleared", "0.0.0"} THEN "none" ELSE fields[n]]

Lands(does, fields, told) ==
    CASE does = "create" -> /\ ledger.state = "none"
                            /\ ledger' = Entity("live", Taken(fields))
                            /\ asked' = told
      [] does = "update" -> /\ ledger.state = "live"
                            /\ ledger' = [ledger EXCEPT !.has = Over(Taken(fields), @)]
                            /\ asked' = Over(told, asked)
      [] does = "delete" -> /\ ledger.state = "live"
                            /\ ledger' = [ledger EXCEPT !.state = "deleted"]
                            /\ UNCHANGED asked
      [] OTHER           -> ledger.state # "none" /\ UNCHANGED <<ledger, asked>>
-----------------------------------------------------------------------------
(* What a caller is promised by the options' interfaces, whatever build()  *)
(* does: each option given is what the ledger is told, by its own name.    *)

Aside(call) ==
    CASE call = "createAccount" -> {"publicKey", "keyType", "key", "alias"}
      [] call = "deleteAccount" -> {"accountKey"}
      [] call = "autoCreateEvmAccount" -> {"evmAddress", "amount"}
      [] call \in {"createFungibleToken", "createNft"} -> {"customFees"}
      [] OTHER -> {}

Nulled(o, n, v) == IF IsNull(o, n) THEN With(n, v) ELSE NoFields
Unless(o, n, v) == IF Given(o, n) THEN NoFields ELSE With(n, v)

PromisedToken(o) ==
    Over(IF Val(o, "customFees") = "list" THEN Keep(o, {"customFees"}) ELSE NoFields,
         IF Given(o, "maxSupply") THEN Unless(o, "supplyType", "Finite") ELSE NoFields)

Promised(call, o) ==
    CASE call = "createAccount" ->
           Over(Unless(o, "initialBalance", "0"),
           Over(With("key", IF Given(o, "key") THEN "key" ELSE o.publicKey),
                CASE Val(o, "alias") = "true"     -> With("alias", "ofTheKey")
                  [] Val(o, "alias") = "otherKey" -> With("alias", "ofTheOtherKey")
                  [] Val(o, "alias") = "evm"      -> With("alias", "evm")
                  [] OTHER -> NoFields))
      [] call = "autoCreateEvmAccount" ->
           [alias |-> o.evmAddress, initialBalance |-> o.amount]
      [] call = "createFungibleToken" ->
           Over(PromisedToken(o), [tokenType |-> "FungibleCommon"])
      [] call = "createNft" ->
           Over(PromisedToken(o), [tokenType |-> "NonFungibleUnique", decimals |-> "0",
                                   initialSupply |-> "0"])
      [] call = "updateTopic"   ->
           Over(Nulled(o, "topicMemo", "emptyText"),
                [n \in {n \in {"adminKey", "submitKey", "feeScheduleKey", "feeExemptKeys",
                               "autoRenewAccountId", "customFees"} : IsNull(o, n)} |-> "none"])
      [] call = "createFile"    -> Unless(o, "keys", "ofTheOperator")
      [] call = "updateFile"    -> Nulled(o, "fileMemo", "emptyText")
      [] OTHER -> NoFields

Told(call, o) ==
    Without(Over(Promised(call, o), Keep(o, DOMAIN o \ (DOMAIN TransactionOptions \cup Aside(call)))),
            EntityIds)
-----------------------------------------------------------------------------
(* BaseOperation.run and TransactionExecutor.run: validate, build, apply   *)
(* the shared options, send, and tell what came back.                      *)

Refused(o, refused, fields) ==
    CASE refused                             -> "INPUT_INVALID"
      [] Throws(fields)                      -> "raw"
      [] resolveTransactionId(o) = "refused" -> "INPUT_INVALID"
      [] Throws(applyBaseOptions(o))         -> "raw"
      [] OTHER                               -> "no"

(* A failed batch names the transactions that were in it.                  *)
Failure(call, o, named) ==
    Answer("SDK_ERROR", named,
           IF call = "submitBatch" THEN With("innerTransactionIds", o.transactions) ELSE NoFields)

run(call, o, code, sent, lands, answers) ==
    \/ /\ code # "no"
       /\ Done(call, o, Nothing, "refused", Answer(code, FALSE, NoFields))
       /\ UNCHANGED world
    \/ /\ code = "no"
       /\ \E named \in BOOLEAN : Done(call, o, sent, "failed", Failure(call, o, named))
       /\ UNCHANGED world
    \/ /\ code = "no"
       /\ lands
       /\ \/ \E named \in BOOLEAN : Done(call, o, sent, "lost", Failure(call, o, named))
          \/ \E a \in answers : Done(call, o, sent, "receipt", a)

(* own: keys among the options of the call that sign besides.              *)
execute(call, o, refused, fields, own, does, answers) ==
    run(call, o, Refused(o, refused, fields),
        Sent("transaction", Over(fields, applyBaseOptions(o)),
             {n \in own : Val(o, n) \in {"key", "keys"}} \cup applySigners(o)),
        Lands(does, fields, Told(call, o)) /\ UNCHANGED schedule, answers)

(* scheduleRun: what is sent creates a schedule that holds what was built. *)
scheduleRun(call, o, s, refused, fields, does) ==
    LET given == Keep(s, DOMAIN ScheduleOptions)
    IN run(call, Over(s, o), Refused(o, refused, Over(given, fields)),
           Sent("schedule", Over(given, applyBaseOptions(o)), applySigners(o)),
           /\ schedule = NoSchedule
           /\ schedule' = [status |-> "pending", fields |-> fields, does |-> does,
                           told |-> Told(call, o),
                           payer |-> IF Given(s, "payerAccountId") THEN s.payerAccountId
                                     ELSE "operator",
                           memo |-> IF Given(s, "scheduleMemo") THEN s.scheduleMemo
                                    ELSE "emptyText"]
           /\ UNCHANGED <<ledger, asked>>,
           Created("scheduleId"))

(* QueryExecutor.run.  code says how options that are no good are told.    *)
Asks(k, call, types, usuals, shared, fields(_), code(_), gives(_)) ==
    /\ kind = k /\ step = NoStep
    /\ \E a \in Asked(types, usuals, shared) :
          LET o == a[1]
          IN \/ /\ code(o) # "no"
                /\ Done(call, o, Nothing, "refused", Answer(code(o), FALSE, NoFields))
             \/ /\ code(o) = "no"
                /\ \E answer \in {Answer("SDK_ERROR", FALSE, NoFields)} \cup gives(o) :
                      Done(call, o, Sent("query", Over(fields(o), applyQueryOptions(o)), {}),
                           "read", answer)
    /\ UNCHANGED <<kind, ledger, asked, schedule, calls, odd>>

(* The SDK's errors are normalized inside a query's try, but not before.   *)
Normalized(o, needs, fields) ==
    IF \/ \E n \in needs : Missing(o, n)
       \/ Throws(Over(fields, applyQueryOptions(o))) THEN "SDK_ERROR" ELSE "no"
Unprotected(o, refused) ==
    CASE refused                      -> "INPUT_INVALID"
      [] Throws(applyQueryOptions(o)) -> "raw"
      [] OTHER                        -> "no"

(* Most queries are given the ID of what they ask for.                     *)
AsksOf(k, call, id, gives(_)) ==
    Asks(k, call, With(id, "id"), {With(id, "id")}, QueryOptions, LAMBDA o : Keep(o, {id}),
         LAMBDA o : Normalized(o, {id}, Keep(o, {id})), gives)

Now(k, types, usuals, Do(_)) ==
    /\ kind = k /\ step = NoStep /\ calls < MaxCalls
    /\ \E a \in Asked(types, usuals, TransactionOptions) : Do(a[1]) /\ odd' = odd + a[2]
    /\ calls' = calls + 1
    /\ UNCHANGED kind
Later(k, types, usuals, Do(_, _)) ==
    /\ kind = k /\ step = NoStep /\ calls < MaxCalls
    /\ \E a \in Asked(types, usuals, TransactionOptions), s \in Asked(ScheduleOptions, {NoFields}, NoFields) :
          /\ odd + a[2] + s[2] <= MaxOdd
          /\ Do(a[1], s[1]) /\ odd' = odd + a[2] + s[2]
    /\ calls' = calls + 1
    /\ UNCHANGED kind
-----------------------------------------------------------------------------
(* AccountService                                                          *)

Accounts == {[publicKey |-> "ED25519"], [publicKey |-> "ECDSA", keyType |-> "ECDSA"],
             [key |-> "key"]}
createAccount ==
    Now("account", CreateAccountOptions, Accounts,
        LAMBDA o : execute("createAccount", o, CreateAccountValidator(o), AccountCreate(o), {},
                           "create", {Ok(toAccount(o)), Answer("SDK_ERROR", FALSE, NoFields)}))
scheduleCreateAccount ==
    Later("account", CreateAccountOptions, Accounts,
          LAMBDA o, s : scheduleRun("createAccount", o, s, CreateAccountValidator(o),
                                    AccountCreate(o), "create"))

AutoAccounts == {[evmAddress |-> "evm", amount |-> "1"]}
autoCreateEvmAccount ==
    Now("account", AutoCreateEvmAccountOptions, AutoAccounts,
        LAMBDA o : execute("autoCreateEvmAccount", o, AutoCreateEvmAccountValidator(o),
                           AccountAutoCreate(o), {}, "create",
                           {Ok(With("accountId", id)) : id \in {"id", "null"}} \cup {Unmapped}))
scheduleAutoCreateEvmAccount ==
    Later("account", AutoCreateEvmAccountOptions, AutoAccounts,
          LAMBDA o, s : scheduleRun("autoCreateEvmAccount", o, s, AutoCreateEvmAccountValidator(o),
                                    AccountAutoCreate(o), "create"))

AccountUpdates == {[accountId |-> "id", key |-> "key", additionalSigners |-> "keys"]}
updateAccount ==
    Now("account", UpdateAccountOptions, AccountUpdates,
        LAMBDA o : execute("updateAccount", o, UpdateAccountValidator(o), AccountUpdate(o), {},
                           "update", {Ok(NoFields)}))
scheduleUpdateAccount ==
    Later("account", UpdateAccountOptions, AccountUpdates,
          LAMBDA o, s : scheduleRun("updateAccount", o, s, UpdateAccountValidator(o),
                                    AccountUpdate(o), "update"))

deleteAccount ==
    Now("account", DeleteAccountOptions, {[accountId |-> "id", accountKey |-> "key"]},
        LAMBDA o : execute("deleteAccount", o, validateAccountKey(o) \/ DeleteAccountValidator(o),
                           AccountDelete(o), {"accountKey"}, "delete", {Ok(NoFields)}))
scheduleDeleteAccount ==
    Later("account", Without(DeleteAccountOptions, {"accountKey"}), {[accountId |-> "id"]},
          LAMBDA o, s : scheduleRun("deleteAccount", o, s, DeleteAccountValidator(o),
                                    AccountDelete(o), "delete"))

getAccountBalance ==
    Asks("account", "getAccountBalance", AccountBalanceQuery, {[accountId |-> "id"]}, NoFields,
         LAMBDA o : Keep(o, {"accountId"}),
         LAMBDA o : Normalized(o, {"accountId"}, Keep(o, {"accountId"})),
         LAMBDA o : {Ok([accountId |-> o.accountId, tinybars |-> "1"])})
getTokenBalance ==
    Asks("account", "getTokenBalance", TokenBalanceQuery,
         {[accountId |-> "id", tokenId |-> "id"]}, NoFields,
         LAMBDA o : Keep(o, DOMAIN TokenBalanceQuery),
         LAMBDA o : Normalized(o, DOMAIN TokenBalanceQuery, Keep(o, DOMAIN TokenBalanceQuery)),
         LAMBDA o : {Ok([tokenId |-> o.tokenId, balance |-> "1", decimals |-> "0"])})
getAccountRecords ==
    Asks("account", "getAccountRecords", AccountRecordsQuery, {[accountId |-> "id"]},
         QueryOptions, LAMBDA o : Keep(o, {"accountId"}),
         LAMBDA o : IF parseAccountId(o) THEN "INPUT_INVALID" ELSE Normalized(o, {}, NoFields),
         LAMBDA o : {Ok(With("records", "list"))})
Verifications == {Ok(With("verified", Flag(AccountSignatureQuery(key, valid))))
                    : key \in {"single", "list"}, valid \in BOOLEAN}
verifyAccount ==
    AsksOf("account", "verifyAccount", "accountId", LAMBDA o : Verifications)
-----------------------------------------------------------------------------
(* TokenService                                                            *)

Tokens == {[tokenName |-> "text", tokenSymbol |-> "text", treasuryAccountId |-> "id"]}
createFungibleToken ==
    Now("token", CreateFungibleTokenOptions, Tokens,
        LAMBDA o : LET b == buildFungibleOperationOptions(o)
                   IN execute("createFungibleToken", o, TokenCreateValidator(b), TokenCreate(b), {},
                              "create", Created("tokenId")))
scheduleCreateFungibleToken ==
    Later("token", CreateFungibleTokenOptions, Tokens,
          LAMBDA o, s : LET b == buildFungibleOperationOptions(o)
                        IN scheduleRun("createFungibleToken", o, s, TokenCreateValidator(b),
                                       TokenCreate(b), "create"))

Nfts == {Over(With("supplyKey", "key"), u) : u \in Tokens}
createNft ==
    Now("token", CreateNftOptions, Nfts,
        LAMBDA o : LET b == buildNftOperationOptions(o)
                   IN execute("createNft", o, TokenCreateValidator(b), TokenCreate(b), {},
                              "create", Created("tokenId")))
scheduleCreateNft ==
    Later("token", CreateNftOptions, Nfts,
          LAMBDA o, s : LET b == buildNftOperationOptions(o)
                        IN scheduleRun("createNft", o, s, TokenCreateValidator(b),
                                       TokenCreate(b), "create"))

updateToken ==
    Now("token", TokenUpdateOptions, {[tokenId |-> "id"]},
        LAMBDA o : execute("updateToken", o, TokenUpdateValidator(o), TokenUpdate(o), {},
                           "update", {Ok(NoFields)}))
scheduleUpdateToken ==
    Later("token", TokenUpdateOptions, {[tokenId |-> "id"]},
          LAMBDA o, s : scheduleRun("updateToken", o, s, TokenUpdateValidator(o),
                                    TokenUpdate(o), "update"))

updateNfts ==
    Now("token", TokenUpdateNftsOptions,
        {[tokenId |-> "id", serialNumbers |-> "list", metadata |-> "bytes"]},
        LAMBDA o : execute("updateNfts", o, TokenUpdateNftsValidator(o), TokenUpdateNfts(o), {},
                           "other", {Ok(NoFields)}))
updateTokenFeeSchedule ==
    Now("token", TokenFeeScheduleUpdateOptions, {[tokenId |-> "id", customFees |-> "list"]},
        LAMBDA o : execute("updateTokenFeeSchedule", o, TokenFeeScheduleUpdateValidator(o),
                           TokenFeeScheduleUpdate(o), {}, "update", {Ok(NoFields)}))
deleteToken ==
    Now("token", TokenDeleteOptions, {[tokenId |-> "id"]},
        LAMBDA o : execute("deleteToken", o, TokenDeleteValidator(o), TokenDelete(o), {},
                           "delete", {Ok(NoFields)}))

(* What the network has of a field, and what an info query makes of it:    *)
(* each of its results is one of the fields, by that name or another.      *)
Read(n) == IF n \in DOMAIN ledger.has THEN ledger.has[n] ELSE "default"
Info(result) == {Ok([r \in DOMAIN result |-> Read(result[r])]) : s \in {ledger.state} \ {"none"}}

getTokenInfo == AsksOf("token", "getTokenInfo", "tokenId", LAMBDA o : Info(TokenInfoResult))
getNftInfo   == AsksOf("token", "getNftInfo", "nftId",
                       LAMBDA o : {TokenNftInfoQuery(found) : found \in {<<>>, <<"nft">>}})
-----------------------------------------------------------------------------
(* TopicService                                                            *)

Topics == {NoFields, [topicMemo |-> "text", adminKey |-> "key"]}
createTopic ==
    Now("topic", TopicCreateOptions, Topics,
        LAMBDA o : execute("createTopic", o, TopicCreateValidator(o), TopicCreate(o), {},
                           "create", Created("topicId")))
scheduleCreateTopic ==
    Later("topic", TopicCreateOptions, Topics,
          LAMBDA o, s : scheduleRun("createTopic", o, s, TopicCreateValidator(o),
                                    TopicCreate(o), "create"))
updateTopic ==
    Now("topic", TopicUpdateOptions,
        {[topicId |-> "id", submitKey |-> "key"], [topicId |-> "id", adminKey |-> "null"]},
        LAMBDA o : execute("updateTopic", o, TopicUpdateValidator(o), TopicUpdate(o), {},
                           "update", {Ok(NoFields)}))
deleteTopic ==
    Now("topic", TopicDeleteOptions, {[topicId |-> "id"]},
        LAMBDA o : execute("deleteTopic", o, TopicDeleteValidator(o), TopicDelete(o), {},
                           "delete", {Ok(NoFields)}))
TopicMessageSubmitResult ==
    {Ok([sequenceNumber |-> n, runningHash |-> h]) : n \in {"1", "null"}, h \in {"hash", "null"}}
submitMessage ==
    Now("topic", TopicMessageSubmitOptions, {[topicId |-> "id", message |-> "bytes"]},
        LAMBDA o : execute("submitMessage", o, TopicMessageSubmitValidator(o),
                           TopicMessageSubmit(o), {}, "other", TopicMessageSubmitResult))
getTopicInfo == AsksOf("topic", "getTopicInfo", "topicId", LAMBDA o : Info(TopicInfoResult))
subscribeToMessages ==
    Asks("topic", "subscribeToMessages", TopicMessageSubscribeOptions, {[topicId |-> "id"]},
         NoFields, TopicMessageQuery,
         LAMBDA o : Normalized(o, {"topicId"}, TopicMessageQuery(o)),
         LAMBDA o : {handleError(o)} \cup
                    {TopicMessageResult([sequenceNumber |-> "1", initialTransactionId |-> id])
                       : id \in {"id", "null"}})
-----------------------------------------------------------------------------
(* FileService; files larger than a transaction are FileService's business *)
(* (the module of that name).                                              *)

createFile ==
    Now("file", FileCreateOptions, {NoFields, [contents |-> "bytes"]},
        LAMBDA o : execute("createFile", o, FileCreateValidator(o), FileCreate(o), {},
                           "create", Created("fileId")))
FileUpdates == {[fileId |-> "id", fileMemo |-> "text"], [fileId |-> "id", fileMemo |-> "null"]}
updateFile ==
    Now("file", FileUpdateOptions, FileUpdates,
        LAMBDA o : execute("updateFile", o, FileUpdateValidator(o), FileUpdate(o), {},
                           "update", {Ok(NoFields)}))
scheduleUpdateFile ==
    Later("file", FileUpdateOptions, FileUpdates,
          LAMBDA o, s : scheduleRun("updateFile", o, s, FileUpdateValidator(o),
                                    FileUpdate(o), "update"))
appendToFile ==
    Now("file", FileAppendOptions, {[fileId |-> "id", contents |-> "bytes"]},
        LAMBDA o : execute("appendToFile", o, FileAppendValidator(o), FileAppend(o), {},
                           "other", {Ok(NoFields)}))
deleteFile ==
    Now("file", FileDeleteOptions, {[fileId |-> "id"]},
        LAMBDA o : execute("deleteFile", o, FileDeleteValidator(o), FileDelete(o), {},
                           "delete", {Ok(NoFields)}))
getFileInfo     == AsksOf("file", "getFileInfo", "fileId", LAMBDA o : Info(FileInfoResult))
getFileContents == AsksOf("file", "getFileContents", "fileId",
                          LAMBDA o : Info(Same({"contents"})))
-----------------------------------------------------------------------------
(* ContractService                                                         *)

Contracts == {[bytecodeFileId |-> "id", gas |-> "1"], [bytecode |-> "bytes", gas |-> "1"]}
createContract ==
    Now("contract", ContractCreateOptions, Contracts,
        LAMBDA o : execute("createContract", o, ContractCreateValidator(o), ContractCreate(o), {},
                           "create", Created("contractId")))
scheduleCreateContract ==
    Later("contract", ContractCreateOptions, Contracts,
          LAMBDA o, s : scheduleRun("createContract", o, s, ContractCreateValidator(o),
                                    ContractCreate(o), "create"))

(* The flow shares no options with the transactions but who signs.         *)
createContractFlow ==
    /\ kind = "contract" /\ step = NoStep /\ calls < MaxCalls
    /\ \E a \in Asked(ContractCreateFlowOptions, {[bytecode |-> "bytes", gas |-> "1"]}, FlowOptions) :
          /\ execute("createContractFlow", a[1], ContractCreateFlowValidator(a[1]),
                     ContractCreateFlow(a[1]), {}, "create", Created("contractId"))
          /\ odd' = odd + a[2]
    /\ calls' = calls + 1
    /\ UNCHANGED kind

ContractUpdates == {[contractId |-> "id"]}
updateContract ==
    Now("contract", ContractUpdateOptions, ContractUpdates,
        LAMBDA o : execute("updateContract", o, ContractUpdateValidator(o), ContractUpdate(o), {},
                           "update", {Ok(NoFields)}))
scheduleUpdateContract ==
    Later("contract", ContractUpdateOptions, ContractUpdates,
          LAMBDA o, s : scheduleRun("updateContract", o, s, ContractUpdateValidator(o),
                                    ContractUpdate(o), "update"))

ContractDeletes == {[contractId |-> "id", transferAccountId |-> "id"]}
deleteContract ==
    Now("contract", ContractDeleteOptions, ContractDeletes,
        LAMBDA o : execute("deleteContract", o, ContractDeleteValidator(o), ContractDelete(o), {},
                           "delete", {Ok(NoFields)}))
scheduleDeleteContract ==
    Later("contract", ContractDeleteOptions, ContractDeletes,
          LAMBDA o, s : scheduleRun("deleteContract", o, s, ContractDeleteValidator(o),
                                    ContractDelete(o), "delete"))

Executions == {[contractId |-> "id", gas |-> "1", functionName |-> "text"],
               [contractId |-> "id", gas |-> "1", rawFunctionParameters |-> "bytes"]}
WithResult(usuals) == usuals \cup {Over(With("withFunctionResult", "true"), u) : u \in usuals}
FunctionResults(o) ==
    IF Val(o, "withFunctionResult") = "true"
    THEN {fetchFunctionResult(record) : record \in {"unavailable", "result", "null"}}
    ELSE {fetchFunctionResult("null")}
executeContract ==
    Now("contract", ContractExecuteOptions, WithResult(Executions),
        LAMBDA o : execute("executeContract", o, ContractExecuteValidator(o), ContractExecute(o), {},
                           "other", FunctionResults(o)))
scheduleExecuteContract ==
    Later("contract", ContractExecuteOptions, Executions,
          LAMBDA o, s : scheduleRun("executeContract", o, s, ContractExecuteValidator(o),
                                    ContractExecute(o), "other"))
executeEthereumTransaction ==
    Now("contract", EthereumOptions, WithResult({[ethereumData |-> "bytes"]}),
        LAMBDA o : execute("executeEthereumTransaction", o, EthereumValidator(o), Ethereum(o), {},
                           "other", FunctionResults(o)))
updateHookStorage ==
    Now("contract", HookStoreOptions,
        {[accountId |-> "id", hookId |-> "1", storageUpdates |-> "slot"]},
        LAMBDA o : execute("updateHookStorage", o, HookStoreValidator(o), HookStore(o), {},
                           "other", {Ok(NoFields)}))

callContract ==
    Asks("contract", "callContract", ContractCallOptions, Executions, QueryOptions,
         ContractCallQuery,
         LAMBDA o : IF validateCallTarget(o) THEN "INPUT_INVALID"
                    ELSE Normalized(o, {"contractId", "gas"}, ContractCallQuery(o)),
         LAMBDA o : {Ok(With("functionResult", "result"))})
simulateContractCall ==
    Asks("contract", "simulateContractCall", MirrorNodeContractOptions,
         {Without(u, {"gas"}) : u \in Executions}, NoFields, MirrorNodeContractQuery,
         LAMBDA o : IF MirrorContractCallValidator(o) THEN "INPUT_INVALID"
                    ELSE IF Normalized(o, {}, Keep(o, {"contractId"})) = "no" /\ CallDataTooBig(o)
                    THEN "INPUT_INVALID"
                    ELSE Normalized(o, {}, MirrorNodeContractQuery(o)),
         LAMBDA o : {Ok(With("result", "result"))})
getContractInfo ==
    AsksOf("contract", "getContractInfo", "contractId", LAMBDA o : Info(Same(DOMAIN ledger.has)))
getContractBytecode ==
    AsksOf("contract", "getContractBytecode", "contractId", LAMBDA o : Info(Same({"bytecode"})))
-----------------------------------------------------------------------------
(* NetworkService                                                          *)

generateRandom ==
    Now("network", PrngOptions, {NoFields},
        LAMBDA o : execute("generateRandom", o, PrngValidator(o), Prng(o), {},
                           "other", {Ok(With("prng", v)) : v \in {"number", "bytes"}} \cup {Unmapped}))
submitBatch ==
    Now("network", BatchOptions,
        {[transactions |-> "txs"], [transactions |-> "txs", batchKeys |-> "keys"]},
        LAMBDA o : execute("submitBatch", o, BatchValidator(o), Batch(o), {"batchKeys"},
                           "other", {Ok(With("innerTransactionIds", o.transactions))}))

(* getTransactionReceipt and getTransactionRecord.                         *)
getTransaction ==
    Asks("network", "getTransaction", TransactionReceiptOptions, {[transactionId |-> "txId"]},
         QueryOptions, TransactionReceiptQuery,
         LAMBDA o : Unprotected(o, parseTransactionId(o)),
         LAMBDA o : {Ok(With("receipt", "receipt"))})
getNetworkVersionInfo ==
    Asks("network", "getNetworkVersionInfo", NoFields, {NoFields}, QueryOptions,
         LAMBDA o : NoFields, LAMBDA o : Unprotected(o, FALSE),
         LAMBDA o : {Ok(With("version", "version"))})
getAddressBook ==
    Asks("network", "getAddressBook", AddressBookOptions, {NoFields}, NoFields, AddressBookQuery,
         LAMBDA o : IF AddressBookRefused(o) THEN "INPUT_INVALID" ELSE "no",
         LAMBDA o : {Ok(With("nodes", "nodes"))})
estimateFee ==
    Asks("network", "estimateFee", FeeEstimateOptions, {[transaction |-> "frozen"]}, NoFields,
         FeeEstimateQuery, LAMBDA o : IF FeeEstimateRefused(o) THEN "INPUT_INVALID" ELSE "no",
         LAMBDA o : {Ok(With("total", "total"))})
-----------------------------------------------------------------------------
(* ScheduleService.  A signature may be the last one that the schedule     *)
(* waited for: then the network does what it holds, or fails to.           *)

Scheduling(types, usual, Do(_)) ==
    Now(kind, types, {usual}, Do)
Executes ==
    /\ schedule.status = "pending"
    /\ \/ UNCHANGED world
       \/ /\ schedule' = [schedule EXCEPT !.status = "executed"]
          /\ \/ UNCHANGED <<ledger, asked>>
             \/ Lands(schedule.does, schedule.fields, schedule.told)
sign ==
    Scheduling(ScheduleSignOptions, [scheduleId |-> "id"],
        LAMBDA o : run("sign", o, Refused(o, ScheduleSignValidator(o), ScheduleSign(o)),
                       Sent("transaction", Over(ScheduleSign(o), applyBaseOptions(o)),
                            applySigners(o)),
                       Executes,
                       {Ok(With("scheduledTransactionId", id)) : id \in {"id", "null"}}))
cancel ==
    Scheduling(ScheduleCancelOptions, [scheduleId |-> "id", adminKey |-> "key"],
        LAMBDA o : run("cancel", o, Refused(o, ScheduleCancelValidator(o), ScheduleCancel(o)),
                       Sent("transaction", Over(ScheduleCancel(o), applyBaseOptions(o)),
                            {"adminKey"} \cup applySigners(o)),
                       /\ schedule.status = "pending"
                       /\ schedule' = [schedule EXCEPT !.status = "deleted"]
                       /\ UNCHANGED <<ledger, asked>>,
                       {Ok(NoFields)}))
Since(status) == IF schedule.status = status THEN "time" ELSE "null"
getScheduleInfo ==
    AsksOf(kind, "getScheduleInfo", "scheduleId",
           LAMBDA o : {Ok(ScheduleInfoResult([executed |-> Since("executed"),
                                              deleted |-> Since("deleted"),
                                              payer |-> s.payer, memo |-> s.memo]))
                         : s \in {schedule} \ {NoSchedule}})

Next ==
    \/ createAccount \/ scheduleCreateAccount \/ autoCreateEvmAccount
    \/ scheduleAutoCreateEvmAccount \/ updateAccount \/ scheduleUpdateAccount
    \/ deleteAccount \/ scheduleDeleteAccount
    \/ getAccountBalance \/ getTokenBalance \/ getAccountRecords \/ verifyAccount
    \/ createFungibleToken \/ scheduleCreateFungibleToken \/ createNft \/ scheduleCreateNft
    \/ updateToken \/ scheduleUpdateToken \/ updateNfts \/ updateTokenFeeSchedule \/ deleteToken
    \/ getTokenInfo \/ getNftInfo
    \/ createTopic \/ scheduleCreateTopic \/ updateTopic \/ deleteTopic \/ submitMessage
    \/ getTopicInfo \/ subscribeToMessages
    \/ createFile \/ updateFile \/ scheduleUpdateFile \/ appendToFile \/ deleteFile
    \/ getFileInfo \/ getFileContents
    \/ createContract \/ scheduleCreateContract \/ createContractFlow
    \/ updateContract \/ scheduleUpdateContract \/ deleteContract \/ scheduleDeleteContract
    \/ executeContract \/ scheduleExecuteContract \/ executeEthereumTransaction
    \/ updateHookStorage \/ callContract \/ simulateContractCall
    \/ getContractInfo \/ getContractBytecode
    \/ generateRandom \/ submitBatch \/ getTransaction \/ getNetworkVersionInfo
    \/ getAddressBook \/ estimateFee
    \/ sign \/ cancel \/ getScheduleInfo
    \/ Hears

Spec == Init /\ [][Next]_vars
-----------------------------------------------------------------------------
(* No option left out is sent or told as the "undefined" that it is read   *)
(* as, and an error has one of the codes of HieroErrorCodes, or none when  *)
(* the SDK's own error passes through (applyBaseOptions and every build).  *)
TypeOK ==
    /\ kind \in Kinds
    /\ ledger.state \in {"none", "live", "deleted"}
    /\ schedule.status \in {"none", "pending", "executed", "deleted"}
    /\ step.answer.code \in {"ok", "INPUT_INVALID", "NOT_FOUND", "SDK_ERROR",
                             "RESULT_MAPPING_FAILED", "raw"}
    /\ \A f \in {ledger.has, step.sent.fields, step.answer.gives} :
          \A n \in DOMAIN f : f[n] # "undefined"

(* Whatever series of calls made the entity what it is, at once or through *)
(* a schedule that others completed, it has all that their options asked   *)
(* for and nothing else: no build() forgets an option, writes it under     *)
(* another name or takes a null that clears for one left out.  And what    *)
(* was sent has the shared options and the signature of every key given.   *)
Shared == {"maxTransactionFee", "transactionValidDuration", "transactionMemo",
           "regenerateTransactionId", "highVolume"}
Signing == {"additionalSigners", "externalSigners", "legacySignatures", "accountKey", "batchKeys"}
           \cup (IF step.call = "cancel" THEN {"adminKey"} ELSE {})
CarriedOut ==
    /\ ledger.has = asked
    /\ step.sent.is \in {"transaction", "schedule"} =>
          /\ \A n \in Shared : Given(step.ask, n) => Val(step.sent.fields, n) = step.ask[n]
          /\ \A n \in Signing : Val(step.ask, n) \in {"key", "keys"} => n \in step.sent.signed

(* What getTokenInfo, getTopicInfo and getFileInfo answer is what earlier  *)
(* calls asked for, a cleared field as nothing, under the names that the   *)
(* results have for it; and a schedule is told to be exactly one of        *)
(* pending, executed and deleted, the one that it is.                      *)
NameIn(result, n) ==
    IF result = "getTokenInfo"
    THEN CASE n = "tokenName" -> "name" [] n = "tokenSymbol" -> "symbol"
           [] n = "initialSupply" -> "totalSupply" [] n = "freezeDefault" -> "defaultFreezeStatus"
           [] OTHER -> n
    ELSE n
ReadsBack ==
    step.answer.code = "ok" =>
       LET gives == step.answer.gives
       IN /\ step.call \in {"getTokenInfo", "getTopicInfo", "getFileInfo"} =>
                \A n \in DOMAIN asked \ {"keyVerificationMode", "contents"} :
                   Val(gives, NameIn(step.call, n)) = asked[n]
          /\ step.call = "getScheduleInfo" =>
                \A f \in {<<"isPending", "pending">>, <<"isExecuted", "executed">>,
                          <<"isDeleted", "deleted">>} :
                   gives[f[1]] = Flag(schedule.status = f[2])

(* An error about a transaction that reached consensus says which one, so  *)
(* that it is not sent again (but createAccount's, without an account ID), *)
(* and RESULT_MAPPING_FAILED is said of no other; a new account is told    *)
(* the key and the address that the ledger has for it; and a batch that    *)
(* failed names what was in it.                                            *)
ToldTruly ==
    LET answer == step.answer
    IN /\ step.reached = "receipt" =>
             answer.code = "ok" \/ answer.named \/ step.call = "createAccount"
       /\ answer.code = "RESULT_MAPPING_FAILED" => step.reached = "receipt"
       /\ step.call = "createAccount" /\ step.sent.is = "transaction" /\ answer.code = "ok" =>
             /\ answer.gives.publicKey = ledger.has.key
             /\ Val(answer.gives, "evmAddress") = Val(ledger.has, "alias")
       /\ step.call = "submitBatch" /\ answer.code = "SDK_ERROR" =>
             Given(answer.gives, "innerTransactionIds")
=============================================================================
