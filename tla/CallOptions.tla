----------------------------- MODULE CallOptions -----------------------------
(***************************************************************************)
(* What the calls of packages/core/src/services are given: an options      *)
(* object, here a function from the names it has to values.  A value is a  *)
(* name of one of the few things the code tells apart, Types says which an *)
(* option of that type may have; lists of records are named too, and       *)
(* spelled out in HookLists, UpdateLists and BatchLists.                   *)
(***************************************************************************)
EXTENDS Integers, SequencesExt, FiniteSetsExt

(* An ID is an SDK object or a string: empty, only blanks, or not an ID.   *)
(* A long text is over 100 bytes, "1.5" stands for every number that is    *)
(* not whole, "xHbar", "xLong" and "xtext" are amounts in other types.     *)
Types == [id       |-> {"id", "emptyId", "blankId", "badId"},
          text     |-> {"text", "emptyText", "longText"},
          count    |-> {"-1", "0", "1", "1.5"},
          number   |-> {"-1", "0", "1"},
          hbar     |-> {"-1", "0", "1", "-1Hbar"},
          amount   |-> {"-1", "0", "1", "-1Hbar", "-1Long", "-1text", "bigint"},
          flag     |-> {"true", "false"},
          key      |-> {"key"},
          keyText  |-> {"ED25519", "ECDSA", "badKey"},
          keyType  |-> {"ED25519", "ECDSA", "RSA"},
          alias    |-> {"true", "false", "otherKey", "noKey", "badKey", "evm", "notEvm"},
          evm      |-> {"evm", "notEvm"},
          list     |-> {"empty", "list"},
          serials  |-> {"empty", "list", "holes", "notList"},
          bytes    |-> {"bytes", "noBytes"},
          callData |-> {"bytes", "noBytes", "hugeBytes"},
          contents |-> {"bytes", "noBytes"},
          keyList  |-> {"empty", "list"},
          time     |-> {"later", "past"},
          tokenType  |-> {"FungibleCommon", "NonFungibleUnique"},
          supplyType |-> {"Infinite", "Finite"},
          hooks    |-> {"noHooks", "hook", "hookTwice", "hookNoContract", "hookNegative",
                        "hookWideWord", "hookElsewhere"},
          hookIds  |-> {"empty", "list", "negative"},
          updates  |-> {"noUpdates", "slot", "mapping", "wideWord", "paddedWord",
                        "keylessEntry", "notUpdate"},
          signed   |-> {"bytes", "noBytes", "signedData", "unsignedData"},
          frozen   |-> {"frozen", "notFrozen"},
          feeMode  |-> {"0", "1", "2"},
          bookFile |-> {"0.0.101", "0.0.102", "0.0.5"},
          batch    |-> {"noTxs", "txs", "batchInside", "unfrozen", "unkeyed", "tooMany"},
          parameters |-> {"parameters"},
          handler  |-> {"handler"},
          signers  |-> {"noKeys", "keys"},
          ids      |-> {"noIds", "ids", "badIds"},
          payer    |-> {"id", "badId", "aliasId"},
          txId     |-> {"txId", "badTxId", "scheduledTxId", "aliasTxId"}]

Val(o, n)   == IF n \in DOMAIN o THEN o[n] ELSE "undefined"
Given(o, n) == Val(o, n) \notin {"undefined", "null"}

(* if (options.x != null) tx.setX(options.x), for every name x of names.   *)
Keep(o, names) == [n \in {n \in names : Given(o, n)} |-> o[n]]
NoFields == <<>>
With(f, v)  == [n \in {f} |-> v]
Flag(b) == IF b THEN "true" ELSE "false"
Same(names) == [n \in names |-> n]
Without(f, names) == [n \in DOMAIN f \ names |-> f[n]]

Over(change, base) == [n \in DOMAIN change \cup DOMAIN base |->
                         IF n \in DOMAIN change THEN change[n] ELSE base[n]]

(* What a caller may write: any of the values that an option's type has,   *)
(* null where the type admits it, or nothing.                              *)
Values(type) == Types[type] \cup (IF type \in {"contents", "keyList"} THEN {} ELSE {"null"})
Admits(types, o) == /\ DOMAIN o \subseteq DOMAIN types
                    /\ \A n \in DOMAIN o : o[n] \in Values(types[n]) \cup {"undefined"}

(* What a caller is told: an error code or "ok", whether the error names   *)
(* the transaction, and what is given.                                     *)
Answer(code, named, gives) == [code |-> code, named |-> named, gives |-> gives]
-----------------------------------------------------------------------------
(* Checks that the validators share.                                       *)

Missing(o, n)  == ~Given(o, n)
EmptyId(o, n)  == Val(o, n) = "emptyId"
BlankId(o, n)  == Val(o, n) \in {"emptyId", "blankId"}        \* id.trim() === ""
NoId(o, n)     == Missing(o, n) \/ BlankId(o, n)
Blank(o, n)    == Val(o, n) = "emptyText"
TooLong(o, n)  == Val(o, n) = "longText"
Both(o, m, n)  == Given(o, m) /\ Given(o, n)
Neither(o, m, n) == ~Given(o, m) /\ ~Given(o, n)
NotPositive(o, n)   == Val(o, n) \in {"-1", "0"}
NotCounting(o, n)   == Val(o, n) \in {"-1", "0", "1.5"}      \* Number.isInteger(x) && x >= 1
NegativeOfAny(o, n) == Val(o, n) \in {"-1", "-1Hbar", "-1Long", "-1text"}
Staking(o) == Both(o, "stakedAccountId", "stakedNodeId")

(* Words of a storage update: how long, and whether the first byte is 0.   *)
Word(bytes, padded) == [bytes |-> bytes, padded |-> padded]
MaxWordBytes == 32
UpdateLists ==
    [noUpdates    |-> <<>>,
     slot         |-> <<[is |-> "slot", words |-> <<Word(1, FALSE), Word(32, FALSE)>>]>>,
     mapping      |-> <<[is |-> "mapping", words |-> <<Word(0, FALSE)>>, keyed |-> TRUE]>>,
     wideWord     |-> <<[is |-> "slot", words |-> <<Word(33, FALSE)>>]>>,
     paddedWord   |-> <<[is |-> "mapping", words |-> <<Word(2, TRUE)>>, keyed |-> TRUE]>>,
     keylessEntry |-> <<[is |-> "mapping", words |-> <<>>, keyed |-> FALSE]>>,
     notUpdate    |-> <<[is |-> "other", words |-> <<>>]>>]

validateWord(w) == w.bytes > MaxWordBytes \/ (w.bytes > 0 /\ w.padded)
validateStorageUpdates(list) ==
    \E u \in ToSet(list) : \/ u.is \notin {"slot", "mapping"}
                           \/ \E w \in ToSet(u.words) : validateWord(w)
                           \/ u.is = "mapping" /\ ~u.keyed

Hook(point, id, contract, updates) ==
    [point |-> point, id |-> id, contract |-> contract, updates |-> UpdateLists[updates]]
HookLists ==
    [noHooks        |-> <<>>,
     hook           |-> <<Hook("allowance", 0, "id", "mapping"), Hook("allowance", 1, "id", "slot")>>,
     hookTwice      |-> <<Hook("allowance", 1, "id", "slot"), Hook("allowance", 1, "id", "noUpdates")>>,
     hookNoContract |-> <<Hook("allowance", 0, "null", "noUpdates")>>,
     hookNegative   |-> <<Hook("allowance", -1, "id", "noUpdates")>>,
     hookWideWord   |-> <<Hook("allowance", 0, "id", "wideWord")>>,
     hookElsewhere  |-> <<Hook("transfer", 0, "id", "noUpdates")>>]

validateHookCreations(o, n) ==
    /\ Given(o, n)
    /\ LET hooks == HookLists[o[n]]
       IN \E i \in DOMAIN hooks : \/ hooks[i].point # "allowance"
                                  \/ hooks[i].id < 0
                                  \/ \E j \in 1..(i - 1) : hooks[j].id = hooks[i].id
                                  \/ hooks[i].contract = "null"
                                  \/ validateStorageUpdates(hooks[i].updates)
validateHookIds(o, n) == Val(o, n) = "negative"
validateHookId(o, n)  == Val(o, n) \in {"-1", "1.5"}

(* A function name or raw parameters, and not both.                        *)
HasFunction(o) == Given(o, "functionName") /\ ~Blank(o, "functionName")
validateCallTarget(o) == HasFunction(o) = Given(o, "rawFunctionParameters")
-----------------------------------------------------------------------------
(* The options that every transaction, schedule and query shares.          *)

TransactionOptions ==
    [maxTransactionFee |-> "hbar", transactionValidDuration |-> "number",
     transactionMemo |-> "text", nodeAccountIds |-> "ids", payer |-> "payer",
     transactionId |-> "txId", regenerateTransactionId |-> "flag", highVolume |-> "flag",
     additionalSigners |-> "signers", externalSigners |-> "signers",
     legacySignatures |-> "signers"]
FlowOptions == [additionalSigners |-> "signers", externalSigners |-> "signers"]
ScheduleOptions == [payerAccountId |-> "id", adminKey |-> "key", scheduleMemo |-> "text"]
QueryOptions == [payerAccountId |-> "id", maxQueryPayment |-> "hbar", queryPayment |-> "hbar",
                 nodeAccountIds |-> "ids"]

(* External: the SDK throws on an ID or key it cannot read; what it throws *)
(* is no HieroError.                                                       *)
Throws(fields) ==
    \E n \in DOMAIN fields : fields[n] \in {"emptyId", "blankId", "badId", "badKey", "badIds"}

(* What transaction ID is set: none, one, or the options are refused.      *)
resolveTransactionId(o) ==
    IF Neither(o, "transactionId", "payer") THEN "none"
    ELSE IF \/ Both(o, "transactionId", "payer")
            \/ Val(o, "regenerateTransactionId") = "true"
            \/ Val(o, "transactionId") \in {"badTxId", "scheduledTxId", "aliasTxId"}
            \/ Val(o, "payer") \in {"badId", "aliasId"} THEN "refused"
    ELSE IF Given(o, "payer") THEN "ofPayer" ELSE "txId"

applyBaseOptions(o) ==
    LET id == resolveTransactionId(o)
    IN Over(IF id = "none" THEN NoFields ELSE With("transactionId", id),
            Over(IF Val(o, "nodeAccountIds") = "noIds" THEN NoFields
                 ELSE Keep(o, {"nodeAccountIds"}),
                 Keep(o, {"maxTransactionFee", "transactionValidDuration", "transactionMemo",
                          "regenerateTransactionId", "highVolume"})))

(* Faulty: the legacy signatures are left out.                             *)
applySignersOnly(o) ==
    {n \in {"additionalSigners", "externalSigners"} : Val(o, n) = "keys"}
applySigners(o) ==
    {n \in {"legacySignatures", "additionalSigners", "externalSigners"} : Val(o, n) = "keys"}

applyQueryOptions(o) ==
    Over(IF Val(o, "nodeAccountIds") = "noIds" THEN NoFields ELSE Keep(o, {"nodeAccountIds"}),
         Keep(o, {"payerAccountId", "maxQueryPayment", "queryPayment"}))
=============================================================================
