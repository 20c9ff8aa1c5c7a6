---------------------------- MODULE CallLifecycle ----------------------------
(***************************************************************************)
(* packages/core/src: the life of a service call, from the options to the  *)
(* settled promise, and the listeners of HieroContext that observe it.     *)
(*   BaseOperation.run / scheduleRun     validate, build                   *)
(*   TransactionExecutor.run             the transaction lifecycle         *)
(*   TransactionExecutor.scheduleRun     the same, wrapped in a schedule   *)
(*   QueryExecutor.run                   the query lifecycle               *)
(*   ContractCreateFlowOperation.execute its own copy of the lifecycle     *)
(*   HieroContext                        listener array, emission          *)
(*   normalizeError                      what the caller is told           *)
(*                                                                         *)
(* A call goes                                                             *)
(*   idle -> before -> sign -> execute -> receipt -> after -> map -> done  *)
(*                  \-> query ------------------/                          *)
(* with every failure from sign on leading through "after" to "done".      *)
(* An emission walks the live listener array: for..of keeps a position in  *)
(* it, each handler is awaited, and meanwhile listeners may be added and   *)
(* removed, by other code or by the handler itself.                        *)
(*                                                                         *)
(* External, modelled from how this code uses it: the Hiero SDK's freeze,  *)
(* sign, execute, getReceipt and Query.execute, and the network.           *)
(***************************************************************************)
EXTENDS Integers, Sequences, FiniteSets, SequencesExt

CONSTANTS Calls,          \* service calls
          Listeners,      \* TransactionListener objects
          HasBefore,      \* those with an onBeforeTransaction
          HasAfter,       \* those with an onAfterTransaction
          MaxListeners,   \* bound on the length of the listener array
          MaxCuts         \* bound on the removals one call lives through

ASSUME LifecycleAssumption == /\ HasBefore \subseteq Listeners
                              /\ HasAfter \subseteq Listeners
                              /\ MaxListeners \in Nat
                              /\ MaxCuts \in Nat

VARIABLES listeners,   \* HieroContext.listeners
          call,        \* call[c]: the state of call c
          chain        \* chain[c]: what became of the transaction of call c

vars == <<listeners, call, chain>>

-----------------------------------------------------------------------------
Open      == [code |-> "open", tx |-> FALSE]
Rejected(code) == [code |-> code, tx |-> FALSE]
WithTx(code)   == [code |-> code, tx |-> TRUE]

Answers == [code : {"open", "ok", "result", "INPUT_INVALID", "SDK_ERROR",
                    "RESULT_MAPPING_FAILED", "NOT_FOUND", "UNKNOWN", "raw"},
            tx : BOOLEAN]

(* plain    no mapping of the receipt (updates, transfers, batches, ...)   *)
(* entity   the receipt must carry an ID or an amount: creates, mints, and *)
(*          every scheduleRun(), whose receipt must carry a scheduleId     *)
(* account  the same, in CreateAccountOperation                            *)
(* record   a record or child receipt is fetched afterwards                *)
(* flow     ContractCreateFlowOperation                                    *)
(* query    a query class: QueryExecutor between setters and a mapping,    *)
(*          all within a try of its own that normalizes what is thrown     *)
(* nft      TokenNftInfoQuery, whose answer may be empty                   *)
(* lookup   NetworkService's queries: QueryExecutor, no mapping, no try    *)
QueryClasses == {"query", "nft"}
Queries      == QueryClasses \cup {"lookup"}
Kinds  == {"plain", "entity", "account", "record", "flow"} \cup Queries
Stages == {"idle", "before", "sign", "execute", "receipt", "query", "after", "map", "done"}

(* stage    where the call stands                                          *)
(* pos      listeners walked by the current emission                       *)
(* busy     a handler is being awaited                                     *)
(* told     what the after-event carries: nothing yet, a status, an error  *)
(* answer   what the promise settles with, once known                      *)
(* kept     history: registered when the emission began, and ever since    *)
(* heard    history: notified by the current emission                      *)
(* cuts     history: removals at or before pos during the current emission *)
Fresh == [kind |-> "plain", stage |-> "idle", pos |-> 0, busy |-> FALSE,
          told |-> "nothing", answer |-> Open, kept |-> {}, heard |-> {}, cuts |-> 0]

Init == /\ listeners = <<>>
        /\ call = [c \in Calls |-> Fresh]
        /\ chain = [c \in Calls |-> "none"]

At(c, stage) == call[c].stage = stage
Emitting(c)  == call[c].stage \in {"before", "after"}
Handles(c)   == IF call[c].stage = "before" THEN HasBefore ELSE HasAfter

(* Start walking the array as it is now; and forget a walk that is over.   *)
Emission(q, stage) == [q EXCEPT !.stage = stage, !.pos = 0, !.busy = FALSE,
                                !.kept = ToSet(listeners), !.heard = {}, !.cuts = 0]
Walked(q, stage)   == [q EXCEPT !.stage = stage, !.pos = 0,
                                !.kept = {}, !.heard = {}, !.cuts = 0]

(* Faulty: the after-event of a failure does not carry the error.          *)
FailedSilently(q, a) == [Emission(q, "after") EXCEPT !.told = "status", !.answer = a]

(* catch: the after-event carries the error, then the promise rejects.     *)
Failed(q, a) == [Emission(q, "after") EXCEPT !.told = "error", !.answer = a]

(* Faulty: the network's status is handed on as the code.                  *)
NormalizedByStatus == {Rejected("BUSY"), Rejected("UNKNOWN")}

(* normalizeError of what the SDK or a signer callback may throw: an Error *)
(* with or without status and transactionId, or a value that is no Error.  *)
(* A receipt that failed is NormalizedReceiptError.                        *)
Normalized == {Rejected("SDK_ERROR"), Rejected("UNKNOWN")}
NormalizedReceiptError == WithTx("SDK_ERROR")

-----------------------------------------------------------------------------
(* What a call is refused with before the before-event.  Validators and    *)
(* resolveTransactionId: INPUT_INVALID.  IDs that the SDK cannot parse, in *)
(* build, a setter, nodeAccountIds or payerAccountId: a raw error, but out *)
(* of a query class, whose try encloses setters and applyBaseOptions, an   *)
(* SDK_ERROR.                                                              *)
Refusals(kind) ==
    {a \in Answers : \/ kind # "nft" /\ a = Rejected("INPUT_INVALID")
                     \/ kind \notin QueryClasses /\ a = Rejected("raw")
                     \/ kind \in QueryClasses /\ a = Rejected("SDK_ERROR")}

Refuse(c) ==
    /\ At(c, "idle")
    /\ \E kind \in Kinds : \E a \in Refusals(kind) :
          call' = [call EXCEPT ![c] = [Fresh EXCEPT !.kind = kind, !.stage = "done",
                                                    !.answer = a]]
    /\ UNCHANGED <<listeners, chain>>

Start(c) ==
    /\ At(c, "idle")
    /\ \E kind \in Kinds :
          call' = [call EXCEPT ![c] = Emission([Fresh EXCEPT !.kind = kind], "before")]
    /\ UNCHANGED <<listeners, chain>>

(* Faulty: a listener without a handler ends the emission.                 *)
NotifyUntilGap(c) ==
    /\ Emitting(c) /\ ~call[c].busy /\ call[c].pos < Len(listeners)
    /\ LET l == listeners[call[c].pos + 1] IN
       call' = [call EXCEPT ![c] =
                  IF l \in Handles(c)
                  THEN [@ EXCEPT !.pos = @ + 1, !.busy = TRUE, !.heard = @ \cup {l}]
                  ELSE [@ EXCEPT !.pos = Len(listeners)]]
    /\ UNCHANGED <<listeners, chain>>

(* for (const listener of this.listeners): the next one in the live array. *)
Notify(c) ==
    /\ Emitting(c) /\ ~call[c].busy /\ call[c].pos < Len(listeners)
    /\ LET l == listeners[call[c].pos + 1] IN
       call' = [call EXCEPT ![c].pos = @ + 1,
                            ![c].busy = l \in Handles(c),
                            ![c].heard = IF l \in Handles(c) THEN @ \cup {l} ELSE @]
    /\ UNCHANGED <<listeners, chain>>

(* Faulty: onAfterTransaction's error escapes and becomes the outcome.     *)
HandlerThrowsThrough(c) ==
    /\ Emitting(c) /\ call[c].busy
    /\ \/ call' = [call EXCEPT ![c].busy = FALSE]
       \/ call' = [call EXCEPT ![c] = [@ EXCEPT !.stage = "done", !.busy = FALSE,
                                                !.answer = Rejected("raw")]]
    /\ UNCHANGED <<listeners, chain>>

(* The awaited handler resolved, or threw and was reported as a warning.   *)
HandlerSettles(c) ==
    /\ Emitting(c) /\ call[c].busy
    /\ call' = [call EXCEPT ![c].busy = FALSE]
    /\ UNCHANGED <<listeners, chain>>

(* The walk is over: the lifecycle goes on.                                *)
AfterWalk(q) == IF q.stage = "before"
                THEN IF q.kind \in Queries THEN "query" ELSE "sign"
                ELSE IF q.answer = Open THEN "map" ELSE "done"

(* Faulty: the walk ends only exactly at the end of the array.             *)
EmittedAtTheEnd(c) ==
    /\ Emitting(c) /\ ~call[c].busy /\ call[c].pos = Len(listeners)
    /\ call' = [call EXCEPT ![c] = Walked(@, AfterWalk(@))]
    /\ UNCHANGED <<listeners, chain>>

Emitted(c) ==
    /\ Emitting(c) /\ ~call[c].busy /\ call[c].pos >= Len(listeners)
    /\ call' = [call EXCEPT ![c] = Walked(@, AfterWalk(@))]
    /\ UNCHANGED <<listeners, chain>>

-----------------------------------------------------------------------------
(* freezeWith, offline signatures, private keys, external signers: any of  *)
(* them may throw, a signer callback even a HieroError of its own, which   *)
(* normalizeError hands on as it is.                                       *)
Sign(c) ==
    /\ At(c, "sign")
    /\ \/ call' = [call EXCEPT ![c].stage = "execute"]
       \/ \E a \in Normalized \cup {Rejected("INPUT_INVALID")} :
             call' = [call EXCEPT ![c] = Failed(@, a)]
    /\ UNCHANGED <<listeners, chain>>

(* External: a node takes the transaction while execute() is under way ... *)
Reach(c) ==
    /\ At(c, "execute") /\ chain[c] = "none"
    /\ chain' = [chain EXCEPT ![c] = "sent"]
    /\ UNCHANGED <<listeners, call>>

(* ... and the network decides it, whether or not anyone is still waiting. *)
Consensus(c) ==
    /\ chain[c] = "sent"
    /\ \E fate \in {"success", "failed"} : chain' = [chain EXCEPT ![c] = fate]
    /\ UNCHANGED <<listeners, call>>

Executed(c) ==
    /\ At(c, "execute") /\ chain[c] # "none"
    /\ call' = [call EXCEPT ![c].stage = "receipt"]
    /\ UNCHANGED <<listeners, chain>>

(* A node refused it (the error names the transaction), or no answer came  *)
(* back, or a later chunk of it failed: a node may have taken it as well.  *)
ExecuteFails(c) ==
    /\ At(c, "execute")
    /\ \E a \in Normalized \cup {NormalizedReceiptError} :
          call' = [call EXCEPT ![c] = Failed(@, a)]
    /\ UNCHANGED <<listeners, chain>>

(* Faulty: the after-event is announced before the receipt is in.          *)
ReceiptAssumed(c) ==
    /\ At(c, "receipt")
    /\ call' = [call EXCEPT ![c] = [Emission(@, "after") EXCEPT !.told = "status"]]
    /\ UNCHANGED <<listeners, chain>>

(* getReceipt: a receipt of success ends the try block.  In the contract   *)
(* flow a receipt without contractId still throws inside it.               *)
ReceiptArrives(c) ==
    /\ At(c, "receipt") /\ chain[c] = "success"
    /\ \/ call' = [call EXCEPT ![c] = [Emission(@, "after") EXCEPT !.told = "status"]]
       \/ /\ call[c].kind = "flow"
          /\ call' = [call EXCEPT ![c] = Failed(@, WithTx("SDK_ERROR"))]
    /\ UNCHANGED <<listeners, chain>>

(* getReceipt threw: the receipt's own failure, or no receipt to be had.   *)
ReceiptFails(c) ==
    /\ At(c, "receipt")
    /\ \E a \in Normalized \cup {NormalizedReceiptError} :
          /\ a = NormalizedReceiptError => chain[c] = "failed"
          /\ call' = [call EXCEPT ![c] = Failed(@, a)]
    /\ UNCHANGED <<listeners, chain>>

(* A query that fails may name a transaction too: the one it asked about,  *)
(* or the payment that a node refused.                                     *)
QueryAnswers(c) ==
    /\ At(c, "query")
    /\ \/ call' = [call EXCEPT ![c] = [Emission(@, "after") EXCEPT !.told = "status"]]
       \/ \E a \in Normalized \cup {NormalizedReceiptError} :
             call' = [call EXCEPT ![c] = Failed(@, a)]
    /\ UNCHANGED <<listeners, chain>>

(* What is thrown when the result of a landed transaction, or the answer   *)
(* of a query, cannot be mapped, after the event has told of a success: a  *)
(* key or a date in the answer that the SDK trips over, no NFT in it.      *)
MappingFailures(kind) ==
    {a \in Answers : \/ kind = "entity"  /\ a = WithTx("SDK_ERROR")
                     \/ kind = "account" /\ a = Rejected("SDK_ERROR")
                     \/ kind = "record"  /\ a = WithTx("RESULT_MAPPING_FAILED")
                     \/ kind \in QueryClasses /\ a = Rejected("SDK_ERROR")
                     \/ kind = "nft" /\ a = Rejected("NOT_FOUND")}

(* What the promise resolves with.                                         *)
Mapped(kind) == IF kind \in Queries THEN Rejected("result") ELSE WithTx("ok")

Map(c) ==
    /\ At(c, "map")
    /\ \E a \in MappingFailures(call[c].kind) \cup {Mapped(call[c].kind)} :
          call' = [call EXCEPT ![c].stage = "done", ![c].answer = a]
    /\ UNCHANGED <<listeners, chain>>

-----------------------------------------------------------------------------
(* addTransactionListener: the same object may be registered twice.        *)
AddListener(l) ==
    /\ Len(listeners) < MaxListeners
    /\ listeners' = Append(listeners, l)
    /\ UNCHANGED <<call, chain>>

(* removeTransactionListener: splice the first occurrence out of the live  *)
(* array.  Only the history of the walks under way changes in call.        *)
RemoveListener(l) ==
    \E i \in 1..Len(listeners) :
       /\ listeners[i] = l /\ \A j \in 1..(i - 1) : listeners[j] # l
       /\ \A c \in Calls : call[c].cuts < MaxCuts
       /\ listeners' = RemoveAt(listeners, i)
       /\ call' = [c \in Calls |->
                      [call[c] EXCEPT !.kept = @ \ {l},
                                      !.cuts = IF Emitting(c) /\ i <= call[c].pos
                                               THEN @ + 1 ELSE @]]
       /\ UNCHANGED chain

(* The executors' own steps.                                               *)
Step(c) == \/ Notify(c) \/ Emitted(c) \/ Sign(c) \/ Map(c)

(* What the SDK answers to an awaited call.                                *)
SdkSettles(c) == \/ Executed(c) \/ ExecuteFails(c)
                 \/ ReceiptArrives(c) \/ ReceiptFails(c) \/ QueryAnswers(c)

Next == \/ \E c \in Calls : \/ Refuse(c) \/ Start(c) \/ Step(c) \/ HandlerSettles(c)
                             \/ Reach(c) \/ Consensus(c) \/ SdkSettles(c)
        \/ \E l \in Listeners : AddListener(l) \/ RemoveListener(l)

(***************************************************************************)
(* Fairness: continuations run; the SDK settles what it was asked (it has  *)
(* attempt and request timeouts); and, which this code does not enforce,   *)
(* every handler settles.  Nobody needs to add, remove or decide anything. *)
(***************************************************************************)
Fairness == \A c \in Calls : /\ WF_vars(Step(c)) /\ WF_vars(SdkSettles(c))
                             /\ WF_vars(HandlerSettles(c))

Spec == Init /\ [][Next]_vars /\ Fairness

-----------------------------------------------------------------------------
TypeOK ==
    /\ listeners \in Seq(Listeners) /\ Len(listeners) <= MaxListeners
    /\ chain \in [Calls -> {"none", "sent", "success", "failed"}]
    /\ call \in [Calls -> [kind : Kinds, stage : Stages, pos : 0..MaxListeners,
                           busy : BOOLEAN, told : {"nothing", "status", "error"},
                           answer : Answers, kept : SUBSET Listeners,
                           heard : SUBSET Listeners, cuts : 0..MaxCuts]]

(* The caller can trust the answer: success and RESULT_MAPPING_FAILED only *)
(* for a transaction that landed, and naming it; INPUT_INVALID ("rejected  *)
(* before anything is sent", HieroError.ts), raw errors, and what a query  *)
(* answers or does not find, only where no transaction was sent.  Failing  *)
(* handlers change none of it.                                             *)
AnswerMatchesChain ==
    \A c \in Calls : At(c, "done") =>
        LET a == call[c].answer IN
        /\ a.code \in {"ok", "RESULT_MAPPING_FAILED"} => chain[c] = "success" /\ a.tx
        /\ a.code \in {"INPUT_INVALID", "raw", "result", "NOT_FOUND"}
              => chain[c] = "none" /\ ~a.tx

(* The after-event and the promise agree.  A status means that the         *)
(* transaction landed, or the query was answered: the promise resolves, or *)
(* rejects over the mapping alone (a query then without any transaction).  *)
(* After an error the promise rejects, and not over a mapping or an empty  *)
(* answer.  Without an event nothing was sent: the input was refused, or   *)
(* in a query class the SDK's own objection to it was made an SDK_ERROR.   *)
EventMatchesAnswer ==
    \A c \in Calls : At(c, "done") =>
        LET q == call[c] IN
        /\ q.told = "status"
              => /\ chain[c] = IF q.kind \in Queries THEN "none" ELSE "success"
                 /\ q.answer \in {Mapped(q.kind)} \cup MappingFailures(q.kind)
        /\ q.told = "error"
              => q.answer.code \notin {"ok", "result", "RESULT_MAPPING_FAILED", "NOT_FOUND"}
        /\ q.told = "nothing"
              => /\ chain[c] = "none"
                 /\ \/ q.answer.code \in {"INPUT_INVALID", "raw"}
                    \/ q.kind \in QueryClasses /\ q.answer = Rejected("SDK_ERROR")

(* Listeners registered throughout the walk that it has passed by.         *)
StillAhead(c) == {listeners[i] : i \in (call[c].pos + 1)..Len(listeners)}
Overlooked(c) == (call[c].kept \cap Handles(c)) \ (call[c].heard \cup StillAhead(c))

(* An emission overlooks a registered listener only because another one,   *)
(* already walked, was removed meanwhile: one removal, one listener.       *)
OverlooksOnlyByRemoval ==
    \A c \in Calls : Emitting(c) => Cardinality(Overlooked(c)) <= call[c].cuts

(* However the listeners come and go, a call that started settles.         *)
EveryCallSettles == \A c \in Calls : At(c, "before") ~> At(c, "done")

(* Refinement: the listeners are invisible in what the caller is promised. *)
replyOf == [c \in Calls |-> IF At(c, "done") THEN call[c].answer ELSE Open]
Ledger  == INSTANCE LedgerCall WITH reply <- replyOf
ImplementsLedger == Ledger!Spec

-----------------------------------------------------------------------------
(* Claims of the documentation that the code does not keep.                *)

(* HieroContext.ts: "Emit an after-transaction event to all registered     *)
(* listeners", "the remaining listeners still run".                        *)
EveryListenerHears == \A c \in Calls : Emitting(c) => Overlooked(c) = {}

(* core/README.md: "Errors from a transaction also carry its               *)
(* transactionId".                                                         *)
ErrorsCarryTransactionId ==
    \A c \in Calls : At(c, "done") /\ chain[c] = "success" /\ call[c].answer.code # "ok"
                         => call[c].answer.tx
=============================================================================
