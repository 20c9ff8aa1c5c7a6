----------------------------- MODULE TopicCalls -----------------------------
(***************************************************************************)
(* packages/core/src/services/topic, file and schedule: what their calls   *)
(* may be given, refuse and send, and what reading a topic, a file or a    *)
(* schedule back answers.  An update has three states for an option: left  *)
(* out, null to clear, or a value; the SDK has no null, so clearing is     *)
(* done with what the network takes for nothing.                           *)
(***************************************************************************)
EXTENDS CallOptions

TopicCreateOptions ==
    [topicMemo |-> "text", adminKey |-> "key", submitKey |-> "key",
     autoRenewAccountId |-> "id", autoRenewPeriod |-> "number", feeScheduleKey |-> "key",
     feeExemptKeys |-> "list", customFees |-> "list"]

TopicCreateValidator(o) == FALSE

TopicCreate(o) ==
    Keep(o, {"topicMemo", "adminKey", "submitKey", "autoRenewAccountId", "autoRenewPeriod",
             "feeScheduleKey", "feeExemptKeys", "customFees"})
-----------------------------------------------------------------------------
TopicUpdateOptions ==
    [topicId |-> "id", topicMemo |-> "text", adminKey |-> "key", submitKey |-> "key",
     feeScheduleKey |-> "key", feeExemptKeys |-> "list", autoRenewAccountId |-> "id",
     autoRenewPeriod |-> "number", customFees |-> "list", expirationTime |-> "time"]

IsNull(o, n)    == Val(o, n) = "null"
Defined(o, n)   == Val(o, n) # "undefined"

TopicUpdateValidator(o) ==
    \/ NoId(o, "topicId")
    \/ TooLong(o, "topicMemo")
    \/ IsNull(o, "autoRenewPeriod") \/ IsNull(o, "expirationTime")
    \/ \A n \in DOMAIN TopicUpdateOptions \ {"topicId"} : ~Defined(o, n)

(* Clear: what stands for nothing in each field that may be cleared.       *)
Clear == [topicMemo |-> "emptyText", adminKey |-> "emptyKey", submitKey |-> "emptyKey",
          feeScheduleKey |-> "emptyKey", feeExemptKeys |-> "cleared",
          autoRenewAccountId |-> "0.0.0", customFees |-> "cleared"]

(* Faulty: null is taken for an option left out.                           *)
TopicUpdateKeeping(o) == Keep(o, DOMAIN TopicUpdateOptions)
TopicUpdate(o) ==
    Over([n \in {n \in DOMAIN Clear : IsNull(o, n)} |-> Clear[n]],
         Keep(o, {"topicId", "autoRenewPeriod", "expirationTime"} \cup DOMAIN Clear))

TopicDeleteOptions == [topicId |-> "id"]
TopicDeleteValidator(o) == NoId(o, "topicId")
TopicDelete(o) == Keep(o, {"topicId"})

TopicMessageSubmitOptions ==
    [topicId |-> "id", message |-> "contents", maxChunks |-> "count", chunkSize |-> "count",
     customFeeLimits |-> "list"]

TopicMessageSubmitValidator(o) ==
    \/ NoId(o, "topicId")
    \/ Missing(o, "message") \/ o.message = "noBytes"
    \/ \E n \in {"maxChunks", "chunkSize"} : NotCounting(o, n)

TopicMessageSubmit(o) ==
    Keep(o, {"topicId", "message", "maxChunks", "chunkSize", "customFeeLimits"})

TopicInfoResult == Same(
    {"topicMemo", "adminKey", "submitKey", "feeScheduleKey", "feeExemptKeys",
     "autoRenewPeriod", "autoRenewAccountId", "customFees", "expirationTime"})

(* A subscription; what fails after it began goes to the handler, or to a  *)
(* warning of the process.  A message may name no transaction.             *)
TopicMessageSubscribeOptions ==
    [topicId |-> "id", startTime |-> "time", endTime |-> "time", limit |-> "count",
     maxAttempts |-> "count", maxBackoff |-> "count", errorHandler |-> "handler",
     completionHandler |-> "handler"]

TopicMessageQuery(o) == Keep(o, DOMAIN TopicMessageSubscribeOptions \ {"errorHandler"})
handleError(o) ==
    Answer("SDK_ERROR", FALSE,
           With("toldTo", IF Given(o, "errorHandler") THEN "handler" ELSE "warning"))
TopicMessageResult(sdkMessage) ==
    Answer("ok", TRUE, [sequenceNumber |-> sdkMessage.sequenceNumber,
                        initialTransactionId |-> sdkMessage.initialTransactionId])
-----------------------------------------------------------------------------
FileCreateOptions ==
    [contents |-> "contents", keys |-> "keyList", fileMemo |-> "text", expirationTime |-> "time"]

FileCreateValidator(o) == FALSE

(* FileService.createFile fills in the operator's key.                     *)
FileCreate(o) ==
    Over(IF Given(o, "keys") THEN NoFields ELSE With("keys", "ofTheOperator"),
         Keep(o, {"contents", "keys", "fileMemo", "expirationTime"}))

FileUpdateOptions ==
    [fileId |-> "id", contents |-> "contents", keys |-> "keyList", fileMemo |-> "text",
     expirationTime |-> "time"]

FileUpdateValidator(o) ==
    \/ NoId(o, "fileId")
    \/ IsNull(o, "expirationTime")
    \/ \A n \in DOMAIN FileUpdateOptions \ {"fileId"} : ~Defined(o, n)

FileUpdate(o) ==
    Over(IF IsNull(o, "fileMemo") THEN With("fileMemo", "emptyText") ELSE NoFields,
         Keep(o, {"fileId", "contents", "keys", "fileMemo", "expirationTime"}))

FileAppendOptions ==
    [fileId |-> "id", contents |-> "contents", maxChunks |-> "count", chunkSize |-> "count",
     chunkInterval |-> "number"]

FileAppendValidator(o) ==
    \/ NoId(o, "fileId")
    \/ Missing(o, "contents")
    \/ \E n \in {"maxChunks", "chunkSize"} : NotCounting(o, n)

FileAppend(o) == Keep(o, {"fileId", "contents", "maxChunks", "chunkSize", "chunkInterval"})

FileDeleteOptions == [fileId |-> "id"]
FileDeleteValidator(o) == NoId(o, "fileId")
FileDelete(o) == Keep(o, {"fileId"})

FileInfoResult == Same({"expirationTime", "keys", "fileMemo"})
-----------------------------------------------------------------------------
ScheduleSignOptions == [scheduleId |-> "id"]
ScheduleSignValidator(o) == NoId(o, "scheduleId")
ScheduleSign(o) == Keep(o, {"scheduleId"})

ScheduleCancelOptions == [scheduleId |-> "id", adminKey |-> "key"]
ScheduleCancelValidator(o) == NoId(o, "scheduleId") \/ Missing(o, "adminKey")
ScheduleCancel(o) == Keep(o, {"scheduleId"})

(* getInfo: the network tells when a schedule was executed or deleted.     *)
(* Faulty: what was deleted is still told to be pending.                   *)
ScheduleInfoResultHopeful(info) ==
    [isExecuted |-> Flag(info.executed # "null"), isDeleted |-> Flag(info.deleted # "null"),
     isPending |-> Flag(info.executed = "null"),
     executedAt |-> info.executed, deletedAt |-> info.deleted,
     payerAccountId |-> info.payer, scheduleMemo |-> info.memo]
ScheduleInfoResult(info) ==
    [isExecuted |-> Flag(info.executed # "null"), isDeleted |-> Flag(info.deleted # "null"),
     isPending |-> Flag(info.executed = "null" /\ info.deleted = "null"),
     executedAt |-> info.executed, deletedAt |-> info.deleted,
     payerAccountId |-> info.payer, scheduleMemo |-> info.memo]
=============================================================================
