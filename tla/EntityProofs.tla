---------------------------- MODULE EntityProofs ----------------------------
(***************************************************************************)
(* About the calls of the services on one entity, for any number of calls  *)
(* and any options that their interfaces admit: the entity is what was     *)
(* asked for (CarriedOut), reads back as such (ReadsBack), and what the    *)
(* callers are told of it is true (ToldTruly).                             *)
(*                                                                         *)
(* The invariant, EntityInv, adds to these what no single answer shows:    *)
(* that the fields have no other names than the entity's info query knows, *)
(* and that what a pending schedule holds is what its creator was          *)
(* promised, so that whoever signs it last completes that.  For each call  *)
(* that makes or changes something a lemma says that what build() makes of *)
(* admitted options, if they are not refused, is what is promised          *)
(* (...Promised); ExecuteKeeps, ScheduleKeeps and AskKeeps say that then   *)
(* the invariant stays.                                                    *)
(***************************************************************************)
EXTENDS EntityCalls, TLAPS

-----------------------------------------------------------------------------
(* Options and fields, name by name.                                       *)

(* A function in which nothing stands as left out.                         *)
Fields(f) == /\ f = [n \in DOMAIN f |-> f[n]]
             /\ \A n \in DOMAIN f : f[n] # "undefined"

LEMMA NoFieldsEmpty == Fields(NoFields) /\ DOMAIN NoFields = {}
BY DEF Fields, NoFields

(* What two such functions have under each name decides if they are equal. *)
LEMMA SameFields ==
    ASSUME NEW f, NEW g, Fields(f), Fields(g), \A n : Val(f, n) = Val(g, n)
    PROVE  f = g
<1>1. DOMAIN f = DOMAIN g
  BY DEF Fields, Val
<1>2. \A n \in DOMAIN f : f[n] = g[n]
  BY <1>1 DEF Val
<1> QED
  BY <1>1, <1>2 DEF Fields

LEMMA KeepVal ==
    ASSUME NEW o, NEW names, NEW n
    PROVE  Val(Keep(o, names), n) = IF n \in names /\ Given(o, n) THEN o[n] ELSE "undefined"
BY DEF Val, Keep, Given

LEMMA KeepOf ==
    ASSUME NEW o, NEW names, NEW n
    PROVE  Val(Keep(o, names), n) = IF n \in names /\ Given(o, n) THEN Val(o, n)
                                    ELSE "undefined"
BY DEF Val, Keep, Given

LEMMA KeepFields ==
    ASSUME NEW o, NEW names
    PROVE  Fields(Keep(o, names))
BY DEF Val, Keep, Given, Fields

LEMMA KeepDomain ==
    ASSUME NEW o, NEW names
    PROVE  DOMAIN Keep(o, names) \subseteq names
BY DEF Keep

LEMMA OverVal ==
    ASSUME NEW f, NEW g, NEW n
    PROVE  Val(Over(f, g), n) = IF n \in DOMAIN f THEN f[n] ELSE Val(g, n)
BY DEF Val, Over

LEMMA OverDomain ==
    ASSUME NEW f, NEW g, NEW n
    PROVE  n \in DOMAIN Over(f, g) <=> n \in DOMAIN f \/ n \in DOMAIN g
BY DEF Over

LEMMA OverFields ==
    ASSUME NEW f, NEW g, Fields(f), Fields(g)
    PROVE  Fields(Over(f, g))
BY DEF Over, Fields

LEMMA WithVal ==
    ASSUME NEW m, NEW v, NEW n
    PROVE  Val(With(m, v), n) = IF n = m THEN v ELSE "undefined"
BY DEF Val, With

LEMMA WithFields ==
    ASSUME NEW m, NEW v
    PROVE  /\ DOMAIN With(m, v) = {m} /\ With(m, v)[m] = v
           /\ v # "undefined" => Fields(With(m, v))
BY DEF With, Fields

LEMMA WithoutVal ==
    ASSUME NEW f, NEW names, NEW n
    PROVE  Val(Without(f, names), n) = IF n \in names THEN "undefined" ELSE Val(f, n)
BY DEF Val, Without

LEMMA WithoutFields ==
    ASSUME NEW f, NEW names
    PROVE  /\ DOMAIN Without(f, names) = DOMAIN f \ names
           /\ Fields(f) => Fields(Without(f, names))
BY DEF Without, Fields

(* What a network takes of the fields it is sent.                          *)
Cleared == {"emptyKey", "cleared", "0.0.0"}
LEMMA TakenVal ==
    ASSUME NEW f, NEW n
    PROVE  Val(Taken(f), n) = IF n \in EntityIds THEN "undefined"
                              ELSE IF Val(f, n) \in Cleared THEN "none" ELSE Val(f, n)
BY DEF Val, Taken, Cleared

LEMMA TakenFields ==
    ASSUME NEW f
    PROVE  /\ DOMAIN Taken(f) = DOMAIN f \ EntityIds
           /\ Fields(f) => Fields(Taken(f))
BY DEF Taken, Fields

LEMMA OverOf ==
    ASSUME NEW f, NEW g, NEW n, Fields(f)
    PROVE  Val(Over(f, g), n) = IF Val(f, n) # "undefined" THEN Val(f, n) ELSE Val(g, n)
BY DEF Val, Over, Fields

LEMMA OverWith ==
    ASSUME NEW m, NEW v, NEW f, NEW n
    PROVE  Val(Over(With(m, v), f), n) = IF n = m THEN v ELSE Val(f, n)
BY DEF Val, Over, With

LEMMA OverNone ==
    ASSUME NEW f, NEW n
    PROVE  Val(Over(NoFields, f), n) = Val(f, n)
BY NoFieldsEmpty DEF Val, Over

(* What it is told: what is promised, and the options given besides.       *)
LEMMA ToldVal ==
    ASSUME NEW call, NEW o, NEW n
    PROVE  Val(Told(call, o), n) =
              IF n \in EntityIds THEN "undefined"
              ELSE IF n \in DOMAIN Promised(call, o) THEN Promised(call, o)[n]
              ELSE IF n \in DOMAIN TransactionOptions \cup Aside(call) THEN "undefined"
              ELSE IF Given(o, n) THEN o[n] ELSE "undefined"
<1> DEFINE own == DOMAIN o \ (DOMAIN TransactionOptions \cup Aside(call))
           kept == Keep(o, own)
<1>1. Given(o, n) => n \in DOMAIN o
  BY DEF Given, Val
<1>2. Val(kept, n) = IF n \in own /\ Given(o, n) THEN o[n] ELSE "undefined"
  BY KeepVal
<1>3. Told(call, o) = Without(Over(Promised(call, o), kept), EntityIds)
  BY DEF Told
<1> HIDE DEF kept
<1> QED
  BY <1>1, <1>2, <1>3, OverVal, WithoutVal

LEMMA ToldOf ==
    ASSUME NEW call, NEW o, NEW n, Fields(Promised(call, o))
    PROVE  Val(Told(call, o), n) =
              IF n \in EntityIds THEN "undefined"
              ELSE IF Val(Promised(call, o), n) # "undefined" THEN Val(Promised(call, o), n)
              ELSE IF n \in DOMAIN TransactionOptions \cup Aside(call) THEN "undefined"
              ELSE IF Given(o, n) THEN Val(o, n) ELSE "undefined"
<1>1. n \in DOMAIN Promised(call, o) <=> Val(Promised(call, o), n) # "undefined"
  BY DEF Fields, Val
<1>2. n \in DOMAIN Promised(call, o) => Val(Promised(call, o), n) = Promised(call, o)[n]
  BY DEF Val
<1>3. Given(o, n) => Val(o, n) = o[n]
  BY DEF Given, Val
<1> QED
  BY <1>1, <1>2, <1>3, ToldVal

LEMMA ToldFields ==
    ASSUME NEW call, NEW o, Fields(Promised(call, o))
    PROVE  Fields(Told(call, o))
BY KeepFields, OverFields, WithoutFields DEF Told
-----------------------------------------------------------------------------
(* What the interfaces admit.                                              *)

Typed(types) == \A n \in DOMAIN types : types[n] \in DOMAIN Types

(* No option has a value that stands for a cleared field.                  *)
LEMMA PlainTypes == \A t \in DOMAIN Types : Values(t) \cap Cleared = {}
<1> DEFINE Plain(values) == values \cap Cleared = {}
<1>1. \A t \in DOMAIN Types : Plain(Types[t])
  <2>1. /\ Plain(Types.id) /\ Plain(Types.text) /\ Plain(Types.count)
        /\ Plain(Types.number) /\ Plain(Types.hbar) /\ Plain(Types.amount)
        /\ Plain(Types.flag) /\ Plain(Types.key) /\ Plain(Types.keyText)
        /\ Plain(Types.keyType) /\ Plain(Types.alias) /\ Plain(Types.evm)
        /\ Plain(Types.list) /\ Plain(Types.serials) /\ Plain(Types.bytes)
        /\ Plain(Types.callData) /\ Plain(Types.contents) /\ Plain(Types.keyList)
        /\ Plain(Types.time) /\ Plain(Types.tokenType) /\ Plain(Types.supplyType)
        /\ Plain(Types.hooks) /\ Plain(Types.hookIds) /\ Plain(Types.updates)
        /\ Plain(Types.signed) /\ Plain(Types.frozen) /\ Plain(Types.feeMode)
        /\ Plain(Types.bookFile) /\ Plain(Types.batch) /\ Plain(Types.parameters)
        /\ Plain(Types.handler) /\ Plain(Types.signers) /\ Plain(Types.ids)
        /\ Plain(Types.payer) /\ Plain(Types.txId)
    BY DEF Types, Cleared
  <2>2. DOMAIN Types = {"id", "text", "count", "number", "hbar", "amount", "flag",
                        "key", "keyText", "keyType", "alias", "evm", "list",
                        "serials", "bytes", "callData", "contents", "keyList",
                        "time", "tokenType", "supplyType", "hooks", "hookIds",
                        "updates", "signed", "frozen", "feeMode", "bookFile",
                        "batch", "parameters", "handler", "signers", "ids", "payer",
                        "txId"}
    BY DEF Types
  <2> HIDE DEF Plain
  <2> QED
    BY <2>1, <2>2
<1> QED
  BY <1>1 DEF Values, Cleared

LEMMA PlainValues ==
    ASSUME NEW types, NEW shared, NEW o, Typed(types), Typed(shared),
           Admits(Over(types, shared), o)
    PROVE  \A n : Val(o, n) \notin Cleared
<1>1. "undefined" \notin Cleared
  BY DEF Cleared
<1>2. SUFFICES ASSUME NEW n \in DOMAIN o PROVE o[n] \notin Cleared
  BY <1>1 DEF Val
<1> DEFINE all == Over(types, shared)
<1>3. all[n] \in DOMAIN Types
  BY DEF Admits, Over, Typed
<1>4. o[n] \in Values(all[n]) \cup {"undefined"}
  BY DEF Admits
<1> HIDE DEF all
<1> QED
  BY <1>1, <1>3, <1>4, PlainTypes

LEMMA SharedTyped == Typed(TransactionOptions) /\ Typed(FlowOptions)
BY DEF Typed, TransactionOptions, FlowOptions, Types

LEMMA SharedAre == /\ Shared \subseteq DOMAIN TransactionOptions
                   /\ DOMAIN FlowOptions \subseteq DOMAIN TransactionOptions
                   /\ DOMAIN TransactionOptions \cap (EntityIds \cup DOMAIN ScheduleOptions) = {}
BY DEF Shared, TransactionOptions, FlowOptions, EntityIds, ScheduleOptions

LEMMA AskedAdmitted ==
    ASSUME NEW types, NEW usuals, NEW shared, NEW a \in Asked(types, usuals, shared)
    PROVE  Admits(Over(types, shared), a[1])
BY DEF Asked

(* The keys that are given with a call: which options may have them, and   *)
(* that the one form of key that an option has is the one that signs.      *)
SigningOf(call) ==
    {"additionalSigners", "externalSigners", "legacySignatures", "accountKey", "batchKeys"}
    \cup (IF call = "cancel" THEN {"adminKey"} ELSE {})
Signs(call, o, signed) == \A n \in SigningOf(call) : Val(o, n) \in {"key", "keys"} => n \in signed

Signers == {"additionalSigners", "externalSigners", "legacySignatures"}
LEMMA SignersAreKeys ==
    ASSUME NEW types, NEW shared \in {TransactionOptions, FlowOptions}, NEW o,
           Admits(Over(types, shared), o), DOMAIN types \cap Signers = {},
           NEW n \in Signers, Val(o, n) \in {"key", "keys"}
    PROVE  Val(o, n) = "keys"
<1> DEFINE all == Over(types, shared)
<1>1. n \in DOMAIN o /\ o[n] \in Values(all[n]) \cup {"undefined"} /\ n \in DOMAIN all
  BY DEF Val, Admits
<1>2. n \in DOMAIN shared /\ all[n] = shared[n]
  BY <1>1 DEF Over
<1>3. shared[n] = "signers"
  BY <1>2 DEF TransactionOptions, FlowOptions, Signers
<1>4. Values("signers") = {"noKeys", "keys", "null"}
  BY DEF Values, Types
<1> QED
  BY <1>1, <1>2, <1>3, <1>4 DEF Val

(* Signatures of a transaction: those that all share, and the call's own.  *)
LEMMA GivenKeysSign ==
    ASSUME NEW types, NEW shared \in {TransactionOptions, FlowOptions}, NEW o, NEW own, NEW call,
           Admits(Over(types, shared), o), DOMAIN types \cap Signers = {},
           SigningOf(call) \cap DOMAIN types \subseteq own
    PROVE  Signs(call, o, {n \in own : Val(o, n) \in {"key", "keys"}} \cup applySigners(o))
<1> SUFFICES ASSUME NEW n \in SigningOf(call), Val(o, n) \in {"key", "keys"}
             PROVE  n \in {m \in own : Val(o, m) \in {"key", "keys"}} \cup applySigners(o)
  BY DEF Signs
<1>1. CASE n \in Signers
  <2>1. Val(o, n) = "keys"
    BY <1>1, SignersAreKeys
  <2> QED
    BY <1>1, <2>1 DEF Signers, applySigners
<1>2. CASE n \notin Signers
  <2>1. n \in DOMAIN Over(types, shared)
    BY DEF Val, Admits
  <2>2. n \notin DOMAIN shared
    BY <1>2 DEF SigningOf, Signers, TransactionOptions, FlowOptions
  <2>3. n \in DOMAIN types
    BY <2>1, <2>2, OverDomain
  <2> QED
    BY <2>3
<1> QED
  BY <1>1, <1>2
-----------------------------------------------------------------------------
(* What build() makes of a call's options.                                 *)

(* The fields that the info queries know, by the kind of entity.           *)
InfoFields == [token |-> DOMAIN TokenCreateOptions \cup DOMAIN TokenUpdateOptions,
               topic |-> DOMAIN TopicUpdateOptions,
               file  |-> DOMAIN FileUpdateOptions]
Known(k, f) == k \in DOMAIN InfoFields => DOMAIN f \subseteq InfoFields[k]

Changing == {"create", "update"}
Readable(fields) == \A n \in DOMAIN fields \ DOMAIN ScheduleOptions : fields[n] # "badKey"

(* Fields of a transaction that may be sent, or held by a schedule.        *)
Fit(k, call, o, refused, fields, does) ==
    /\ DOMAIN fields \cap Shared = {}
    /\ ~refused => Fields(fields)
    /\ does \in Changing /\ ~refused /\ Readable(fields) => Taken(fields) = Told(call, o)
    /\ does \in Changing => Known(k, fields)

LEMMA KeptFit ==
    ASSUME NEW k, NEW call, NEW o, NEW refused, NEW names, NEW does,
           does \notin Changing, names \cap Shared = {}
    PROVE  Fit(k, call, o, refused, Keep(o, names), does)
BY KeepFields, KeepDomain DEF Fit

(* Options that are all sent by their own names, as they are given.        *)
LEMMA PlainFit ==
    ASSUME NEW k, NEW call, NEW types, NEW shared \in {TransactionOptions, FlowOptions}, NEW o,
           NEW refused, NEW names, NEW does,
           Typed(types), Admits(Over(types, shared), o), names = DOMAIN types,
           names \cap DOMAIN TransactionOptions = {}, Known(k, types),
           Promised(call, o) = NoFields, Aside(call) = {}
    PROVE  Fit(k, call, o, refused, Keep(o, names), does)
<1> DEFINE fields == Keep(o, names)
<1>1. Fields(fields) /\ DOMAIN fields \subseteq names
  BY KeepFields, KeepDomain
<1>2. DOMAIN fields \cap Shared = {}
  BY <1>1, SharedAre
<1>3. Known(k, fields)
  BY <1>1 DEF Known
<1>4. Taken(fields) = Told(call, o)
  <2>1. Fields(Taken(fields)) /\ Fields(Told(call, o))
    BY <1>1, TakenFields, ToldFields, NoFieldsEmpty
  <2>2. ASSUME NEW n PROVE Val(Taken(fields), n) = Val(Told(call, o), n)
    <3>1. Val(fields, n) = IF n \in names /\ Given(o, n) THEN o[n] ELSE "undefined"
      BY KeepVal
    <3>2. Val(fields, n) \notin Cleared
      <4>1. Val(o, n) \notin Cleared
        BY PlainValues, SharedTyped
      <4> QED
        BY <3>1, <4>1 DEF Cleared, Given, Val
    <3>3. Val(Taken(fields), n) = IF n \in EntityIds THEN "undefined" ELSE Val(fields, n)
      BY <3>2, TakenVal
    <3>4. Val(Told(call, o), n) =
             IF n \in EntityIds THEN "undefined"
             ELSE IF n \in DOMAIN TransactionOptions THEN "undefined"
             ELSE IF Given(o, n) THEN o[n] ELSE "undefined"
      BY ToldVal, NoFieldsEmpty
    <3>5. Given(o, n) => n \in DOMAIN types \cup DOMAIN TransactionOptions
      <4>1. Given(o, n) => n \in DOMAIN Over(types, shared)
        BY DEF Given, Val, Admits
      <4> QED
        BY <4>1, OverDomain, SharedAre
    <3> QED
      BY <3>1, <3>3, <3>4, <3>5
  <2> QED
    BY <2>1, <2>2, SameFields
<1> QED
  BY <1>1, <1>2, <1>3, <1>4 DEF Fit
(* Options of which some are written in another way: name by name.         *)
LEMMA TakenIsTold ==
    ASSUME NEW call, NEW types, NEW shared \in {TransactionOptions, FlowOptions}, NEW o, NEW fields,
           Admits(Over(types, shared), o), Fields(fields), Fields(Promised(call, o)),
           \A n : n \notin EntityIds =>
                (IF Val(fields, n) \in Cleared THEN "none" ELSE Val(fields, n))
                = IF Val(Promised(call, o), n) # "undefined" THEN Val(Promised(call, o), n)
                  ELSE IF n \in DOMAIN types \ (DOMAIN TransactionOptions \cup Aside(call))
                          /\ Given(o, n)
                  THEN Val(o, n) ELSE "undefined"
    PROVE  Taken(fields) = Told(call, o)
<1>1. Fields(Taken(fields)) /\ Fields(Told(call, o))
  BY TakenFields, ToldFields
<1>2. ASSUME NEW n PROVE Val(Taken(fields), n) = Val(Told(call, o), n)
  <2>1. Val(Taken(fields), n) = IF n \in EntityIds THEN "undefined"
                                ELSE IF Val(fields, n) \in Cleared THEN "none"
                                ELSE Val(fields, n)
    BY TakenVal
  <2>2. Val(Told(call, o), n) =
              IF n \in EntityIds THEN "undefined"
              ELSE IF Val(Promised(call, o), n) # "undefined" THEN Val(Promised(call, o), n)
              ELSE IF n \in DOMAIN TransactionOptions \cup Aside(call) THEN "undefined"
              ELSE IF Given(o, n) THEN Val(o, n) ELSE "undefined"
    BY ToldOf
  <2>3. Given(o, n) => n \in DOMAIN types \cup DOMAIN TransactionOptions
    <3>1. Given(o, n) => n \in DOMAIN Over(types, shared)
      BY DEF Given, Val, Admits
    <3> QED
      BY <3>1, OverDomain, SharedAre
  <2> QED
    BY <2>1, <2>2, <2>3
<1> QED
  BY <1>1, <1>2, SameFields
-----------------------------------------------------------------------------
(* The invariant.                                                          *)

(* What becomes of the entity is what was promised.                        *)
Stands(k, does, fields, told) ==
    does \in Changing => Fields(fields) /\ Taken(fields) = told /\ Known(k, fields)

(* A schedule whose fields are these.                                      *)
Scheduled(k, s) ==
    /\ s = [status |-> s.status, fields |-> s.fields, does |-> s.does, told |-> s.told,
            payer |-> s.payer, memo |-> s.memo]
    /\ s.status \in {"pending", "executed", "deleted"}
    /\ s.payer # "undefined" /\ s.memo # "undefined"
    /\ Stands(k, s.does, s.fields, s.told)

LedgerOK ==
    /\ ledger = Entity(ledger.state, ledger.has)
    /\ ledger.state \in {"none", "live", "deleted"}
    /\ Fields(ledger.has)
    /\ DOMAIN ledger.has \cap EntityIds = {}
    /\ Known(kind, ledger.has)
    /\ asked = ledger.has

WorldOK ==
    /\ kind \in Kinds
    /\ LedgerOK
    /\ schedule = NoSchedule \/ Scheduled(kind, schedule)

EntityInv == WorldOK /\ TypeOK /\ CarriedOut /\ ReadsBack /\ ToldTruly

(* What lands on the ledger stands there.                                  *)
LEMMA LandsKeeps ==
    ASSUME LedgerOK, NEW does, NEW fields, NEW told, Stands(kind, does, fields, told),
           Lands(does, fields, told), kind' = kind
    PROVE  LedgerOK' /\ (does = "create" => ledger'.has = Taken(fields))
<1>1. CASE does = "create"
  <2>1. ledger' = Entity("live", Taken(fields)) /\ asked' = told
    BY <1>1 DEF Lands
  <2>2. Fields(fields) /\ Taken(fields) = told /\ Known(kind, fields)
    BY <1>1 DEF Stands, Changing
  <2>3. Fields(Taken(fields)) /\ DOMAIN Taken(fields) = DOMAIN fields \ EntityIds
    BY <2>2, TakenFields
  <2>4. ledger'.state = "live" /\ ledger'.has = Taken(fields)
    BY <2>1 DEF Entity
  <2>5. Known(kind, Taken(fields))
    BY <2>2, <2>3 DEF Known
  <2> QED
    BY <2>1, <2>2, <2>3, <2>4, <2>5 DEF LedgerOK
<1>2. CASE does = "update"
  <2>1. ledger' = [ledger EXCEPT !.has = Over(Taken(fields), @)] /\ asked' = Over(told, asked)
    BY <1>2 DEF Lands
  <2>2. Fields(fields) /\ Taken(fields) = told /\ Known(kind, fields)
    BY <1>2 DEF Stands, Changing
  <2>3. Fields(Taken(fields)) /\ DOMAIN Taken(fields) = DOMAIN fields \ EntityIds
    BY <2>2, TakenFields
  <2> DEFINE has == Over(Taken(fields), ledger.has)
  <2>4. ledger' = Entity(ledger.state, has)
    BY <2>1 DEF LedgerOK, Entity
  <2>5. Fields(has)
    BY <2>3, OverFields DEF LedgerOK
  <2>6. DOMAIN has = (DOMAIN fields \ EntityIds) \cup DOMAIN ledger.has
    BY <2>3, OverDomain
  <2>7. asked' = has
    BY <2>1, <2>2 DEF LedgerOK
  <2> HIDE DEF has
  <2>8. ledger'.state = ledger.state /\ ledger'.has = has
    BY <2>4 DEF Entity
  <2>9. Known(kind, has)
    BY <2>2, <2>6 DEF Known, LedgerOK
  <2> QED
    BY <1>2, <2>4, <2>5, <2>6, <2>7, <2>8, <2>9 DEF LedgerOK
<1>3. CASE does = "delete"
  <2>1. ledger' = Entity("deleted", ledger.has) /\ asked' = asked
    BY <1>3 DEF Lands, LedgerOK, Entity
  <2>2. ledger'.state = "deleted" /\ ledger'.has = ledger.has
    BY <2>1 DEF Entity
  <2> QED
    BY <1>3, <2>1, <2>2 DEF LedgerOK
<1>4. CASE does \notin {"create", "update", "delete"}
  <2>1. ledger' = ledger /\ asked' = asked
    BY <1>4 DEF Lands
  <2> QED
    BY <1>4, <2>1 DEF LedgerOK
<1> QED
  BY <1>1, <1>2, <1>3, <1>4
-----------------------------------------------------------------------------
(* What a call sends, and what it answers.                                 *)

Reads == {"getTokenInfo", "getTopicInfo", "getFileInfo", "getScheduleInfo"}

SentFits(call, o, sent) ==
    /\ sent.is \in {"transaction", "schedule"}
    /\ Fields(sent.fields)
    /\ \A n \in Shared : Given(o, n) => Val(sent.fields, n) = o[n]
    /\ Signs(call, o, sent.signed)

AnswerFits(call, a) ==
    /\ a.code \in {"ok", "SDK_ERROR", "RESULT_MAPPING_FAILED"}
    /\ Fields(a.gives)
    /\ a.code = "ok" \/ a.named \/ call = "createAccount"
    /\ call = "submitBatch" => a.code # "SDK_ERROR"

NewAccountTold(a) ==
    a.code = "ok" => /\ a.gives.publicKey = ledger.has.key
                     /\ Val(a.gives, "evmAddress") = Val(ledger.has, "alias")

(* The answers of run, whatever became of the world.                       *)
Outcome(call, o, code, sent, answers) ==
    \/ code # "no" /\ Done(call, o, Nothing, "refused", Answer(code, FALSE, NoFields))
    \/ /\ code = "no"
       /\ \E named \in BOOLEAN, reached \in {"failed", "lost"} :
             Done(call, o, sent, reached, Failure(call, o, named))
    \/ /\ code = "no"
       /\ \E a \in answers :
             /\ Done(call, o, sent, "receipt", a)
             /\ call = "createAccount" /\ sent.is = "transaction" => NewAccountTold(a)'

LEMMA AnswerIs ==
    ASSUME NEW code, NEW named, NEW gives
    PROVE  /\ Answer(code, named, gives).code = code
           /\ Answer(code, named, gives).named = named
           /\ Answer(code, named, gives).gives = gives
BY DEF Answer

LEMMA SentIs ==
    ASSUME NEW is, NEW fields, NEW signed
    PROVE  /\ Sent(is, fields, signed).is = is
           /\ Sent(is, fields, signed).fields = fields
           /\ Sent(is, fields, signed).signed = signed
BY DEF Sent

LEMMA DoneIs ==
    ASSUME NEW call, NEW o, NEW sent, NEW reached, NEW answer,
           Done(call, o, sent, reached, answer)
    PROVE  /\ step'.call = call /\ step'.ask = o /\ step'.sent = sent
           /\ step'.reached = reached /\ step'.answer = answer
BY DEF Done

LEMMA NothingSent == Nothing.is = "nothing" /\ Fields(Nothing.fields)
BY SentIs, NoFieldsEmpty DEF Nothing

Codes == {"ok", "INPUT_INVALID", "NOT_FOUND", "SDK_ERROR", "RESULT_MAPPING_FAILED", "raw"}

LEMMA WorldTyped ==
    ASSUME WorldOK'
    PROVE  /\ kind' \in Kinds
           /\ ledger'.state \in {"none", "live", "deleted"}
           /\ schedule'.status \in {"none", "pending", "executed", "deleted"}
           /\ Fields(ledger'.has) /\ ledger'.has = asked'
BY DEF WorldOK, LedgerOK, Scheduled, NoSchedule

LEMMA StepTyped ==
    ASSUME WorldOK', step'.answer.code \in Codes, Fields(step'.sent.fields),
           Fields(step'.answer.gives)
    PROVE  TypeOK'
<1>1. /\ kind' \in Kinds
      /\ ledger'.state \in {"none", "live", "deleted"}
      /\ schedule'.status \in {"none", "pending", "executed", "deleted"}
      /\ Fields(ledger'.has)
  BY WorldTyped
<1>2. \A f \in {ledger'.has, step'.sent.fields, step'.answer.gives} :
          \A n \in DOMAIN f : f[n] # "undefined"
  BY <1>1 DEF Fields
<1> QED
  BY <1>1, <1>2 DEF TypeOK, Codes

LEMMA OutcomeTold ==
    ASSUME WorldOK', NEW call, NEW o, NEW code, NEW sent, NEW answers,
           Outcome(call, o, code, sent, answers),
           call \notin Reads, code \in {"INPUT_INVALID", "raw", "no"},
           code = "no" => /\ SentFits(call, o, sent)
                          /\ \A a \in answers : AnswerFits(call, a)
                          /\ call = "submitBatch" => Given(o, "transactions")
    PROVE  EntityInv'
<1>1. ledger'.has = asked'
  BY WorldTyped
<1>2. CASE code # "no" /\ Done(call, o, Nothing, "refused", Answer(code, FALSE, NoFields))
  <2>1. /\ step'.call = call /\ step'.sent = Nothing /\ step'.reached = "refused"
        /\ step'.answer.code = code /\ step'.answer.gives = NoFields
    <3>1. step'.answer = Answer(code, FALSE, NoFields)
      BY <1>2, DoneIs
    <3> QED
      BY <1>2, <3>1, DoneIs DEF Answer
  <2>2. TypeOK'
    BY <1>2, <2>1, StepTyped, NothingSent, NoFieldsEmpty DEF Codes
  <2>3. CarriedOut'
    BY <1>1, <2>1, NothingSent DEF CarriedOut
  <2>4. ReadsBack' /\ ToldTruly'
    BY <1>2, <2>1 DEF ReadsBack, ToldTruly
  <2> QED
    BY <2>2, <2>3, <2>4 DEF EntityInv
<1>3. ASSUME code = "no", step'.sent = sent, step'.call = call, step'.ask = o
      PROVE  CarriedOut'
  <2>1. SentFits(call, o, sent)
    BY <1>3
  <2>2. \A n \in Signing' : Val(o, n) \in {"key", "keys"} => n \in sent.signed
    BY <1>3, <2>1 DEF SentFits, Signs, SigningOf, Signing
  <2> QED
    BY <1>1, <1>3, <2>1, <2>2 DEF CarriedOut, SentFits
<1>4. CASE code = "no" /\ \E named \in BOOLEAN, reached \in {"failed", "lost"} :
             Done(call, o, sent, reached, Failure(call, o, named))
  <2>1. PICK named \in BOOLEAN, reached \in {"failed", "lost"} :
             Done(call, o, sent, reached, Failure(call, o, named))
    BY <1>4
  <2> DEFINE gives == IF call = "submitBatch" THEN With("innerTransactionIds", o.transactions)
                      ELSE NoFields
  <2>2. Fields(gives) /\ (call = "submitBatch" => Given(gives, "innerTransactionIds"))
    <3>1. call = "submitBatch" => o.transactions \notin {"undefined", "null"}
      BY <1>4 DEF Given, Val
    <3> QED
      BY <3>1, WithFields, WithVal, NoFieldsEmpty DEF Given
  <2> HIDE DEF gives
  <2>3. /\ step'.call = call /\ step'.sent = sent /\ step'.reached = reached /\ step'.ask = o
        /\ step'.answer.code = "SDK_ERROR" /\ step'.answer.gives = gives
    BY <2>1, DoneIs, AnswerIs DEF Failure, gives
  <2>4. TypeOK'
    BY <1>4, <2>2, <2>3, StepTyped DEF SentFits, Codes
  <2>5. CarriedOut'
    BY <1>3, <1>4, <2>3
  <2>6. ReadsBack' /\ ToldTruly'
    BY <2>2, <2>3 DEF ReadsBack, ToldTruly
  <2> QED
    BY <2>4, <2>5, <2>6 DEF EntityInv
<1>5. CASE code = "no" /\ \E a \in answers :
             /\ Done(call, o, sent, "receipt", a)
             /\ call = "createAccount" /\ sent.is = "transaction" => NewAccountTold(a)'
  <2>1. PICK a \in answers :
             /\ Done(call, o, sent, "receipt", a)
             /\ call = "createAccount" /\ sent.is = "transaction" => NewAccountTold(a)'
    BY <1>5
  <2>2. /\ step'.call = call /\ step'.sent = sent /\ step'.reached = "receipt" /\ step'.ask = o
        /\ step'.answer = a
    BY <2>1, DoneIs
  <2>3. AnswerFits(call, a)
    BY <1>5
  <2>4. TypeOK'
    BY <1>5, <2>2, <2>3, StepTyped DEF SentFits, AnswerFits, Codes
  <2>5. CarriedOut'
    BY <1>3, <1>5, <2>2
  <2>6. ReadsBack'
    BY <2>2 DEF ReadsBack, Reads
  <2>7. ToldTruly'
    BY <2>1, <2>2, <2>3 DEF ToldTruly, AnswerFits, NewAccountTold
  <2> QED
    BY <2>4, <2>5, <2>6, <2>7 DEF EntityInv
<1> QED
  BY <1>2, <1>4, <1>5 DEF Outcome
-----------------------------------------------------------------------------
(* The calls: sent at once, scheduled, and the queries.                    *)

LEMMA BaseOptionsSent ==
    ASSUME NEW o
    PROVE  /\ Fields(applyBaseOptions(o))
           /\ \A n \in Shared : Given(o, n) => Val(applyBaseOptions(o), n) = o[n]
<1> DEFINE id == resolveTransactionId(o)
           setId == IF id = "none" THEN NoFields ELSE With("transactionId", id)
           nodes == IF Val(o, "nodeAccountIds") = "noIds" THEN NoFields
                    ELSE Keep(o, {"nodeAccountIds"})
           kept == Keep(o, {"maxTransactionFee", "transactionValidDuration", "transactionMemo",
                            "regenerateTransactionId", "highVolume"})
<1>1. applyBaseOptions(o) = Over(setId, Over(nodes, kept))
  BY DEF applyBaseOptions
<1>2. id # "undefined"
  BY DEF resolveTransactionId
<1>3. Fields(setId) /\ DOMAIN setId \subseteq {"transactionId"}
  <2> HIDE DEF id
  <2> QED BY <1>2, WithFields, NoFieldsEmpty
<1>4. Fields(nodes) /\ DOMAIN nodes \subseteq {"nodeAccountIds"}
  BY KeepFields, KeepDomain, NoFieldsEmpty
<1>5. Fields(kept) /\ \A n \in Shared : Given(o, n) => Val(kept, n) = o[n]
  BY KeepFields, KeepVal DEF Shared
<1> HIDE DEF setId, nodes, kept
<1>6. \A n \in Shared : n \notin DOMAIN setId /\ n \notin DOMAIN nodes
  BY <1>3, <1>4 DEF Shared
<1>7. ASSUME NEW n \in Shared, Given(o, n) PROVE Val(applyBaseOptions(o), n) = o[n]
  BY <1>1, <1>5, <1>6, <1>7, OverVal
<1> QED
  BY <1>1, <1>3, <1>4, <1>5, <1>7, OverFields

LEMMA RefusedCodes ==
    ASSUME NEW o, NEW refused, NEW fields
    PROVE  /\ Refused(o, refused, fields) \in {"INPUT_INVALID", "raw", "no"}
           /\ Refused(o, refused, fields) = "no" => ~refused /\ ~Throws(fields)
BY DEF Refused

(* What toAccount says of an account is what the fields make of it.        *)
AccountTold(fields, a) ==
    a.code = "ok" => /\ a.gives.publicKey = Taken(fields).key
                     /\ Val(a.gives, "evmAddress") = Val(Taken(fields), "alias")

LEMMA ExecuteKeeps ==
    ASSUME EntityInv, kind' = kind,
           NEW call, NEW o, NEW refused, NEW fields, NEW own, NEW does, NEW answers,
           execute(call, o, refused, fields, own, does, answers),
           call \notin Reads,
           Fit(kind, call, o, refused, fields, does),
           Signs(call, o, {n \in own : Val(o, n) \in {"key", "keys"}} \cup applySigners(o)),
           ~refused => \A a \in answers : AnswerFits(call, a),
           call = "submitBatch" /\ ~refused => Given(o, "transactions"),
           call = "createAccount" =>
              /\ does = "create"
              /\ ~refused /\ Readable(fields) => \A a \in answers : AccountTold(fields, a)
    PROVE  EntityInv'
<1> DEFINE code == Refused(o, refused, fields)
           signed == {n \in own : Val(o, n) \in {"key", "keys"}} \cup applySigners(o)
           sent == Sent("transaction", Over(fields, applyBaseOptions(o)), signed)
           told == Told(call, o)
<1>1. code \in {"INPUT_INVALID", "raw", "no"}
  BY RefusedCodes
<1>2. code = "no" => ~refused /\ Readable(fields)
  BY RefusedCodes DEF Throws, Readable
<1>3. \/ /\ code # "no"
         /\ Done(call, o, Nothing, "refused", Answer(code, FALSE, NoFields))
         /\ UNCHANGED world
      \/ /\ code = "no"
         /\ \E named \in BOOLEAN : Done(call, o, sent, "failed", Failure(call, o, named))
         /\ UNCHANGED world
      \/ /\ code = "no"
         /\ Lands(does, fields, told) /\ UNCHANGED schedule
         /\ \/ \E named \in BOOLEAN : Done(call, o, sent, "lost", Failure(call, o, named))
            \/ \E a \in answers : Done(call, o, sent, "receipt", a)
  BY DEF execute, run
<1>4. ASSUME code = "no" PROVE SentFits(call, o, sent)
  <2> DEFINE all == Over(fields, applyBaseOptions(o))
  <2>1. Fields(all)
    BY <1>2, <1>4, BaseOptionsSent, OverFields DEF Fit
  <2>2. ASSUME NEW n \in Shared, Given(o, n) PROVE Val(all, n) = o[n]
    <3>1. n \notin DOMAIN fields
      BY DEF Fit
    <3> QED
      BY <2>2, <3>1, OverVal, BaseOptionsSent
  <2> HIDE DEF all
  <2>3. sent = Sent("transaction", all, signed)
    BY DEF all
  <2> HIDE DEF sent, signed
  <2>4. sent.is = "transaction" /\ sent.fields = all /\ sent.signed = signed
    BY <2>3, SentIs
  <2>5. Signs(call, o, signed)
    BY DEF signed
  <2> QED
    BY <2>1, <2>2, <2>4, <2>5 DEF SentFits
<1>5. does \in Changing /\ code = "no" => Stands(kind, does, fields, told)
  BY <1>2 DEF Fit, Stands
<1>6. does \notin Changing => Stands(kind, does, fields, told)
  BY DEF Stands
<1>7. LedgerOK /\ kind \in Kinds /\ (schedule = NoSchedule \/ Scheduled(kind, schedule))
  BY DEF EntityInv, WorldOK
<1> HIDE DEF code, sent, told
<1>8. CASE /\ code # "no"
           /\ Done(call, o, Nothing, "refused", Answer(code, FALSE, NoFields))
           /\ UNCHANGED world
  <2>1. WorldOK'
    BY <1>7, <1>8 DEF WorldOK, LedgerOK, world
  <2>2. Outcome(call, o, code, sent, answers)
    BY <1>8 DEF Outcome
  <2> QED
    BY <1>1, <1>2, <1>4, <2>1, <2>2, OutcomeTold
<1>9. CASE /\ code = "no"
           /\ Lands(does, fields, told) /\ UNCHANGED schedule
           /\ \/ \E named \in BOOLEAN : Done(call, o, sent, "lost", Failure(call, o, named))
              \/ \E a \in answers : Done(call, o, sent, "receipt", a)
  <2>1. Stands(kind, does, fields, told)
    BY <1>5, <1>6, <1>9
  <2>2. LedgerOK' /\ (does = "create" => ledger'.has = Taken(fields))
    BY <1>7, <1>9, <2>1, LandsKeeps
  <2>3. WorldOK'
    BY <1>7, <1>9, <2>2 DEF WorldOK
  <2>4. ASSUME call = "createAccount", NEW a \in answers PROVE NewAccountTold(a)'
    <3>1. AccountTold(fields, a) /\ ledger'.has = Taken(fields)
      BY <1>2, <1>9, <2>2, <2>4
    <3> QED
      BY <3>1 DEF AccountTold, NewAccountTold
  <2>5. Outcome(call, o, code, sent, answers)
    BY <1>9, <2>4 DEF Outcome
  <2> QED
    BY <1>1, <1>2, <1>4, <2>3, <2>5, OutcomeTold
<1>10. CASE /\ code = "no"
            /\ \E named \in BOOLEAN : Done(call, o, sent, "failed", Failure(call, o, named))
            /\ UNCHANGED world
  <2>1. WorldOK'
    BY <1>7, <1>10 DEF WorldOK, LedgerOK, world
  <2>2. Outcome(call, o, code, sent, answers)
    BY <1>10 DEF Outcome
  <2> QED
    BY <1>1, <1>2, <1>4, <2>1, <2>2, OutcomeTold
<1> QED
  BY <1>3, <1>8, <1>9, <1>10

LEMMA OkIs ==
    ASSUME NEW gives
    PROVE  Ok(gives).code = "ok" /\ Ok(gives).named /\ Ok(gives).gives = gives
BY DEF Ok, Answer

(* Answers that most calls give.                                           *)
LEMMA OkFits ==
    ASSUME NEW call, NEW gives, Fields(gives)
    PROVE  AnswerFits(call, Ok(gives))
BY OkIs DEF AnswerFits

LEMMA CreatedFits ==
    ASSUME NEW call, NEW id, call # "submitBatch"
    PROVE  \A a \in Created(id) : AnswerFits(call, a)
<1>1. AnswerFits(call, Ok(With(id, "id")))
  BY OkFits, WithFields
<1>2. AnswerFits(call, Answer("SDK_ERROR", TRUE, NoFields))
  BY NoFieldsEmpty DEF AnswerFits, Answer
<1> QED
  BY <1>1, <1>2 DEF Created

LEMMA ScheduleKeeps ==
    ASSUME EntityInv, kind' = kind,
           NEW call, NEW o, NEW s, NEW refused, NEW fields, NEW does,
           scheduleRun(call, o, s, refused, fields, does),
           DOMAIN s \subseteq DOMAIN ScheduleOptions,
           call \notin Reads \cup {"submitBatch", "cancel"},
           Fit(kind, call, o, refused, fields, does),
           Signs(call, o, {n \in {} : Val(o, n) \in {"key", "keys"}} \cup applySigners(o))
    PROVE  EntityInv'
<1> DEFINE given == Keep(s, DOMAIN ScheduleOptions)
           ask == Over(s, o)
           code == Refused(o, refused, Over(given, fields))
           sent == Sent("schedule", Over(given, applyBaseOptions(o)), applySigners(o))
           told == Told(call, o)
           made == [status |-> "pending", fields |-> fields, does |-> does, told |-> told,
                    payer |-> IF Given(s, "payerAccountId") THEN s.payerAccountId
                              ELSE "operator",
                    memo |-> IF Given(s, "scheduleMemo") THEN s.scheduleMemo ELSE "emptyText"]
           answers == Created("scheduleId")
<1>1. code \in {"INPUT_INVALID", "raw", "no"}
  BY RefusedCodes
<1>2. Fields(given) /\ DOMAIN given \subseteq DOMAIN ScheduleOptions
  BY KeepFields, KeepDomain
<1>3. code = "no" => ~refused /\ Readable(fields)
  <2> HIDE DEF given
  <2> SUFFICES ASSUME code = "no" PROVE ~refused /\ Readable(fields)
    OBVIOUS
  <2>1. ~refused /\ ~Throws(Over(given, fields))
    BY RefusedCodes
  <2>2. ASSUME NEW n \in DOMAIN fields \ DOMAIN ScheduleOptions PROVE fields[n] # "badKey"
    <3>1. n \in DOMAIN Over(given, fields) /\ Over(given, fields)[n] = fields[n]
      BY <1>2 DEF Over
    <3> QED
      BY <2>1, <3>1 DEF Throws
  <2> QED
    BY <2>1, <2>2 DEF Readable
<1>4. \/ /\ code # "no"
         /\ Done(call, ask, Nothing, "refused", Answer(code, FALSE, NoFields))
         /\ UNCHANGED world
      \/ /\ code = "no"
         /\ \E named \in BOOLEAN : Done(call, ask, sent, "failed", Failure(call, ask, named))
         /\ UNCHANGED world
      \/ /\ code = "no"
         /\ schedule' = made /\ UNCHANGED <<ledger, asked>>
         /\ \/ \E named \in BOOLEAN : Done(call, ask, sent, "lost", Failure(call, ask, named))
            \/ \E a \in answers : Done(call, ask, sent, "receipt", a)
  BY DEF scheduleRun, run
<1>5. SentFits(call, ask, sent)
  <2> HIDE DEF given
  <2> DEFINE all == Over(given, applyBaseOptions(o))
  <2>1. Fields(all)
    BY <1>2, BaseOptionsSent, OverFields
  <2>2. ASSUME NEW n \in Shared, Given(ask, n) PROVE Val(all, n) = ask[n]
    <3>1. n \notin DOMAIN s /\ n \notin DOMAIN given
      BY <1>2, SharedAre
    <3>2. Val(ask, n) = Val(o, n)
      BY <3>1, OverVal
    <3>3. Given(o, n)
      BY <2>2, <3>2 DEF Given
    <3>4. ask[n] = o[n]
      BY <2>2, <3>2, <3>3 DEF Given, Val
    <3> QED
      BY <3>1, <3>3, <3>4, OverVal, BaseOptionsSent
  <2>3. Signs(call, ask, applySigners(o))
    <3> SUFFICES ASSUME NEW n \in SigningOf(call), Val(ask, n) \in {"key", "keys"}
                 PROVE  n \in applySigners(o)
      BY DEF Signs
    <3>1. n \notin DOMAIN s
      BY DEF SigningOf, ScheduleOptions
    <3>2. Val(o, n) \in {"key", "keys"}
      BY <3>1, OverVal
    <3> QED
      BY <3>2 DEF Signs
  <2> HIDE DEF all, ask
  <2>4. sent = Sent("schedule", all, applySigners(o))
    BY DEF all
  <2> HIDE DEF sent
  <2>5. sent.is = "schedule" /\ sent.fields = all /\ sent.signed = applySigners(o)
    BY <2>4, SentIs
  <2> QED
    BY <2>1, <2>2, <2>3, <2>5 DEF SentFits
<1>6. code = "no" => Scheduled(kind, made)
  <2>1. code = "no" => Stands(kind, does, fields, told)
    BY <1>3 DEF Fit, Stands
  <2>2. made.payer # "undefined" /\ made.memo # "undefined"
    BY DEF Given, Val
  <2>3. /\ made.fields = fields /\ made.does = does /\ made.told = told
        /\ made.status = "pending"
        /\ made = [status |-> made.status, fields |-> made.fields, does |-> made.does,
                   told |-> made.told, payer |-> made.payer, memo |-> made.memo]
    OBVIOUS
  <2> HIDE DEF made, code
  <2> QED
    BY <2>1, <2>2, <2>3 DEF Scheduled
<1>7. WorldOK
  BY DEF EntityInv
<1>8. sent.is = "schedule"
  BY SentIs
<1>9. \A a \in answers : AnswerFits(call, a)
  BY CreatedFits
<1> HIDE DEF code, sent, told, made, ask, answers
<1>10. WorldOK'
  <2>1. CASE UNCHANGED world
    BY <1>7, <2>1 DEF WorldOK, LedgerOK, world
  <2>2. CASE code = "no" /\ schedule' = made /\ UNCHANGED <<ledger, asked>>
    BY <1>6, <1>7, <2>2 DEF WorldOK, LedgerOK
  <2> QED
    BY <1>4, <2>1, <2>2
<1>11. Outcome(call, ask, code, sent, answers)
  BY <1>4, <1>8 DEF Outcome
<1> QED
  BY <1>1, <1>3, <1>5, <1>9, <1>10, <1>11, OutcomeTold

(* A query's answers; the world is as it was.                              *)
ReadFits(call, a) ==
    /\ a.code \in {"ok", "NOT_FOUND", "SDK_ERROR"}
    /\ Fields(a.gives)
    /\ call \in {"getTokenInfo", "getTopicInfo", "getFileInfo"} /\ a.code = "ok" =>
          \A n \in DOMAIN asked \ {"keyVerificationMode", "contents"} :
             Val(a.gives, NameIn(call, n)) = asked[n]
    /\ call = "getScheduleInfo" /\ a.code = "ok" =>
          \A f \in {<<"isPending", "pending">>, <<"isExecuted", "executed">>,
                    <<"isDeleted", "deleted">>} :
             a.gives[f[1]] = Flag(schedule.status = f[2])

Asking(call, o, code, fields, gives) ==
    \/ code # "no" /\ Done(call, o, Nothing, "refused", Answer(code, FALSE, NoFields))
    \/ /\ code = "no"
       /\ \E a \in {Answer("SDK_ERROR", FALSE, NoFields)} \cup gives :
             Done(call, o, Sent("query", Over(fields, applyQueryOptions(o)), {}), "read", a)

LEMMA AskKeeps ==
    ASSUME EntityInv, UNCHANGED <<kind, ledger, asked, schedule>>,
           NEW call, NEW o, NEW code, NEW fields, NEW gives,
           Asking(call, o, code, fields, gives),
           call \notin {"createAccount", "submitBatch"},
           code \in {"INPUT_INVALID", "SDK_ERROR", "raw", "no"},
           Fields(fields),
           code = "no" => \A a \in gives : ReadFits(call, a)
    PROVE  EntityInv'
<1> DEFINE sent == Sent("query", Over(fields, applyQueryOptions(o)), {})
<1>1. WorldOK'
  BY DEF EntityInv, WorldOK, LedgerOK
<1>2. ledger'.has = asked'
  BY <1>1, WorldTyped
<1>3. sent.is = "query" /\ Fields(sent.fields)
  <2> DEFINE all == Over(fields, applyQueryOptions(o))
  <2>1. Fields(applyQueryOptions(o))
    BY KeepFields, NoFieldsEmpty, OverFields DEF applyQueryOptions
  <2>2. Fields(all)
    BY <2>1, OverFields
  <2> HIDE DEF all
  <2> QED
    BY <2>2, SentIs DEF all
<1> HIDE DEF sent
<1>4. CASE code # "no" /\ Done(call, o, Nothing, "refused", Answer(code, FALSE, NoFields))
  <2>1. /\ step'.call = call /\ step'.sent = Nothing /\ step'.reached = "refused"
        /\ step'.answer = Answer(code, FALSE, NoFields)
    BY <1>4, DoneIs
  <2>2. step'.answer.code = code /\ step'.answer.gives = NoFields
    BY <2>1 DEF Answer
  <2>3. TypeOK'
    BY <1>1, <1>4, <2>1, <2>2, StepTyped, NothingSent, NoFieldsEmpty DEF Codes
  <2>4. CarriedOut'
    BY <1>2, <2>1, NothingSent DEF CarriedOut
  <2>5. ReadsBack' /\ ToldTruly'
    BY <1>4, <2>1, <2>2 DEF ReadsBack, ToldTruly
  <2> QED
    BY <1>1, <2>3, <2>4, <2>5 DEF EntityInv
<1>5. CASE code = "no" /\ \E a \in {Answer("SDK_ERROR", FALSE, NoFields)} \cup gives :
             Done(call, o, sent, "read", a)
  <2>1. PICK a \in {Answer("SDK_ERROR", FALSE, NoFields)} \cup gives :
             Done(call, o, sent, "read", a)
    BY <1>5
  <2>2. /\ step'.call = call /\ step'.sent = sent /\ step'.reached = "read"
        /\ step'.answer = a
    BY <2>1, DoneIs
  <2>3. ReadFits(call, a)
    <3>1. CASE a = Answer("SDK_ERROR", FALSE, NoFields)
      BY <3>1, NoFieldsEmpty DEF ReadFits, Answer
    <3>2. CASE a \in gives
      BY <1>5, <3>2
    <3> QED
      BY <2>1, <3>1, <3>2
  <2>4. TypeOK'
    BY <1>1, <1>3, <2>2, <2>3, StepTyped DEF ReadFits, Codes
  <2>5. CarriedOut'
    BY <1>2, <1>3, <2>2 DEF CarriedOut
  <2>6. ReadsBack'
    BY <2>2, <2>3 DEF ReadsBack, ReadFits
  <2>7. ToldTruly'
    BY <2>2, <2>3 DEF ToldTruly, ReadFits
  <2> QED
    BY <1>1, <2>4, <2>5, <2>6, <2>7 DEF EntityInv
<1> QED
  BY <1>4, <1>5 DEF Asking, sent

(* Between two calls nothing is told.                                      *)
LEMMA QuietKeeps ==
    ASSUME WorldOK', step' = NoStep
    PROVE  EntityInv'
<1>1. ledger'.has = asked'
  BY WorldTyped
<1>2. NoStep.sent = Nothing /\ NoStep.call = "none" /\ NoStep.reached = "read"
      /\ NoStep.answer = Ok(NoFields)
  BY DEF NoStep
<1>3. TypeOK'
  BY <1>2, StepTyped, OkIs, NothingSent, NoFieldsEmpty DEF Codes
<1>4. CarriedOut'
  BY <1>1, <1>2, NothingSent DEF CarriedOut
<1>5. ReadsBack' /\ ToldTruly'
  BY <1>2, OkIs DEF ReadsBack, ToldTruly
<1> QED
  BY <1>3, <1>4, <1>5 DEF EntityInv

LEMMA HearsKeeps == EntityInv /\ Hears => EntityInv'
<1> SUFFICES ASSUME EntityInv, Hears PROVE EntityInv'
  OBVIOUS
<1>1. WorldOK'
  BY DEF EntityInv, Hears, WorldOK, LedgerOK
<1> QED
  BY <1>1, QuietKeeps DEF Hears

LEMMA InitInv == Init => EntityInv
<1> SUFFICES ASSUME Init PROVE EntityInv
  OBVIOUS
<1>1. PICK state \in {"none", "live"} : ledger = Entity(state, NoFields)
  BY DEF Init
<1>2. ledger.state = state /\ ledger.has = NoFields /\ asked = NoFields
  BY <1>1 DEF Entity, Init
<1>3. LedgerOK
  BY <1>1, <1>2, NoFieldsEmpty DEF LedgerOK, Known
<1>4. WorldOK
  BY <1>3 DEF WorldOK, Init
<1>5. /\ step.sent = Nothing /\ step.call = "none" /\ step.reached = "read"
      /\ step.answer = Ok(NoFields)
  BY DEF Init, NoStep
<1>6. Nothing.is = "nothing" /\ Fields(step.sent.fields) /\ Fields(step.answer.gives)
      /\ step.answer.code = "ok"
  BY <1>5, NothingSent, NoFieldsEmpty, OkIs
<1>7. TypeOK
  <2>1. schedule.status = "none" /\ kind \in Kinds
    BY DEF Init, NoSchedule
  <2>2. \A f \in {ledger.has, step.sent.fields, step.answer.gives} :
           \A n \in DOMAIN f : f[n] # "undefined"
    BY <1>2, <1>6, NoFieldsEmpty DEF Fields
  <2> QED
    BY <1>2, <1>6, <2>1, <2>2 DEF TypeOK
<1>8. CarriedOut
  BY <1>2, <1>5, <1>6 DEF CarriedOut
<1>9. ReadsBack /\ ToldTruly
  BY <1>5, <1>6 DEF ReadsBack, ToldTruly
<1> QED
  BY <1>4, <1>7, <1>8, <1>9 DEF EntityInv
-----------------------------------------------------------------------------
(* AccountService.                                                         *)

LEMMA AccountTypes ==
    /\ Typed(CreateAccountOptions) /\ Typed(UpdateAccountOptions)
    /\ Typed(AutoCreateEvmAccountOptions)
BY DEF Typed, CreateAccountOptions, UpdateAccountOptions, AutoCreateEvmAccountOptions, Types

(* The key and the alias that build() and toAccount have from the options. *)
LEMMA AccountKeyIs ==
    ASSUME NEW o
    PROVE  /\ Fields(AccountKey(o)) /\ DOMAIN AccountKey(o) \subseteq {"key", "alias"}
           /\ Val(AccountKey(o), "key") = IF Given(o, "key") THEN "key" ELSE PublicKeyOf(o)
           /\ Val(AccountKey(o), "alias") =
                 IF Given(o, "key") THEN "undefined"
                 ELSE CASE Val(o, "alias") = "true"     -> "ofTheKey"
                        [] Val(o, "alias") = "otherKey" -> "ofTheOtherKey"
                        [] Val(o, "alias") = "badKey"   -> "badKey"
                        [] OTHER                        -> "undefined"
           /\ PublicKeyOf(o) # "undefined"
<1>1. PublicKeyOf(o) # "undefined"
  BY DEF PublicKeyOf, KeyTypeOf, Given, Val
<1>2. CASE Given(o, "key")
  <2>1. AccountKey(o) = With("key", "key")
    BY <1>2 DEF AccountKey
  <2>2. Fields(AccountKey(o)) /\ DOMAIN AccountKey(o) = {"key"}
    BY <2>1, WithFields
  <2>3. Val(AccountKey(o), "key") = "key"
    BY <2>1, WithVal
  <2>4. Val(AccountKey(o), "alias") = "undefined"
    BY <2>1, WithVal
  <2> QED
    BY <1>1, <1>2, <2>2, <2>3, <2>4
<1>3. CASE ~Given(o, "key")
  <2> DEFINE named == With("key", PublicKeyOf(o))
  <2>1. Fields(named) /\ DOMAIN named = {"key"}
    BY <1>1, WithFields
  <2>2. Val(named, "key") = PublicKeyOf(o) /\ Val(named, "alias") = "undefined"
    BY WithVal
  <2> HIDE DEF named
  <2>3. ASSUME NEW v \in {"ofTheKey", "ofTheOtherKey", "badKey"},
               AccountKey(o) = Over(With("alias", v), named)
        PROVE  /\ Fields(AccountKey(o)) /\ DOMAIN AccountKey(o) \subseteq {"key", "alias"}
               /\ Val(AccountKey(o), "key") = PublicKeyOf(o)
               /\ Val(AccountKey(o), "alias") = v
    <3>1. Fields(With("alias", v)) /\ DOMAIN With("alias", v) = {"alias"}
      BY WithFields
    <3>2. Fields(AccountKey(o))
      BY <2>1, <2>3, <3>1, OverFields
    <3>3. DOMAIN AccountKey(o) \subseteq {"key", "alias"}
      BY <2>1, <2>3, <3>1, OverDomain
    <3>4. Val(AccountKey(o), "key") = PublicKeyOf(o)
      BY <2>2, <2>3, OverWith
    <3>5. Val(AccountKey(o), "alias") = v
      BY <2>3, OverWith
    <3> QED
      BY <3>2, <3>3, <3>4, <3>5
  <2>4. CASE Val(o, "alias") = "true"
    <3>1. AccountKey(o) = Over(With("alias", "ofTheKey"), named)
      BY <1>3, <2>4 DEF AccountKey, named
    <3> QED
      BY <1>1, <1>3, <2>3, <2>4, <3>1
  <2>5. CASE Val(o, "alias") = "otherKey"
    <3>1. AccountKey(o) = Over(With("alias", "ofTheOtherKey"), named)
      BY <1>3, <2>5 DEF AccountKey, named
    <3> QED
      BY <1>1, <1>3, <2>3, <2>5, <3>1
  <2>6. CASE Val(o, "alias") = "badKey"
    <3>1. AccountKey(o) = Over(With("alias", "badKey"), named)
      BY <1>3, <2>6 DEF AccountKey, named
    <3> QED
      BY <1>1, <1>3, <2>3, <2>6, <3>1
  <2>7. CASE Val(o, "alias") \notin {"true", "otherKey", "badKey"}
    <3>1. AccountKey(o) = Over(NoFields, named)
      BY <1>3, <2>7 DEF AccountKey, named
    <3>2. Fields(AccountKey(o))
      BY <2>1, <3>1, NoFieldsEmpty, OverFields
    <3>4. DOMAIN AccountKey(o) = {"key"}
      BY <2>1, <3>1, NoFieldsEmpty, OverDomain
    <3>3. Val(AccountKey(o), "key") = PublicKeyOf(o)
          /\ Val(AccountKey(o), "alias") = "undefined"
      BY <2>2, <3>1, OverNone
    <3> QED
      BY <1>1, <1>3, <2>7, <3>2, <3>3, <3>4
  <2> QED
    BY <2>4, <2>5, <2>6, <2>7
<1> QED
  BY <1>2, <1>3

LEMMA AccountCreateIs ==
    ASSUME NEW o
    PROVE  /\ Fields(AccountCreate(o))
           /\ DOMAIN AccountCreate(o) \cap (Shared \cup EntityIds) = {}
           /\ \A n : Val(AccountCreate(o), n) =
                 CASE n = "alias" -> IF TextAlias(o) THEN Val(o, "alias")
                                     ELSE Val(AccountKey(o), "alias")
                   [] n = "key" -> Val(AccountKey(o), "key")
                   [] n = "initialBalance" -> IF Given(o, n) THEN Val(o, n) ELSE "0"
                   [] n \in {"receiverSignatureRequired", "memo", "hooks", "stakedAccountId",
                             "maxAutomaticTokenAssociations", "stakedNodeId",
                             "autoRenewPeriod", "declineStakingReward"} ->
                        IF Given(o, n) THEN Val(o, n) ELSE "undefined"
                   [] OTHER -> "undefined"
<1> DEFINE names == {"receiverSignatureRequired", "memo", "maxAutomaticTokenAssociations",
                     "stakedAccountId", "stakedNodeId", "autoRenewPeriod",
                     "declineStakingReward", "hooks"}
           kept == Keep(o, names)
           amount == IF Given(o, "initialBalance") THEN o.initialBalance ELSE "0"
           balance == With("initialBalance", amount)
           textual == IF TextAlias(o) THEN With("alias", o.alias) ELSE NoFields
           keyed == AccountKey(o)
<1>1. AccountCreate(o) = Over(textual, Over(keyed, Over(balance, kept)))
  BY DEF AccountCreate
<1>2. /\ Fields(kept) /\ DOMAIN kept \subseteq names
      /\ \A n : Val(kept, n) = IF n \in names /\ Given(o, n) THEN Val(o, n) ELSE "undefined"
  BY KeepFields, KeepDomain, KeepOf
<1>3. amount = (IF Given(o, "initialBalance") THEN Val(o, "initialBalance") ELSE "0")
      /\ amount # "undefined"
  BY DEF Given, Val
<1>4. Fields(balance) /\ DOMAIN balance = {"initialBalance"}
  <2> HIDE DEF amount
  <2> QED
    BY <1>3, WithFields
<1>5. /\ Fields(textual) /\ DOMAIN textual \subseteq {"alias"}
      /\ \A n : Val(textual, n) = IF n = "alias" /\ TextAlias(o) THEN Val(o, n)
                                  ELSE "undefined"
  <2>1. CASE TextAlias(o)
    <3>1. o.alias = Val(o, "alias") /\ o.alias # "undefined"
      BY <2>1 DEF TextAlias, Val
    <3>2. textual = With("alias", o.alias)
      BY <2>1
    <3> HIDE DEF textual
    <3>3. Fields(textual) /\ DOMAIN textual = {"alias"}
      BY <3>1, <3>2, WithFields
    <3>4. \A n : Val(textual, n) = IF n = "alias" THEN Val(o, n) ELSE "undefined"
      BY <3>1, <3>2, WithVal
    <3> QED
      BY <2>1, <3>3, <3>4
  <2>2. CASE ~TextAlias(o)
    <3>1. textual = NoFields
      BY <2>2
    <3> HIDE DEF textual
    <3>2. \A n : Val(textual, n) = "undefined"
      BY <3>1, NoFieldsEmpty DEF Val
    <3> QED
      BY <2>2, <3>1, <3>2, NoFieldsEmpty
  <2> QED
    BY <2>1, <2>2
<1>6. /\ Fields(keyed) /\ DOMAIN keyed \subseteq {"key", "alias"}
  BY AccountKeyIs
<1> HIDE DEF kept, amount, balance, textual, keyed
<1>7. Fields(AccountCreate(o))
  BY <1>1, <1>2, <1>4, <1>5, <1>6, OverFields
<1>8. DOMAIN AccountCreate(o) \cap (Shared \cup EntityIds) = {}
  <2>1. DOMAIN AccountCreate(o) \subseteq {"key", "alias", "initialBalance"} \cup names
    BY <1>1, <1>2, <1>4, <1>5, <1>6, OverDomain
  <2>2. ({"key", "alias", "initialBalance"} \cup names) \cap (Shared \cup EntityIds) = {}
    BY DEF Shared, EntityIds
  <2> HIDE DEF names
  <2> QED
    BY <2>1, <2>2
<1>9. ASSUME NEW n
      PROVE  Val(AccountCreate(o), n) =
                 CASE n = "alias" -> IF TextAlias(o) THEN Val(o, "alias")
                                     ELSE Val(keyed, "alias")
                   [] n = "key" -> Val(keyed, "key")
                   [] n = "initialBalance" -> IF Given(o, n) THEN Val(o, n) ELSE "0"
                   [] n \in names -> IF Given(o, n) THEN Val(o, n) ELSE "undefined"
                   [] OTHER -> "undefined"
  <2>1. Val(balance, n) = IF n = "initialBalance" THEN amount ELSE "undefined"
    BY WithVal DEF balance
  <2>2. Val(keyed, n) = IF n \in {"key", "alias"} THEN Val(keyed, n) ELSE "undefined"
    BY <1>6 DEF Val
  <2>3. Val(Over(balance, kept), n) = IF n = "initialBalance" THEN amount ELSE Val(kept, n)
    BY <1>4, <2>1, OverOf, <1>3
  <2>4. Val(Over(keyed, Over(balance, kept)), n) =
           IF Val(keyed, n) # "undefined" THEN Val(keyed, n) ELSE Val(Over(balance, kept), n)
    BY <1>6, OverOf
  <2>5. Val(AccountCreate(o), n) = IF n = "alias" /\ TextAlias(o) THEN Val(o, n)
                                   ELSE Val(Over(keyed, Over(balance, kept)), n)
    <3>1. TextAlias(o) => Val(o, "alias") # "undefined"
      BY DEF TextAlias
    <3> QED
      BY <1>1, <1>5, <3>1, OverOf
  <2>6. n = "key" => Val(keyed, n) # "undefined"
    BY AccountKeyIs DEF keyed
  <2>7. CASE n = "alias"
    BY <1>2, <2>3, <2>4, <2>5, <2>7
  <2>8. CASE n = "key"
    BY <2>4, <2>5, <2>6, <2>8
  <2>9. CASE n = "initialBalance"
    BY <1>3, <2>2, <2>3, <2>4, <2>5, <2>9
  <2>10. CASE n \notin {"alias", "key", "initialBalance"}
    <3>1. Val(AccountCreate(o), n) = Val(kept, n)
      BY <2>2, <2>3, <2>4, <2>5, <2>10
    <3> QED
      BY <1>2, <2>10, <3>1
  <2> QED
    BY <2>7, <2>8, <2>9, <2>10
<1> QED
  BY <1>7, <1>8, <1>9 DEF keyed

LEMMA OfNoInfo == \A f : Known("account", f) /\ Known("contract", f) /\ Known("network", f)
BY DEF Known, InfoFields

LEMMA CreateAccountPromised ==
    ASSUME NEW o, Admits(Over(CreateAccountOptions, TransactionOptions), o),
           ~CreateAccountValidator(o), Readable(AccountCreate(o))
    PROVE  Taken(AccountCreate(o)) = Told("createAccount", o)
<1> DEFINE names == {"receiverSignatureRequired", "memo", "maxAutomaticTokenAssociations",
                     "stakedAccountId", "stakedNodeId", "autoRenewPeriod",
                     "declineStakingReward", "hooks"}
           fields == AccountCreate(o)
           promised == Promised("createAccount", o)
           balance == Unless(o, "initialBalance", "0")
           theKey == IF Given(o, "key") THEN "key" ELSE o.publicKey
           keyed == With("key", theKey)
           aliased == CASE Val(o, "alias") = "true"     -> With("alias", "ofTheKey")
                        [] Val(o, "alias") = "otherKey" -> With("alias", "ofTheOtherKey")
                        [] Val(o, "alias") = "evm"      -> With("alias", "evm")
                        [] OTHER -> NoFields
           theAlias == CASE Val(o, "alias") = "true"     -> "ofTheKey"
                         [] Val(o, "alias") = "otherKey" -> "ofTheOtherKey"
                         [] Val(o, "alias") = "evm"      -> "evm"
                         [] OTHER -> "undefined"
<1>1. \A n : Val(o, n) \notin Cleared
  BY PlainValues, AccountTypes, SharedTyped
<1>2. /\ Given(o, "key") <=> ~Given(o, "publicKey")
      /\ Given(o, "key") => Val(o, "alias") \in {"undefined", "null", "evm", "notEvm"}
      /\ Val(o, "alias") # "notEvm"
  BY DEF CreateAccountValidator, Both, Neither, TextAlias, Given
<1>3. Fields(fields) /\ Val(fields, "key") # "badKey" /\ Val(fields, "alias") # "badKey"
  BY AccountCreateIs DEF Readable, Val, ScheduleOptions
<1>4. Val(fields, "key") = theKey /\ theKey \notin Cleared \cup {"undefined"}
  <2>1. Val(fields, "key") = IF Given(o, "key") THEN "key" ELSE PublicKeyOf(o)
    BY AccountCreateIs, AccountKeyIs
  <2>2. ~Given(o, "key") => /\ Val(o, "publicKey") = o.publicKey
                            /\ o.publicKey \notin Cleared \cup {"undefined"}
    <3>1. Given(o, "publicKey") => Val(o, "publicKey") = o.publicKey
      BY DEF Given, Val
    <3>2. Given(o, "publicKey") => Val(o, "publicKey") # "undefined"
      BY DEF Given
    <3> QED
      BY <1>1, <1>2, <3>1, <3>2
  <2>3. ~Given(o, "key") => PublicKeyOf(o) = o.publicKey
    BY <1>3, <2>1 DEF PublicKeyOf
  <2> QED
    BY <2>1, <2>2, <2>3 DEF Cleared
<1>5. Val(fields, "alias") = theAlias /\ theAlias \notin Cleared
  <2>1. Val(fields, "alias") =
           IF Val(o, "alias") \in {"evm", "notEvm"} THEN Val(o, "alias")
           ELSE IF Given(o, "key") THEN "undefined"
           ELSE CASE Val(o, "alias") = "true"     -> "ofTheKey"
                  [] Val(o, "alias") = "otherKey" -> "ofTheOtherKey"
                  [] Val(o, "alias") = "badKey"   -> "badKey"
                  [] OTHER                        -> "undefined"
    BY AccountCreateIs, AccountKeyIs DEF TextAlias
  <2>2. Val(fields, "alias") = theAlias
    BY <1>2, <1>3, <2>1
  <2>3. theAlias \notin Cleared
    BY DEF Cleared
  <2> QED
    BY <2>2, <2>3
<1> DEFINE amount == IF Given(o, "initialBalance") THEN Val(o, "initialBalance") ELSE "0"
<1>6. Val(fields, "initialBalance") = amount
  BY AccountCreateIs
<1>7. /\ Fields(balance)
      /\ \A n : Val(balance, n) = IF n = "initialBalance" /\ ~Given(o, n) THEN "0"
                                  ELSE "undefined"
  <2>1. \A n : Val(NoFields, n) = "undefined"
    BY NoFieldsEmpty DEF Val
  <2>2. CASE Given(o, "initialBalance")
    <3>1. balance = NoFields
      BY <2>2 DEF Unless
    <3> QED
      BY <2>1, <2>2, <3>1, NoFieldsEmpty
  <2>3. CASE ~Given(o, "initialBalance")
    <3>1. balance = With("initialBalance", "0")
      BY <2>3 DEF Unless
    <3> HIDE DEF balance
    <3>2. Fields(balance)
      BY <3>1, WithFields
    <3>3. \A n : Val(balance, n) = IF n = "initialBalance" THEN "0" ELSE "undefined"
      BY <3>1, WithVal
    <3> QED
      BY <2>3, <3>2, <3>3
  <2> QED
    BY <2>2, <2>3
<1>8. Fields(keyed) /\ \A n : Val(keyed, n) = IF n = "key" THEN theKey ELSE "undefined"
  <2> HIDE DEF theKey
  <2>1. Fields(keyed)
    BY <1>4, WithFields
  <2>2. \A n : Val(keyed, n) = IF n = "key" THEN theKey ELSE "undefined"
    BY WithVal
  <2> QED
    BY <2>1, <2>2
<1>9. Fields(aliased) /\ \A n : Val(aliased, n) = IF n = "alias" THEN theAlias ELSE "undefined"
  <2>1. \A n : Val(NoFields, n) = "undefined"
    BY NoFieldsEmpty DEF Val
  <2>2. (aliased = NoFields /\ theAlias = "undefined")
        \/ (aliased = With("alias", theAlias) /\ theAlias # "undefined")
    OBVIOUS
  <2> HIDE DEF aliased, theAlias
  <2>3. CASE aliased = NoFields /\ theAlias = "undefined"
    BY <2>1, <2>3, NoFieldsEmpty
  <2>4. CASE aliased = With("alias", theAlias) /\ theAlias # "undefined"
    <3>1. Fields(aliased)
      BY <2>4, WithFields
    <3>2. \A n : Val(aliased, n) = IF n = "alias" THEN theAlias ELSE "undefined"
      BY <2>4, WithVal
    <3> QED
      BY <3>1, <3>2
  <2> QED
    BY <2>2, <2>3, <2>4
<1>10. promised = Over(balance, Over(keyed, aliased))
  BY DEF Promised
<1> HIDE DEF balance, keyed, aliased, theKey, theAlias, amount
<1>11. Fields(Over(keyed, aliased)) /\ Fields(promised)
  BY <1>7, <1>8, <1>9, <1>10, OverFields
<1>12. \A n : Val(promised, n) = CASE n = "initialBalance" /\ ~Given(o, n) -> "0"
                                   [] n = "key" -> theKey
                                   [] n = "alias" -> theAlias
                                   [] OTHER -> "undefined"
  BY <1>4, <1>7, <1>8, <1>9, <1>10, OverOf
<1>13. Fields(Taken(fields)) /\ Fields(Told("createAccount", o))
  BY <1>3, <1>11, TakenFields, ToldFields
<1>14. ASSUME NEW n PROVE Val(Taken(fields), n) = Val(Told("createAccount", o), n)
  <2>1. Val(Taken(fields), n) = IF n \in EntityIds THEN "undefined"
                                ELSE IF Val(fields, n) \in Cleared THEN "none" ELSE Val(fields, n)
    BY TakenVal
  <2>2. Val(Told("createAccount", o), n) =
              IF n \in EntityIds THEN "undefined"
              ELSE IF Val(promised, n) # "undefined" THEN Val(promised, n)
              ELSE IF n \in DOMAIN TransactionOptions \cup Aside("createAccount")
                   THEN "undefined"
              ELSE IF Given(o, n) THEN Val(o, n) ELSE "undefined"
    BY <1>11, ToldOf
  <2>3. n \in DOMAIN CreateAccountOptions \cup DOMAIN TransactionOptions \/ ~Given(o, n)
    <3>1. Given(o, n) => n \in DOMAIN Over(CreateAccountOptions, TransactionOptions)
      BY DEF Given, Val, Admits
    <3> QED
      BY <3>1, OverDomain
  <2>4. DOMAIN CreateAccountOptions = names \cup {"publicKey", "keyType", "key", "alias",
                                                  "initialBalance"}
    BY DEF CreateAccountOptions
  <2>5. Aside("createAccount") = {"publicKey", "keyType", "key", "alias"}
    BY DEF Aside
  <2>6. (names \cup {"initialBalance"}) \cap (DOMAIN TransactionOptions \cup Aside("createAccount")) = {}
    BY <2>5 DEF TransactionOptions
  <2>7. "undefined" \notin Cleared /\ "0" \notin Cleared
    BY DEF Cleared
  <2>8. CASE n = "key"
    BY <1>4, <1>12, <2>1, <2>2, <2>8
  <2>9. CASE n = "alias"
    BY <1>5, <1>12, <2>1, <2>2, <2>5, <2>9
  <2>10. CASE n = "initialBalance"
    BY <1>1, <1>6, <1>12, <2>1, <2>2, <2>6, <2>7, <2>10 DEF amount
  <2>11. CASE n \in names
    <3>1. Val(fields, n) = IF Given(o, n) THEN Val(o, n) ELSE "undefined"
      BY <2>11, AccountCreateIs
    <3>2. Val(promised, n) = "undefined"
      BY <1>12, <2>11
    <3> HIDE DEF names
    <3> QED
      BY <1>1, <2>1, <2>2, <2>6, <2>7, <2>11, <3>1, <3>2
  <2>12. CASE n \notin names \cup {"key", "alias", "initialBalance"}
    <3>1. Val(fields, n) = "undefined"
      BY <2>12, AccountCreateIs
    <3>2. Val(promised, n) = "undefined"
      BY <1>12, <2>12
    <3>3. Given(o, n) => n \in DOMAIN TransactionOptions \cup Aside("createAccount")
      BY <2>3, <2>4, <2>5, <2>12
    <3> QED
      BY <2>1, <2>2, <2>7, <3>1, <3>2, <3>3
  <2> QED
    BY <2>8, <2>9, <2>10, <2>11, <2>12
<1> QED
  BY <1>13, <1>14, SameFields

LEMMA ToAccountIs ==
    ASSUME NEW o
    PROVE  /\ Fields(toAccount(o))
           /\ toAccount(o).publicKey = IF Given(o, "key") THEN "key" ELSE PublicKeyOf(o)
           /\ Val(toAccount(o), "evmAddress") =
                 IF TextAlias(o) THEN Val(o, "alias")
                 ELSE IF Given(o, "key") THEN "undefined"
                 ELSE CASE Val(o, "alias") = "true"     -> "ofTheKey"
                        [] Val(o, "alias") = "otherKey" -> "ofTheOtherKey"
                        [] OTHER                        -> "undefined"
<1> DEFINE theKey == IF Given(o, "key") THEN "key" ELSE PublicKeyOf(o)
           keyed == With("publicKey", theKey)
           address == IF TextAlias(o) THEN Val(o, "alias")
                      ELSE IF Given(o, "key") THEN "undefined"
                      ELSE CASE Val(o, "alias") = "true"     -> "ofTheKey"
                             [] Val(o, "alias") = "otherKey" -> "ofTheOtherKey"
                             [] OTHER                        -> "undefined"
           addressed == IF TextAlias(o) THEN With("evmAddress", o.alias)
                        ELSE IF Given(o, "key") THEN NoFields
                        ELSE CASE Val(o, "alias") = "true"     -> With("evmAddress", "ofTheKey")
                               [] Val(o, "alias") = "otherKey" ->
                                    With("evmAddress", "ofTheOtherKey")
                               [] OTHER                        -> NoFields
<1>1. toAccount(o) = Over(addressed, keyed)
  BY DEF toAccount
<1>2. theKey # "undefined"
  BY AccountKeyIs
<1>3. (addressed = NoFields /\ address = "undefined")
      \/ (addressed = With("evmAddress", address) /\ address # "undefined")
  <2>1. TextAlias(o) => o.alias = Val(o, "alias") /\ Val(o, "alias") # "undefined"
    BY DEF TextAlias, Val
  <2> QED
    BY <2>1
<1> HIDE DEF theKey, addressed, address
<1>4. Fields(keyed) /\ keyed["publicKey"] = theKey /\ DOMAIN keyed = {"publicKey"}
  BY <1>2, WithFields
<1>5. Fields(addressed) /\ DOMAIN addressed \subseteq {"evmAddress"}
      /\ Val(addressed, "evmAddress") = address
  <2>1. CASE addressed = NoFields /\ address = "undefined"
    BY <2>1, NoFieldsEmpty DEF Val
  <2>2. CASE addressed = With("evmAddress", address) /\ address # "undefined"
    <3>1. Fields(addressed) /\ DOMAIN addressed = {"evmAddress"}
      BY <2>2, WithFields
    <3>2. Val(addressed, "evmAddress") = address
      BY <2>2, WithVal
    <3> QED
      BY <3>1, <3>2
  <2> QED
    BY <1>3, <2>1, <2>2
<1>6. Fields(toAccount(o))
  BY <1>1, <1>4, <1>5, OverFields
<1>7. toAccount(o)["publicKey"] = theKey
  BY <1>1, <1>4, <1>5 DEF Over
<1>8. Val(toAccount(o), "evmAddress") = address
  <2>1. Val(keyed, "evmAddress") = "undefined"
    BY WithVal
  <2> QED
    BY <1>1, <1>5, <2>1, OverOf
<1> QED
  BY <1>6, <1>7, <1>8 DEF theKey, address

LEMMA CreateAccountTold ==
    ASSUME NEW o, Admits(Over(CreateAccountOptions, TransactionOptions), o),
           Readable(AccountCreate(o))
    PROVE  AccountTold(AccountCreate(o), Ok(toAccount(o)))
<1> DEFINE fields == AccountCreate(o)
           theKey == IF Given(o, "key") THEN "key" ELSE PublicKeyOf(o)
<1>1. \A n : Val(o, n) \notin Cleared
  BY PlainValues, AccountTypes, SharedTyped
<1>2. Val(fields, "key") = theKey /\ theKey \notin Cleared \cup {"undefined"}
  <2>1. Val(fields, "key") = theKey /\ theKey # "undefined"
    BY AccountCreateIs, AccountKeyIs
  <2>2. PublicKeyOf(o) \notin Cleared
    <3>1. KeyTypeOf(o) \notin Cleared
      <4>1. Given(o, "keyType") => o.keyType = Val(o, "keyType")
        BY DEF Given, Val
      <4> QED
        BY <1>1, <4>1 DEF KeyTypeOf, Cleared
    <3> QED
      BY <3>1 DEF PublicKeyOf, Cleared
  <2> QED
    BY <2>1, <2>2 DEF Cleared
<1>3. "key" \in DOMAIN Taken(fields) /\ Taken(fields)["key"] = theKey
  <2>1. Val(Taken(fields), "key") = theKey
    BY <1>2, TakenVal DEF EntityIds
  <2> QED
    BY <1>2, <2>1 DEF Val
<1>4. Val(Taken(fields), "alias") = Val(toAccount(o), "evmAddress")
  <2>1. Val(fields, "alias") # "badKey"
    BY DEF Readable, Val, ScheduleOptions
  <2>2. Val(fields, "alias") =
           IF Val(o, "alias") \in {"evm", "notEvm"} THEN Val(o, "alias")
           ELSE IF Given(o, "key") THEN "undefined"
           ELSE CASE Val(o, "alias") = "true"     -> "ofTheKey"
                  [] Val(o, "alias") = "otherKey" -> "ofTheOtherKey"
                  [] Val(o, "alias") = "badKey"   -> "badKey"
                  [] OTHER                        -> "undefined"
    BY AccountCreateIs, AccountKeyIs DEF TextAlias
  <2>3. Val(toAccount(o), "evmAddress") = Val(fields, "alias")
    BY <2>1, <2>2, ToAccountIs DEF TextAlias
  <2>4. Val(fields, "alias") \notin Cleared
    BY <2>2, <1>1 DEF Cleared
  <2> QED
    BY <2>3, <2>4, TakenVal DEF EntityIds
<1>5. toAccount(o)["publicKey"] = theKey
  BY ToAccountIs
<1> QED
  BY <1>3, <1>4, <1>5, OkIs DEF AccountTold

LEMMA AutoCreatePromised ==
    ASSUME NEW o, Admits(Over(AutoCreateEvmAccountOptions, TransactionOptions), o),
           ~AutoCreateEvmAccountValidator(o)
    PROVE  /\ Fields(AccountAutoCreate(o))
           /\ Taken(AccountAutoCreate(o)) = Told("autoCreateEvmAccount", o)
<1> DEFINE promised == Promised("autoCreateEvmAccount", o)
           fields == AccountAutoCreate(o)
           types == AutoCreateEvmAccountOptions
<1>1. /\ Val(o, "evmAddress") = o.evmAddress /\ Val(o, "amount") = o.amount
      /\ o.evmAddress # "undefined" /\ o.amount # "undefined"
  BY DEF AutoCreateEvmAccountValidator, Missing, Given, Val
<1>2. o.evmAddress \notin Cleared /\ o.amount \notin Cleared
  BY <1>1, PlainValues, AccountTypes, SharedTyped
<1>3. Fields(With("alias", o.evmAddress)) /\ Fields(With("initialBalance", o.amount))
  BY <1>1, WithFields
<1>4. Fields(fields)
  BY <1>3, OverFields DEF AccountAutoCreate
<1>5. \A n : Val(fields, n) = CASE n = "alias" -> o.evmAddress
                                [] n = "initialBalance" -> o.amount
                                [] OTHER -> "undefined"
  BY OverWith, WithVal DEF AccountAutoCreate
<1>6. promised = [alias |-> o.evmAddress, initialBalance |-> o.amount]
  BY DEF Promised
<1>7. /\ Fields(promised)
      /\ \A n : Val(promised, n) = CASE n = "alias" -> o.evmAddress
                                    [] n = "initialBalance" -> o.amount
                                    [] OTHER -> "undefined"
  BY <1>1, <1>6 DEF Fields, Val
<1>8. DOMAIN types = {"evmAddress", "amount"} /\ Aside("autoCreateEvmAccount") = {"evmAddress", "amount"}
  BY DEF AutoCreateEvmAccountOptions, Aside
<1> HIDE DEF promised, fields, types
<1>9. ASSUME NEW n
      PROVE  (IF Val(fields, n) \in Cleared THEN "none" ELSE Val(fields, n)) = Val(promised, n)
  BY <1>2, <1>5, <1>7 DEF Cleared
<1>10. Taken(fields) = Told("autoCreateEvmAccount", o)
  BY <1>4, <1>7, <1>8, <1>9, TakenIsTold DEF promised, types
<1> QED
  BY <1>4, <1>10 DEF fields
-----------------------------------------------------------------------------
(* TokenService.                                                           *)

LEMMA TokenTypes ==
    /\ Typed(TokenCreateOptions) /\ Typed(CreateFungibleTokenOptions) /\ Typed(CreateNftOptions)
    /\ Typed(TokenUpdateOptions) /\ Typed(TokenFeeScheduleUpdateOptions)
<1>1. Typed(TokenCreateOptions)
  BY DEF Typed, TokenCreateOptions, Types
<1>2. Typed(CreateFungibleTokenOptions) /\ Typed(CreateNftOptions)
  BY <1>1 DEF Typed, CreateFungibleTokenOptions, CreateNftOptions, Without
<1>3. Typed(TokenUpdateOptions) /\ Typed(TokenFeeScheduleUpdateOptions)
  BY DEF Typed, TokenUpdateOptions, TokenFeeScheduleUpdateOptions, Types
<1> QED
  BY <1>1, <1>2, <1>3

(* What is sent of a token that is created.                                *)
TokenFields == DOMAIN TokenCreateOptions \ {"customFees"}
LEMMA TokenCreateIs ==
    ASSUME NEW o
    PROVE  /\ Fields(TokenCreate(o))
           /\ DOMAIN TokenCreate(o) \subseteq DOMAIN TokenCreateOptions
           /\ \A n : Val(TokenCreate(o), n) =
                  IF n = "customFees" /\ Val(o, n) = "empty" THEN "undefined"
                  ELSE IF n \in DOMAIN TokenCreateOptions /\ Given(o, n) THEN Val(o, n)
                  ELSE "undefined"
<1> DEFINE fees == IF Val(o, "customFees") = "empty" THEN NoFields ELSE Keep(o, {"customFees"})
<1>1. TokenFields = {"tokenName", "tokenSymbol", "treasuryAccountId", "tokenType", "decimals",
                     "initialSupply", "adminKey", "kycKey", "freezeKey", "pauseKey", "wipeKey",
                     "supplyKey", "feeScheduleKey", "freezeDefault", "autoRenewAccountId",
                     "expirationTime", "autoRenewPeriod", "tokenMemo", "supplyType",
                     "maxSupply", "metadataKey", "metadata"}
      /\ "customFees" \in DOMAIN TokenCreateOptions
  BY DEF TokenFields, TokenCreateOptions
<1>2. TokenCreate(o) = Over(fees, Keep(o, TokenFields))
  BY <1>1 DEF TokenCreate
<1>3. /\ Fields(fees)
      /\ DOMAIN fees \subseteq {"customFees"}
      /\ \A n : Val(fees, n) = IF n = "customFees" /\ Val(o, n) # "empty" /\ Given(o, n)
                              THEN Val(o, n) ELSE "undefined"
  <2>1. CASE Val(o, "customFees") = "empty"
    BY <2>1, NoFieldsEmpty DEF Val
  <2>2. CASE Val(o, "customFees") # "empty"
    <3>1. fees = Keep(o, {"customFees"})
      BY <2>2
    <3> HIDE DEF fees
    <3> QED
      BY <2>2, <3>1, KeepFields, KeepDomain, KeepOf
  <2> QED
    BY <2>1, <2>2
<1> HIDE DEF fees
<1>4. Fields(TokenCreate(o))
  BY <1>2, <1>3, KeepFields, OverFields
<1>5. DOMAIN TokenCreate(o) \subseteq DOMAIN TokenCreateOptions
  <2>1. DOMAIN Keep(o, TokenFields) \subseteq TokenFields
    BY KeepDomain
  <2>2. ASSUME NEW n \in DOMAIN TokenCreate(o) PROVE n \in DOMAIN TokenCreateOptions
    <3>1. n \in DOMAIN fees \/ n \in DOMAIN Keep(o, TokenFields)
      BY <1>2, OverDomain
    <3> QED
      BY <1>1, <1>3, <2>1, <3>1 DEF TokenFields
  <2> QED
    BY <2>2
<1>6. ASSUME NEW n
      PROVE  Val(TokenCreate(o), n) =
                IF n = "customFees" /\ Val(o, n) = "empty" THEN "undefined"
                ELSE IF n \in DOMAIN TokenCreateOptions /\ Given(o, n) THEN Val(o, n)
                ELSE "undefined"
  <2>1. Val(TokenCreate(o), n) = IF Val(fees, n) # "undefined" THEN Val(fees, n)
                                 ELSE Val(Keep(o, TokenFields), n)
    BY <1>2, <1>3, OverOf
  <2>2. Val(Keep(o, TokenFields), n) =
           IF n \in TokenFields /\ Given(o, n) THEN Val(o, n) ELSE "undefined"
    BY KeepOf
  <2> QED
    BY <1>1, <1>3, <2>1, <2>2 DEF TokenFields, Given
<1> QED
  BY <1>4, <1>5, <1>6

(* What each of the two calls that create a token fills in, fixed, is in   *)
(* none of the options; what limits the supply makes it finite.            *)
LEMMA TokenCreatePromised ==
    ASSUME NEW call \in {"createFungibleToken", "createNft"}, NEW o, NEW b, NEW fixed, NEW types,
           Typed(types), Admits(Over(types, TransactionOptions), o),
           DOMAIN types = DOMAIN TokenCreateOptions \ DOMAIN fixed,
           types["customFees"] = "list",
           DOMAIN fixed \subseteq {"tokenType", "decimals", "initialSupply"},
           Fields(fixed), \A n \in DOMAIN fixed : fixed[n] \notin Cleared \cup {"null", "empty"},
           Promised(call, o) = Over(PromisedToken(o), fixed),
           \A n : Val(b, n) = IF n \in DOMAIN fixed THEN fixed[n]
                              ELSE IF n = "supplyType" THEN resolveSupplyType(o)
                              ELSE Val(o, n)
    PROVE  Taken(TokenCreate(b)) = Told(call, o)
<1> DEFINE fields == TokenCreate(b)
           promised == Promised(call, o)
           fees == IF Val(o, "customFees") = "list" THEN Keep(o, {"customFees"}) ELSE NoFields
           limit == IF Given(o, "maxSupply") THEN Unless(o, "supplyType", "Finite") ELSE NoFields
<1>1. \A n : Val(o, n) \notin Cleared
  BY PlainValues, SharedTyped
<1>2. Val(o, "customFees") \in {"empty", "list", "null", "undefined"}
  <2>1. CASE "customFees" \in DOMAIN o
    <3>1. "customFees" \in DOMAIN types
      BY DEF TokenCreateOptions
    <3>2. Over(types, TransactionOptions)["customFees"] = "list"
      BY <3>1 DEF Over
    <3>3. o["customFees"] \in Values("list") \cup {"undefined"}
      BY <2>1, <3>2 DEF Admits
    <3> QED
      BY <3>3 DEF Values, Types, Val
  <2> QED
    BY <2>1 DEF Val
<1>3. /\ Fields(fees)
      /\ \A n : Val(fees, n) = IF n = "customFees" /\ Val(o, n) = "list" THEN "list"
                               ELSE "undefined"
  <2>1. CASE Val(o, "customFees") = "list"
    <3>1. fees = Keep(o, {"customFees"})
      BY <2>1
    <3>2. Given(o, "customFees")
      BY <2>1 DEF Given
    <3> HIDE DEF fees
    <3> QED
      BY <2>1, <3>1, <3>2, KeepFields, KeepOf
  <2>2. CASE Val(o, "customFees") # "list"
    BY <2>2, NoFieldsEmpty DEF Val
  <2> QED
    BY <2>1, <2>2
<1>4. /\ Fields(limit)
      /\ \A n : Val(limit, n) = IF n = "supplyType" /\ Given(o, "maxSupply") /\ ~Given(o, n)
                                THEN "Finite" ELSE "undefined"
  <2>1. CASE Given(o, "maxSupply") /\ ~Given(o, "supplyType")
    <3>1. limit = With("supplyType", "Finite")
      BY <2>1 DEF Unless
    <3> HIDE DEF limit
    <3>2. Fields(limit)
      BY <3>1, WithFields
    <3>3. \A n : Val(limit, n) = IF n = "supplyType" THEN "Finite" ELSE "undefined"
      BY <3>1, WithVal
    <3> QED
      BY <2>1, <3>2, <3>3
  <2>2. CASE ~(Given(o, "maxSupply") /\ ~Given(o, "supplyType"))
    <3>1. limit = NoFields
      BY <2>2 DEF Unless
    <3> HIDE DEF limit
    <3> QED
      BY <2>2, <3>1, NoFieldsEmpty DEF Val
  <2> QED
    BY <2>1, <2>2
<1>5. promised = Over(Over(fees, limit), fixed)
  BY DEF PromisedToken
<1> HIDE DEF fees, limit
<1>6. Fields(Over(fees, limit)) /\ Fields(promised)
  BY <1>3, <1>4, <1>5, OverFields
<1>7. \A n : Val(promised, n) =
                CASE n \in DOMAIN fixed -> fixed[n]
                  [] n = "customFees" /\ Val(o, n) = "list" -> "list"
                  [] n = "supplyType" /\ Given(o, "maxSupply") /\ ~Given(o, n) -> "Finite"
                  [] OTHER -> "undefined"
  <2> TAKE n
  <2>1. Val(promised, n) = IF Val(Over(fees, limit), n) # "undefined"
                           THEN Val(Over(fees, limit), n) ELSE Val(fixed, n)
    BY <1>5, <1>6, OverOf
  <2>2. Val(Over(fees, limit), n) = IF Val(fees, n) # "undefined" THEN Val(fees, n)
                                    ELSE Val(limit, n)
    BY <1>3, OverOf
  <2>3. Val(fixed, n) = IF n \in DOMAIN fixed THEN fixed[n] ELSE "undefined"
    BY DEF Val
  <2>4. n \in DOMAIN fixed => n \notin {"customFees", "supplyType"}
    OBVIOUS
  <2> QED
    BY <1>3, <1>4, <2>1, <2>2, <2>3, <2>4
<1>8. Aside(call) = {"customFees"}
  BY DEF Aside
<1>9. DOMAIN types \cap (DOMAIN TransactionOptions \cup EntityIds) = {}
      /\ {"supplyType", "maxSupply"} \subseteq DOMAIN types
  BY DEF TransactionOptions, EntityIds, TokenCreateOptions
<1>10. \A n : Val(fields, n) = IF n = "customFees" /\ Val(b, n) = "empty" THEN "undefined"
                               ELSE IF n \in DOMAIN TokenCreateOptions /\ Given(b, n) THEN Val(b, n)
                               ELSE "undefined"
  BY TokenCreateIs
<1>11. DOMAIN TokenCreateOptions \cap EntityIds = {} /\ "customFees" \in DOMAIN TokenCreateOptions
  BY DEF TokenCreateOptions, EntityIds
<1> HIDE DEF promised, fields
<1>12. ASSUME NEW n
       PROVE  (IF Val(fields, n) \in Cleared THEN "none" ELSE Val(fields, n))
              = IF Val(promised, n) # "undefined" THEN Val(promised, n)
                ELSE IF n \in DOMAIN types \ (DOMAIN TransactionOptions \cup Aside(call))
                        /\ Given(o, n)
                THEN Val(o, n) ELSE "undefined"
  <2>1. "undefined" \notin Cleared /\ "Finite" \notin Cleared /\ "list" \notin Cleared
    BY DEF Cleared
  <2>2. CASE n \in DOMAIN fixed
    <3>1. fixed[n] # "undefined" /\ fixed[n] \notin Cleared \cup {"null", "empty"}
      BY <2>2 DEF Fields
    <3>2. n \in DOMAIN TokenCreateOptions
      BY <2>2 DEF TokenCreateOptions
    <3>3. Val(b, n) = fixed[n] /\ Given(b, n)
      BY <2>2, <3>1 DEF Given
    <3>4. Val(fields, n) = fixed[n]
      BY <1>10, <3>1, <3>2, <3>3
    <3>5. Val(promised, n) = fixed[n]
      BY <1>7, <2>2
    <3> QED
      BY <3>1, <3>4, <3>5
  <2>3. CASE n = "supplyType"
    <3>1. Val(b, n) = resolveSupplyType(o)
      BY <2>3
    <3>2. Given(o, n) => resolveSupplyType(o) = Val(o, n)
      BY <2>3 DEF resolveSupplyType, Given, Val
    <3>3. ~Given(o, n) => resolveSupplyType(o) = IF Given(o, "maxSupply") THEN "Finite"
                                                 ELSE "undefined"
      BY <2>3 DEF resolveSupplyType
    <3>4. Val(fields, n) = IF Given(o, n) THEN Val(o, n)
                           ELSE IF Given(o, "maxSupply") THEN "Finite" ELSE "undefined"
      BY <1>9, <1>10, <2>3, <3>1, <3>2, <3>3 DEF Given
    <3>5. Val(promised, n) = IF Given(o, "maxSupply") /\ ~Given(o, n) THEN "Finite"
                             ELSE "undefined"
      BY <1>7, <2>3
    <3>6. n \in DOMAIN types \ (DOMAIN TransactionOptions \cup Aside(call))
      BY <1>8, <1>9, <2>3
    <3> QED
      BY <1>1, <2>1, <3>4, <3>5, <3>6
  <2>4. CASE n = "customFees"
    <3>1. Val(b, n) = Val(o, n)
      BY <2>4
    <3>2. Val(fields, n) = IF Val(o, n) = "list" THEN "list" ELSE "undefined"
      BY <1>2, <1>10, <1>11, <2>4, <3>1 DEF Given
    <3>3. Val(promised, n) = IF Val(o, n) = "list" THEN "list" ELSE "undefined"
      BY <1>7, <2>4
    <3> QED
      BY <1>8, <2>1, <2>4, <3>2, <3>3
  <2>5. CASE n \notin DOMAIN fixed \cup {"supplyType", "customFees"}
    <3>1. Val(b, n) = Val(o, n)
      BY <2>5
    <3>2. Val(promised, n) = "undefined"
      BY <1>7, <2>5
    <3>3. Val(fields, n) = IF n \in DOMAIN types /\ Given(o, n) THEN Val(o, n) ELSE "undefined"
      BY <1>10, <2>5, <3>1 DEF Given
    <3>4. n \in DOMAIN types => n \in DOMAIN types \ (DOMAIN TransactionOptions \cup Aside(call))
      BY <1>8, <1>9, <2>5
    <3> QED
      BY <1>1, <2>1, <3>2, <3>3, <3>4
  <2> QED
    BY <2>2, <2>3, <2>4, <2>5
<1>13. Fields(fields)
  BY TokenCreateIs DEF fields
<1>14. Taken(fields) = Told(call, o)
  BY <1>6, <1>12, <1>13, TakenIsTold DEF promised
<1> QED
  BY <1>14 DEF fields

LEMMA FungiblePromised ==
    ASSUME NEW o, Admits(Over(CreateFungibleTokenOptions, TransactionOptions), o)
    PROVE  Taken(TokenCreate(buildFungibleOperationOptions(o))) = Told("createFungibleToken", o)
<1> DEFINE fixed == [tokenType |-> "FungibleCommon"]
           types == CreateFungibleTokenOptions
           b == buildFungibleOperationOptions(o)
<1>1. Typed(types) /\ Admits(Over(types, TransactionOptions), o)
  BY TokenTypes
<1>2. DOMAIN types = DOMAIN TokenCreateOptions \ DOMAIN fixed
  BY WithoutFields DEF CreateFungibleTokenOptions
<1>3. types["customFees"] = "list"
  BY DEF CreateFungibleTokenOptions, Without, TokenCreateOptions
<1>4. /\ DOMAIN fixed \subseteq {"tokenType", "decimals", "initialSupply"}
      /\ Fields(fixed)
      /\ \A n \in DOMAIN fixed : fixed[n] \notin Cleared \cup {"null", "empty"}
  BY DEF Fields, Cleared
<1>5. Promised("createFungibleToken", o) = Over(PromisedToken(o), fixed)
  BY DEF Promised
<1>6. ASSUME NEW n
      PROVE  Val(b, n) = IF n \in DOMAIN fixed THEN fixed[n]
                         ELSE IF n = "supplyType" THEN resolveSupplyType(o) ELSE Val(o, n)
  BY OverVal DEF buildFungibleOperationOptions
<1> HIDE DEF fixed, types, b
<1>7. Taken(TokenCreate(b)) = Told("createFungibleToken", o)
  BY <1>1, <1>2, <1>3, <1>4, <1>5, <1>6, TokenCreatePromised
<1> QED
  BY <1>7 DEF b

LEMMA NftPromised ==
    ASSUME NEW o, Admits(Over(CreateNftOptions, TransactionOptions), o)
    PROVE  Taken(TokenCreate(buildNftOperationOptions(o))) = Told("createNft", o)
<1> DEFINE fixed == [tokenType |-> "NonFungibleUnique", decimals |-> "0", initialSupply |-> "0"]
           types == CreateNftOptions
           b == buildNftOperationOptions(o)
<1>1. Typed(types) /\ Admits(Over(types, TransactionOptions), o)
  BY TokenTypes
<1>2. DOMAIN types = DOMAIN TokenCreateOptions \ DOMAIN fixed
  BY WithoutFields DEF CreateNftOptions
<1>3. types["customFees"] = "list"
  BY DEF CreateNftOptions, Without, TokenCreateOptions
<1>4. /\ DOMAIN fixed \subseteq {"tokenType", "decimals", "initialSupply"}
      /\ Fields(fixed)
      /\ \A n \in DOMAIN fixed : fixed[n] \notin Cleared \cup {"null", "empty"}
  BY DEF Fields, Cleared
<1>5. Promised("createNft", o) = Over(PromisedToken(o), fixed)
  BY DEF Promised
<1>6. ASSUME NEW n
      PROVE  Val(b, n) = IF n \in DOMAIN fixed THEN fixed[n]
                         ELSE IF n = "supplyType" THEN resolveSupplyType(o) ELSE Val(o, n)
  BY OverVal DEF buildNftOperationOptions
<1> HIDE DEF fixed, types, b
<1>7. Taken(TokenCreate(b)) = Told("createNft", o)
  BY <1>1, <1>2, <1>3, <1>4, <1>5, <1>6, TokenCreatePromised
<1> QED
  BY <1>7 DEF b

-----------------------------------------------------------------------------
(* TopicService and FileService.                                           *)

LEMMA TopicTypes ==
    /\ Typed(TopicCreateOptions) /\ Typed(TopicUpdateOptions)
    /\ Typed(FileCreateOptions) /\ Typed(FileUpdateOptions)
BY DEF Typed, TopicCreateOptions, TopicUpdateOptions, FileCreateOptions, FileUpdateOptions, Types

(* A null that clears is sent as what stands for nothing.                  *)
LEMMA TopicUpdateIs ==
    ASSUME NEW o
    PROVE  /\ Fields(TopicUpdate(o))
           /\ DOMAIN TopicUpdate(o) \subseteq DOMAIN TopicUpdateOptions
           /\ \A n : Val(TopicUpdate(o), n) =
                  IF n \in DOMAIN Clear /\ IsNull(o, n) THEN Clear[n]
                  ELSE IF n \in DOMAIN TopicUpdateOptions /\ Given(o, n) THEN Val(o, n)
                  ELSE "undefined"
<1> DEFINE cleared == [n \in {n \in DOMAIN Clear : IsNull(o, n)} |-> Clear[n]]
           kept == Keep(o, DOMAIN TopicUpdateOptions)
<1>1. DOMAIN TopicUpdateOptions = {"topicId", "autoRenewPeriod", "expirationTime"} \cup DOMAIN Clear
  BY DEF TopicUpdateOptions, Clear
<1>2. TopicUpdate(o) = Over(cleared, kept)
  BY <1>1 DEF TopicUpdate
<1>3. \A n \in DOMAIN Clear : Clear[n] # "undefined"
  BY DEF Clear
<1>4. /\ Fields(cleared) /\ DOMAIN cleared \subseteq DOMAIN Clear
      /\ \A n : Val(cleared, n) = IF n \in DOMAIN Clear /\ IsNull(o, n) THEN Clear[n]
                                  ELSE "undefined"
  BY <1>3 DEF Fields, Val
<1> HIDE DEF cleared
<1>5. Fields(kept) /\ DOMAIN kept \subseteq DOMAIN TopicUpdateOptions
  BY KeepFields, KeepDomain
<1> HIDE DEF kept
<1>6. Fields(TopicUpdate(o))
  BY <1>2, <1>4, <1>5, OverFields
<1>7. ASSUME NEW n \in DOMAIN TopicUpdate(o) PROVE n \in DOMAIN TopicUpdateOptions
  BY <1>1, <1>2, <1>4, <1>5, OverDomain
<1>8. ASSUME NEW n
      PROVE  Val(TopicUpdate(o), n) =
                IF n \in DOMAIN Clear /\ IsNull(o, n) THEN Clear[n]
                ELSE IF n \in DOMAIN TopicUpdateOptions /\ Given(o, n) THEN Val(o, n)
                ELSE "undefined"
  <2>1. Val(TopicUpdate(o), n) = IF Val(cleared, n) # "undefined" THEN Val(cleared, n)
                                 ELSE Val(kept, n)
    BY <1>2, <1>4, OverOf
  <2>2. Val(kept, n) = IF n \in DOMAIN TopicUpdateOptions /\ Given(o, n) THEN Val(o, n)
                       ELSE "undefined"
    BY KeepOf DEF kept
  <2> QED
    BY <1>3, <1>4, <2>1, <2>2
<1> QED
  BY <1>6, <1>7, <1>8

LEMMA UpdateTopicPromised ==
    ASSUME NEW o, Admits(Over(TopicUpdateOptions, TransactionOptions), o)
    PROVE  Taken(TopicUpdate(o)) = Told("updateTopic", o)
<1> DEFINE fields == TopicUpdate(o)
           promised == Promised("updateTopic", o)
           memo == Nulled(o, "topicMemo", "emptyText")
           gone == {"adminKey", "submitKey", "feeScheduleKey", "feeExemptKeys",
                    "autoRenewAccountId", "customFees"}
           none == [n \in {n \in gone : IsNull(o, n)} |-> "none"]
<1>1. \A n : Val(o, n) \notin Cleared
  BY PlainValues, TopicTypes, SharedTyped
<1>2. /\ Fields(memo)
      /\ \A n : Val(memo, n) = IF n = "topicMemo" /\ IsNull(o, n) THEN "emptyText" ELSE "undefined"
  <2>1. CASE IsNull(o, "topicMemo")
    <3>1. memo = With("topicMemo", "emptyText")
      BY <2>1 DEF Nulled
    <3> HIDE DEF memo
    <3>2. Fields(memo)
      BY <3>1, WithFields
    <3>3. \A n : Val(memo, n) = IF n = "topicMemo" THEN "emptyText" ELSE "undefined"
      BY <3>1, WithVal
    <3> QED
      BY <2>1, <3>2, <3>3
  <2>2. CASE ~IsNull(o, "topicMemo")
    <3>1. memo = NoFields
      BY <2>2 DEF Nulled
    <3> HIDE DEF memo
    <3> QED
      BY <2>2, <3>1, NoFieldsEmpty DEF Val
  <2> QED
    BY <2>1, <2>2
<1>3. /\ Fields(none)
      /\ \A n : Val(none, n) = IF n \in gone /\ IsNull(o, n) THEN "none" ELSE "undefined"
  BY DEF Fields, Val
<1>4. promised = Over(memo, none)
  BY DEF Promised
<1>5. /\ DOMAIN Clear = gone \cup {"topicMemo"}
      /\ \A n \in gone : Clear[n] \in Cleared
      /\ Clear["topicMemo"] = "emptyText"
  BY DEF Clear, Cleared
<1>6. Aside("updateTopic") = {} /\ "topicMemo" \notin gone
  BY DEF Aside
<1>7. gone \cup {"topicMemo"} \subseteq DOMAIN TopicUpdateOptions
      /\ DOMAIN TopicUpdateOptions \cap DOMAIN TransactionOptions = {}
  BY DEF TopicUpdateOptions, TransactionOptions
<1> HIDE DEF memo, none, gone
<1>8. Fields(promised)
  BY <1>2, <1>3, <1>4, OverFields
<1>9. \A n : Val(promised, n) = IF Val(memo, n) # "undefined" THEN Val(memo, n) ELSE Val(none, n)
  BY <1>2, <1>4, OverOf
<1>10. Fields(fields)
  BY TopicUpdateIs
<1>11. \A n : Val(fields, n) = IF n \in DOMAIN Clear /\ IsNull(o, n) THEN Clear[n]
                               ELSE IF n \in DOMAIN TopicUpdateOptions /\ Given(o, n) THEN Val(o, n)
                               ELSE "undefined"
  BY TopicUpdateIs
<1> HIDE DEF promised, fields
<1>12. ASSUME NEW n
       PROVE  (IF Val(fields, n) \in Cleared THEN "none" ELSE Val(fields, n))
              = IF Val(promised, n) # "undefined" THEN Val(promised, n)
                ELSE IF n \in DOMAIN TopicUpdateOptions
                                \ (DOMAIN TransactionOptions \cup Aside("updateTopic"))
                        /\ Given(o, n)
                THEN Val(o, n) ELSE "undefined"
  <2>1. "undefined" \notin Cleared /\ "emptyText" \notin Cleared
    BY DEF Cleared
  <2>2. CASE n = "topicMemo" /\ IsNull(o, n)
    <3>1. Val(promised, n) = "emptyText"
      BY <1>2, <1>9, <2>2
    <3>2. Val(fields, n) = "emptyText"
      BY <1>5, <1>11, <2>2
    <3> QED
      BY <2>1, <3>1, <3>2
  <2>3. CASE n \in gone /\ IsNull(o, n)
    <3>1. Val(promised, n) = "none"
      BY <1>2, <1>3, <1>6, <1>9, <2>3
    <3>2. Val(fields, n) \in Cleared
      BY <1>5, <1>11, <2>3
    <3> QED
      BY <3>1, <3>2
  <2>4. CASE ~(n \in gone \cup {"topicMemo"} /\ IsNull(o, n))
    <3>1. Val(promised, n) = "undefined"
      BY <1>2, <1>3, <1>9, <2>4
    <3>2. Val(fields, n) = IF n \in DOMAIN TopicUpdateOptions /\ Given(o, n) THEN Val(o, n)
                           ELSE "undefined"
      BY <1>5, <1>11, <2>4
    <3> QED
      BY <1>1, <1>6, <1>7, <2>1, <3>1, <3>2
  <2> QED
    BY <2>2, <2>3, <2>4
<1>13. Taken(fields) = Told("updateTopic", o)
  BY <1>8, <1>10, <1>12, TakenIsTold DEF promised
<1> QED
  BY <1>13 DEF fields

(* Some fields are written besides what is kept.                           *)
LEMMA OverKept ==
    ASSUME NEW o, NEW f, NEW names, NEW n, Fields(f)
    PROVE  Val(Over(f, Keep(o, names)), n) =
              IF Val(f, n) # "undefined" THEN Val(f, n)
              ELSE IF n \in names /\ Given(o, n) THEN Val(o, n) ELSE "undefined"
<1>1. Val(Over(f, Keep(o, names)), n) = IF Val(f, n) # "undefined" THEN Val(f, n)
                                        ELSE Val(Keep(o, names), n)
  BY OverOf
<1>2. Val(Keep(o, names), n) = IF n \in names /\ Given(o, n) THEN Val(o, n) ELSE "undefined"
  BY KeepOf
<1> QED
  BY <1>1, <1>2

LEMMA OverKeptFields ==
    ASSUME NEW o, NEW f, NEW names, Fields(f)
    PROVE  /\ Fields(Over(f, Keep(o, names)))
           /\ DOMAIN f \subseteq names => DOMAIN Over(f, Keep(o, names)) \subseteq names
<1>1. Fields(Over(f, Keep(o, names)))
  BY KeepFields, OverFields
<1>2. ASSUME NEW n \in DOMAIN Over(f, Keep(o, names)), DOMAIN f \subseteq names PROVE n \in names
  <2>1. DOMAIN Keep(o, names) \subseteq names
    BY KeepDomain
  <2> QED
    BY <1>2, <2>1, OverDomain
<1> QED
  BY <1>1, <1>2

LEMMA CreateFilePromised ==
    ASSUME NEW o, Admits(Over(FileCreateOptions, TransactionOptions), o)
    PROVE  /\ Fields(FileCreate(o)) /\ DOMAIN FileCreate(o) \subseteq DOMAIN FileCreateOptions
           /\ Taken(FileCreate(o)) = Told("createFile", o)
<1> DEFINE fields == FileCreate(o)
           promised == Promised("createFile", o)
           missing == ~Given(o, "keys")
           value == IF missing THEN "ofTheOperator" ELSE "undefined"
           one == IF missing THEN With("keys", "ofTheOperator") ELSE NoFields
           names == DOMAIN FileCreateOptions
<1>1. \A n : Val(o, n) \notin Cleared
  BY PlainValues, TopicTypes, SharedTyped
<1>2. fields = Over(one, Keep(o, names))
  BY DEF FileCreate, FileCreateOptions
<1>3. promised = one
  BY DEF Promised, Unless
<1>5. /\ "keys" \in names /\ names \cap DOMAIN TransactionOptions = {}
      /\ Aside("createFile") = {}
  BY DEF FileCreateOptions, TransactionOptions, Aside
<1>6. /\ Fields(one)
      /\ \A n : Val(one, n) = IF n = "keys" THEN value ELSE "undefined"
  <2>1. CASE missing
    <3>1. one = With("keys", "ofTheOperator") /\ value = "ofTheOperator"
      BY <2>1
    <3> HIDE DEF one, value
    <3>2. Fields(one)
      BY <3>1, WithFields
    <3>3. \A n : Val(one, n) = IF n = "keys" THEN "ofTheOperator" ELSE "undefined"
      BY <3>1, WithVal
    <3> QED
      BY <3>1, <3>2, <3>3
  <2>2. CASE ~missing
    <3>1. one = NoFields /\ value = "undefined"
      BY <2>2
    <3> HIDE DEF one, value
    <3> QED
      BY <3>1, NoFieldsEmpty DEF Val
  <2> QED
    BY <2>1, <2>2
<1>7. value \in {"ofTheOperator", "undefined"}
  OBVIOUS
<1> HIDE DEF one, promised, fields, names, value
<1>4. \A n : Val(fields, n) =
               IF Val(one, n) # "undefined" THEN Val(one, n)
               ELSE IF n \in names /\ Given(o, n) THEN Val(o, n) ELSE "undefined"
  BY <1>2, <1>6, OverKept
<1>10. Fields(fields)
  BY <1>2, <1>6, OverKeptFields
<1>11. DOMAIN fields \subseteq names
  <2>1. DOMAIN one \subseteq names
    BY <1>5, <1>6 DEF Val, Fields
  <2> QED
    BY <1>2, <1>6, <2>1, OverKeptFields
<1>8. ASSUME NEW n
      PROVE  (IF Val(fields, n) \in Cleared THEN "none" ELSE Val(fields, n))
             = IF Val(promised, n) # "undefined" THEN Val(promised, n)
               ELSE IF n \in names \ (DOMAIN TransactionOptions \cup Aside("createFile"))
                       /\ Given(o, n)
               THEN Val(o, n) ELSE "undefined"
  <2>1. "undefined" \notin Cleared /\ "ofTheOperator" \notin Cleared
    BY DEF Cleared
  <2> QED
    BY <1>1, <1>3, <1>4, <1>5, <1>6, <1>7, <2>1
<1>9. Taken(fields) = Told("createFile", o)
  BY <1>3, <1>6, <1>8, <1>10, TakenIsTold DEF promised, names
<1> QED
  BY <1>9, <1>10, <1>11 DEF fields, names

LEMMA UpdateFilePromised ==
    ASSUME NEW o, Admits(Over(FileUpdateOptions, TransactionOptions), o)
    PROVE  /\ Fields(FileUpdate(o)) /\ DOMAIN FileUpdate(o) \subseteq DOMAIN FileUpdateOptions
           /\ Taken(FileUpdate(o)) = Told("updateFile", o)
<1> DEFINE fields == FileUpdate(o)
           promised == Promised("updateFile", o)
           null == IsNull(o, "fileMemo")
           value == IF null THEN "emptyText" ELSE "undefined"
           one == IF null THEN With("fileMemo", "emptyText") ELSE NoFields
           names == DOMAIN FileUpdateOptions
<1>1. \A n : Val(o, n) \notin Cleared
  BY PlainValues, TopicTypes, SharedTyped
<1>2. fields = Over(one, Keep(o, names))
  BY DEF FileUpdate, FileUpdateOptions
<1>3. promised = one
  BY DEF Promised, Nulled
<1>5. /\ "fileMemo" \in names /\ names \cap DOMAIN TransactionOptions = {}
      /\ Aside("updateFile") = {}
  BY DEF FileUpdateOptions, TransactionOptions, Aside
<1>6. /\ Fields(one)
      /\ \A n : Val(one, n) = IF n = "fileMemo" THEN value ELSE "undefined"
  <2>1. CASE null
    <3>1. one = With("fileMemo", "emptyText") /\ value = "emptyText"
      BY <2>1
    <3> HIDE DEF one, value
    <3>2. Fields(one)
      BY <3>1, WithFields
    <3>3. \A n : Val(one, n) = IF n = "fileMemo" THEN "emptyText" ELSE "undefined"
      BY <3>1, WithVal
    <3> QED
      BY <3>1, <3>2, <3>3
  <2>2. CASE ~null
    <3>1. one = NoFields /\ value = "undefined"
      BY <2>2
    <3> HIDE DEF one, value
    <3> QED
      BY <3>1, NoFieldsEmpty DEF Val
  <2> QED
    BY <2>1, <2>2
<1>7. value \in {"emptyText", "undefined"}
  OBVIOUS
<1> HIDE DEF one, promised, fields, names, value
<1>4. \A n : Val(fields, n) =
               IF Val(one, n) # "undefined" THEN Val(one, n)
               ELSE IF n \in names /\ Given(o, n) THEN Val(o, n) ELSE "undefined"
  BY <1>2, <1>6, OverKept
<1>10. Fields(fields)
  BY <1>2, <1>6, OverKeptFields
<1>11. DOMAIN fields \subseteq names
  <2>1. DOMAIN one \subseteq names
    BY <1>5, <1>6 DEF Val, Fields
  <2> QED
    BY <1>2, <1>6, <2>1, OverKeptFields
<1>8. ASSUME NEW n
      PROVE  (IF Val(fields, n) \in Cleared THEN "none" ELSE Val(fields, n))
             = IF Val(promised, n) # "undefined" THEN Val(promised, n)
               ELSE IF n \in names \ (DOMAIN TransactionOptions \cup Aside("updateFile"))
                       /\ Given(o, n)
               THEN Val(o, n) ELSE "undefined"
  <2>1. "undefined" \notin Cleared /\ "emptyText" \notin Cleared
    BY DEF Cleared
  <2> QED
    BY <1>1, <1>3, <1>4, <1>5, <1>6, <1>7, <2>1
<1>9. Taken(fields) = Told("updateFile", o)
  BY <1>3, <1>6, <1>8, <1>10, TakenIsTold DEF promised, names
<1> QED
  BY <1>9, <1>10, <1>11 DEF fields, names

-----------------------------------------------------------------------------
(* The calls of AccountService.                                            *)

(* A call that is sent at once, or through a schedule, with the signatures *)
(* of all keys that its options give.                                      *)
LEMMA SentKeeps ==
    ASSUME EntityInv, kind' = kind,
           NEW call, NEW types, NEW shared \in {TransactionOptions, FlowOptions}, NEW o,
           NEW refused, NEW fields, NEW own, NEW does, NEW answers,
           Admits(Over(types, shared), o),
           DOMAIN types \cap Signers = {}, SigningOf(call) \cap DOMAIN types \subseteq own,
           execute(call, o, refused, fields, own, does, answers),
           call \notin Reads \cup {"createAccount", "submitBatch"},
           Fit(kind, call, o, refused, fields, does),
           \A a \in answers : AnswerFits(call, a)
    PROVE  EntityInv'
<1>1. Signs(call, o, {n \in own : Val(o, n) \in {"key", "keys"}} \cup applySigners(o))
  BY GivenKeysSign
<1>2. ~refused => \A a \in answers : AnswerFits(call, a)
  OBVIOUS
<1>3. call = "submitBatch" /\ ~refused => Given(o, "transactions")
  OBVIOUS
<1>4. call = "createAccount" =>
              /\ does = "create"
              /\ ~refused /\ Readable(fields) => \A a \in answers : AccountTold(fields, a)
  OBVIOUS
<1> QED
  BY <1>1, <1>2, <1>3, <1>4, ExecuteKeeps

LEMMA LaterKeeps ==
    ASSUME EntityInv, kind' = kind,
           NEW call, NEW types, NEW o, NEW s, NEW refused, NEW fields, NEW does,
           Admits(Over(types, TransactionOptions), o), Admits(Over(ScheduleOptions, NoFields), s),
           DOMAIN types \cap Signers = {}, SigningOf(call) \cap DOMAIN types = {},
           scheduleRun(call, o, s, refused, fields, does),
           call \notin Reads \cup {"submitBatch", "cancel"},
           Fit(kind, call, o, refused, fields, does)
    PROVE  EntityInv'
<1>1. DOMAIN s \subseteq DOMAIN ScheduleOptions
  <2>1. ASSUME NEW n \in DOMAIN s PROVE n \in DOMAIN ScheduleOptions
    <3>1. n \in DOMAIN Over(ScheduleOptions, NoFields)
      BY DEF Admits
    <3> QED
      BY <3>1, OverDomain, NoFieldsEmpty
  <2> QED
    BY <2>1
<1>2. Signs(call, o, {n \in {} : Val(o, n) \in {"key", "keys"}} \cup applySigners(o))
  BY GivenKeysSign
<1> QED
  BY <1>1, <1>2, ScheduleKeeps

LEMMA OkNothing == \A call : \A a \in {Ok(NoFields)} : AnswerFits(call, a)
BY OkFits, NoFieldsEmpty

LEMMA CreateAccountFit ==
    ASSUME NEW o, Admits(Over(CreateAccountOptions, TransactionOptions), o)
    PROVE  Fit("account", "createAccount", o, CreateAccountValidator(o), AccountCreate(o), "create")
<1>1. Fields(AccountCreate(o)) /\ DOMAIN AccountCreate(o) \cap Shared = {}
  BY AccountCreateIs
<1>2. ~CreateAccountValidator(o) /\ Readable(AccountCreate(o)) =>
        Taken(AccountCreate(o)) = Told("createAccount", o)
  BY CreateAccountPromised
<1> QED
  BY <1>1, <1>2, OfNoInfo DEF Fit

LEMMA CreateAccountKeeps == EntityInv /\ createAccount => EntityInv'
<1> SUFFICES ASSUME EntityInv, createAccount PROVE EntityInv'
  OBVIOUS
<1> DEFINE answers(o) == {Ok(toAccount(o)), Answer("SDK_ERROR", FALSE, NoFields)}
<1>1. PICK a \in Asked(CreateAccountOptions, Accounts, TransactionOptions) :
         execute("createAccount", a[1], CreateAccountValidator(a[1]), AccountCreate(a[1]), {},
                 "create", answers(a[1]))
  BY DEF createAccount, Now
<1>2. kind = "account" /\ kind' = kind
  BY DEF createAccount, Now
<1> DEFINE o == a[1]
<1>3. Admits(Over(CreateAccountOptions, TransactionOptions), o)
  BY AskedAdmitted
<1>4. DOMAIN CreateAccountOptions \cap Signers = {}
      /\ SigningOf("createAccount") \cap DOMAIN CreateAccountOptions \subseteq {}
  BY DEF CreateAccountOptions, Signers, SigningOf
<1> HIDE DEF o
<1>5. Signs("createAccount", o,
            {n \in {} : Val(o, n) \in {"key", "keys"}} \cup applySigners(o))
  BY <1>3, <1>4, GivenKeysSign
<1>6. Fit(kind, "createAccount", o, CreateAccountValidator(o), AccountCreate(o), "create")
  BY <1>2, <1>3, CreateAccountFit
<1>7. \A b \in answers(o) : AnswerFits("createAccount", b)
  <2>1. AnswerFits("createAccount", Ok(toAccount(o)))
    BY ToAccountIs, OkFits
  <2>2. AnswerFits("createAccount", Answer("SDK_ERROR", FALSE, NoFields))
    BY NoFieldsEmpty DEF AnswerFits, Answer
  <2> QED
    BY <2>1, <2>2
<1>8. Readable(AccountCreate(o)) => \A b \in answers(o) : AccountTold(AccountCreate(o), b)
  <2>1. AccountTold(AccountCreate(o), Answer("SDK_ERROR", FALSE, NoFields))
    BY DEF AccountTold, Answer
  <2> QED
    BY <1>3, <2>1, CreateAccountTold
<1> HIDE DEF answers
<1>9. execute("createAccount", o, CreateAccountValidator(o), AccountCreate(o), {},
              "create", answers(o))
  BY <1>1 DEF o
<1>10. "createAccount" \notin Reads
  BY DEF Reads
<1> QED
  BY <1>2, <1>5, <1>6, <1>7, <1>8, <1>9, <1>10, ExecuteKeeps

LEMMA ScheduleCreateAccountKeeps == EntityInv /\ scheduleCreateAccount => EntityInv'
<1> SUFFICES ASSUME EntityInv, scheduleCreateAccount PROVE EntityInv'
  OBVIOUS
<1>1. PICK a \in Asked(CreateAccountOptions, Accounts, TransactionOptions),
           s \in Asked(ScheduleOptions, {NoFields}, NoFields) :
         scheduleRun("createAccount", a[1], s[1], CreateAccountValidator(a[1]),
                     AccountCreate(a[1]), "create")
  BY DEF scheduleCreateAccount, Later
<1>2. kind = "account" /\ kind' = kind
  BY DEF scheduleCreateAccount, Later
<1>3. /\ Admits(Over(CreateAccountOptions, TransactionOptions), a[1])
      /\ Admits(Over(ScheduleOptions, NoFields), s[1])
  BY AskedAdmitted
<1>4. /\ DOMAIN CreateAccountOptions \cap Signers = {}
      /\ SigningOf("createAccount") \cap DOMAIN CreateAccountOptions = {}
      /\ "createAccount" \notin Reads \cup {"submitBatch", "cancel"}
  BY DEF CreateAccountOptions, Signers, SigningOf, Reads
<1>5. Fit(kind, "createAccount", a[1], CreateAccountValidator(a[1]), AccountCreate(a[1]), "create")
  BY <1>2, <1>3, CreateAccountFit
<1> QED
  BY <1>1, <1>2, <1>3, <1>4, <1>5, LaterKeeps

LEMMA UpdateAccountFit ==
    ASSUME NEW o, Admits(Over(UpdateAccountOptions, TransactionOptions), o)
    PROVE  Fit("account", "updateAccount", o, UpdateAccountValidator(o), AccountUpdate(o), "update")
<1>1. AccountUpdate(o) = Keep(o, DOMAIN UpdateAccountOptions)
  BY DEF AccountUpdate, UpdateAccountOptions
<1>2. /\ DOMAIN UpdateAccountOptions \cap DOMAIN TransactionOptions = {}
      /\ Promised("updateAccount", o) = NoFields /\ Aside("updateAccount") = {}
  BY DEF UpdateAccountOptions, TransactionOptions, Promised, Aside
<1> QED
  BY <1>1, <1>2, AccountTypes, OfNoInfo, PlainFit

LEMMA UpdateAccountKeeps == EntityInv /\ updateAccount => EntityInv'
<1> SUFFICES ASSUME EntityInv, updateAccount PROVE EntityInv'
  OBVIOUS
<1>1. PICK a \in Asked(UpdateAccountOptions, AccountUpdates, TransactionOptions) :
         execute("updateAccount", a[1], UpdateAccountValidator(a[1]), AccountUpdate(a[1]), {},
                 "update", {Ok(NoFields)})
  BY DEF updateAccount, Now
<1>2. kind = "account" /\ kind' = kind
  BY DEF updateAccount, Now
<1>3. Admits(Over(UpdateAccountOptions, TransactionOptions), a[1])
  BY AskedAdmitted
<1>4. /\ DOMAIN UpdateAccountOptions \cap Signers = {}
      /\ SigningOf("updateAccount") \cap DOMAIN UpdateAccountOptions \subseteq {}
      /\ "updateAccount" \notin Reads \cup {"createAccount", "submitBatch"}
  BY DEF UpdateAccountOptions, Signers, SigningOf, Reads
<1>5. Fit(kind, "updateAccount", a[1], UpdateAccountValidator(a[1]), AccountUpdate(a[1]), "update")
  BY <1>2, <1>3, UpdateAccountFit
<1> QED
  BY <1>1, <1>2, <1>3, <1>4, <1>5, OkNothing, SentKeeps

LEMMA ScheduleUpdateAccountKeeps == EntityInv /\ scheduleUpdateAccount => EntityInv'
<1> SUFFICES ASSUME EntityInv, scheduleUpdateAccount PROVE EntityInv'
  OBVIOUS
<1>1. PICK a \in Asked(UpdateAccountOptions, AccountUpdates, TransactionOptions),
           s \in Asked(ScheduleOptions, {NoFields}, NoFields) :
         scheduleRun("updateAccount", a[1], s[1], UpdateAccountValidator(a[1]),
                     AccountUpdate(a[1]), "update")
  BY DEF scheduleUpdateAccount, Later
<1>2. kind = "account" /\ kind' = kind
  BY DEF scheduleUpdateAccount, Later
<1>3. /\ Admits(Over(UpdateAccountOptions, TransactionOptions), a[1])
      /\ Admits(Over(ScheduleOptions, NoFields), s[1])
  BY AskedAdmitted
<1>4. /\ DOMAIN UpdateAccountOptions \cap Signers = {}
      /\ SigningOf("updateAccount") \cap DOMAIN UpdateAccountOptions = {}
      /\ "updateAccount" \notin Reads \cup {"submitBatch", "cancel"}
  BY DEF UpdateAccountOptions, Signers, SigningOf, Reads
<1>5. Fit(kind, "updateAccount", a[1], UpdateAccountValidator(a[1]), AccountUpdate(a[1]), "update")
  BY <1>2, <1>3, UpdateAccountFit
<1> QED
  BY <1>1, <1>2, <1>3, <1>4, <1>5, LaterKeeps

LEMMA AutoCreateFit ==
    ASSUME NEW o, Admits(Over(AutoCreateEvmAccountOptions, TransactionOptions), o)
    PROVE  Fit("account", "autoCreateEvmAccount", o, AutoCreateEvmAccountValidator(o),
               AccountAutoCreate(o), "create")
<1>1. DOMAIN AccountAutoCreate(o) \cap Shared = {}
  <2>1. ASSUME NEW n \in DOMAIN AccountAutoCreate(o) PROVE n \in {"alias", "initialBalance"}
    <3>1. \/ n \in DOMAIN With("alias", o.evmAddress)
          \/ n \in DOMAIN With("initialBalance", o.amount)
      BY OverDomain DEF AccountAutoCreate
    <3>2. DOMAIN With("alias", o.evmAddress) = {"alias"}
      BY WithFields
    <3>3. DOMAIN With("initialBalance", o.amount) = {"initialBalance"}
      BY WithFields
    <3> QED
      BY <3>1, <3>2, <3>3
  <2> QED
    BY <2>1 DEF Shared
<1> QED
  BY <1>1, AutoCreatePromised, OfNoInfo DEF Fit

LEMMA AutoCreateKeeps == EntityInv /\ autoCreateEvmAccount => EntityInv'
<1> SUFFICES ASSUME EntityInv, autoCreateEvmAccount PROVE EntityInv'
  OBVIOUS
<1>1. PICK a \in Asked(AutoCreateEvmAccountOptions, AutoAccounts, TransactionOptions) :
         execute("autoCreateEvmAccount", a[1], AutoCreateEvmAccountValidator(a[1]), AccountAutoCreate(a[1]), {},
                 "create", {Ok(With("accountId", id)) : id \in {"id", "null"}} \cup {Unmapped})
  BY DEF autoCreateEvmAccount, Now
<1>2. kind = "account" /\ kind' = kind
  BY DEF autoCreateEvmAccount, Now
<1>3. Admits(Over(AutoCreateEvmAccountOptions, TransactionOptions), a[1])
  BY AskedAdmitted
<1>4. /\ DOMAIN AutoCreateEvmAccountOptions \cap Signers = {}
      /\ SigningOf("autoCreateEvmAccount") \cap DOMAIN AutoCreateEvmAccountOptions \subseteq {}
      /\ "autoCreateEvmAccount" \notin Reads \cup {"createAccount", "submitBatch"}
  BY DEF AutoCreateEvmAccountOptions, Signers, SigningOf, Reads
<1>5. Fit(kind, "autoCreateEvmAccount", a[1], AutoCreateEvmAccountValidator(a[1]), AccountAutoCreate(a[1]), "create")
  BY <1>2, <1>3, AutoCreateFit
<1>6. \A b \in {Ok(With("accountId", id)) : id \in {"id", "null"}} \cup {Unmapped} : AnswerFits("autoCreateEvmAccount", b)
  <2>1. \A id \in {"id", "null"} : AnswerFits("autoCreateEvmAccount", Ok(With("accountId", id)))
    BY OkFits, WithFields
  <2>2. AnswerFits("autoCreateEvmAccount", Unmapped)
    BY NoFieldsEmpty DEF AnswerFits, Unmapped, Answer
  <2> QED
    BY <2>1, <2>2
<1> QED
  BY <1>1, <1>2, <1>3, <1>4, <1>5, <1>6, SentKeeps

LEMMA ScheduleAutoCreateKeeps == EntityInv /\ scheduleAutoCreateEvmAccount => EntityInv'
<1> SUFFICES ASSUME EntityInv, scheduleAutoCreateEvmAccount PROVE EntityInv'
  OBVIOUS
<1>1. PICK a \in Asked(AutoCreateEvmAccountOptions, AutoAccounts, TransactionOptions),
           s \in Asked(ScheduleOptions, {NoFields}, NoFields) :
         scheduleRun("autoCreateEvmAccount", a[1], s[1], AutoCreateEvmAccountValidator(a[1]),
                     AccountAutoCreate(a[1]), "create")
  BY DEF scheduleAutoCreateEvmAccount, Later
<1>2. kind = "account" /\ kind' = kind
  BY DEF scheduleAutoCreateEvmAccount, Later
<1>3. /\ Admits(Over(AutoCreateEvmAccountOptions, TransactionOptions), a[1])
      /\ Admits(Over(ScheduleOptions, NoFields), s[1])
  BY AskedAdmitted
<1>4. /\ DOMAIN AutoCreateEvmAccountOptions \cap Signers = {}
      /\ SigningOf("autoCreateEvmAccount") \cap DOMAIN AutoCreateEvmAccountOptions = {}
      /\ "autoCreateEvmAccount" \notin Reads \cup {"submitBatch", "cancel"}
  BY DEF AutoCreateEvmAccountOptions, Signers, SigningOf, Reads
<1>5. Fit(kind, "autoCreateEvmAccount", a[1], AutoCreateEvmAccountValidator(a[1]), AccountAutoCreate(a[1]), "create")
  BY <1>2, <1>3, AutoCreateFit
<1> QED
  BY <1>1, <1>2, <1>3, <1>4, <1>5, LaterKeeps

LEMMA DeleteAccountFit ==
    ASSUME NEW o, NEW refused
    PROVE  Fit("account", "deleteAccount", o, refused, AccountDelete(o), "delete")
<1> DEFINE to == IF Given(o, "transferAccountId") THEN o.transferAccountId ELSE "operator"
           heir == With("transferAccountId", to)
           fields == Over(heir, Keep(o, {"transferAccountId", "accountId"}))
<1>1. to # "undefined"
  BY DEF Given, Val
<1> HIDE DEF to
<1>2. Fields(heir)
  BY <1>1, WithFields
<1>3. DOMAIN heir = {"transferAccountId"}
  BY WithFields
<1> HIDE DEF heir
<1>4. DOMAIN AccountDelete(o) \subseteq {"transferAccountId", "accountId"}
  <2>1. AccountDelete(o) = Over(heir, Keep(o, {"accountId"}))
    BY DEF AccountDelete, heir, to
  <2>2. DOMAIN Keep(o, {"accountId"}) \subseteq {"accountId"}
    BY KeepDomain
  <2>3. ASSUME NEW n \in DOMAIN AccountDelete(o) PROVE n \in {"transferAccountId", "accountId"}
    BY <1>3, <2>1, <2>2, OverDomain
  <2> QED
    BY <2>3
<1>5. Fields(AccountDelete(o))
  BY <1>2, OverKeptFields DEF AccountDelete, heir, to
<1> QED
  BY <1>4, <1>5 DEF Fit, Shared, Changing

LEMMA DeleteAccountKeeps == EntityInv /\ deleteAccount => EntityInv'
<1> SUFFICES ASSUME EntityInv, deleteAccount PROVE EntityInv'
  OBVIOUS
<1>1. PICK a \in Asked(DeleteAccountOptions, {[accountId |-> "id", accountKey |-> "key"]}, TransactionOptions) :
         execute("deleteAccount", a[1], validateAccountKey(a[1]) \/ DeleteAccountValidator(a[1]), AccountDelete(a[1]), {"accountKey"},
                 "delete", {Ok(NoFields)})
  BY DEF deleteAccount, Now
<1>2. kind = "account" /\ kind' = kind
  BY DEF deleteAccount, Now
<1>3. Admits(Over(DeleteAccountOptions, TransactionOptions), a[1])
  BY AskedAdmitted
<1>4. /\ DOMAIN DeleteAccountOptions \cap Signers = {}
      /\ SigningOf("deleteAccount") \cap DOMAIN DeleteAccountOptions \subseteq {"accountKey"}
      /\ "deleteAccount" \notin Reads \cup {"createAccount", "submitBatch"}
  BY DEF DeleteAccountOptions, Signers, SigningOf, Reads
<1>5. Fit(kind, "deleteAccount", a[1], validateAccountKey(a[1]) \/ DeleteAccountValidator(a[1]), AccountDelete(a[1]), "delete")
  BY <1>2, DeleteAccountFit
<1> QED
  BY <1>1, <1>2, <1>3, <1>4, <1>5, OkNothing, SentKeeps

LEMMA ScheduleDeleteAccountKeeps == EntityInv /\ scheduleDeleteAccount => EntityInv'
<1> SUFFICES ASSUME EntityInv, scheduleDeleteAccount PROVE EntityInv'
  OBVIOUS
<1>1. PICK a \in Asked(Without(DeleteAccountOptions, {"accountKey"}), {[accountId |-> "id"]}, TransactionOptions),
           s \in Asked(ScheduleOptions, {NoFields}, NoFields) :
         scheduleRun("deleteAccount", a[1], s[1], DeleteAccountValidator(a[1]),
                     AccountDelete(a[1]), "delete")
  BY DEF scheduleDeleteAccount, Later
<1>2. kind = "account" /\ kind' = kind
  BY DEF scheduleDeleteAccount, Later
<1>3. /\ Admits(Over(Without(DeleteAccountOptions, {"accountKey"}), TransactionOptions), a[1])
      /\ Admits(Over(ScheduleOptions, NoFields), s[1])
  BY AskedAdmitted
<1>4. /\ DOMAIN Without(DeleteAccountOptions, {"accountKey"}) \cap Signers = {}
      /\ SigningOf("deleteAccount") \cap DOMAIN Without(DeleteAccountOptions, {"accountKey"}) = {}
      /\ "deleteAccount" \notin Reads \cup {"submitBatch", "cancel"}
  BY DEF DeleteAccountOptions, Signers, SigningOf, Reads, Without
<1>5. Fit(kind, "deleteAccount", a[1], DeleteAccountValidator(a[1]), AccountDelete(a[1]), "delete")
  BY <1>2, DeleteAccountFit
<1> QED
  BY <1>1, <1>2, <1>3, <1>4, <1>5, LaterKeeps

-----------------------------------------------------------------------------
(* The calls of TokenService.                                              *)

LEMMA TokensKnown ==
    /\ Known("token", TokenUpdateOptions) /\ Known("token", TokenFeeScheduleUpdateOptions)
    /\ \A f : DOMAIN f \subseteq DOMAIN TokenCreateOptions =>
            Known("token", f) /\ DOMAIN f \cap Shared = {}
<1>1. InfoFields["token"] = DOMAIN TokenCreateOptions \cup DOMAIN TokenUpdateOptions
  BY DEF InfoFields
<1>2. DOMAIN TokenFeeScheduleUpdateOptions \subseteq DOMAIN TokenCreateOptions \cup DOMAIN TokenUpdateOptions
  BY DEF TokenFeeScheduleUpdateOptions, TokenCreateOptions, TokenUpdateOptions
<1>3. DOMAIN TokenCreateOptions \cap Shared = {}
  BY DEF TokenCreateOptions, Shared
<1> QED
  BY <1>1, <1>2, <1>3 DEF Known

LEMMA FungibleFit ==
    ASSUME NEW o, NEW refused, Admits(Over(CreateFungibleTokenOptions, TransactionOptions), o)
    PROVE  Fit("token", "createFungibleToken", o, refused, TokenCreate(buildFungibleOperationOptions(o)), "create")
BY FungiblePromised, TokenCreateIs, TokensKnown DEF Fit

LEMMA FungibleKeeps == EntityInv /\ createFungibleToken => EntityInv'
<1> SUFFICES ASSUME EntityInv, createFungibleToken PROVE EntityInv'
  OBVIOUS
<1>1. PICK a \in Asked(CreateFungibleTokenOptions, Tokens, TransactionOptions) :
         execute("createFungibleToken", a[1], TokenCreateValidator(buildFungibleOperationOptions(a[1])), TokenCreate(buildFungibleOperationOptions(a[1])), {},
                 "create", Created("tokenId"))
  BY DEF createFungibleToken, Now
<1>2. kind = "token" /\ kind' = kind
  BY DEF createFungibleToken, Now
<1>3. Admits(Over(CreateFungibleTokenOptions, TransactionOptions), a[1])
  BY AskedAdmitted
<1>4. /\ DOMAIN CreateFungibleTokenOptions \cap Signers = {}
      /\ SigningOf("createFungibleToken") \cap DOMAIN CreateFungibleTokenOptions \subseteq {}
      /\ "createFungibleToken" \notin Reads \cup {"createAccount", "submitBatch"}
  BY DEF CreateFungibleTokenOptions, Signers, SigningOf, Reads, TokenCreateOptions, Without
<1>5. Fit(kind, "createFungibleToken", a[1], TokenCreateValidator(buildFungibleOperationOptions(a[1])), TokenCreate(buildFungibleOperationOptions(a[1])), "create")
  BY <1>2, <1>3, FungibleFit
<1> QED
  BY <1>1, <1>2, <1>3, <1>4, <1>5, CreatedFits, SentKeeps

LEMMA ScheduleFungibleKeeps == EntityInv /\ scheduleCreateFungibleToken => EntityInv'
<1> SUFFICES ASSUME EntityInv, scheduleCreateFungibleToken PROVE EntityInv'
  OBVIOUS
<1>1. PICK a \in Asked(CreateFungibleTokenOptions, Tokens, TransactionOptions),
           s \in Asked(ScheduleOptions, {NoFields}, NoFields) :
         scheduleRun("createFungibleToken", a[1], s[1], TokenCreateValidator(buildFungibleOperationOptions(a[1])),
                     TokenCreate(buildFungibleOperationOptions(a[1])), "create")
  BY DEF scheduleCreateFungibleToken, Later
<1>2. kind = "token" /\ kind' = kind
  BY DEF scheduleCreateFungibleToken, Later
<1>3. /\ Admits(Over(CreateFungibleTokenOptions, TransactionOptions), a[1])
      /\ Admits(Over(ScheduleOptions, NoFields), s[1])
  BY AskedAdmitted
<1>4. /\ DOMAIN CreateFungibleTokenOptions \cap Signers = {}
      /\ SigningOf("createFungibleToken") \cap DOMAIN CreateFungibleTokenOptions = {}
      /\ "createFungibleToken" \notin Reads \cup {"submitBatch", "cancel"}
  BY DEF CreateFungibleTokenOptions, Signers, SigningOf, Reads, TokenCreateOptions, Without
<1>5. Fit(kind, "createFungibleToken", a[1], TokenCreateValidator(buildFungibleOperationOptions(a[1])), TokenCreate(buildFungibleOperationOptions(a[1])), "create")
  BY <1>2, <1>3, FungibleFit
<1> QED
  BY <1>1, <1>2, <1>3, <1>4, <1>5, LaterKeeps

LEMMA NftFit ==
    ASSUME NEW o, NEW refused, Admits(Over(CreateNftOptions, TransactionOptions), o)
    PROVE  Fit("token", "createNft", o, refused, TokenCreate(buildNftOperationOptions(o)), "create")
BY NftPromised, TokenCreateIs, TokensKnown DEF Fit

LEMMA NftKeeps == EntityInv /\ createNft => EntityInv'
<1> SUFFICES ASSUME EntityInv, createNft PROVE EntityInv'
  OBVIOUS
<1>1. PICK a \in Asked(CreateNftOptions, Nfts, TransactionOptions) :
         execute("createNft", a[1], TokenCreateValidator(buildNftOperationOptions(a[1])), TokenCreate(buildNftOperationOptions(a[1])), {},
                 "create", Created("tokenId"))
  BY DEF createNft, Now
<1>2. kind = "token" /\ kind' = kind
  BY DEF createNft, Now
<1>3. Admits(Over(CreateNftOptions, TransactionOptions), a[1])
  BY AskedAdmitted
<1>4. /\ DOMAIN CreateNftOptions \cap Signers = {}
      /\ SigningOf("createNft") \cap DOMAIN CreateNftOptions \subseteq {}
      /\ "createNft" \notin Reads \cup {"createAccount", "submitBatch"}
  BY DEF CreateNftOptions, Signers, SigningOf, Reads, TokenCreateOptions, Without
<1>5. Fit(kind, "createNft", a[1], TokenCreateValidator(buildNftOperationOptions(a[1])), TokenCreate(buildNftOperationOptions(a[1])), "create")
  BY <1>2, <1>3, NftFit
<1> QED
  BY <1>1, <1>2, <1>3, <1>4, <1>5, CreatedFits, SentKeeps

LEMMA ScheduleNftKeeps == EntityInv /\ scheduleCreateNft => EntityInv'
<1> SUFFICES ASSUME EntityInv, scheduleCreateNft PROVE EntityInv'
  OBVIOUS
<1>1. PICK a \in Asked(CreateNftOptions, Nfts, TransactionOptions),
           s \in Asked(ScheduleOptions, {NoFields}, NoFields) :
         scheduleRun("createNft", a[1], s[1], TokenCreateValidator(buildNftOperationOptions(a[1])),
                     TokenCreate(buildNftOperationOptions(a[1])), "create")
  BY DEF scheduleCreateNft, Later
<1>2. kind = "token" /\ kind' = kind
  BY DEF scheduleCreateNft, Later
<1>3. /\ Admits(Over(CreateNftOptions, TransactionOptions), a[1])
      /\ Admits(Over(ScheduleOptions, NoFields), s[1])
  BY AskedAdmitted
<1>4. /\ DOMAIN CreateNftOptions \cap Signers = {}
      /\ SigningOf("createNft") \cap DOMAIN CreateNftOptions = {}
      /\ "createNft" \notin Reads \cup {"submitBatch", "cancel"}
  BY DEF CreateNftOptions, Signers, SigningOf, Reads, TokenCreateOptions, Without
<1>5. Fit(kind, "createNft", a[1], TokenCreateValidator(buildNftOperationOptions(a[1])), TokenCreate(buildNftOperationOptions(a[1])), "create")
  BY <1>2, <1>3, NftFit
<1> QED
  BY <1>1, <1>2, <1>3, <1>4, <1>5, LaterKeeps

LEMMA UpdateTokenFit ==
    ASSUME NEW o, Admits(Over(TokenUpdateOptions, TransactionOptions), o)
    PROVE  Fit("token", "updateToken", o, TokenUpdateValidator(o), TokenUpdate(o), "update")
<1>1. TokenUpdate(o) = Keep(o, DOMAIN TokenUpdateOptions)
  BY DEF TokenUpdate, TokenUpdateOptions
<1>2. /\ DOMAIN TokenUpdateOptions \cap DOMAIN TransactionOptions = {}
      /\ Promised("updateToken", o) = NoFields /\ Aside("updateToken") = {}
  BY DEF TokenUpdateOptions, TransactionOptions, Promised, Aside
<1> QED
  BY <1>1, <1>2, TokenTypes, TokensKnown, PlainFit

LEMMA UpdateTokenKeeps == EntityInv /\ updateToken => EntityInv'
<1> SUFFICES ASSUME EntityInv, updateToken PROVE EntityInv'
  OBVIOUS
<1>1. PICK a \in Asked(TokenUpdateOptions, {[tokenId |-> "id"]}, TransactionOptions) :
         execute("updateToken", a[1], TokenUpdateValidator(a[1]), TokenUpdate(a[1]), {},
                 "update", {Ok(NoFields)})
  BY DEF updateToken, Now
<1>2. kind = "token" /\ kind' = kind
  BY DEF updateToken, Now
<1>3. Admits(Over(TokenUpdateOptions, TransactionOptions), a[1])
  BY AskedAdmitted
<1>4. /\ DOMAIN TokenUpdateOptions \cap Signers = {}
      /\ SigningOf("updateToken") \cap DOMAIN TokenUpdateOptions \subseteq {}
      /\ "updateToken" \notin Reads \cup {"createAccount", "submitBatch"}
  BY DEF TokenUpdateOptions, Signers, SigningOf, Reads
<1>5. Fit(kind, "updateToken", a[1], TokenUpdateValidator(a[1]), TokenUpdate(a[1]), "update")
  BY <1>2, <1>3, UpdateTokenFit
<1> QED
  BY <1>1, <1>2, <1>3, <1>4, <1>5, OkNothing, SentKeeps

LEMMA ScheduleUpdateTokenKeeps == EntityInv /\ scheduleUpdateToken => EntityInv'
<1> SUFFICES ASSUME EntityInv, scheduleUpdateToken PROVE EntityInv'
  OBVIOUS
<1>1. PICK a \in Asked(TokenUpdateOptions, {[tokenId |-> "id"]}, TransactionOptions),
           s \in Asked(ScheduleOptions, {NoFields}, NoFields) :
         scheduleRun("updateToken", a[1], s[1], TokenUpdateValidator(a[1]),
                     TokenUpdate(a[1]), "update")
  BY DEF scheduleUpdateToken, Later
<1>2. kind = "token" /\ kind' = kind
  BY DEF scheduleUpdateToken, Later
<1>3. /\ Admits(Over(TokenUpdateOptions, TransactionOptions), a[1])
      /\ Admits(Over(ScheduleOptions, NoFields), s[1])
  BY AskedAdmitted
<1>4. /\ DOMAIN TokenUpdateOptions \cap Signers = {}
      /\ SigningOf("updateToken") \cap DOMAIN TokenUpdateOptions = {}
      /\ "updateToken" \notin Reads \cup {"submitBatch", "cancel"}
  BY DEF TokenUpdateOptions, Signers, SigningOf, Reads
<1>5. Fit(kind, "updateToken", a[1], TokenUpdateValidator(a[1]), TokenUpdate(a[1]), "update")
  BY <1>2, <1>3, UpdateTokenFit
<1> QED
  BY <1>1, <1>2, <1>3, <1>4, <1>5, LaterKeeps

LEMMA UpdateNftsFit ==
    ASSUME NEW o, NEW refused
    PROVE  Fit("token", "updateNfts", o, refused, TokenUpdateNfts(o), "other")
BY KeptFit DEF TokenUpdateNfts, Shared, Changing

LEMMA UpdateNftsKeeps == EntityInv /\ updateNfts => EntityInv'
<1> SUFFICES ASSUME EntityInv, updateNfts PROVE EntityInv'
  OBVIOUS
<1>1. PICK a \in Asked(TokenUpdateNftsOptions, {[tokenId |-> "id", serialNumbers |-> "list", metadata |-> "bytes"]}, TransactionOptions) :
         execute("updateNfts", a[1], TokenUpdateNftsValidator(a[1]), TokenUpdateNfts(a[1]), {},
                 "other", {Ok(NoFields)})
  BY DEF updateNfts, Now
<1>2. kind = "token" /\ kind' = kind
  BY DEF updateNfts, Now
<1>3. Admits(Over(TokenUpdateNftsOptions, TransactionOptions), a[1])
  BY AskedAdmitted
<1>4. /\ DOMAIN TokenUpdateNftsOptions \cap Signers = {}
      /\ SigningOf("updateNfts") \cap DOMAIN TokenUpdateNftsOptions \subseteq {}
      /\ "updateNfts" \notin Reads \cup {"createAccount", "submitBatch"}
  BY DEF TokenUpdateNftsOptions, Signers, SigningOf, Reads
<1>5. Fit(kind, "updateNfts", a[1], TokenUpdateNftsValidator(a[1]), TokenUpdateNfts(a[1]), "other")
  BY <1>2, UpdateNftsFit
<1> QED
  BY <1>1, <1>2, <1>3, <1>4, <1>5, OkNothing, SentKeeps

LEMMA FeeScheduleFit ==
    ASSUME NEW o, Admits(Over(TokenFeeScheduleUpdateOptions, TransactionOptions), o)
    PROVE  Fit("token", "updateTokenFeeSchedule", o, TokenFeeScheduleUpdateValidator(o), TokenFeeScheduleUpdate(o), "update")
<1>1. TokenFeeScheduleUpdate(o) = Keep(o, DOMAIN TokenFeeScheduleUpdateOptions)
  BY DEF TokenFeeScheduleUpdate, TokenFeeScheduleUpdateOptions
<1>2. /\ DOMAIN TokenFeeScheduleUpdateOptions \cap DOMAIN TransactionOptions = {}
      /\ Promised("updateTokenFeeSchedule", o) = NoFields /\ Aside("updateTokenFeeSchedule") = {}
  BY DEF TokenFeeScheduleUpdateOptions, TransactionOptions, Promised, Aside
<1> QED
  BY <1>1, <1>2, TokenTypes, TokensKnown, PlainFit

LEMMA FeeScheduleKeeps == EntityInv /\ updateTokenFeeSchedule => EntityInv'
<1> SUFFICES ASSUME EntityInv, updateTokenFeeSchedule PROVE EntityInv'
  OBVIOUS
<1>1. PICK a \in Asked(TokenFeeScheduleUpdateOptions, {[tokenId |-> "id", customFees |-> "list"]}, TransactionOptions) :
         execute("updateTokenFeeSchedule", a[1], TokenFeeScheduleUpdateValidator(a[1]), TokenFeeScheduleUpdate(a[1]), {},
                 "update", {Ok(NoFields)})
  BY DEF updateTokenFeeSchedule, Now
<1>2. kind = "token" /\ kind' = kind
  BY DEF updateTokenFeeSchedule, Now
<1>3. Admits(Over(TokenFeeScheduleUpdateOptions, TransactionOptions), a[1])
  BY AskedAdmitted
<1>4. /\ DOMAIN TokenFeeScheduleUpdateOptions \cap Signers = {}
      /\ SigningOf("updateTokenFeeSchedule") \cap DOMAIN TokenFeeScheduleUpdateOptions \subseteq {}
      /\ "updateTokenFeeSchedule" \notin Reads \cup {"createAccount", "submitBatch"}
  BY DEF TokenFeeScheduleUpdateOptions, Signers, SigningOf, Reads
<1>5. Fit(kind, "updateTokenFeeSchedule", a[1], TokenFeeScheduleUpdateValidator(a[1]), TokenFeeScheduleUpdate(a[1]), "update")
  BY <1>2, <1>3, FeeScheduleFit
<1> QED
  BY <1>1, <1>2, <1>3, <1>4, <1>5, OkNothing, SentKeeps

LEMMA DeleteTokenFit ==
    ASSUME NEW o, NEW refused
    PROVE  Fit("token", "deleteToken", o, refused, TokenDelete(o), "delete")
BY KeptFit DEF TokenDelete, Shared, Changing

LEMMA DeleteTokenKeeps == EntityInv /\ deleteToken => EntityInv'
<1> SUFFICES ASSUME EntityInv, deleteToken PROVE EntityInv'
  OBVIOUS
<1>1. PICK a \in Asked(TokenDeleteOptions, {[tokenId |-> "id"]}, TransactionOptions) :
         execute("deleteToken", a[1], TokenDeleteValidator(a[1]), TokenDelete(a[1]), {},
                 "delete", {Ok(NoFields)})
  BY DEF deleteToken, Now
<1>2. kind = "token" /\ kind' = kind
  BY DEF deleteToken, Now
<1>3. Admits(Over(TokenDeleteOptions, TransactionOptions), a[1])
  BY AskedAdmitted
<1>4. /\ DOMAIN TokenDeleteOptions \cap Signers = {}
      /\ SigningOf("deleteToken") \cap DOMAIN TokenDeleteOptions \subseteq {}
      /\ "deleteToken" \notin Reads \cup {"createAccount", "submitBatch"}
  BY DEF TokenDeleteOptions, Signers, SigningOf, Reads
<1>5. Fit(kind, "deleteToken", a[1], TokenDeleteValidator(a[1]), TokenDelete(a[1]), "delete")
  BY <1>2, DeleteTokenFit
<1> QED
  BY <1>1, <1>2, <1>3, <1>4, <1>5, OkNothing, SentKeeps

-----------------------------------------------------------------------------
(* The calls of TopicService and FileService.                              *)

LEMMA TopicsKnown ==
    /\ Known("topic", TopicCreateOptions)
    /\ \A f : DOMAIN f \subseteq DOMAIN TopicUpdateOptions =>
            Known("topic", f) /\ DOMAIN f \cap Shared = {}
<1>1. InfoFields["topic"] = DOMAIN TopicUpdateOptions
  BY DEF InfoFields
<1>2. DOMAIN TopicCreateOptions \subseteq DOMAIN TopicUpdateOptions
  BY DEF TopicCreateOptions, TopicUpdateOptions
<1>3. DOMAIN TopicUpdateOptions \cap Shared = {}
  BY DEF TopicUpdateOptions, Shared
<1> QED
  BY <1>1, <1>2, <1>3 DEF Known

LEMMA CreateTopicFit ==
    ASSUME NEW o, Admits(Over(TopicCreateOptions, TransactionOptions), o)
    PROVE  Fit("topic", "createTopic", o, TopicCreateValidator(o), TopicCreate(o), "create")
<1>1. TopicCreate(o) = Keep(o, DOMAIN TopicCreateOptions)
  BY DEF TopicCreate, TopicCreateOptions
<1>2. /\ DOMAIN TopicCreateOptions \cap DOMAIN TransactionOptions = {}
      /\ Promised("createTopic", o) = NoFields /\ Aside("createTopic") = {}
  BY DEF TopicCreateOptions, TransactionOptions, Promised, Aside
<1> QED
  BY <1>1, <1>2, TopicTypes, TopicsKnown, PlainFit

LEMMA CreateTopicKeeps == EntityInv /\ createTopic => EntityInv'
<1> SUFFICES ASSUME EntityInv, createTopic PROVE EntityInv'
  OBVIOUS
<1>1. PICK a \in Asked(TopicCreateOptions, Topics, TransactionOptions) :
         execute("createTopic", a[1], TopicCreateValidator(a[1]), TopicCreate(a[1]), {},
                 "create", Created("topicId"))
  BY DEF createTopic, Now
<1>2. kind = "topic" /\ kind' = kind
  BY DEF createTopic, Now
<1>3. Admits(Over(TopicCreateOptions, TransactionOptions), a[1])
  BY AskedAdmitted
<1>4. /\ DOMAIN TopicCreateOptions \cap Signers = {}
      /\ SigningOf("createTopic") \cap DOMAIN TopicCreateOptions \subseteq {}
      /\ "createTopic" \notin Reads \cup {"createAccount", "submitBatch"}
  BY DEF TopicCreateOptions, Signers, SigningOf, Reads
<1>5. Fit(kind, "createTopic", a[1], TopicCreateValidator(a[1]), TopicCreate(a[1]), "create")
  BY <1>2, <1>3, CreateTopicFit
<1> QED
  BY <1>1, <1>2, <1>3, <1>4, <1>5, CreatedFits, SentKeeps

LEMMA ScheduleCreateTopicKeeps == EntityInv /\ scheduleCreateTopic => EntityInv'
<1> SUFFICES ASSUME EntityInv, scheduleCreateTopic PROVE EntityInv'
  OBVIOUS
<1>1. PICK a \in Asked(TopicCreateOptions, Topics, TransactionOptions),
           s \in Asked(ScheduleOptions, {NoFields}, NoFields) :
         scheduleRun("createTopic", a[1], s[1], TopicCreateValidator(a[1]),
                     TopicCreate(a[1]), "create")
  BY DEF scheduleCreateTopic, Later
<1>2. kind = "topic" /\ kind' = kind
  BY DEF scheduleCreateTopic, Later
<1>3. /\ Admits(Over(TopicCreateOptions, TransactionOptions), a[1])
      /\ Admits(Over(ScheduleOptions, NoFields), s[1])
  BY AskedAdmitted
<1>4. /\ DOMAIN TopicCreateOptions \cap Signers = {}
      /\ SigningOf("createTopic") \cap DOMAIN TopicCreateOptions = {}
      /\ "createTopic" \notin Reads \cup {"submitBatch", "cancel"}
  BY DEF TopicCreateOptions, Signers, SigningOf, Reads
<1>5. Fit(kind, "createTopic", a[1], TopicCreateValidator(a[1]), TopicCreate(a[1]), "create")
  BY <1>2, <1>3, CreateTopicFit
<1> QED
  BY <1>1, <1>2, <1>3, <1>4, <1>5, LaterKeeps

LEMMA UpdateTopicFit ==
    ASSUME NEW o, NEW refused, Admits(Over(TopicUpdateOptions, TransactionOptions), o)
    PROVE  Fit("topic", "updateTopic", o, refused, TopicUpdate(o), "update")
BY UpdateTopicPromised, TopicUpdateIs, TopicsKnown DEF Fit

LEMMA UpdateTopicKeeps == EntityInv /\ updateTopic => EntityInv'
<1> SUFFICES ASSUME EntityInv, updateTopic PROVE EntityInv'
  OBVIOUS
<1>1. PICK a \in Asked(TopicUpdateOptions, {[topicId |-> "id", submitKey |-> "key"], [topicId |-> "id", adminKey |-> "null"]}, TransactionOptions) :
         execute("updateTopic", a[1], TopicUpdateValidator(a[1]), TopicUpdate(a[1]), {},
                 "update", {Ok(NoFields)})
  BY DEF updateTopic, Now
<1>2. kind = "topic" /\ kind' = kind
  BY DEF updateTopic, Now
<1>3. Admits(Over(TopicUpdateOptions, TransactionOptions), a[1])
  BY AskedAdmitted
<1>4. /\ DOMAIN TopicUpdateOptions \cap Signers = {}
      /\ SigningOf("updateTopic") \cap DOMAIN TopicUpdateOptions \subseteq {}
      /\ "updateTopic" \notin Reads \cup {"createAccount", "submitBatch"}
  BY DEF TopicUpdateOptions, Signers, SigningOf, Reads
<1>5. Fit(kind, "updateTopic", a[1], TopicUpdateValidator(a[1]), TopicUpdate(a[1]), "update")
  BY <1>2, <1>3, UpdateTopicFit
<1> QED
  BY <1>1, <1>2, <1>3, <1>4, <1>5, OkNothing, SentKeeps

LEMMA DeleteTopicFit ==
    ASSUME NEW o, NEW refused
    PROVE  Fit("topic", "deleteTopic", o, refused, TopicDelete(o), "delete")
BY KeptFit DEF TopicDelete, Shared, Changing

LEMMA DeleteTopicKeeps == EntityInv /\ deleteTopic => EntityInv'
<1> SUFFICES ASSUME EntityInv, deleteTopic PROVE EntityInv'
  OBVIOUS
<1>1. PICK a \in Asked(TopicDeleteOptions, {[topicId |-> "id"]}, TransactionOptions) :
         execute("deleteTopic", a[1], TopicDeleteValidator(a[1]), TopicDelete(a[1]), {},
                 "delete", {Ok(NoFields)})
  BY DEF deleteTopic, Now
<1>2. kind = "topic" /\ kind' = kind
  BY DEF deleteTopic, Now
<1>3. Admits(Over(TopicDeleteOptions, TransactionOptions), a[1])
  BY AskedAdmitted
<1>4. /\ DOMAIN TopicDeleteOptions \cap Signers = {}
      /\ SigningOf("deleteTopic") \cap DOMAIN TopicDeleteOptions \subseteq {}
      /\ "deleteTopic" \notin Reads \cup {"createAccount", "submitBatch"}
  BY DEF TopicDeleteOptions, Signers, SigningOf, Reads
<1>5. Fit(kind, "deleteTopic", a[1], TopicDeleteValidator(a[1]), TopicDelete(a[1]), "delete")
  BY <1>2, DeleteTopicFit
<1> QED
  BY <1>1, <1>2, <1>3, <1>4, <1>5, OkNothing, SentKeeps

LEMMA SubmitMessageFit ==
    ASSUME NEW o, NEW refused
    PROVE  Fit("topic", "submitMessage", o, refused, TopicMessageSubmit(o), "other")
BY KeptFit DEF TopicMessageSubmit, Shared, Changing

LEMMA SubmitMessageKeeps == EntityInv /\ submitMessage => EntityInv'
<1> SUFFICES ASSUME EntityInv, submitMessage PROVE EntityInv'
  OBVIOUS
<1>1. PICK a \in Asked(TopicMessageSubmitOptions, {[topicId |-> "id", message |-> "bytes"]},
                      TransactionOptions) :
         execute("submitMessage", a[1], TopicMessageSubmitValidator(a[1]),
                 TopicMessageSubmit(a[1]), {}, "other", TopicMessageSubmitResult)
  BY DEF submitMessage, Now
<1>2. kind = "topic" /\ kind' = kind
  BY DEF submitMessage, Now
<1>3. Admits(Over(TopicMessageSubmitOptions, TransactionOptions), a[1])
  BY AskedAdmitted
<1>4. /\ DOMAIN TopicMessageSubmitOptions \cap Signers = {}
      /\ SigningOf("submitMessage") \cap DOMAIN TopicMessageSubmitOptions \subseteq {}
      /\ "submitMessage" \notin Reads \cup {"createAccount", "submitBatch"}
  BY DEF TopicMessageSubmitOptions, Signers, SigningOf, Reads
<1>5. Fit(kind, "submitMessage", a[1], TopicMessageSubmitValidator(a[1]), TopicMessageSubmit(a[1]), "other")
  BY <1>2, SubmitMessageFit
<1>6. \A b \in TopicMessageSubmitResult : AnswerFits("submitMessage", b)
  <2>1. ASSUME NEW n \in {"1", "null"}, NEW h \in {"hash", "null"}
        PROVE  AnswerFits("submitMessage", Ok([sequenceNumber |-> n, runningHash |-> h]))
    <3>1. Fields([sequenceNumber |-> n, runningHash |-> h])
      BY DEF Fields
    <3> QED
      BY <3>1, OkFits
  <2> QED
    BY <2>1 DEF TopicMessageSubmitResult
<1> QED
  BY <1>1, <1>2, <1>3, <1>4, <1>5, <1>6, SentKeeps

LEMMA FilesKnown ==
    /\ DOMAIN FileCreateOptions \subseteq DOMAIN FileUpdateOptions
    /\ \A f : DOMAIN f \subseteq DOMAIN FileUpdateOptions =>
            Known("file", f) /\ DOMAIN f \cap Shared = {}
<1>1. InfoFields["file"] = DOMAIN FileUpdateOptions
  BY DEF InfoFields
<1>2. DOMAIN FileCreateOptions \subseteq DOMAIN FileUpdateOptions
  BY DEF FileCreateOptions, FileUpdateOptions
<1>3. DOMAIN FileUpdateOptions \cap Shared = {}
  BY DEF FileUpdateOptions, Shared
<1> QED
  BY <1>1, <1>2, <1>3 DEF Known

LEMMA CreateFileFit ==
    ASSUME NEW o, NEW refused, Admits(Over(FileCreateOptions, TransactionOptions), o)
    PROVE  Fit("file", "createFile", o, refused, FileCreate(o), "create")
<1>1. DOMAIN FileCreate(o) \subseteq DOMAIN FileUpdateOptions
  BY CreateFilePromised, FilesKnown
<1> QED
  BY <1>1, CreateFilePromised, FilesKnown DEF Fit

LEMMA CreateFileKeeps == EntityInv /\ createFile => EntityInv'
<1> SUFFICES ASSUME EntityInv, createFile PROVE EntityInv'
  OBVIOUS
<1>1. PICK a \in Asked(FileCreateOptions, {NoFields, [contents |-> "bytes"]}, TransactionOptions) :
         execute("createFile", a[1], FileCreateValidator(a[1]), FileCreate(a[1]), {},
                 "create", Created("fileId"))
  BY DEF createFile, Now
<1>2. kind = "file" /\ kind' = kind
  BY DEF createFile, Now
<1>3. Admits(Over(FileCreateOptions, TransactionOptions), a[1])
  BY AskedAdmitted
<1>4. /\ DOMAIN FileCreateOptions \cap Signers = {}
      /\ SigningOf("createFile") \cap DOMAIN FileCreateOptions \subseteq {}
      /\ "createFile" \notin Reads \cup {"createAccount", "submitBatch"}
  BY DEF FileCreateOptions, Signers, SigningOf, Reads
<1>5. Fit(kind, "createFile", a[1], FileCreateValidator(a[1]), FileCreate(a[1]), "create")
  BY <1>2, <1>3, CreateFileFit
<1> QED
  BY <1>1, <1>2, <1>3, <1>4, <1>5, CreatedFits, SentKeeps

LEMMA UpdateFileFit ==
    ASSUME NEW o, NEW refused, Admits(Over(FileUpdateOptions, TransactionOptions), o)
    PROVE  Fit("file", "updateFile", o, refused, FileUpdate(o), "update")
BY UpdateFilePromised, FilesKnown DEF Fit

LEMMA UpdateFileKeeps == EntityInv /\ updateFile => EntityInv'
<1> SUFFICES ASSUME EntityInv, updateFile PROVE EntityInv'
  OBVIOUS
<1>1. PICK a \in Asked(FileUpdateOptions, FileUpdates, TransactionOptions) :
         execute("updateFile", a[1], FileUpdateValidator(a[1]), FileUpdate(a[1]), {},
                 "update", {Ok(NoFields)})
  BY DEF updateFile, Now
<1>2. kind = "file" /\ kind' = kind
  BY DEF updateFile, Now
<1>3. Admits(Over(FileUpdateOptions, TransactionOptions), a[1])
  BY AskedAdmitted
<1>4. /\ DOMAIN FileUpdateOptions \cap Signers = {}
      /\ SigningOf("updateFile") \cap DOMAIN FileUpdateOptions \subseteq {}
      /\ "updateFile" \notin Reads \cup {"createAccount", "submitBatch"}
  BY DEF FileUpdateOptions, Signers, SigningOf, Reads
<1>5. Fit(kind, "updateFile", a[1], FileUpdateValidator(a[1]), FileUpdate(a[1]), "update")
  BY <1>2, <1>3, UpdateFileFit
<1> QED
  BY <1>1, <1>2, <1>3, <1>4, <1>5, OkNothing, SentKeeps

LEMMA ScheduleUpdateFileKeeps == EntityInv /\ scheduleUpdateFile => EntityInv'
<1> SUFFICES ASSUME EntityInv, scheduleUpdateFile PROVE EntityInv'
  OBVIOUS
<1>1. PICK a \in Asked(FileUpdateOptions, FileUpdates, TransactionOptions),
           s \in Asked(ScheduleOptions, {NoFields}, NoFields) :
         scheduleRun("updateFile", a[1], s[1], FileUpdateValidator(a[1]),
                     FileUpdate(a[1]), "update")
  BY DEF scheduleUpdateFile, Later
<1>2. kind = "file" /\ kind' = kind
  BY DEF scheduleUpdateFile, Later
<1>3. /\ Admits(Over(FileUpdateOptions, TransactionOptions), a[1])
      /\ Admits(Over(ScheduleOptions, NoFields), s[1])
  BY AskedAdmitted
<1>4. /\ DOMAIN FileUpdateOptions \cap Signers = {}
      /\ SigningOf("updateFile") \cap DOMAIN FileUpdateOptions = {}
      /\ "updateFile" \notin Reads \cup {"submitBatch", "cancel"}
  BY DEF FileUpdateOptions, Signers, SigningOf, Reads
<1>5. Fit(kind, "updateFile", a[1], FileUpdateValidator(a[1]), FileUpdate(a[1]), "update")
  BY <1>2, <1>3, UpdateFileFit
<1> QED
  BY <1>1, <1>2, <1>3, <1>4, <1>5, LaterKeeps

LEMMA AppendFileFit ==
    ASSUME NEW o, NEW refused
    PROVE  Fit("file", "appendToFile", o, refused, FileAppend(o), "other")
BY KeptFit DEF FileAppend, Shared, Changing

LEMMA AppendFileKeeps == EntityInv /\ appendToFile => EntityInv'
<1> SUFFICES ASSUME EntityInv, appendToFile PROVE EntityInv'
  OBVIOUS
<1>1. PICK a \in Asked(FileAppendOptions, {[fileId |-> "id", contents |-> "bytes"]}, TransactionOptions) :
         execute("appendToFile", a[1], FileAppendValidator(a[1]), FileAppend(a[1]), {},
                 "other", {Ok(NoFields)})
  BY DEF appendToFile, Now
<1>2. kind = "file" /\ kind' = kind
  BY DEF appendToFile, Now
<1>3. Admits(Over(FileAppendOptions, TransactionOptions), a[1])
  BY AskedAdmitted
<1>4. /\ DOMAIN FileAppendOptions \cap Signers = {}
      /\ SigningOf("appendToFile") \cap DOMAIN FileAppendOptions \subseteq {}
      /\ "appendToFile" \notin Reads \cup {"createAccount", "submitBatch"}
  BY DEF FileAppendOptions, Signers, SigningOf, Reads
<1>5. Fit(kind, "appendToFile", a[1], FileAppendValidator(a[1]), FileAppend(a[1]), "other")
  BY <1>2, AppendFileFit
<1> QED
  BY <1>1, <1>2, <1>3, <1>4, <1>5, OkNothing, SentKeeps

LEMMA DeleteFileFit ==
    ASSUME NEW o, NEW refused
    PROVE  Fit("file", "deleteFile", o, refused, FileDelete(o), "delete")
BY KeptFit DEF FileDelete, Shared, Changing

LEMMA DeleteFileKeeps == EntityInv /\ deleteFile => EntityInv'
<1> SUFFICES ASSUME EntityInv, deleteFile PROVE EntityInv'
  OBVIOUS
<1>1. PICK a \in Asked(FileDeleteOptions, {[fileId |-> "id"]}, TransactionOptions) :
         execute("deleteFile", a[1], FileDeleteValidator(a[1]), FileDelete(a[1]), {},
                 "delete", {Ok(NoFields)})
  BY DEF deleteFile, Now
<1>2. kind = "file" /\ kind' = kind
  BY DEF deleteFile, Now
<1>3. Admits(Over(FileDeleteOptions, TransactionOptions), a[1])
  BY AskedAdmitted
<1>4. /\ DOMAIN FileDeleteOptions \cap Signers = {}
      /\ SigningOf("deleteFile") \cap DOMAIN FileDeleteOptions \subseteq {}
      /\ "deleteFile" \notin Reads \cup {"createAccount", "submitBatch"}
  BY DEF FileDeleteOptions, Signers, SigningOf, Reads
<1>5. Fit(kind, "deleteFile", a[1], FileDeleteValidator(a[1]), FileDelete(a[1]), "delete")
  BY <1>2, DeleteFileFit
<1> QED
  BY <1>1, <1>2, <1>3, <1>4, <1>5, OkNothing, SentKeeps

-----------------------------------------------------------------------------
(* The calls of ContractService.                                           *)

LEMMA ContractTypes ==
    /\ Typed(ContractCreateOptions) /\ Typed(ContractCreateFlowOptions)
    /\ Typed(ContractUpdateOptions)
BY DEF Typed, ContractCreateOptions, ContractCreateFlowOptions, ContractUpdateOptions, Types

(* What one of two names is sent by, and the rest, which nobody promised.  *)
LEMMA TwoKeptFit ==
    ASSUME NEW k, NEW call, NEW o, NEW refused, NEW does, NEW more, NEW names,
           does \notin Changing, (more \cup names) \cap Shared = {}
    PROVE  Fit(k, call, o, refused, Over(Keep(o, more), Keep(o, names)), does)
<1> DEFINE fields == Over(Keep(o, more), Keep(o, names))
<1>1. Fields(fields)
  BY KeepFields, OverFields
<1>2. ASSUME NEW n \in DOMAIN fields PROVE n \in more \cup names
  BY KeepDomain, OverDomain
<1> HIDE DEF fields
<1>3. Fit(k, call, o, refused, fields, does)
  BY <1>1, <1>2 DEF Fit
<1> QED
  BY <1>3 DEF fields

LEMMA CreateContractFit ==
    ASSUME NEW o, Admits(Over(ContractCreateOptions, TransactionOptions), o)
    PROVE  Fit("contract", "createContract", o, ContractCreateValidator(o), ContractCreate(o), "create")
<1>1. ContractCreate(o) = Keep(o, DOMAIN ContractCreateOptions)
  BY DEF ContractCreate, ContractCreateOptions, ContractFields
<1>2. /\ DOMAIN ContractCreateOptions \cap DOMAIN TransactionOptions = {}
      /\ Promised("createContract", o) = NoFields /\ Aside("createContract") = {}
  BY DEF ContractCreateOptions, TransactionOptions, Promised, Aside
<1> QED
  BY <1>1, <1>2, ContractTypes, OfNoInfo, PlainFit

LEMMA CreateContractKeeps == EntityInv /\ createContract => EntityInv'
<1> SUFFICES ASSUME EntityInv, createContract PROVE EntityInv'
  OBVIOUS
<1>1. PICK a \in Asked(ContractCreateOptions, Contracts, TransactionOptions) :
         execute("createContract", a[1], ContractCreateValidator(a[1]), ContractCreate(a[1]), {},
                 "create", Created("contractId"))
  BY DEF createContract, Now
<1>2. kind = "contract" /\ kind' = kind
  BY DEF createContract, Now
<1>3. Admits(Over(ContractCreateOptions, TransactionOptions), a[1])
  BY AskedAdmitted
<1>4. /\ DOMAIN ContractCreateOptions \cap Signers = {}
      /\ SigningOf("createContract") \cap DOMAIN ContractCreateOptions \subseteq {}
      /\ "createContract" \notin Reads \cup {"createAccount", "submitBatch"}
  BY DEF ContractCreateOptions, Signers, SigningOf, Reads
<1>5. Fit(kind, "createContract", a[1], ContractCreateValidator(a[1]), ContractCreate(a[1]), "create")
  BY <1>2, <1>3, CreateContractFit
<1> QED
  BY <1>1, <1>2, <1>3, <1>4, <1>5, CreatedFits, SentKeeps

LEMMA ScheduleCreateContractKeeps == EntityInv /\ scheduleCreateContract => EntityInv'
<1> SUFFICES ASSUME EntityInv, scheduleCreateContract PROVE EntityInv'
  OBVIOUS
<1>1. PICK a \in Asked(ContractCreateOptions, Contracts, TransactionOptions),
           s \in Asked(ScheduleOptions, {NoFields}, NoFields) :
         scheduleRun("createContract", a[1], s[1], ContractCreateValidator(a[1]),
                     ContractCreate(a[1]), "create")
  BY DEF scheduleCreateContract, Later
<1>2. kind = "contract" /\ kind' = kind
  BY DEF scheduleCreateContract, Later
<1>3. /\ Admits(Over(ContractCreateOptions, TransactionOptions), a[1])
      /\ Admits(Over(ScheduleOptions, NoFields), s[1])
  BY AskedAdmitted
<1>4. /\ DOMAIN ContractCreateOptions \cap Signers = {}
      /\ SigningOf("createContract") \cap DOMAIN ContractCreateOptions = {}
      /\ "createContract" \notin Reads \cup {"submitBatch", "cancel"}
  BY DEF ContractCreateOptions, Signers, SigningOf, Reads
<1>5. Fit(kind, "createContract", a[1], ContractCreateValidator(a[1]), ContractCreate(a[1]), "create")
  BY <1>2, <1>3, CreateContractFit
<1> QED
  BY <1>1, <1>2, <1>3, <1>4, <1>5, LaterKeeps

LEMMA CreateFlowFit ==
    ASSUME NEW o, Admits(Over(ContractCreateFlowOptions, FlowOptions), o)
    PROVE  Fit("contract", "createContractFlow", o, ContractCreateFlowValidator(o), ContractCreateFlow(o), "create")
<1>1. ContractCreateFlow(o) = Keep(o, DOMAIN ContractCreateFlowOptions)
  BY DEF ContractCreateFlow, ContractCreateFlowOptions, ContractFields
<1>2. /\ DOMAIN ContractCreateFlowOptions \cap DOMAIN TransactionOptions = {}
      /\ Promised("createContractFlow", o) = NoFields /\ Aside("createContractFlow") = {}
  BY DEF ContractCreateFlowOptions, TransactionOptions, Promised, Aside
<1> QED
  BY <1>1, <1>2, ContractTypes, OfNoInfo, PlainFit

LEMMA CreateFlowKeeps == EntityInv /\ createContractFlow => EntityInv'
<1> SUFFICES ASSUME EntityInv, createContractFlow PROVE EntityInv'
  OBVIOUS
<1>1. PICK a \in Asked(ContractCreateFlowOptions, {[bytecode |-> "bytes", gas |-> "1"]}, FlowOptions) :
         execute("createContractFlow", a[1], ContractCreateFlowValidator(a[1]), ContractCreateFlow(a[1]), {},
                 "create", Created("contractId"))
  BY DEF createContractFlow, Now
<1>2. kind = "contract" /\ kind' = kind
  BY DEF createContractFlow, Now
<1>3. Admits(Over(ContractCreateFlowOptions, FlowOptions), a[1])
  BY AskedAdmitted
<1>4. /\ DOMAIN ContractCreateFlowOptions \cap Signers = {}
      /\ SigningOf("createContractFlow") \cap DOMAIN ContractCreateFlowOptions \subseteq {}
      /\ "createContractFlow" \notin Reads \cup {"createAccount", "submitBatch"}
  BY DEF ContractCreateFlowOptions, Signers, SigningOf, Reads
<1>5. Fit(kind, "createContractFlow", a[1], ContractCreateFlowValidator(a[1]), ContractCreateFlow(a[1]), "create")
  BY <1>2, <1>3, CreateFlowFit
<1> QED
  BY <1>1, <1>2, <1>3, <1>4, <1>5, CreatedFits, SentKeeps

LEMMA UpdateContractFit ==
    ASSUME NEW o, Admits(Over(ContractUpdateOptions, TransactionOptions), o)
    PROVE  Fit("contract", "updateContract", o, ContractUpdateValidator(o), ContractUpdate(o), "update")
<1>1. ContractUpdate(o) = Keep(o, DOMAIN ContractUpdateOptions)
  BY DEF ContractUpdate, ContractUpdateOptions
<1>2. /\ DOMAIN ContractUpdateOptions \cap DOMAIN TransactionOptions = {}
      /\ Promised("updateContract", o) = NoFields /\ Aside("updateContract") = {}
  BY DEF ContractUpdateOptions, TransactionOptions, Promised, Aside
<1> QED
  BY <1>1, <1>2, ContractTypes, OfNoInfo, PlainFit

LEMMA UpdateContractKeeps == EntityInv /\ updateContract => EntityInv'
<1> SUFFICES ASSUME EntityInv, updateContract PROVE EntityInv'
  OBVIOUS
<1>1. PICK a \in Asked(ContractUpdateOptions, ContractUpdates, TransactionOptions) :
         execute("updateContract", a[1], ContractUpdateValidator(a[1]), ContractUpdate(a[1]), {},
                 "update", {Ok(NoFields)})
  BY DEF updateContract, Now
<1>2. kind = "contract" /\ kind' = kind
  BY DEF updateContract, Now
<1>3. Admits(Over(ContractUpdateOptions, TransactionOptions), a[1])
  BY AskedAdmitted
<1>4. /\ DOMAIN ContractUpdateOptions \cap Signers = {}
      /\ SigningOf("updateContract") \cap DOMAIN ContractUpdateOptions \subseteq {}
      /\ "updateContract" \notin Reads \cup {"createAccount", "submitBatch"}
  BY DEF ContractUpdateOptions, Signers, SigningOf, Reads
<1>5. Fit(kind, "updateContract", a[1], ContractUpdateValidator(a[1]), ContractUpdate(a[1]), "update")
  BY <1>2, <1>3, UpdateContractFit
<1> QED
  BY <1>1, <1>2, <1>3, <1>4, <1>5, OkNothing, SentKeeps

LEMMA ScheduleUpdateContractKeeps == EntityInv /\ scheduleUpdateContract => EntityInv'
<1> SUFFICES ASSUME EntityInv, scheduleUpdateContract PROVE EntityInv'
  OBVIOUS
<1>1. PICK a \in Asked(ContractUpdateOptions, ContractUpdates, TransactionOptions),
           s \in Asked(ScheduleOptions, {NoFields}, NoFields) :
         scheduleRun("updateContract", a[1], s[1], ContractUpdateValidator(a[1]),
                     ContractUpdate(a[1]), "update")
  BY DEF scheduleUpdateContract, Later
<1>2. kind = "contract" /\ kind' = kind
  BY DEF scheduleUpdateContract, Later
<1>3. /\ Admits(Over(ContractUpdateOptions, TransactionOptions), a[1])
      /\ Admits(Over(ScheduleOptions, NoFields), s[1])
  BY AskedAdmitted
<1>4. /\ DOMAIN ContractUpdateOptions \cap Signers = {}
      /\ SigningOf("updateContract") \cap DOMAIN ContractUpdateOptions = {}
      /\ "updateContract" \notin Reads \cup {"submitBatch", "cancel"}
  BY DEF ContractUpdateOptions, Signers, SigningOf, Reads
<1>5. Fit(kind, "updateContract", a[1], ContractUpdateValidator(a[1]), ContractUpdate(a[1]), "update")
  BY <1>2, <1>3, UpdateContractFit
<1> QED
  BY <1>1, <1>2, <1>3, <1>4, <1>5, LaterKeeps

LEMMA DeleteContractFit ==
    ASSUME NEW o, NEW refused
    PROVE  Fit("contract", "deleteContract", o, refused, ContractDelete(o), "delete")
BY KeptFit DEF ContractDelete, Shared, Changing

LEMMA DeleteContractKeeps == EntityInv /\ deleteContract => EntityInv'
<1> SUFFICES ASSUME EntityInv, deleteContract PROVE EntityInv'
  OBVIOUS
<1>1. PICK a \in Asked(ContractDeleteOptions, ContractDeletes, TransactionOptions) :
         execute("deleteContract", a[1], ContractDeleteValidator(a[1]), ContractDelete(a[1]), {},
                 "delete", {Ok(NoFields)})
  BY DEF deleteContract, Now
<1>2. kind = "contract" /\ kind' = kind
  BY DEF deleteContract, Now
<1>3. Admits(Over(ContractDeleteOptions, TransactionOptions), a[1])
  BY AskedAdmitted
<1>4. /\ DOMAIN ContractDeleteOptions \cap Signers = {}
      /\ SigningOf("deleteContract") \cap DOMAIN ContractDeleteOptions \subseteq {}
      /\ "deleteContract" \notin Reads \cup {"createAccount", "submitBatch"}
  BY DEF ContractDeleteOptions, Signers, SigningOf, Reads
<1>5. Fit(kind, "deleteContract", a[1], ContractDeleteValidator(a[1]), ContractDelete(a[1]), "delete")
  BY <1>2, DeleteContractFit
<1> QED
  BY <1>1, <1>2, <1>3, <1>4, <1>5, OkNothing, SentKeeps

LEMMA ScheduleDeleteContractKeeps == EntityInv /\ scheduleDeleteContract => EntityInv'
<1> SUFFICES ASSUME EntityInv, scheduleDeleteContract PROVE EntityInv'
  OBVIOUS
<1>1. PICK a \in Asked(ContractDeleteOptions, ContractDeletes, TransactionOptions),
           s \in Asked(ScheduleOptions, {NoFields}, NoFields) :
         scheduleRun("deleteContract", a[1], s[1], ContractDeleteValidator(a[1]),
                     ContractDelete(a[1]), "delete")
  BY DEF scheduleDeleteContract, Later
<1>2. kind = "contract" /\ kind' = kind
  BY DEF scheduleDeleteContract, Later
<1>3. /\ Admits(Over(ContractDeleteOptions, TransactionOptions), a[1])
      /\ Admits(Over(ScheduleOptions, NoFields), s[1])
  BY AskedAdmitted
<1>4. /\ DOMAIN ContractDeleteOptions \cap Signers = {}
      /\ SigningOf("deleteContract") \cap DOMAIN ContractDeleteOptions = {}
      /\ "deleteContract" \notin Reads \cup {"submitBatch", "cancel"}
  BY DEF ContractDeleteOptions, Signers, SigningOf, Reads
<1>5. Fit(kind, "deleteContract", a[1], ContractDeleteValidator(a[1]), ContractDelete(a[1]), "delete")
  BY <1>2, DeleteContractFit
<1> QED
  BY <1>1, <1>2, <1>3, <1>4, <1>5, LaterKeeps

LEMMA ExecuteContractFit ==
    ASSUME NEW o, NEW refused
    PROVE  Fit("contract", "executeContract", o, refused, ContractExecute(o), "other")
<1> DEFINE more == IF HasFunction(o) THEN {"functionName", "functionParameters"}
                   ELSE {"rawFunctionParameters"}
           names == {"contractId", "gas", "payableAmount"}
<1>1. ContractExecute(o) = Over(Keep(o, more), Keep(o, names))
  BY DEF ContractExecute, CallData
<1>2. (more \cup names) \cap Shared = {} /\ "other" \notin Changing
  BY DEF Shared, Changing
<1> QED
  BY <1>1, <1>2, TwoKeptFit

LEMMA FunctionResultsFit ==
    ASSUME NEW call, NEW o, call # "submitBatch"
    PROVE  \A a \in FunctionResults(o) : AnswerFits(call, a)
<1>1. \A record \in {"unavailable", "result", "null"} :
         AnswerFits(call, fetchFunctionResult(record))
  <2>1. AnswerFits(call, Answer("RESULT_MAPPING_FAILED", TRUE, NoFields))
    BY NoFieldsEmpty DEF AnswerFits, Answer
  <2>2. \A record \in {"result", "null"} :
           AnswerFits(call, Answer("ok", TRUE, With("functionResult", record)))
    BY WithFields, OkFits DEF Ok
  <2> QED
    BY <2>1, <2>2 DEF fetchFunctionResult
<1> QED
  BY <1>1 DEF FunctionResults

LEMMA ExecuteContractKeeps == EntityInv /\ executeContract => EntityInv'
<1> SUFFICES ASSUME EntityInv, executeContract PROVE EntityInv'
  OBVIOUS
<1>1. PICK a \in Asked(ContractExecuteOptions, WithResult(Executions), TransactionOptions) :
         execute("executeContract", a[1], ContractExecuteValidator(a[1]), ContractExecute(a[1]), {},
                 "other", FunctionResults(a[1]))
  BY DEF executeContract, Now
<1>2. kind = "contract" /\ kind' = kind
  BY DEF executeContract, Now
<1>3. Admits(Over(ContractExecuteOptions, TransactionOptions), a[1])
  BY AskedAdmitted
<1>4. /\ DOMAIN ContractExecuteOptions \cap Signers = {}
      /\ SigningOf("executeContract") \cap DOMAIN ContractExecuteOptions \subseteq {}
      /\ "executeContract" \notin Reads \cup {"createAccount", "submitBatch"}
  BY DEF ContractExecuteOptions, Signers, SigningOf, Reads
<1>5. Fit(kind, "executeContract", a[1], ContractExecuteValidator(a[1]), ContractExecute(a[1]), "other")
  BY <1>2, ExecuteContractFit
<1> QED
  BY <1>1, <1>2, <1>3, <1>4, <1>5, FunctionResultsFit, SentKeeps

LEMMA ScheduleExecuteContractKeeps == EntityInv /\ scheduleExecuteContract => EntityInv'
<1> SUFFICES ASSUME EntityInv, scheduleExecuteContract PROVE EntityInv'
  OBVIOUS
<1>1. PICK a \in Asked(ContractExecuteOptions, Executions, TransactionOptions),
           s \in Asked(ScheduleOptions, {NoFields}, NoFields) :
         scheduleRun("executeContract", a[1], s[1], ContractExecuteValidator(a[1]),
                     ContractExecute(a[1]), "other")
  BY DEF scheduleExecuteContract, Later
<1>2. kind = "contract" /\ kind' = kind
  BY DEF scheduleExecuteContract, Later
<1>3. /\ Admits(Over(ContractExecuteOptions, TransactionOptions), a[1])
      /\ Admits(Over(ScheduleOptions, NoFields), s[1])
  BY AskedAdmitted
<1>4. /\ DOMAIN ContractExecuteOptions \cap Signers = {}
      /\ SigningOf("executeContract") \cap DOMAIN ContractExecuteOptions = {}
      /\ "executeContract" \notin Reads \cup {"submitBatch", "cancel"}
  BY DEF ContractExecuteOptions, Signers, SigningOf, Reads
<1>5. Fit(kind, "executeContract", a[1], ContractExecuteValidator(a[1]), ContractExecute(a[1]), "other")
  BY <1>2, ExecuteContractFit
<1> QED
  BY <1>1, <1>2, <1>3, <1>4, <1>5, LaterKeeps

LEMMA EthereumFit ==
    ASSUME NEW o, NEW refused
    PROVE  Fit("contract", "executeEthereumTransaction", o, refused, Ethereum(o), "other")
BY KeptFit DEF Ethereum, Shared, Changing

LEMMA EthereumKeeps == EntityInv /\ executeEthereumTransaction => EntityInv'
<1> SUFFICES ASSUME EntityInv, executeEthereumTransaction PROVE EntityInv'
  OBVIOUS
<1>1. PICK a \in Asked(EthereumOptions, WithResult({[ethereumData |-> "bytes"]}), TransactionOptions) :
         execute("executeEthereumTransaction", a[1], EthereumValidator(a[1]), Ethereum(a[1]), {},
                 "other", FunctionResults(a[1]))
  BY DEF executeEthereumTransaction, Now
<1>2. kind = "contract" /\ kind' = kind
  BY DEF executeEthereumTransaction, Now
<1>3. Admits(Over(EthereumOptions, TransactionOptions), a[1])
  BY AskedAdmitted
<1>4. /\ DOMAIN EthereumOptions \cap Signers = {}
      /\ SigningOf("executeEthereumTransaction") \cap DOMAIN EthereumOptions \subseteq {}
      /\ "executeEthereumTransaction" \notin Reads \cup {"createAccount", "submitBatch"}
  BY DEF EthereumOptions, Signers, SigningOf, Reads
<1>5. Fit(kind, "executeEthereumTransaction", a[1], EthereumValidator(a[1]), Ethereum(a[1]), "other")
  BY <1>2, EthereumFit
<1> QED
  BY <1>1, <1>2, <1>3, <1>4, <1>5, FunctionResultsFit, SentKeeps

LEMMA HookStoreFit ==
    ASSUME NEW o, NEW refused
    PROVE  Fit("contract", "updateHookStorage", o, refused, HookStore(o), "other")
<1> DEFINE more == IF Given(o, "accountId") THEN {"accountId"} ELSE {"contractId"}
           names == {"hookId", "storageUpdates"}
<1>1. HookStore(o) = Over(Keep(o, more), Keep(o, names))
  BY DEF HookStore
<1>2. (more \cup names) \cap Shared = {} /\ "other" \notin Changing
  BY DEF Shared, Changing
<1> QED
  BY <1>1, <1>2, TwoKeptFit

LEMMA HookStoreKeeps == EntityInv /\ updateHookStorage => EntityInv'
<1> SUFFICES ASSUME EntityInv, updateHookStorage PROVE EntityInv'
  OBVIOUS
<1>1. PICK a \in Asked(HookStoreOptions, {[accountId |-> "id", hookId |-> "1", storageUpdates |-> "slot"]}, TransactionOptions) :
         execute("updateHookStorage", a[1], HookStoreValidator(a[1]), HookStore(a[1]), {},
                 "other", {Ok(NoFields)})
  BY DEF updateHookStorage, Now
<1>2. kind = "contract" /\ kind' = kind
  BY DEF updateHookStorage, Now
<1>3. Admits(Over(HookStoreOptions, TransactionOptions), a[1])
  BY AskedAdmitted
<1>4. /\ DOMAIN HookStoreOptions \cap Signers = {}
      /\ SigningOf("updateHookStorage") \cap DOMAIN HookStoreOptions \subseteq {}
      /\ "updateHookStorage" \notin Reads \cup {"createAccount", "submitBatch"}
  BY DEF HookStoreOptions, Signers, SigningOf, Reads
<1>5. Fit(kind, "updateHookStorage", a[1], HookStoreValidator(a[1]), HookStore(a[1]), "other")
  BY <1>2, HookStoreFit
<1> QED
  BY <1>1, <1>2, <1>3, <1>4, <1>5, OkNothing, SentKeeps

-----------------------------------------------------------------------------
(* The calls of NetworkService.                                            *)

LEMMA RandomFit ==
    ASSUME NEW o, NEW refused
    PROVE  Fit("network", "generateRandom", o, refused, Prng(o), "other")
BY KeptFit DEF Prng, Shared, Changing

LEMMA RandomKeeps == EntityInv /\ generateRandom => EntityInv'
<1> SUFFICES ASSUME EntityInv, generateRandom PROVE EntityInv'
  OBVIOUS
<1>1. PICK a \in Asked(PrngOptions, {NoFields}, TransactionOptions) :
         execute("generateRandom", a[1], PrngValidator(a[1]), Prng(a[1]), {},
                 "other", {Ok(With("prng", v)) : v \in {"number", "bytes"}} \cup {Unmapped})
  BY DEF generateRandom, Now
<1>2. kind = "network" /\ kind' = kind
  BY DEF generateRandom, Now
<1>3. Admits(Over(PrngOptions, TransactionOptions), a[1])
  BY AskedAdmitted
<1>4. /\ DOMAIN PrngOptions \cap Signers = {}
      /\ SigningOf("generateRandom") \cap DOMAIN PrngOptions \subseteq {}
      /\ "generateRandom" \notin Reads \cup {"createAccount", "submitBatch"}
  BY DEF PrngOptions, Signers, SigningOf, Reads
<1>5. Fit(kind, "generateRandom", a[1], PrngValidator(a[1]), Prng(a[1]), "other")
  BY <1>2, RandomFit
<1>6. \A b \in {Ok(With("prng", v)) : v \in {"number", "bytes"}} \cup {Unmapped} : AnswerFits("generateRandom", b)
  <2>1. \A v \in {"number", "bytes"} : AnswerFits("generateRandom", Ok(With("prng", v)))
    BY OkFits, WithFields
  <2>2. AnswerFits("generateRandom", Unmapped)
    BY NoFieldsEmpty DEF AnswerFits, Unmapped, Answer
  <2> QED
    BY <2>1, <2>2
<1> QED
  BY <1>1, <1>2, <1>3, <1>4, <1>5, <1>6, SentKeeps

LEMMA SubmitBatchKeeps == EntityInv /\ submitBatch => EntityInv'
<1> SUFFICES ASSUME EntityInv, submitBatch PROVE EntityInv'
  OBVIOUS
<1> DEFINE answers(o) == {Ok(With("innerTransactionIds", o.transactions))}
<1>1. PICK a \in Asked(BatchOptions,
                       {[transactions |-> "txs"], [transactions |-> "txs", batchKeys |-> "keys"]},
                       TransactionOptions) :
         execute("submitBatch", a[1], BatchValidator(a[1]), Batch(a[1]), {"batchKeys"},
                 "other", answers(a[1]))
  BY DEF submitBatch, Now
<1>2. kind' = kind
  BY DEF submitBatch, Now
<1> DEFINE o == a[1]
<1>3. Admits(Over(BatchOptions, TransactionOptions), o)
  BY AskedAdmitted
<1>4. /\ DOMAIN BatchOptions \cap Signers = {}
      /\ SigningOf("submitBatch") \cap DOMAIN BatchOptions \subseteq {"batchKeys"}
      /\ "submitBatch" \notin Reads
  BY DEF BatchOptions, Signers, SigningOf, Reads
<1>5. execute("submitBatch", o, BatchValidator(o), Batch(o), {"batchKeys"}, "other", answers(o))
  BY <1>1
<1> HIDE DEF o
<1>6. Signs("submitBatch", o,
            {n \in {"batchKeys"} : Val(o, n) \in {"key", "keys"}} \cup applySigners(o))
  BY <1>3, <1>4, GivenKeysSign
<1>7. Fit(kind, "submitBatch", o, BatchValidator(o), Batch(o), "other")
  BY KeptFit DEF Batch, Shared, Changing
<1>8. ~BatchValidator(o) => Given(o, "transactions")
  BY DEF BatchValidator, Missing
<1>9. ~BatchValidator(o) => \A b \in answers(o) : AnswerFits("submitBatch", b)
  <2>1. Given(o, "transactions") => o.transactions # "undefined"
    BY DEF Given, Val
  <2>2. ~BatchValidator(o) => Fields(With("innerTransactionIds", o.transactions))
    BY <1>8, <2>1, WithFields
  <2>3. ~BatchValidator(o) =>
           AnswerFits("submitBatch", Ok(With("innerTransactionIds", o.transactions)))
    BY <2>2, OkFits
  <2> QED
    BY <2>3
<1> HIDE DEF answers
<1> QED
  BY <1>2, <1>4, <1>5, <1>6, <1>7, <1>8, <1>9, ExecuteKeeps

-----------------------------------------------------------------------------
(* The queries.                                                            *)

LEMMA NormalizedCodes ==
    ASSUME NEW o, NEW needs, NEW fields
    PROVE  /\ Normalized(o, needs, fields) \in {"SDK_ERROR", "no"}
           /\ Normalized(o, needs, fields) = "no" => \A n \in needs : Given(o, n)
BY DEF Normalized, Missing

LEMMA UnprotectedCodes ==
    ASSUME NEW o, NEW refused
    PROVE  Unprotected(o, refused) \in {"INPUT_INVALID", "raw", "no"}
BY DEF Unprotected

(* Calls that read nothing of the entity that the invariant is about.      *)
LEMMA OkReadFits ==
    ASSUME NEW call, call \notin Reads, NEW gives, Fields(gives)
    PROVE  ReadFits(call, Ok(gives))
BY OkIs DEF ReadFits, Reads

(* What the network has of a field.                                        *)
LEMMA ReadIs ==
    ASSUME EntityInv, NEW n
    PROVE  Read(n) # "undefined" /\ (n \in DOMAIN asked => Read(n) = asked[n])
BY DEF EntityInv, WorldOK, LedgerOK, Fields, Read

LEMMA InfoFits ==
    ASSUME EntityInv, NEW call, NEW result, call # "getScheduleInfo",
           call \in {"getTokenInfo", "getTopicInfo", "getFileInfo"} =>
              \A n \in DOMAIN asked \ {"keyVerificationMode", "contents"} :
                 NameIn(call, n) \in DOMAIN result /\ result[NameIn(call, n)] = n
    PROVE  \A a \in Info(result) : ReadFits(call, a)
<1> DEFINE gives == [r \in DOMAIN result |-> Read(result[r])]
<1>1. Fields(gives)
  BY ReadIs DEF Fields
<1>2. ASSUME call \in {"getTokenInfo", "getTopicInfo", "getFileInfo"},
             NEW n \in DOMAIN asked \ {"keyVerificationMode", "contents"}
      PROVE  Val(gives, NameIn(call, n)) = asked[n]
  <2>1. NameIn(call, n) \in DOMAIN gives /\ gives[NameIn(call, n)] = Read(n)
    BY <1>2
  <2>2. Read(n) = asked[n]
    BY ReadIs
  <2> QED
    BY <2>1, <2>2 DEF Val
<1>3. \A a \in Info(result) : a = Ok(gives)
  BY DEF Info
<1> HIDE DEF gives
<1>4. ReadFits(call, Ok(gives))
  BY <1>1, <1>2, OkIs DEF ReadFits
<1> QED
  BY <1>3, <1>4

(* A query for what is known by its ID.                                    *)
LEMMA AskOfKeeps ==
    ASSUME EntityInv, UNCHANGED <<kind, ledger, asked, schedule>>,
           NEW call, NEW o, NEW id, NEW gives,
           Asking(call, o, Normalized(o, {id}, Keep(o, {id})), Keep(o, {id}), gives),
           call \notin {"createAccount", "submitBatch"},
           \A a \in gives : ReadFits(call, a)
    PROVE  EntityInv'
<1> DEFINE code == Normalized(o, {id}, Keep(o, {id}))
           fields == Keep(o, {id})
<1>1. code \in {"INPUT_INVALID", "SDK_ERROR", "raw", "no"}
  BY NormalizedCodes
<1>2. Fields(fields)
  BY KeepFields
<1> HIDE DEF code, fields
<1>3. Asking(call, o, code, fields, gives)
  BY DEF code, fields
<1> QED
  BY <1>1, <1>2, <1>3, AskKeeps

(* Which fields the results of getTokenInfo, getTopicInfo and getFileInfo  *)
(* are read from: each that an entity may have, but for two.               *)
LEMMA TokenInfoNames ==
    ASSUME NEW n \in InfoFields["token"] \ (EntityIds \cup {"keyVerificationMode", "contents"})
    PROVE  /\ NameIn("getTokenInfo", n) \in DOMAIN TokenInfoResult
           /\ TokenInfoResult[NameIn("getTokenInfo", n)] = n
<1> DEFINE renamed == [name |-> "tokenName", symbol |-> "tokenSymbol",
                       totalSupply |-> "initialSupply", defaultFreezeStatus |-> "freezeDefault"]
           plain == {"decimals", "treasuryAccountId", "adminKey", "kycKey", "freezeKey", "pauseKey",
               "wipeKey", "supplyKey", "feeScheduleKey", "metadataKey", "autoRenewAccountId",
               "autoRenewPeriod", "expirationTime", "tokenMemo", "customFees", "tokenType",
               "supplyType", "maxSupply", "metadata"}
<1>1. TokenInfoResult = Over(renamed, Same(plain))
  BY DEF TokenInfoResult
<1>2. InfoFields["token"] = DOMAIN TokenCreateOptions \cup DOMAIN TokenUpdateOptions
  BY DEF InfoFields
<1>3. n \in plain \cup {"tokenName", "tokenSymbol", "initialSupply", "freezeDefault"}
  BY <1>2 DEF TokenCreateOptions, TokenUpdateOptions, EntityIds
<1>4. CASE n \in plain
  <2>1. NameIn("getTokenInfo", n) = n
    BY <1>4 DEF NameIn
  <2>2. n \notin DOMAIN renamed
    BY <1>4
  <2> HIDE DEF renamed, plain
  <2>3. n \in DOMAIN TokenInfoResult /\ TokenInfoResult[n] = n
    BY <1>1, <1>4, <2>2 DEF Over, Same
  <2> QED
    BY <2>1, <2>3
<1>5. CASE n \in {"tokenName", "tokenSymbol", "initialSupply", "freezeDefault"}
  <2> DEFINE m == NameIn("getTokenInfo", n)
  <2>1. m \in DOMAIN renamed /\ renamed[m] = n
    BY <1>5 DEF NameIn
  <2> HIDE DEF renamed, plain, m
  <2>2. m \in DOMAIN TokenInfoResult /\ TokenInfoResult[m] = n
    BY <1>1, <2>1 DEF Over
  <2> QED
    BY <2>2 DEF m
<1> QED
  BY <1>3, <1>4, <1>5

LEMMA TopicInfoNames ==
    ASSUME NEW n \in InfoFields["topic"] \ (EntityIds \cup {"keyVerificationMode", "contents"})
    PROVE  /\ NameIn("getTopicInfo", n) \in DOMAIN TopicInfoResult
           /\ TopicInfoResult[NameIn("getTopicInfo", n)] = n
<1>1. InfoFields["topic"] = DOMAIN TopicUpdateOptions
  BY DEF InfoFields
<1>2. DOMAIN TopicUpdateOptions \ EntityIds \subseteq
        {"topicMemo", "adminKey", "submitKey", "feeScheduleKey", "feeExemptKeys",
         "autoRenewPeriod", "autoRenewAccountId", "customFees", "expirationTime"}
  BY DEF TopicUpdateOptions, EntityIds
<1> QED
  BY <1>1, <1>2 DEF TopicInfoResult, Same, NameIn

LEMMA FileInfoNames ==
    ASSUME NEW n \in InfoFields["file"] \ (EntityIds \cup {"keyVerificationMode", "contents"})
    PROVE  /\ NameIn("getFileInfo", n) \in DOMAIN FileInfoResult
           /\ FileInfoResult[NameIn("getFileInfo", n)] = n
<1>1. InfoFields["file"] = DOMAIN FileUpdateOptions
  BY DEF InfoFields
<1>2. DOMAIN FileUpdateOptions \ (EntityIds \cup {"contents"}) \subseteq
        {"expirationTime", "keys", "fileMemo"}
  BY DEF FileUpdateOptions, EntityIds
<1> QED
  BY <1>1, <1>2 DEF FileInfoResult, Same, NameIn

(* What was asked for has names that the info query of its kind knows.     *)
LEMMA AskedNames ==
    ASSUME EntityInv, kind \in DOMAIN InfoFields, NEW n \in DOMAIN asked
    PROVE  n \in InfoFields[kind] \ EntityIds
BY DEF EntityInv, WorldOK, LedgerOK, Known

LEMMA GetTokenInfoKeeps == EntityInv /\ getTokenInfo => EntityInv'
<1> SUFFICES ASSUME EntityInv, getTokenInfo PROVE EntityInv'
  OBVIOUS
<1> DEFINE gives == Info(TokenInfoResult)
<1>1. PICK a \in Asked(With("tokenId", "id"), {With("tokenId", "id")}, QueryOptions) :
         Asking("getTokenInfo", a[1], Normalized(a[1], {"tokenId"}, Keep(a[1], {"tokenId"})),
                Keep(a[1], {"tokenId"}), gives)
  BY DEF getTokenInfo, AsksOf, Asks, Asking
<1>2. kind = "token" /\ UNCHANGED <<kind, ledger, asked, schedule>>
  BY DEF getTokenInfo, AsksOf, Asks
<1>3. \A b \in gives : ReadFits("getTokenInfo", b)
  <2>1. kind \in DOMAIN InfoFields
    BY <1>2 DEF InfoFields
  <2>2. \A n \in DOMAIN asked \ {"keyVerificationMode", "contents"} :
           /\ NameIn("getTokenInfo", n) \in DOMAIN TokenInfoResult
           /\ TokenInfoResult[NameIn("getTokenInfo", n)] = n
    BY <1>2, <2>1, AskedNames, TokenInfoNames
  <2> QED
    BY <2>2, InfoFits
<1> HIDE DEF gives
<1> QED
  BY <1>1, <1>2, <1>3, AskOfKeeps

LEMMA GetTopicInfoKeeps == EntityInv /\ getTopicInfo => EntityInv'
<1> SUFFICES ASSUME EntityInv, getTopicInfo PROVE EntityInv'
  OBVIOUS
<1> DEFINE gives == Info(TopicInfoResult)
<1>1. PICK a \in Asked(With("topicId", "id"), {With("topicId", "id")}, QueryOptions) :
         Asking("getTopicInfo", a[1], Normalized(a[1], {"topicId"}, Keep(a[1], {"topicId"})),
                Keep(a[1], {"topicId"}), gives)
  BY DEF getTopicInfo, AsksOf, Asks, Asking
<1>2. kind = "topic" /\ UNCHANGED <<kind, ledger, asked, schedule>>
  BY DEF getTopicInfo, AsksOf, Asks
<1>3. \A b \in gives : ReadFits("getTopicInfo", b)
  <2>1. kind \in DOMAIN InfoFields
    BY <1>2 DEF InfoFields
  <2>2. \A n \in DOMAIN asked \ {"keyVerificationMode", "contents"} :
           /\ NameIn("getTopicInfo", n) \in DOMAIN TopicInfoResult
           /\ TopicInfoResult[NameIn("getTopicInfo", n)] = n
    BY <1>2, <2>1, AskedNames, TopicInfoNames
  <2> QED
    BY <2>2, InfoFits
<1> HIDE DEF gives
<1> QED
  BY <1>1, <1>2, <1>3, AskOfKeeps

LEMMA GetFileInfoKeeps == EntityInv /\ getFileInfo => EntityInv'
<1> SUFFICES ASSUME EntityInv, getFileInfo PROVE EntityInv'
  OBVIOUS
<1> DEFINE gives == Info(FileInfoResult)
<1>1. PICK a \in Asked(With("fileId", "id"), {With("fileId", "id")}, QueryOptions) :
         Asking("getFileInfo", a[1], Normalized(a[1], {"fileId"}, Keep(a[1], {"fileId"})),
                Keep(a[1], {"fileId"}), gives)
  BY DEF getFileInfo, AsksOf, Asks, Asking
<1>2. kind = "file" /\ UNCHANGED <<kind, ledger, asked, schedule>>
  BY DEF getFileInfo, AsksOf, Asks
<1>3. \A b \in gives : ReadFits("getFileInfo", b)
  <2>1. kind \in DOMAIN InfoFields
    BY <1>2 DEF InfoFields
  <2>2. \A n \in DOMAIN asked \ {"keyVerificationMode", "contents"} :
           /\ NameIn("getFileInfo", n) \in DOMAIN FileInfoResult
           /\ FileInfoResult[NameIn("getFileInfo", n)] = n
    BY <1>2, <2>1, AskedNames, FileInfoNames
  <2> QED
    BY <2>2, InfoFits
<1> HIDE DEF gives
<1> QED
  BY <1>1, <1>2, <1>3, AskOfKeeps

LEMMA GetFileContentsKeeps == EntityInv /\ getFileContents => EntityInv'
<1> SUFFICES ASSUME EntityInv, getFileContents PROVE EntityInv'
  OBVIOUS
<1> DEFINE gives == Info(Same({"contents"}))
<1>1. PICK a \in Asked(With("fileId", "id"), {With("fileId", "id")}, QueryOptions) :
         Asking("getFileContents", a[1], Normalized(a[1], {"fileId"}, Keep(a[1], {"fileId"})),
                Keep(a[1], {"fileId"}), gives)
  BY DEF getFileContents, AsksOf, Asks, Asking
<1>2. kind = "file" /\ UNCHANGED <<kind, ledger, asked, schedule>>
  BY DEF getFileContents, AsksOf, Asks
<1>3. \A b \in gives : ReadFits("getFileContents", b)
  BY InfoFits
<1> HIDE DEF gives
<1> QED
  BY <1>1, <1>2, <1>3, AskOfKeeps

LEMMA GetContractInfoKeeps == EntityInv /\ getContractInfo => EntityInv'
<1> SUFFICES ASSUME EntityInv, getContractInfo PROVE EntityInv'
  OBVIOUS
<1> DEFINE gives == Info(Same(DOMAIN ledger.has))
<1>1. PICK a \in Asked(With("contractId", "id"), {With("contractId", "id")}, QueryOptions) :
         Asking("getContractInfo", a[1], Normalized(a[1], {"contractId"}, Keep(a[1], {"contractId"})),
                Keep(a[1], {"contractId"}), gives)
  BY DEF getContractInfo, AsksOf, Asks, Asking
<1>2. kind = "contract" /\ UNCHANGED <<kind, ledger, asked, schedule>>
  BY DEF getContractInfo, AsksOf, Asks
<1>3. \A b \in gives : ReadFits("getContractInfo", b)
  BY InfoFits
<1> HIDE DEF gives
<1> QED
  BY <1>1, <1>2, <1>3, AskOfKeeps

LEMMA GetContractBytecodeKeeps == EntityInv /\ getContractBytecode => EntityInv'
<1> SUFFICES ASSUME EntityInv, getContractBytecode PROVE EntityInv'
  OBVIOUS
<1> DEFINE gives == Info(Same({"bytecode"}))
<1>1. PICK a \in Asked(With("contractId", "id"), {With("contractId", "id")}, QueryOptions) :
         Asking("getContractBytecode", a[1], Normalized(a[1], {"contractId"}, Keep(a[1], {"contractId"})),
                Keep(a[1], {"contractId"}), gives)
  BY DEF getContractBytecode, AsksOf, Asks, Asking
<1>2. kind = "contract" /\ UNCHANGED <<kind, ledger, asked, schedule>>
  BY DEF getContractBytecode, AsksOf, Asks
<1>3. \A b \in gives : ReadFits("getContractBytecode", b)
  BY InfoFits
<1> HIDE DEF gives
<1> QED
  BY <1>1, <1>2, <1>3, AskOfKeeps

LEMMA VerifyAccountKeeps == EntityInv /\ verifyAccount => EntityInv'
<1> SUFFICES ASSUME EntityInv, verifyAccount PROVE EntityInv'
  OBVIOUS
<1> DEFINE gives == Verifications
<1>1. PICK a \in Asked(With("accountId", "id"), {With("accountId", "id")}, QueryOptions) :
         Asking("verifyAccount", a[1], Normalized(a[1], {"accountId"}, Keep(a[1], {"accountId"})),
                Keep(a[1], {"accountId"}), gives)
  BY DEF verifyAccount, AsksOf, Asks, Asking
<1>2. kind = "account" /\ UNCHANGED <<kind, ledger, asked, schedule>>
  BY DEF verifyAccount, AsksOf, Asks
<1>3. \A b \in gives : ReadFits("verifyAccount", b)
  <2>1. \A v \in {"true", "false"} : ReadFits("verifyAccount", Ok(With("verified", v)))
    BY OkReadFits, WithFields DEF Reads
  <2> QED
    BY <2>1 DEF Verifications, Flag
<1> HIDE DEF gives
<1> QED
  BY <1>1, <1>2, <1>3, AskOfKeeps

LEMMA GetNftInfoKeeps == EntityInv /\ getNftInfo => EntityInv'
<1> SUFFICES ASSUME EntityInv, getNftInfo PROVE EntityInv'
  OBVIOUS
<1> DEFINE gives == {TokenNftInfoQuery(found) : found \in {<<>>, <<"nft">>}}
<1>1. PICK a \in Asked(With("nftId", "id"), {With("nftId", "id")}, QueryOptions) :
         Asking("getNftInfo", a[1], Normalized(a[1], {"nftId"}, Keep(a[1], {"nftId"})),
                Keep(a[1], {"nftId"}), gives)
  BY DEF getNftInfo, AsksOf, Asks, Asking
<1>2. kind = "token" /\ UNCHANGED <<kind, ledger, asked, schedule>>
  BY DEF getNftInfo, AsksOf, Asks
<1>3. \A b \in gives : ReadFits("getNftInfo", b)
  <2>1. ReadFits("getNftInfo", Answer("NOT_FOUND", FALSE, NoFields))
    BY NoFieldsEmpty DEF ReadFits, Answer
  <2>2. ReadFits("getNftInfo", Answer("ok", TRUE, With("accountId", "id")))
    BY OkReadFits, WithFields DEF Reads, Ok
  <2> QED
    BY <2>1, <2>2 DEF TokenNftInfoQuery
<1> HIDE DEF gives
<1> QED
  BY <1>1, <1>2, <1>3, AskOfKeeps

LEMMA GetAccountBalanceKeeps == EntityInv /\ getAccountBalance => EntityInv'
<1> SUFFICES ASSUME EntityInv, getAccountBalance PROVE EntityInv'
  OBVIOUS
<1> DEFINE fields(o) == Keep(o, {"accountId"})
           code(o) == Normalized(o, {"accountId"}, Keep(o, {"accountId"}))
           gives(o) == {Ok([accountId |-> o.accountId, tinybars |-> "1"])}
<1>1. PICK a \in Asked(AccountBalanceQuery, {[accountId |-> "id"]}, NoFields) :
         Asking("getAccountBalance", a[1], code(a[1]), fields(a[1]), gives(a[1]))
  BY DEF getAccountBalance, Asks, Asking
<1>2. UNCHANGED <<kind, ledger, asked, schedule>>
  BY DEF getAccountBalance, Asks
<1> DEFINE o == a[1]
<1> HIDE DEF o
<1>3. code(o) \in {"INPUT_INVALID", "SDK_ERROR", "raw", "no"}
  BY NormalizedCodes
<1>4. Fields(fields(o))
  BY KeepFields
<1>5. code(o) = "no" => \A b \in gives(o) : ReadFits("getAccountBalance", b)
  <2> SUFFICES ASSUME code(o) = "no" PROVE ReadFits("getAccountBalance", Ok([accountId |-> o.accountId, tinybars |-> "1"]))
    OBVIOUS
  <2>1. Given(o, "accountId")
    BY NormalizedCodes DEF AccountBalanceQuery
  <2>2. o.accountId # "undefined"
    BY <2>1 DEF Given, Val
  <2>3. Fields([accountId |-> o.accountId, tinybars |-> "1"])
    BY <2>2 DEF Fields
  <2> QED
    BY <2>3, OkReadFits DEF Reads
<1> HIDE DEF fields, code, gives
<1>6. Asking("getAccountBalance", o, code(o), fields(o), gives(o))
  BY <1>1 DEF o
<1> QED
  BY <1>2, <1>3, <1>4, <1>5, <1>6, AskKeeps

LEMMA GetTokenBalanceKeeps == EntityInv /\ getTokenBalance => EntityInv'
<1> SUFFICES ASSUME EntityInv, getTokenBalance PROVE EntityInv'
  OBVIOUS
<1> DEFINE fields(o) == Keep(o, DOMAIN TokenBalanceQuery)
           code(o) == Normalized(o, DOMAIN TokenBalanceQuery, Keep(o, DOMAIN TokenBalanceQuery))
           gives(o) == {Ok([tokenId |-> o.tokenId, balance |-> "1", decimals |-> "0"])}
<1>1. PICK a \in Asked(TokenBalanceQuery, {[accountId |-> "id", tokenId |-> "id"]}, NoFields) :
         Asking("getTokenBalance", a[1], code(a[1]), fields(a[1]), gives(a[1]))
  BY DEF getTokenBalance, Asks, Asking
<1>2. UNCHANGED <<kind, ledger, asked, schedule>>
  BY DEF getTokenBalance, Asks
<1> DEFINE o == a[1]
<1> HIDE DEF o
<1>3. code(o) \in {"INPUT_INVALID", "SDK_ERROR", "raw", "no"}
  BY NormalizedCodes
<1>4. Fields(fields(o))
  BY KeepFields
<1>5. code(o) = "no" => \A b \in gives(o) : ReadFits("getTokenBalance", b)
  <2> SUFFICES ASSUME code(o) = "no" PROVE ReadFits("getTokenBalance", Ok([tokenId |-> o.tokenId, balance |-> "1", decimals |-> "0"]))
    OBVIOUS
  <2>1. Given(o, "tokenId")
    BY NormalizedCodes DEF TokenBalanceQuery
  <2>2. o.tokenId # "undefined"
    BY <2>1 DEF Given, Val
  <2>3. Fields([tokenId |-> o.tokenId, balance |-> "1", decimals |-> "0"])
    BY <2>2 DEF Fields
  <2> QED
    BY <2>3, OkReadFits DEF Reads
<1> HIDE DEF fields, code, gives
<1>6. Asking("getTokenBalance", o, code(o), fields(o), gives(o))
  BY <1>1 DEF o
<1> QED
  BY <1>2, <1>3, <1>4, <1>5, <1>6, AskKeeps

LEMMA GetAccountRecordsKeeps == EntityInv /\ getAccountRecords => EntityInv'
<1> SUFFICES ASSUME EntityInv, getAccountRecords PROVE EntityInv'
  OBVIOUS
<1> DEFINE fields(o) == Keep(o, {"accountId"})
           code(o) == IF parseAccountId(o) THEN "INPUT_INVALID" ELSE Normalized(o, {}, NoFields)
           gives(o) == {Ok(With("records", "list"))}
<1>1. PICK a \in Asked(AccountRecordsQuery, {[accountId |-> "id"]}, QueryOptions) :
         Asking("getAccountRecords", a[1], code(a[1]), fields(a[1]), gives(a[1]))
  BY DEF getAccountRecords, Asks, Asking
<1>2. UNCHANGED <<kind, ledger, asked, schedule>>
  BY DEF getAccountRecords, Asks
<1> DEFINE o == a[1]
<1> HIDE DEF o
<1>3. code(o) \in {"INPUT_INVALID", "SDK_ERROR", "raw", "no"}
  BY NormalizedCodes
<1>4. Fields(fields(o))
  BY KeepFields
<1>5. code(o) = "no" => \A b \in gives(o) : ReadFits("getAccountRecords", b)
  <2>1. Fields(With("records", "list"))
    BY WithFields
  <2> QED
    BY <2>1, OkReadFits DEF Reads
<1> HIDE DEF fields, code, gives
<1>6. Asking("getAccountRecords", o, code(o), fields(o), gives(o))
  BY <1>1 DEF o
<1> QED
  BY <1>2, <1>3, <1>4, <1>5, <1>6, AskKeeps

LEMMA SubscribeKeeps == EntityInv /\ subscribeToMessages => EntityInv'
<1> SUFFICES ASSUME EntityInv, subscribeToMessages PROVE EntityInv'
  OBVIOUS
<1> DEFINE fields(o) == TopicMessageQuery(o)
           code(o) == Normalized(o, {"topicId"}, TopicMessageQuery(o))
           gives(o) == {handleError(o)} \cup
                    {TopicMessageResult([sequenceNumber |-> "1", initialTransactionId |-> id])
                       : id \in {"id", "null"}}
<1>1. PICK a \in Asked(TopicMessageSubscribeOptions, {[topicId |-> "id"]}, NoFields) :
         Asking("subscribeToMessages", a[1], code(a[1]), fields(a[1]), gives(a[1]))
  BY DEF subscribeToMessages, Asks, Asking
<1>2. UNCHANGED <<kind, ledger, asked, schedule>>
  BY DEF subscribeToMessages, Asks
<1> DEFINE o == a[1]
<1> HIDE DEF o
<1>3. code(o) \in {"INPUT_INVALID", "SDK_ERROR", "raw", "no"}
  BY NormalizedCodes
<1>4. Fields(fields(o))
  BY KeepFields DEF TopicMessageQuery
<1>5. code(o) = "no" => \A b \in gives(o) : ReadFits("subscribeToMessages", b)
  <2>1. ReadFits("subscribeToMessages", handleError(o))
    <3> DEFINE to == IF Given(o, "errorHandler") THEN "handler" ELSE "warning"
    <3>1. to # "undefined"
      OBVIOUS
    <3> HIDE DEF to
    <3>2. Fields(With("toldTo", to))
      BY <3>1, WithFields
    <3>3. handleError(o) = Answer("SDK_ERROR", FALSE, With("toldTo", to))
      BY DEF handleError, to
    <3> HIDE DEF to
    <3> QED
      BY <3>2, <3>3 DEF ReadFits, Answer
  <2>2. ASSUME NEW id \in {"id", "null"}
        PROVE  ReadFits("subscribeToMessages",
                        TopicMessageResult([sequenceNumber |-> "1", initialTransactionId |-> id]))
    <3> DEFINE told == [sequenceNumber |-> "1", initialTransactionId |-> id]
    <3>1. Fields(told)
      BY DEF Fields
    <3>2. TopicMessageResult(told) = Ok(told)
      BY DEF TopicMessageResult, Ok
    <3> HIDE DEF told
    <3>3. ReadFits("subscribeToMessages", TopicMessageResult(told))
      BY <3>1, <3>2, OkReadFits DEF Reads
    <3> QED
      BY <3>3 DEF told
  <2> QED
    BY <2>1, <2>2
<1> HIDE DEF fields, code, gives
<1>6. Asking("subscribeToMessages", o, code(o), fields(o), gives(o))
  BY <1>1 DEF o
<1> QED
  BY <1>2, <1>3, <1>4, <1>5, <1>6, AskKeeps

LEMMA CallContractKeeps == EntityInv /\ callContract => EntityInv'
<1> SUFFICES ASSUME EntityInv, callContract PROVE EntityInv'
  OBVIOUS
<1> DEFINE fields(o) == ContractCallQuery(o)
           code(o) == IF validateCallTarget(o) THEN "INPUT_INVALID"
                      ELSE Normalized(o, {"contractId", "gas"}, ContractCallQuery(o))
           gives(o) == {Ok(With("functionResult", "result"))}
<1>1. PICK a \in Asked(ContractCallOptions, Executions, QueryOptions) :
         Asking("callContract", a[1], code(a[1]), fields(a[1]), gives(a[1]))
  BY DEF callContract, Asks, Asking
<1>2. UNCHANGED <<kind, ledger, asked, schedule>>
  BY DEF callContract, Asks
<1> DEFINE o == a[1]
<1> HIDE DEF o
<1>3. code(o) \in {"INPUT_INVALID", "SDK_ERROR", "raw", "no"}
  BY NormalizedCodes
<1>4. Fields(fields(o))
  BY KeepFields, OverFields DEF ContractCallQuery, CallData
<1>5. code(o) = "no" => \A b \in gives(o) : ReadFits("callContract", b)
  <2>1. Fields(With("functionResult", "result"))
    BY WithFields
  <2> QED
    BY <2>1, OkReadFits DEF Reads
<1> HIDE DEF fields, code, gives
<1>6. Asking("callContract", o, code(o), fields(o), gives(o))
  BY <1>1 DEF o
<1> QED
  BY <1>2, <1>3, <1>4, <1>5, <1>6, AskKeeps

LEMMA SimulateCallKeeps == EntityInv /\ simulateContractCall => EntityInv'
<1> SUFFICES ASSUME EntityInv, simulateContractCall PROVE EntityInv'
  OBVIOUS
<1> DEFINE fields(o) == MirrorNodeContractQuery(o)
           code(o) == IF MirrorContractCallValidator(o) THEN "INPUT_INVALID"
                      ELSE IF Normalized(o, {}, Keep(o, {"contractId"})) = "no" /\ CallDataTooBig(o)
                      THEN "INPUT_INVALID"
                      ELSE Normalized(o, {}, MirrorNodeContractQuery(o))
           gives(o) == {Ok(With("result", "result"))}
<1>1. PICK a \in Asked(MirrorNodeContractOptions, {Without(u, {"gas"}) : u \in Executions}, NoFields) :
         Asking("simulateContractCall", a[1], code(a[1]), fields(a[1]), gives(a[1]))
  BY DEF simulateContractCall, Asks, Asking
<1>2. UNCHANGED <<kind, ledger, asked, schedule>>
  BY DEF simulateContractCall, Asks
<1> DEFINE o == a[1]
<1> HIDE DEF o
<1>3. code(o) \in {"INPUT_INVALID", "SDK_ERROR", "raw", "no"}
  BY NormalizedCodes
<1>4. Fields(fields(o))
  BY KeepFields, OverFields DEF MirrorNodeContractQuery, CallData
<1>5. code(o) = "no" => \A b \in gives(o) : ReadFits("simulateContractCall", b)
  <2>1. Fields(With("result", "result"))
    BY WithFields
  <2> QED
    BY <2>1, OkReadFits DEF Reads
<1> HIDE DEF fields, code, gives
<1>6. Asking("simulateContractCall", o, code(o), fields(o), gives(o))
  BY <1>1 DEF o
<1> QED
  BY <1>2, <1>3, <1>4, <1>5, <1>6, AskKeeps

LEMMA GetTransactionKeeps == EntityInv /\ getTransaction => EntityInv'
<1> SUFFICES ASSUME EntityInv, getTransaction PROVE EntityInv'
  OBVIOUS
<1> DEFINE fields(o) == TransactionReceiptQuery(o)
           code(o) == Unprotected(o, parseTransactionId(o))
           gives(o) == {Ok(With("receipt", "receipt"))}
<1>1. PICK a \in Asked(TransactionReceiptOptions, {[transactionId |-> "txId"]}, QueryOptions) :
         Asking("getTransaction", a[1], code(a[1]), fields(a[1]), gives(a[1]))
  BY DEF getTransaction, Asks, Asking
<1>2. UNCHANGED <<kind, ledger, asked, schedule>>
  BY DEF getTransaction, Asks
<1> DEFINE o == a[1]
<1> HIDE DEF o
<1>3. code(o) \in {"INPUT_INVALID", "SDK_ERROR", "raw", "no"}
  BY UnprotectedCodes
<1>4. Fields(fields(o))
  BY KeepFields DEF TransactionReceiptQuery
<1>5. code(o) = "no" => \A b \in gives(o) : ReadFits("getTransaction", b)
  <2>1. Fields(With("receipt", "receipt"))
    BY WithFields
  <2> QED
    BY <2>1, OkReadFits DEF Reads
<1> HIDE DEF fields, code, gives
<1>6. Asking("getTransaction", o, code(o), fields(o), gives(o))
  BY <1>1 DEF o
<1> QED
  BY <1>2, <1>3, <1>4, <1>5, <1>6, AskKeeps

LEMMA GetVersionKeeps == EntityInv /\ getNetworkVersionInfo => EntityInv'
<1> SUFFICES ASSUME EntityInv, getNetworkVersionInfo PROVE EntityInv'
  OBVIOUS
<1> DEFINE fields(o) == NoFields
           code(o) == Unprotected(o, FALSE)
           gives(o) == {Ok(With("version", "version"))}
<1>1. PICK a \in Asked(NoFields, {NoFields}, QueryOptions) :
         Asking("getNetworkVersionInfo", a[1], code(a[1]), fields(a[1]), gives(a[1]))
  BY DEF getNetworkVersionInfo, Asks, Asking
<1>2. UNCHANGED <<kind, ledger, asked, schedule>>
  BY DEF getNetworkVersionInfo, Asks
<1> DEFINE o == a[1]
<1> HIDE DEF o
<1>3. code(o) \in {"INPUT_INVALID", "SDK_ERROR", "raw", "no"}
  BY DEF Unprotected
<1>4. Fields(fields(o))
  BY NoFieldsEmpty
<1>5. code(o) = "no" => \A b \in gives(o) : ReadFits("getNetworkVersionInfo", b)
  <2>1. Fields(With("version", "version"))
    BY WithFields
  <2> QED
    BY <2>1, OkReadFits DEF Reads
<1> HIDE DEF fields, code, gives
<1>6. Asking("getNetworkVersionInfo", o, code(o), fields(o), gives(o))
  BY <1>1 DEF o
<1> QED
  BY <1>2, <1>3, <1>4, <1>5, <1>6, AskKeeps

LEMMA GetAddressBookKeeps == EntityInv /\ getAddressBook => EntityInv'
<1> SUFFICES ASSUME EntityInv, getAddressBook PROVE EntityInv'
  OBVIOUS
<1> DEFINE fields(o) == AddressBookQuery(o)
           code(o) == IF AddressBookRefused(o) THEN "INPUT_INVALID" ELSE "no"
           gives(o) == {Ok(With("nodes", "nodes"))}
<1>1. PICK a \in Asked(AddressBookOptions, {NoFields}, NoFields) :
         Asking("getAddressBook", a[1], code(a[1]), fields(a[1]), gives(a[1]))
  BY DEF getAddressBook, Asks, Asking
<1>2. UNCHANGED <<kind, ledger, asked, schedule>>
  BY DEF getAddressBook, Asks
<1> DEFINE o == a[1]
<1> HIDE DEF o
<1>3. code(o) \in {"INPUT_INVALID", "SDK_ERROR", "raw", "no"}
  OBVIOUS
<1>4. Fields(fields(o))
  <2> DEFINE file == IF Given(o, "fileId") THEN NoFields ELSE With("fileId", "0.0.102")
  <2>1. Fields(With("fileId", "0.0.102"))
    BY WithFields
  <2>2. Fields(file)
    BY <2>1, NoFieldsEmpty
  <2> HIDE DEF file
  <2> QED
    BY <2>2, OverKeptFields DEF AddressBookQuery, file
<1>5. code(o) = "no" => \A b \in gives(o) : ReadFits("getAddressBook", b)
  <2>1. Fields(With("nodes", "nodes"))
    BY WithFields
  <2> QED
    BY <2>1, OkReadFits DEF Reads
<1> HIDE DEF fields, code, gives
<1>6. Asking("getAddressBook", o, code(o), fields(o), gives(o))
  BY <1>1 DEF o
<1> QED
  BY <1>2, <1>3, <1>4, <1>5, <1>6, AskKeeps

LEMMA EstimateFeeKeeps == EntityInv /\ estimateFee => EntityInv'
<1> SUFFICES ASSUME EntityInv, estimateFee PROVE EntityInv'
  OBVIOUS
<1> DEFINE fields(o) == FeeEstimateQuery(o)
           code(o) == IF FeeEstimateRefused(o) THEN "INPUT_INVALID" ELSE "no"
           gives(o) == {Ok(With("total", "total"))}
<1>1. PICK a \in Asked(FeeEstimateOptions, {[transaction |-> "frozen"]}, NoFields) :
         Asking("estimateFee", a[1], code(a[1]), fields(a[1]), gives(a[1]))
  BY DEF estimateFee, Asks, Asking
<1>2. UNCHANGED <<kind, ledger, asked, schedule>>
  BY DEF estimateFee, Asks
<1> DEFINE o == a[1]
<1> HIDE DEF o
<1>3. code(o) \in {"INPUT_INVALID", "SDK_ERROR", "raw", "no"}
  OBVIOUS
<1>4. Fields(fields(o))
  BY KeepFields DEF FeeEstimateQuery
<1>5. code(o) = "no" => \A b \in gives(o) : ReadFits("estimateFee", b)
  <2>1. Fields(With("total", "total"))
    BY WithFields
  <2> QED
    BY <2>1, OkReadFits DEF Reads
<1> HIDE DEF fields, code, gives
<1>6. Asking("estimateFee", o, code(o), fields(o), gives(o))
  BY <1>1 DEF o
<1> QED
  BY <1>2, <1>3, <1>4, <1>5, <1>6, AskKeeps

-----------------------------------------------------------------------------
(* ScheduleService.                                                        *)

LEMMA TransactionFits ==
    ASSUME NEW call, NEW o, NEW fields, NEW signed,
           Fields(fields), DOMAIN fields \cap Shared = {}, Signs(call, o, signed)
    PROVE  SentFits(call, o, Sent("transaction", Over(fields, applyBaseOptions(o)), signed))
<1> DEFINE all == Over(fields, applyBaseOptions(o))
           sent == Sent("transaction", all, signed)
<1>1. Fields(all)
  BY BaseOptionsSent, OverFields
<1>2. ASSUME NEW n \in Shared, Given(o, n) PROVE Val(all, n) = o[n]
  <2>1. n \notin DOMAIN fields
    OBVIOUS
  <2> QED
    BY <1>2, <2>1, OverVal, BaseOptionsSent
<1> HIDE DEF all
<1>3. sent.is = "transaction" /\ sent.fields = all /\ sent.signed = signed
  BY SentIs
<1> HIDE DEF sent
<1>4. SentFits(call, o, sent)
  BY <1>1, <1>2, <1>3 DEF SentFits
<1> QED
  BY <1>4 DEF sent, all

(* A schedule that stands still does when only its status is another.      *)
LEMMA StatusKeeps ==
    ASSUME WorldOK, schedule.status = "pending", NEW status \in {"executed", "deleted"},
           schedule' = [schedule EXCEPT !.status = status], kind' = kind
    PROVE  /\ Scheduled(kind', schedule')
           /\ Stands(kind, schedule.does, schedule.fields, schedule.told)
<1>1. Scheduled(kind, schedule)
  BY DEF WorldOK, NoSchedule
<1>2. schedule' = [status |-> status, fields |-> schedule.fields, does |-> schedule.does,
                   told |-> schedule.told, payer |-> schedule.payer, memo |-> schedule.memo]
  <2>1. schedule = [status |-> schedule.status, fields |-> schedule.fields,
                    does |-> schedule.does, told |-> schedule.told,
                    payer |-> schedule.payer, memo |-> schedule.memo]
    BY <1>1 DEF Scheduled
  <2> QED
    BY <2>1
<1>3. /\ schedule'.status = status /\ schedule'.fields = schedule.fields
      /\ schedule'.does = schedule.does /\ schedule'.told = schedule.told
      /\ schedule'.payer = schedule.payer /\ schedule'.memo = schedule.memo
  BY <1>2
<1> QED
  BY <1>1, <1>2, <1>3 DEF Scheduled

LEMMA ExecutesKeeps ==
    ASSUME WorldOK, Executes, kind' = kind
    PROVE  WorldOK'
<1>1. CASE UNCHANGED world
  BY <1>1 DEF WorldOK, LedgerOK, world
<1>2. CASE /\ schedule' = [schedule EXCEPT !.status = "executed"]
           /\ \/ UNCHANGED <<ledger, asked>>
              \/ Lands(schedule.does, schedule.fields, schedule.told)
  <2>1. schedule.status = "pending" /\ LedgerOK
    BY DEF Executes, WorldOK
  <2>2. /\ Scheduled(kind', schedule')
        /\ Stands(kind, schedule.does, schedule.fields, schedule.told)
    BY <1>2, <2>1, StatusKeeps
  <2>3. LedgerOK'
    <3>1. CASE UNCHANGED <<ledger, asked>>
      BY <2>1, <3>1 DEF LedgerOK
    <3>2. CASE Lands(schedule.does, schedule.fields, schedule.told)
      BY <2>1, <2>2, <3>2, LandsKeeps
    <3> QED
      BY <1>2, <3>1, <3>2
  <2> QED
    BY <2>2, <2>3 DEF WorldOK
<1> QED
  BY <1>1, <1>2 DEF Executes

(* Whoever signs last completes what the schedule holds.                   *)
LEMMA SignKeeps == EntityInv /\ sign => EntityInv'
<1> SUFFICES ASSUME EntityInv, sign PROVE EntityInv'
  OBVIOUS
<1> DEFINE answers == {Ok(With("scheduledTransactionId", id)) : id \in {"id", "null"}}
           code(o) == Refused(o, ScheduleSignValidator(o), ScheduleSign(o))
           sent(o) == Sent("transaction", Over(ScheduleSign(o), applyBaseOptions(o)),
                           applySigners(o))
<1>1. PICK a \in Asked(ScheduleSignOptions, {[scheduleId |-> "id"]}, TransactionOptions) :
         run("sign", a[1], code(a[1]), sent(a[1]), Executes, answers)
  BY DEF sign, Scheduling, Now
<1>2. kind' = kind
  BY DEF sign, Scheduling, Now
<1> DEFINE o == a[1]
<1>3. Admits(Over(ScheduleSignOptions, TransactionOptions), o)
  BY AskedAdmitted
<1> HIDE DEF o
<1>4. SentFits("sign", o, sent(o))
  <2>1. DOMAIN ScheduleSignOptions \cap Signers = {}
        /\ SigningOf("sign") \cap DOMAIN ScheduleSignOptions \subseteq {}
    BY DEF ScheduleSignOptions, Signers, SigningOf
  <2>2. Signs("sign", o, {n \in {} : Val(o, n) \in {"key", "keys"}} \cup applySigners(o))
    BY <1>3, <2>1, GivenKeysSign
  <2>3. Signs("sign", o, applySigners(o))
    BY <2>2 DEF Signs
  <2>4. DOMAIN ScheduleSign(o) \subseteq {"scheduleId"}
    BY KeepDomain DEF ScheduleSign
  <2>5. DOMAIN ScheduleSign(o) \cap Shared = {}
    BY <2>4 DEF Shared
  <2>6. Fields(ScheduleSign(o))
    BY KeepFields DEF ScheduleSign
  <2> QED
    BY <2>3, <2>5, <2>6, TransactionFits
<1>5. code(o) \in {"INPUT_INVALID", "raw", "no"}
  BY RefusedCodes
<1>6. \A b \in answers : AnswerFits("sign", b)
  <2>1. \A id \in {"id", "null"} : Fields(With("scheduledTransactionId", id))
    BY WithFields
  <2> QED
    BY <2>1, OkFits
<1> HIDE DEF answers, code, sent
<1>7. run("sign", o, code(o), sent(o), Executes, answers)
  BY <1>1 DEF o
<1>8. WorldOK
  BY DEF EntityInv
<1>9. WorldOK'
  <2>1. UNCHANGED world \/ Executes
    BY <1>7 DEF run
  <2>2. UNCHANGED world => WorldOK'
    BY <1>2, <1>8 DEF WorldOK, LedgerOK, world
  <2> QED
    BY <1>2, <1>8, <2>1, <2>2, ExecutesKeeps
<1>10. Outcome("sign", o, code(o), sent(o), answers)
  BY <1>7 DEF run, Outcome
<1>11. "sign" \notin Reads \cup {"submitBatch"}
  BY DEF Reads
<1> QED
  BY <1>4, <1>5, <1>6, <1>9, <1>10, <1>11, OutcomeTold

LEMMA CancelKeeps == EntityInv /\ cancel => EntityInv'
<1> SUFFICES ASSUME EntityInv, cancel PROVE EntityInv'
  OBVIOUS
<1> DEFINE answers == {Ok(NoFields)}
           code(o) == Refused(o, ScheduleCancelValidator(o), ScheduleCancel(o))
           signed(o) == {"adminKey"} \cup applySigners(o)
           sent(o) == Sent("transaction", Over(ScheduleCancel(o), applyBaseOptions(o)), signed(o))
           gone == /\ schedule.status = "pending"
                   /\ schedule' = [schedule EXCEPT !.status = "deleted"]
                   /\ UNCHANGED <<ledger, asked>>
<1>1. PICK a \in Asked(ScheduleCancelOptions, {[scheduleId |-> "id", adminKey |-> "key"]},
                       TransactionOptions) :
         run("cancel", a[1], code(a[1]), sent(a[1]), gone, answers)
  BY DEF cancel, Scheduling, Now
<1>2. kind' = kind
  BY DEF cancel, Scheduling, Now
<1> DEFINE o == a[1]
<1>3. Admits(Over(ScheduleCancelOptions, TransactionOptions), o)
  BY AskedAdmitted
<1> HIDE DEF o
<1>4. SentFits("cancel", o, sent(o))
  <2>1. DOMAIN ScheduleCancelOptions \cap Signers = {}
        /\ SigningOf("cancel") \cap DOMAIN ScheduleCancelOptions \subseteq {"adminKey"}
    BY DEF ScheduleCancelOptions, Signers, SigningOf
  <2>2. Signs("cancel", o,
              {n \in {"adminKey"} : Val(o, n) \in {"key", "keys"}} \cup applySigners(o))
    BY <1>3, <2>1, GivenKeysSign
  <2>3. Signs("cancel", o, signed(o))
    BY <2>2 DEF Signs
  <2>4. DOMAIN ScheduleCancel(o) \subseteq {"scheduleId"}
    BY KeepDomain DEF ScheduleCancel
  <2>5. DOMAIN ScheduleCancel(o) \cap Shared = {}
    BY <2>4 DEF Shared
  <2>6. Fields(ScheduleCancel(o))
    BY KeepFields DEF ScheduleCancel
  <2> HIDE DEF signed
  <2> QED
    BY <2>3, <2>5, <2>6, TransactionFits
<1>5. code(o) \in {"INPUT_INVALID", "raw", "no"}
  BY RefusedCodes
<1>6. \A b \in answers : AnswerFits("cancel", b)
  BY OkNothing
<1> HIDE DEF answers, code, sent
<1>7. run("cancel", o, code(o), sent(o), gone, answers)
  BY <1>1 DEF o
<1>8. WorldOK
  BY DEF EntityInv
<1>9. WorldOK'
  <2>1. UNCHANGED world \/ gone
    BY <1>7 DEF run
  <2>2. UNCHANGED world => WorldOK'
    BY <1>2, <1>8 DEF WorldOK, LedgerOK, world
  <2>3. ASSUME gone PROVE WorldOK'
    <3>1. Scheduled(kind', schedule')
      BY <1>2, <1>8, <2>3, StatusKeeps
    <3> QED
      BY <1>2, <1>8, <2>3, <3>1 DEF WorldOK, LedgerOK
  <2> QED
    BY <2>1, <2>2, <2>3
<1>10. Outcome("cancel", o, code(o), sent(o), answers)
  BY <1>7 DEF run, Outcome
<1>11. "cancel" \notin Reads \cup {"submitBatch"}
  BY DEF Reads
<1> QED
  BY <1>4, <1>5, <1>6, <1>9, <1>10, <1>11, OutcomeTold

(* What the network tells of the schedule has its status in three flags.   *)
LEMMA ScheduleInfoFits ==
    ASSUME EntityInv, schedule # NoSchedule
    PROVE  ReadFits("getScheduleInfo",
                    Ok(ScheduleInfoResult([executed |-> Since("executed"),
                                           deleted |-> Since("deleted"),
                                           payer |-> schedule.payer, memo |-> schedule.memo])))
<1> DEFINE info == [executed |-> Since("executed"), deleted |-> Since("deleted"),
                    payer |-> schedule.payer, memo |-> schedule.memo]
           gives == ScheduleInfoResult(info)
<1>1. Scheduled(kind, schedule)
  BY DEF EntityInv, WorldOK
<1>2. /\ schedule.status \in {"pending", "executed", "deleted"}
      /\ schedule.payer # "undefined" /\ schedule.memo # "undefined"
  BY <1>1 DEF Scheduled
<1>3. /\ info.executed # "null" <=> schedule.status = "executed"
      /\ info.deleted # "null" <=> schedule.status = "deleted"
      /\ info.executed # "undefined" /\ info.deleted # "undefined"
      /\ info.payer = schedule.payer /\ info.memo = schedule.memo
  BY DEF Since
<1> HIDE DEF info
<1>4. gives = [isExecuted |-> Flag(info.executed # "null"), isDeleted |-> Flag(info.deleted # "null"),
               isPending |-> Flag(info.executed = "null" /\ info.deleted = "null"),
               executedAt |-> info.executed, deletedAt |-> info.deleted,
               payerAccountId |-> info.payer, scheduleMemo |-> info.memo]
  BY DEF ScheduleInfoResult
<1>5. /\ Flag(info.executed # "null") # "undefined" /\ Flag(info.deleted # "null") # "undefined"
      /\ Flag(info.executed = "null" /\ info.deleted = "null") # "undefined"
  BY DEF Flag
<1>6. Fields(gives)
  <2> DEFINE executed == Flag(info.executed # "null")
             deleted == Flag(info.deleted # "null")
             pending == Flag(info.executed = "null" /\ info.deleted = "null")
  <2> HIDE DEF executed, deleted, pending
  <2>1. gives = [isExecuted |-> executed, isDeleted |-> deleted, isPending |-> pending,
                 executedAt |-> info.executed, deletedAt |-> info.deleted,
                 payerAccountId |-> info.payer, scheduleMemo |-> info.memo]
    BY <1>4 DEF executed, deleted, pending
  <2>2. executed # "undefined" /\ deleted # "undefined" /\ pending # "undefined"
    BY <1>5 DEF executed, deleted, pending
  <2> HIDE DEF gives
  <2> QED
    BY <1>2, <1>3, <2>1, <2>2 DEF Fields
<1>7. /\ gives["isPending"] = Flag(schedule.status = "pending")
      /\ gives["isExecuted"] = Flag(schedule.status = "executed")
      /\ gives["isDeleted"] = Flag(schedule.status = "deleted")
  <2>1. gives["isPending"] = Flag(info.executed = "null" /\ info.deleted = "null")
    BY <1>4
  <2>2. gives["isExecuted"] = Flag(info.executed # "null")
    BY <1>4
  <2>3. gives["isDeleted"] = Flag(info.deleted # "null")
    BY <1>4
  <2> HIDE DEF gives
  <2> QED
    BY <1>2, <1>3, <2>1, <2>2, <2>3 DEF Flag
<1> HIDE DEF gives
<1>8. \A f \in {<<"isPending", "pending">>, <<"isExecuted", "executed">>,
                <<"isDeleted", "deleted">>} :
         gives[f[1]] = Flag(schedule.status = f[2])
  BY <1>7
<1>9. ReadFits("getScheduleInfo", Ok(gives))
  BY <1>6, <1>8, OkIs DEF ReadFits
<1> QED
  BY <1>9 DEF gives, info

LEMMA GetScheduleInfoKeeps == EntityInv /\ getScheduleInfo => EntityInv'
<1> SUFFICES ASSUME EntityInv, getScheduleInfo PROVE EntityInv'
  OBVIOUS
<1> DEFINE gives == {Ok(ScheduleInfoResult([executed |-> Since("executed"),
                                            deleted |-> Since("deleted"),
                                            payer |-> s.payer, memo |-> s.memo]))
                       : s \in {schedule} \ {NoSchedule}}
<1>1. PICK a \in Asked(With("scheduleId", "id"), {With("scheduleId", "id")}, QueryOptions) :
         Asking("getScheduleInfo", a[1], Normalized(a[1], {"scheduleId"}, Keep(a[1], {"scheduleId"})),
                Keep(a[1], {"scheduleId"}), gives)
  BY DEF getScheduleInfo, AsksOf, Asks, Asking
<1>2. UNCHANGED <<kind, ledger, asked, schedule>>
  BY DEF getScheduleInfo, AsksOf, Asks
<1>3. \A b \in gives : ReadFits("getScheduleInfo", b)
  BY ScheduleInfoFits
<1> HIDE DEF gives
<1> QED
  BY <1>1, <1>2, <1>3, AskOfKeeps

-----------------------------------------------------------------------------
(* The theorems.                                                           *)

LEMMA NextKeeps == EntityInv /\ [Next]_vars => EntityInv'
<1> SUFFICES ASSUME EntityInv, [Next]_vars PROVE EntityInv'
  OBVIOUS
<1>1. CASE \/ createAccount \/ scheduleCreateAccount \/ autoCreateEvmAccount
          \/ scheduleAutoCreateEvmAccount \/ updateAccount
          \/ scheduleUpdateAccount \/ deleteAccount \/ scheduleDeleteAccount
          \/ getAccountBalance \/ getTokenBalance \/ getAccountRecords
          \/ verifyAccount
  BY <1>1, CreateAccountKeeps, ScheduleCreateAccountKeeps, AutoCreateKeeps,
     ScheduleAutoCreateKeeps, UpdateAccountKeeps, ScheduleUpdateAccountKeeps,
     DeleteAccountKeeps, ScheduleDeleteAccountKeeps, GetAccountBalanceKeeps,
     GetTokenBalanceKeeps, GetAccountRecordsKeeps, VerifyAccountKeeps
<1>2. CASE \/ createFungibleToken \/ scheduleCreateFungibleToken \/ createNft
          \/ scheduleCreateNft \/ updateToken \/ scheduleUpdateToken
          \/ updateNfts \/ updateTokenFeeSchedule \/ deleteToken
          \/ getTokenInfo \/ getNftInfo
  BY <1>2, FungibleKeeps, ScheduleFungibleKeeps, NftKeeps, ScheduleNftKeeps,
     UpdateTokenKeeps, ScheduleUpdateTokenKeeps, UpdateNftsKeeps, FeeScheduleKeeps,
     DeleteTokenKeeps, GetTokenInfoKeeps, GetNftInfoKeeps
<1>3. CASE \/ createTopic \/ scheduleCreateTopic \/ updateTopic \/ deleteTopic
          \/ submitMessage \/ getTopicInfo \/ subscribeToMessages
          \/ createFile \/ updateFile \/ scheduleUpdateFile \/ appendToFile
          \/ deleteFile \/ getFileInfo \/ getFileContents
  BY <1>3, CreateTopicKeeps, ScheduleCreateTopicKeeps, UpdateTopicKeeps, DeleteTopicKeeps,
     SubmitMessageKeeps, GetTopicInfoKeeps, SubscribeKeeps, CreateFileKeeps,
     UpdateFileKeeps, ScheduleUpdateFileKeeps, AppendFileKeeps, DeleteFileKeeps,
     GetFileInfoKeeps, GetFileContentsKeeps
<1>4. CASE \/ createContract \/ scheduleCreateContract \/ createContractFlow
          \/ updateContract \/ scheduleUpdateContract \/ deleteContract
          \/ scheduleDeleteContract \/ executeContract
          \/ scheduleExecuteContract \/ executeEthereumTransaction
          \/ updateHookStorage \/ callContract \/ simulateContractCall
          \/ getContractInfo \/ getContractBytecode
  BY <1>4, CreateContractKeeps, ScheduleCreateContractKeeps, CreateFlowKeeps,
     UpdateContractKeeps, ScheduleUpdateContractKeeps, DeleteContractKeeps,
     ScheduleDeleteContractKeeps, ExecuteContractKeeps, ScheduleExecuteContractKeeps,
     EthereumKeeps, HookStoreKeeps, CallContractKeeps, SimulateCallKeeps,
     GetContractInfoKeeps, GetContractBytecodeKeeps
<1>5. CASE \/ generateRandom \/ submitBatch \/ getTransaction
          \/ getNetworkVersionInfo \/ getAddressBook \/ estimateFee \/ sign
          \/ cancel \/ getScheduleInfo \/ Hears
  BY <1>5, RandomKeeps, SubmitBatchKeeps, GetTransactionKeeps, GetVersionKeeps,
     GetAddressBookKeeps, EstimateFeeKeeps, SignKeeps, CancelKeeps, GetScheduleInfoKeeps,
     HearsKeeps
<1>6. CASE UNCHANGED vars
  <2>1. EntityInv' <=> EntityInv
    BY <1>6 DEF vars, EntityInv, WorldOK, LedgerOK, TypeOK, CarriedOut, Signing, ReadsBack,
                ToldTruly
  <2> QED
    BY <2>1
<1> QED
  BY <1>1, <1>2, <1>3, <1>4, <1>5, <1>6 DEF Next

(* Whatever calls are made, with whatever options their types admit, and   *)
(* whatever the network answers: the entity, a schedule that may yet       *)
(* change it and what callers were told agree.                             *)
THEOREM EntityInvariant == Spec => []EntityInv
<1>1. Init => EntityInv
  BY InitInv
<1>2. EntityInv /\ [Next]_vars => EntityInv'
  BY NextKeeps
<1> QED
  BY <1>1, <1>2, PTL DEF Spec

(* Nothing left out is sent or told as "undefined", and a caller is told   *)
(* an error by one of the codes, or the SDK's own error.                   *)
THEOREM EntityTypeOK == Spec => []TypeOK
<1>1. EntityInv => TypeOK
  BY DEF EntityInv
<1> QED
  BY <1>1, EntityInvariant, PTL

(* However the calls of the services, at once or through a schedule, made  *)
(* the entity what it is, it has all that their options asked for and      *)
(* nothing else: build() forgets no option, writes none under another name *)
(* and takes no null that clears for one left out; and what is sent has    *)
(* the shared options and the signature of every key that was given.       *)
THEOREM EntityCarriedOut == Spec => []CarriedOut
<1>1. EntityInv => CarriedOut
  BY DEF EntityInv
<1> QED
  BY <1>1, EntityInvariant, PTL

(* What getTokenInfo, getTopicInfo and getFileInfo answer is what earlier  *)
(* calls asked for, and getScheduleInfo tells the one status that the      *)
(* schedule has.                                                           *)
THEOREM EntityReadsBack == Spec => []ReadsBack
<1>1. EntityInv => ReadsBack
  BY DEF EntityInv
<1> QED
  BY <1>1, EntityInvariant, PTL

(* An error about a transaction that reached consensus names it, but       *)
(* createAccount's without an account ID, RESULT_MAPPING_FAILED is said of *)
(* no other, a new account is told the key and the address that it has,    *)
(* and a batch that failed names what was in it.                           *)
THEOREM EntityToldTruly == Spec => []ToldTruly
<1>1. EntityInv => ToldTruly
  BY DEF EntityInv
<1> QED
  BY <1>1, EntityInvariant, PTL
=============================================================================
