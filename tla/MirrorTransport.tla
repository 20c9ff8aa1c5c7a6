-------------------------- MODULE MirrorTransport ---------------------------
(***************************************************************************)
(* packages/mirror/src/client/MirrorNodeClient.ts, the transport: request  *)
(* (observer bracket around the gate), fetchWithRetry (timeout, retry,     *)
(* error mapping) and the withRetryOn404 view, which shares gate and       *)
(* observer with its client.                                               *)
(*                                                                         *)
(* A request goes                                                          *)
(*   idle -> gated -> fetch -> (cancel ->) backoff -> fetch -> ...         *)
(*                        \-> body | errorBody -> settled -> ended         *)
(* "gated" covers acquire(): queued, handed a slot, sleeping for its start *)
(* (the phases of RequestGate).  Between two stages other requests run.    *)
(* The mirror node, the network and the abort timer choose what happens in *)
(* fetch, body and errorBody: an answer may come late, partly or never.    *)
(* Time is in ticks of BACKOFF_BASE_MS; jitter is less than one tick.  The *)
(* abort timer is not tied to the clock: it may fire at any moment it is   *)
(* armed, as timeoutMs and the speed of the node are independent.          *)
(***************************************************************************)
EXTENDS Integers, Sequences, FiniteSets

CONSTANTS Requests,        \* logical requests
          ViaView,         \* those issued through withRetryOn404()
          MaxConcurrent,   \* gate: slots
          Interval,        \* gate: ticks between starts
          MaxTime,         \* bound on an idle clock
          MaxRetries,      \* this.maxRetries
          BackoffCap,      \* BACKOFF_CAP_MS in ticks
          Responses        \* the answers the node may give: [status, retryAfter]

VARIABLES active, waiters, nextStartAt, now, phase, due,   \* the gate's
          req                                              \* each request's own state

gateVars == <<active, waiters, nextStartAt, now, phase, due>>
vars     == <<gateVars, req>>

Gate == INSTANCE RequestGate

NoStatus   == 0
NoResponse == [status |-> NoStatus, retryAfter |-> "none"]
Ok(s)      == s \in 200..299

Stages == {"idle", "gated", "fetch", "cancel", "backoff", "body", "errorBody",
           "settled", "ended"}
Codes  == {"none", "ok", "NotFound", "HttpError", "TimedOut", "MalformedResponse",
           "MirrorNodeError"}
Statuses == {NoStatus} \cup {p.status : p \in Responses}

(* What the constructors of client and gate let through; fetch() gives no  *)
(* response without a status.                                              *)
ClientOptionsValid == MaxRetries \in Nat

ASSUME TransportAssumption ==
    /\ ClientOptionsValid
    /\ Gate!GateOptionsValid /\ MaxTime \in Nat /\ IsFiniteSet(Requests)
    /\ ViaView \subseteq Requests
    /\ BackoffCap \in Nat
    /\ \A p \in Responses : /\ p.status \in Nat \ {NoStatus}
                            /\ p.retryAfter \in {"none", "short", "long"}

(* stage     where the request stands                                      *)
(* attempts  telemetry.attempts     seen   telemetry.status                *)
(* resp      the response of the current attempt                           *)
(* timer     the abort timer of the current attempt: off, armed or fired   *)
(* wake      when the backoff sleep ends                                   *)
(* retries   onRetry events                                                *)
(* result    what the transport promise settles with: code and status      *)
(* event     the onRequestEnd event                                        *)
Fresh == [stage |-> "idle", attempts |-> 0, seen |-> NoStatus, resp |-> NoResponse,
          timer |-> "off", wake |-> 0, retries |-> 0,
          result |-> [code |-> "none", status |-> NoStatus],
          event |-> [code |-> "none", status |-> NoStatus, attempts |-> 0]]

Init == Gate!Init /\ req = [r \in Requests |-> Fresh]

At(r, stage) == req[r].stage = stage

-----------------------------------------------------------------------------
(* request(): onRequestStart, then the gate, synchronously.                *)
Request(r) ==
    /\ At(r, "idle")
    /\ req' = [req EXCEPT ![r].stage = "gated"]
    /\ Gate!Acquire(r)

Resume(r) == Gate!Resume(r) /\ UNCHANGED req

(* The head of fetchWithRetry: count the attempt, arm the timer, fetch.    *)
Attempted(q) == [q EXCEPT !.stage = "fetch", !.attempts = @ + 1, !.timer = "armed",
                          !.resp = NoResponse]

(* acquire() returned: the task starts with its first attempt.             *)
Begin(r) ==
    /\ At(r, "gated")
    /\ Gate!Begin(r)
    /\ req' = [req EXCEPT ![r] = Attempted(@)]

(* Faulty: a failed body read rejects past the finally that releases.      *)
SettleKeepingSlot(r, q, code, status) ==
    /\ req' = [req EXCEPT ![r] = [q EXCEPT !.stage = "settled",
                                           !.result = [code |-> code, status |-> status]]]
    /\ IF code = "MirrorNodeError" THEN UNCHANGED gateVars ELSE Gate!Finish(r)

(* fetchWithRetry settles and run() releases the slot.                     *)
Settle(r, q, code, status) ==
    /\ req' = [req EXCEPT ![r] = [q EXCEPT !.stage = "settled",
                                           !.result = [code |-> code, status |-> status]]]
    /\ Gate!Finish(r)

-----------------------------------------------------------------------------
(* Faulty: the first attempt not counted, and counted twice.               *)
OneRetryTooMany(r) == req[r].attempts - 1 <= MaxRetries
OneRetryTooFew(r)  == req[r].attempts < MaxRetries

(* attempt < this.maxRetries, with attempt counted from 0.                 *)
RetriesLeft(r) == req[r].attempts - 1 < MaxRetries

RetryableStatus(r, s) == \/ s = 429
                         \/ s >= 500 /\ s # 501
                         \/ r \in ViaView /\ s = 404

(* Math.min of the doubled base and the cap, attempt counted from 0.       *)
BackoffTicks(attempt) == LET base == 2 ^ attempt
                         IN  IF base \in 0..BackoffCap THEN base ELSE BackoffCap

(* onRetry, then the sleep before the next attempt.                        *)
BackOff(r, ticks) ==
    [req[r] EXCEPT !.stage = "backoff", !.wake = now + ticks, !.retries = @ + 1,
                   !.timer = "off"]

(* The response's headers arrived with a status worth another attempt.     *)
HeadersRetry(r) ==
    /\ At(r, "fetch")
    /\ \E p \in Responses :
          /\ RetryableStatus(r, p.status) /\ p.retryAfter # "long" /\ RetriesLeft(r)
          /\ req' = [req EXCEPT ![r].stage = "cancel", ![r].resp = p, ![r].timer = "off"]
    /\ UNCHANGED gateVars

(* Faulty: the timer is cleared once the headers are in.                   *)
HeadersFinalDisarmed(r) ==
    /\ At(r, "fetch")
    /\ \E p \in Responses :
          /\ ~(RetryableStatus(r, p.status) /\ p.retryAfter # "long" /\ RetriesLeft(r))
          /\ req' = [req EXCEPT ![r].stage = IF Ok(p.status) THEN "body" ELSE "errorBody",
                                ![r].resp = p,
                                ![r].timer = "off",
                                ![r].seen = IF Ok(p.status) THEN p.status ELSE @]
    /\ UNCHANGED gateVars

(* The headers arrived with any other answer: its body is read, under the  *)
(* timer that is still armed.                                              *)
HeadersFinal(r) ==
    /\ At(r, "fetch")
    /\ \E p \in Responses :
          /\ ~(RetryableStatus(r, p.status) /\ p.retryAfter # "long" /\ RetriesLeft(r))
          /\ req' = [req EXCEPT ![r].stage = IF Ok(p.status) THEN "body" ELSE "errorBody",
                                ![r].resp = p,
                                ![r].seen = IF Ok(p.status) THEN p.status ELSE @]
    /\ UNCHANGED gateVars

(* fetch() rejected because the abort timer fired.                         *)
HeaderTimeout(r) ==
    /\ At(r, "fetch") /\ req[r].timer = "armed"
    /\ \/ /\ RetriesLeft(r)
          /\ req' = [req EXCEPT ![r] = BackOff(r, BackoffTicks(req[r].attempts - 1))]
          /\ UNCHANGED gateVars
       \/ /\ ~RetriesLeft(r)
          /\ Settle(r, [req[r] EXCEPT !.timer = "fired"], "TimedOut", NoStatus)

(* fetch() rejected for any other reason: surfaced at once.                *)
NetworkError(r) ==
    /\ At(r, "fetch")
    /\ Settle(r, [req[r] EXCEPT !.timer = "off"], "MirrorNodeError", NoStatus)

(* body.cancel() settled, either way; Retry-After wins over the backoff.   *)
Cancelled(r) ==
    /\ At(r, "cancel")
    /\ req' = [req EXCEPT ![r] = BackOff(r, IF req[r].resp.retryAfter = "short" THEN 0
                                            ELSE BackoffTicks(req[r].attempts - 1))]
    /\ UNCHANGED gateVars

Retry(r) ==
    /\ At(r, "backoff")
    /\ now >= req[r].wake
    /\ req' = [req EXCEPT ![r] = Attempted(@)]
    /\ UNCHANGED gateVars

-----------------------------------------------------------------------------
(* The body of a 2xx answer arrived, and is or is not JSON.                *)
BodyRead(r) ==
    /\ At(r, "body")
    /\ \/ Settle(r, [req[r] EXCEPT !.timer = "off"], "ok", NoStatus)
       \/ Settle(r, [req[r] EXCEPT !.timer = "off"], "MalformedResponse", req[r].resp.status)

(* The connection dropped inside the body.                                 *)
BodyDropped(r) ==
    /\ At(r, "body")
    /\ Settle(r, [req[r] EXCEPT !.timer = "off"], "MirrorNodeError", req[r].resp.status)

BodyTimeout(r) ==
    /\ At(r, "body") /\ req[r].timer = "armed"
    /\ Settle(r, [req[r] EXCEPT !.timer = "fired"], "TimedOut", NoStatus)

ErrorCodeOf(s) == IF s = 404 THEN "NotFound" ELSE "HttpError"

(* readErrorDetail() read the error body, or gave up on a dropped one.     *)
ErrorBodyRead(r) ==
    /\ At(r, "errorBody")
    /\ Settle(r, [req[r] EXCEPT !.timer = "off"],
              ErrorCodeOf(req[r].resp.status), req[r].resp.status)

(* The timer fired inside readErrorDetail(), whose catch swallows it.      *)
ErrorBodyTimeout(r) ==
    /\ At(r, "errorBody") /\ req[r].timer = "armed"
    /\ Settle(r, [req[r] EXCEPT !.timer = "fired"],
              ErrorCodeOf(req[r].resp.status), req[r].resp.status)

(* Faulty: only the error's own status is reported.                        *)
EndStatusOfErrorOnly(q) == q.result.status

(* The status of the end event: the error's, else what telemetry saw.      *)
EndStatus(q) == IF q.result.status # NoStatus THEN q.result.status ELSE q.seen

(* end(): exactly one onRequestEnd, after the transport promise settled.   *)
End(r) ==
    /\ At(r, "settled")
    /\ req' = [req EXCEPT ![r].stage = "ended",
                          ![r].event = [code |-> req[r].result.code,
                                        status |-> EndStatus(req[r]),
                                        attempts |-> req[r].attempts]]
    /\ UNCHANGED gateVars

Tick ==
    /\ \/ now < MaxTime
       \/ \E r \in Requests : \/ At(r, "gated") /\ phase[r] = "sleeping" /\ now < due[r]
                              \/ At(r, "backoff") /\ now < req[r].wake
    /\ now' = now + 1
    /\ UNCHANGED <<active, waiters, nextStartAt, phase, due, req>>

Abort(r) == HeaderTimeout(r) \/ BodyTimeout(r) \/ ErrorBodyTimeout(r)

Next == \/ \E r \in Requests :
              \/ Request(r) \/ Resume(r) \/ Begin(r)
              \/ HeadersRetry(r) \/ HeadersFinal(r) \/ NetworkError(r)
              \/ Cancelled(r) \/ Retry(r)
              \/ BodyRead(r) \/ BodyDropped(r) \/ ErrorBodyRead(r)
              \/ Abort(r)
              \/ End(r)
        \/ Tick

(***************************************************************************)
(* Fairness: continuations and timers run, the abort timer among them;     *)
(* cancelling a body settles.  The node owes nothing: no fairness on any   *)
(* answer, so it may stall every fetch and every body for ever.            *)
(***************************************************************************)
Fairness == /\ WF_vars(Tick)
            /\ \A r \in Requests :
                  /\ WF_vars(Resume(r)) /\ WF_vars(Begin(r))
                  /\ WF_vars(Cancelled(r)) /\ WF_vars(Retry(r))
                  /\ WF_vars(Abort(r)) /\ WF_vars(End(r))

Spec == Init /\ [][Next]_vars /\ Fairness

-----------------------------------------------------------------------------
TypeOK ==
    /\ Gate!TypeOK
    /\ req \in [Requests ->
          [stage : Stages, attempts : 0..(MaxRetries + 1), seen : Statuses,
           resp : Responses \cup {NoResponse}, timer : {"off", "armed", "fired"},
           wake : Nat, retries : 0..MaxRetries,
           result : [code : Codes, status : Statuses],
           event : [code : Codes, status : Statuses, attempts : 0..(MaxRetries + 1)]]]

Settled(r) == req[r].stage \in {"settled", "ended"}

(* A logical request owns a slot exactly while its retry loop runs: the    *)
(* slot is back as soon as the loop settles, on every path, and a retry    *)
(* never runs on a slot already given away.                                *)
OneSlotPerRequest ==
    \A r \in Requests : /\ phase[r] = "running" <=>
                              req[r].stage \in {"fetch", "cancel", "backoff", "body", "errorBody"}
                        /\ phase[r] = "done" <=> Settled(r)

(* The statuses a later attempt may not meet again.                        *)
Transient == {429} \cup (500..599 \ {501})

(* The outcome is the last attempt's: success only for a 2xx, NotFound     *)
(* only for a 404, and a 404 on the retrying view, or a transient status   *)
(* that did not ask to wait too long, only once the budget is spent.       *)
OutcomeIsFinalAttempts ==
    \A r \in Requests : Settled(r) =>
        LET q == req[r] IN
        /\ q.result.code \in {"ok", "MalformedResponse"} => Ok(q.resp.status)
        /\ q.result.code = "NotFound" => q.resp.status = 404
        /\ q.result.code = "HttpError" => q.resp.status \notin {NoStatus, 404} /\ ~Ok(q.resp.status)
        /\ q.result.code \in {"NotFound", "HttpError"} =>
              \/ q.attempts = MaxRetries + 1
              \/ q.resp.retryAfter = "long"
              \/ q.resp.status \notin Transient \cup {404}
              \/ q.resp.status = 404 /\ r \notin ViaView

(* The end event agrees with the promise: an errorCode exactly when it     *)
(* rejects, the status of the last attempt whenever that attempt got a     *)
(* response, and one attempt more than the retries announced.              *)
EndEventTellsOutcome ==
    \A r \in Requests : At(r, "ended") =>
        LET q == req[r] IN
        /\ q.event.code = q.result.code
        /\ q.event.status = q.resp.status
        /\ q.event.attempts = q.retries + 1

(* Whatever the node does or fails to do, a request that entered the       *)
(* client ends, its observer told, and so does every request behind it.    *)
EveryRequestEnds == \A r \in Requests : At(r, "gated") ~> At(r, "ended")
=============================================================================
