------------------------ MODULE MirrorTransportProofs ------------------------
(***************************************************************************)
(* Theorems about MirrorTransport, for any requests, any view, any         *)
(* retries, any answers of the node and any options of the gate.           *)
(*                                                                         *)
(* The gate's invariant (RequestGateProofs) is carried over by composition:*)
(* a step of the transport is a step of its gate or leaves it alone.  On   *)
(* top of it, Sound says for each request what its stage implies of its    *)
(* phase in the gate, of its counters and of the answer it holds; it is    *)
(* inductive for one request as long as no other request's step moves its  *)
(* phase, but for the handoff of a slot, which only a queued request sees. *)
(***************************************************************************)
EXTENDS MirrorTransport, TLAPS

GateProofs == INSTANCE RequestGateProofs

Looping == {"fetch", "cancel", "backoff", "body", "errorBody"}

ReqType == [stage : Stages, attempts : 0..(MaxRetries + 1), seen : Statuses,
            resp : Responses \cup {NoResponse}, timer : {"off", "armed", "fired"},
            wake : Nat, retries : 0..MaxRetries,
            result : [code : Codes, status : Statuses],
            event : [code : Codes, status : Statuses, attempts : 0..(MaxRetries + 1)]]

(* The stage of a request and where it stands in the gate.                 *)
StageFitsPhase(q, p) ==
    /\ p = "idle"    <=> q.stage = "idle"
    /\ p \in {"queued", "handed", "sleeping"} <=> q.stage = "gated"
    /\ p = "running" <=> q.stage \in Looping
    /\ p = "done"    <=> q.stage \in {"settled", "ended"}

(* One attempt more than the retries, but before the first and between two;*)
(* a retry is under way only within the budget.                            *)
CountersFit(q) ==
    /\ q.stage \in {"idle", "gated"} => q.attempts = 0 /\ q.retries = 0
    /\ q.stage = "backoff" => q.retries = q.attempts
    /\ q.stage \notin {"idle", "gated", "backoff"} => q.attempts = q.retries + 1
    /\ q.stage = "cancel" => q.attempts <= MaxRetries

(* An answer that the loop did not throw away although it might have.      *)
Final(r, q) == \/ q.attempts = MaxRetries + 1
               \/ q.resp.retryAfter = "long"
               \/ q.resp.status \notin Transient \cup {404}
               \/ q.resp.status = 404 /\ r \notin ViaView

(* What a request remembers of the answer to its current attempt.          *)
AnswerFits(r, q) ==
    /\ q.stage \in {"idle", "gated", "fetch", "cancel", "backoff"} => q.seen = NoStatus
    /\ q.stage \in {"idle", "gated", "fetch"} => q.resp = NoResponse
    /\ q.stage = "body" => q.seen = q.resp.status /\ Ok(q.resp.status)
    /\ q.stage = "errorBody" => /\ q.seen = NoStatus /\ q.resp.status # NoStatus
                                /\ ~Ok(q.resp.status) /\ Final(r, q)

(* What a settled request told its caller, and an ended one its observer.  *)
OutcomeFits(r, q) ==
    /\ q.stage \in {"settled", "ended"} =>
          /\ EndStatus(q) = q.resp.status
          /\ q.result.code \in {"ok", "MalformedResponse"} => Ok(q.resp.status)
          /\ q.result.code = "NotFound" => q.resp.status = 404
          /\ q.result.code = "HttpError" => q.resp.status \notin {NoStatus, 404} /\ ~Ok(q.resp.status)
          /\ q.result.code \in {"NotFound", "HttpError"} => Final(r, q)
    /\ q.stage = "ended" =>
          /\ q.event.code = q.result.code
          /\ q.event.status = q.resp.status
          /\ q.event.attempts = q.retries + 1

Sound(r, q, p) == /\ q \in ReqType
                  /\ StageFitsPhase(q, p)
                  /\ CountersFit(q)
                  /\ AnswerFits(r, q)
                  /\ OutcomeFits(r, q)

ReqInv == /\ req \in [Requests -> ReqType]
          /\ \A r \in Requests : Sound(r, req[r], phase[r])

IInv == GateProofs!IInv /\ ReqInv

-----------------------------------------------------------------------------
(* The gate's own invariant, carried over.                                 *)

(* What RequestGate assumes of its constants holds here.                   *)
LEMMA GateAssumed ==
    /\ GateProofs!GateOptionsValid
    /\ MaxTime \in Nat
    /\ GateProofs!IsFiniteSet(Requests)
<1>1. Gate!GateOptionsValid /\ MaxTime \in Nat /\ IsFiniteSet(Requests)
      BY TransportAssumption DEF TransportAssumption
<1>2. GateProofs!IsFiniteSet(Requests)
      BY <1>1, Zenon DEF IsFiniteSet, GateProofs!IsFiniteSet
<1> QED BY <1>1, <1>2 DEF Gate!GateOptionsValid, GateProofs!GateOptionsValid

(* Its parts under the names MirrorTransport has for them.                 *)
LEMMA GateParts ==
    /\ GateProofs!IInv => Gate!TypeOK
    /\ GateProofs!IInv => Gate!SlotDiscipline
    /\ GateProofs!IInv => Gate!ReservationSpacing
<1>1. GateProofs!IInv => Gate!TypeOK
      BY DEF GateProofs!IInv, GateProofs!TypeOK, GateProofs!Phase, Gate!TypeOK, Gate!Phase
<1>2. \A S : GateProofs!Cardinality(S) = Gate!Cardinality(S)
      BY Zenon DEF GateProofs!Cardinality, Gate!Cardinality
<1>3. GateProofs!IInv => Gate!SlotDiscipline
      BY <1>2, Zenon DEF GateProofs!IInv, GateProofs!SlotDiscipline,
         GateProofs!ActiveCountsHolders, GateProofs!CapRespected,
         GateProofs!WaitersAreQueued, GateProofs!NoIdleSlot, GateProofs!Holders,
         GateProofs!HoldsSlot, Gate!SlotDiscipline, Gate!ActiveCountsHolders,
         Gate!CapRespected, Gate!WaitersAreQueued, Gate!NoIdleSlot, Gate!Holders,
         Gate!HoldsSlot
<1>4. GateProofs!IInv => Gate!ReservationSpacing
      BY Zenon DEF GateProofs!IInv, GateProofs!ReservationSpacing, GateProofs!Reserved,
         Gate!ReservationSpacing, Gate!Reserved
<1> QED BY <1>1, <1>3, <1>4

(* A step of the gate, or one that leaves it alone, keeps its invariant.   *)
LEMMA GateStep ==
    ASSUME GateProofs!IInv,
           \/ \E r \in Requests : Gate!Acquire(r) \/ Gate!Resume(r) \/ Gate!Begin(r) \/ Gate!Finish(r)
           \/ UNCHANGED gateVars
    PROVE  GateProofs!IInv'
<1>1. ASSUME NEW r \in Requests, Gate!Acquire(r) PROVE GateProofs!Acquire(r)
      BY <1>1 DEF Gate!Acquire, Gate!AcquireFree, Gate!AcquireQueue, Gate!Full,
         Gate!Reserve, Gate!StartAt, GateProofs!Acquire, GateProofs!AcquireFree,
         GateProofs!AcquireQueue, GateProofs!Full, GateProofs!Reserve, GateProofs!StartAt
<1>2. ASSUME NEW r \in Requests, Gate!Resume(r) PROVE GateProofs!Resume(r)
      BY <1>2 DEF Gate!Resume, Gate!Reserve, Gate!StartAt,
         GateProofs!Resume, GateProofs!Reserve, GateProofs!StartAt
<1>3. ASSUME NEW r \in Requests, Gate!Begin(r) PROVE GateProofs!Begin(r)
      BY <1>3 DEF Gate!Begin, GateProofs!Begin
<1>4. ASSUME NEW r \in Requests, Gate!Finish(r) PROVE GateProofs!Finish(r)
      BY <1>4 DEF Gate!Finish, Gate!Release, GateProofs!Finish, GateProofs!Release
<1>5. [GateProofs!Next]_(GateProofs!vars)
      BY <1>1, <1>2, <1>3, <1>4 DEF GateProofs!Next, GateProofs!vars, gateVars
<1> QED BY <1>5, GateAssumed, GateProofs!NextIInv, Zenon

(* The clock may run on for a backoff when it would not for the gate.      *)
LEMMA TickKeepsGate ==
    ASSUME GateProofs!IInv, Tick PROVE GateProofs!IInv'
<1>1. /\ now' = now + 1
      /\ UNCHANGED <<active, waiters, nextStartAt, phase, due>>
      BY DEF Tick
<1>2. GateProofs!TypeOK' BY <1>1 DEF GateProofs!IInv, GateProofs!TypeOK
<1>3. GateProofs!SlotDiscipline'
      BY <1>1 DEF GateProofs!IInv, GateProofs!SlotDiscipline,
         GateProofs!ActiveCountsHolders, GateProofs!CapRespected,
         GateProofs!WaitersAreQueued, GateProofs!NoIdleSlot, GateProofs!Holders
<1>4. GateProofs!ReservedBeforeNext' /\ GateProofs!ReservationSpacing'
      BY <1>1 DEF GateProofs!IInv, GateProofs!ReservedBeforeNext,
         GateProofs!ReservationSpacing
<1> QED BY <1>2, <1>3, <1>4 DEF GateProofs!IInv

-----------------------------------------------------------------------------
(* The requests.                                                           *)

(* A response has a status, so it is not the absence of one.               *)
LEMMA AnswersTyped ==
    /\ MaxRetries \in Nat /\ BackoffCap \in Nat
    /\ NoResponse.status = NoStatus /\ NoResponse.retryAfter = "none"
    /\ NoStatus \in Statuses
    /\ \A p \in Responses : /\ p.status \in Statuses /\ p.status \in Nat
                            /\ p.status # NoStatus
BY TransportAssumption DEF TransportAssumption, ClientOptionsValid, NoResponse, NoStatus, Statuses

(* One request moves, the others stay or, queued, are handed a slot.       *)
LEMMA OneMoves ==
    ASSUME ReqInv, NEW r \in Requests, NEW q,
           req' = [req EXCEPT ![r] = q], Sound(r, q, phase'[r]),
           \A s \in Requests \ {r} : \/ phase'[s] = phase[s]
                                     \/ phase[s] = "queued" /\ phase'[s] = "handed"
    PROVE  ReqInv'
<1>1. req' \in [Requests -> ReqType] BY DEF ReqInv, Sound
<1>2. ASSUME NEW s \in Requests, s # r PROVE Sound(s, req'[s], phase'[s])
  <2>1. req'[s] = req[s] /\ Sound(s, req[s], phase[s]) BY <1>2 DEF ReqInv
  <2>2. StageFitsPhase(req[s], phase'[s])
        BY <1>2, <2>1 DEF Sound, StageFitsPhase
  <2> QED BY <2>1, <2>2 DEF Sound
<1>3. req'[r] = q BY DEF ReqInv
<1> QED BY <1>1, <1>2, <1>3 DEF ReqInv

(* What the gate's steps do to the phases.                                 *)
LEMMA FinishMovesPhases ==
    ASSUME GateProofs!IInv, NEW r \in Requests, Gate!Finish(r)
    PROVE  /\ phase[r] = "running" /\ phase'[r] = "done" /\ now' = now
           /\ \A s \in Requests \ {r} : \/ phase'[s] = phase[s]
                                        \/ phase[s] = "queued" /\ phase'[s] = "handed"
<1>0. Gate!TypeOK /\ Gate!SlotDiscipline BY GateParts
<1>1. phase[r] = "running" /\ now' = now BY DEF Gate!Finish
<1>2. CASE waiters = <<>>
  <2>1. phase' = [phase EXCEPT ![r] = "done"] BY <1>2 DEF Gate!Finish, Gate!Release
  <2> QED BY <1>0, <1>1, <2>1 DEF Gate!TypeOK
<1>3. CASE waiters # <<>>
  <2> DEFINE w == Head(waiters)
  <2>1. phase' = [phase EXCEPT ![r] = "done", ![w] = "handed"]
        BY <1>3 DEF Gate!Finish, Gate!Release
  <2>2. Len(waiters) \in Nat \ {0} /\ w = waiters[1] /\ w \in Requests
        BY <1>0, <1>3 DEF Gate!TypeOK
  <2>3. phase[w] = "queued"
        BY <1>0, <2>2 DEF Gate!SlotDiscipline, Gate!WaitersAreQueued
  <2> QED BY <1>0, <1>1, <2>1, <2>2, <2>3 DEF Gate!TypeOK
<1> QED BY <1>2, <1>3

-----------------------------------------------------------------------------
LEMMA RequestSound ==
    ASSUME IInv, NEW r \in Requests, Request(r) PROVE ReqInv'
<1> DEFINE q == [req[r] EXCEPT !.stage = "gated"]
<1>1. req[r] \in ReqType /\ Sound(r, req[r], phase[r]) /\ Gate!TypeOK
      BY GateParts DEF IInv, ReqInv
<1>2. req' = [req EXCEPT ![r] = q] /\ req[r].stage = "idle"
      BY DEF Request, At, IInv, ReqInv, ReqType
<1>3. /\ phase'[r] \in {"sleeping", "queued"}
      /\ \A s \in Requests \ {r} : phase'[s] = phase[s]
      BY <1>1 DEF Request, Gate!Acquire, Gate!AcquireFree, Gate!AcquireQueue,
         Gate!Reserve, Gate!TypeOK
<1>4. Sound(r, q, phase'[r])
      BY <1>1, <1>2, <1>3 DEF Sound, ReqType, Stages, StageFitsPhase, Looping,
         CountersFit, AnswerFits, OutcomeFits
<1> QED BY <1>2, <1>3, <1>4, OneMoves DEF IInv

(* The head of the loop, entered from the gate or from a backoff: one      *)
(* attempt more than retries again, and nothing remembered.                *)
LEMMA AttemptedFits ==
    ASSUME NEW r \in Requests, NEW q \in ReqType, q.stage \in {"gated", "backoff"},
           CountersFit(q), AnswerFits(r, q)
    PROVE  /\ Attempted(q) \in ReqType /\ Attempted(q).stage = "fetch"
           /\ CountersFit(Attempted(q)) /\ AnswerFits(r, Attempted(q))
<1>1. q.attempts = q.retries BY DEF CountersFit
<1>2. q.attempts \in 0..MaxRetries /\ q.attempts + 1 \in 0..(MaxRetries + 1)
      BY <1>1, AnswersTyped DEF ReqType
<1>3. q.seen = NoStatus BY DEF AnswerFits
<1>4. Attempted(q) \in ReqType
      BY <1>2 DEF Attempted, ReqType, Stages
<1>5. /\ Attempted(q).stage = "fetch" /\ Attempted(q).attempts = q.retries + 1
      /\ Attempted(q).retries = q.retries
      /\ Attempted(q).seen = NoStatus /\ Attempted(q).resp = NoResponse
      BY <1>1, <1>3 DEF Attempted, ReqType
<1> QED BY <1>4, <1>5 DEF CountersFit, AnswerFits

LEMMA BeginSound ==
    ASSUME IInv, NEW r \in Requests, Begin(r) PROVE ReqInv'
<1> DEFINE q == Attempted(req[r])
<1>1. req[r] \in ReqType /\ Sound(r, req[r], phase[r]) /\ Gate!TypeOK
      BY GateParts DEF IInv, ReqInv
<1>2. req' = [req EXCEPT ![r] = q] /\ req[r].stage = "gated"
      BY DEF Begin, At, IInv, ReqInv
<1>3. /\ phase'[r] = "running"
      /\ \A s \in Requests \ {r} : phase'[s] = phase[s]
      BY <1>1 DEF Begin, Gate!Begin, Gate!TypeOK
<1>4. q \in ReqType /\ q.stage = "fetch" /\ CountersFit(q) /\ AnswerFits(r, q)
      BY <1>1, <1>2, AttemptedFits DEF Sound
<1>5. StageFitsPhase(q, phase'[r]) /\ OutcomeFits(r, q)
      BY <1>3, <1>4 DEF StageFitsPhase, Looping, OutcomeFits
<1>6. Sound(r, q, phase'[r]) BY <1>4, <1>5 DEF Sound
<1> QED BY <1>2, <1>3, <1>6, OneMoves DEF IInv

LEMMA ResumeSound ==
    ASSUME IInv, NEW r \in Requests, Resume(r) PROVE ReqInv'
<1>1. Sound(r, req[r], phase[r]) /\ Gate!TypeOK
      BY GateParts DEF IInv, ReqInv
<1>2. /\ req' = [req EXCEPT ![r] = req[r]]
      /\ phase[r] = "handed" /\ phase'[r] = "sleeping"
      /\ \A s \in Requests \ {r} : phase'[s] = phase[s]
      BY <1>1 DEF Resume, Gate!Resume, Gate!Reserve, Gate!TypeOK, IInv, ReqInv
<1>3. Sound(r, req[r], phase'[r])
      BY <1>1, <1>2 DEF Sound, StageFitsPhase
<1> QED BY <1>2, <1>3, OneMoves DEF IInv

(* Every step inside the loop: the gate is left alone.                     *)
LEMMA LoopStepSound ==
    ASSUME IInv, NEW r \in Requests, NEW q \in ReqType,
           req' = [req EXCEPT ![r] = q], UNCHANGED gateVars,
           req[r].stage \in Looping, q.stage \in Looping,
           CountersFit(q), AnswerFits(r, q)
    PROVE  ReqInv'
<1>1. Sound(r, req[r], phase[r]) /\ phase' = phase
      BY DEF IInv, ReqInv, gateVars
<1>2. Sound(r, q, phase'[r])
      BY <1>1 DEF Sound, StageFitsPhase, Looping, OutcomeFits
<1> QED BY <1>1, <1>2, OneMoves DEF IInv

-----------------------------------------------------------------------------
(* The steps of the loop.                                                  *)
LEMMA HeadersRetrySound ==
    ASSUME IInv, NEW r \in Requests, HeadersRetry(r) PROVE ReqInv'
<1>1. PICK p \in Responses :
         /\ RetriesLeft(r)
         /\ req' = [req EXCEPT ![r].stage = "cancel", ![r].resp = p, ![r].timer = "off"]
      BY DEF HeadersRetry
<1> DEFINE q == [req[r] EXCEPT !.stage = "cancel", !.resp = p, !.timer = "off"]
<1>2. /\ req[r] \in ReqType /\ req[r].stage = "fetch"
      /\ CountersFit(req[r]) /\ AnswerFits(r, req[r])
      BY DEF HeadersRetry, At, IInv, ReqInv, Sound
<1>3. req' = [req EXCEPT ![r] = q] BY <1>1, <1>2 DEF IInv, ReqInv, ReqType
<1>4. q \in ReqType BY <1>2 DEF ReqType, Stages
<1>5. /\ q.stage = "cancel" /\ q.attempts = req[r].attempts /\ q.retries = req[r].retries
      /\ q.seen = req[r].seen
      BY <1>2 DEF ReqType
<1>6. req[r].attempts <= MaxRetries
      BY <1>1, <1>2, AnswersTyped DEF RetriesLeft, ReqType
<1>7. CountersFit(q) /\ AnswerFits(r, q)
      BY <1>2, <1>5, <1>6 DEF CountersFit, AnswerFits
<1> QED BY <1>2, <1>3, <1>4, <1>5, <1>7, LoopStepSound DEF HeadersRetry, Looping

(* What is not worth another attempt is final.                             *)
LEMMA NotRetriedIsFinal ==
    ASSUME NEW r \in Requests, NEW p \in Responses, req[r] \in ReqType,
           ~(RetryableStatus(r, p.status) /\ p.retryAfter # "long" /\ RetriesLeft(r)),
           NEW q, q.attempts = req[r].attempts, q.resp = p
    PROVE  Final(r, q)
<1>1. p.status \in Nat /\ MaxRetries \in Nat BY AnswersTyped
<1>2. CASE p.retryAfter = "long" BY <1>2 DEF Final
<1>3. CASE ~RetriesLeft(r)
      BY <1>1, <1>3 DEF RetriesLeft, ReqType, Final
<1>4. CASE ~RetryableStatus(r, p.status)
      BY <1>1, <1>4 DEF RetryableStatus, Final, Transient
<1> QED BY <1>2, <1>3, <1>4

LEMMA HeadersFinalSound ==
    ASSUME IInv, NEW r \in Requests, HeadersFinal(r) PROVE ReqInv'
<1>1. PICK p \in Responses :
         /\ ~(RetryableStatus(r, p.status) /\ p.retryAfter # "long" /\ RetriesLeft(r))
         /\ req' = [req EXCEPT ![r].stage = IF Ok(p.status) THEN "body" ELSE "errorBody",
                               ![r].resp = p,
                               ![r].seen = IF Ok(p.status) THEN p.status ELSE @]
      BY DEF HeadersFinal
<1> DEFINE q == [req[r] EXCEPT !.stage = IF Ok(p.status) THEN "body" ELSE "errorBody",
                               !.resp = p,
                               !.seen = IF Ok(p.status) THEN p.status ELSE @]
<1>2. /\ req[r] \in ReqType /\ req[r].stage = "fetch"
      /\ CountersFit(req[r]) /\ AnswerFits(r, req[r])
      BY DEF HeadersFinal, At, IInv, ReqInv, Sound
<1>3. req' = [req EXCEPT ![r] = q] BY <1>1, <1>2 DEF IInv, ReqInv, ReqType
<1>4. q \in ReqType BY <1>2, AnswersTyped DEF ReqType, Stages
<1>5. /\ q.stage = (IF Ok(p.status) THEN "body" ELSE "errorBody")
      /\ q.attempts = req[r].attempts /\ q.retries = req[r].retries
      /\ q.resp = p /\ q.seen = (IF Ok(p.status) THEN p.status ELSE req[r].seen)
      BY <1>2 DEF ReqType
<1> HIDE DEF q
<1>6. Final(r, q) BY <1>1, <1>2, <1>5, NotRetriedIsFinal
<1>7. CountersFit(q) BY <1>2, <1>5 DEF CountersFit
<1>8. AnswerFits(r, q) BY <1>2, <1>5, <1>6, AnswersTyped DEF AnswerFits
<1> QED BY <1>2, <1>3, <1>4, <1>5, <1>7, <1>8, LoopStepSound DEF HeadersFinal, Looping

(* onRetry is told and the sleep begins: one retry more, within the budget.*)
LEMMA BackOffFits ==
    ASSUME IInv, NEW r \in Requests, NEW ticks \in Nat,
           req[r].stage \in {"fetch", "cancel"}, req[r].attempts <= MaxRetries,
           req' = [req EXCEPT ![r] = BackOff(r, ticks)], UNCHANGED gateVars
    PROVE  ReqInv'
<1> DEFINE q == BackOff(r, ticks)
<1>1. /\ req[r] \in ReqType /\ CountersFit(req[r]) /\ AnswerFits(r, req[r])
      /\ now \in Nat
      BY GateParts DEF IInv, ReqInv, Sound, Gate!TypeOK
<1>2. /\ req[r].attempts = req[r].retries + 1 /\ req[r].seen = NoStatus
      /\ req[r].retries + 1 \in 0..MaxRetries
      BY <1>1, AnswersTyped DEF CountersFit, AnswerFits, ReqType
<1>3. q \in ReqType
  <2>1. now + ticks \in Nat BY <1>1
  <2> QED BY <1>1, <1>2, <2>1 DEF BackOff, ReqType, Stages
<1>4. /\ q.stage = "backoff" /\ q.attempts = req[r].attempts
      /\ q.retries = req[r].retries + 1 /\ q.seen = req[r].seen
      BY <1>1 DEF BackOff, ReqType
<1>5. CountersFit(q) /\ AnswerFits(r, q)
      BY <1>2, <1>4 DEF CountersFit, AnswerFits
<1> QED BY <1>3, <1>4, <1>5, LoopStepSound DEF Looping

LEMMA BackoffTicksType == \A n : BackoffTicks(n) \in Nat
BY AnswersTyped DEF BackoffTicks

LEMMA CancelledSound ==
    ASSUME IInv, NEW r \in Requests, Cancelled(r) PROVE ReqInv'
<1>1. req[r].stage = "cancel" /\ req[r].attempts <= MaxRetries
      BY DEF Cancelled, At, IInv, ReqInv, Sound, CountersFit
<1> DEFINE ticks == IF req[r].resp.retryAfter = "short" THEN 0
                    ELSE BackoffTicks(req[r].attempts - 1)
<1>2. ticks \in Nat BY BackoffTicksType
<1>3. req' = [req EXCEPT ![r] = BackOff(r, ticks)] /\ UNCHANGED gateVars
      BY DEF Cancelled
<1> QED BY <1>1, <1>2, <1>3, BackOffFits

LEMMA RetrySound ==
    ASSUME IInv, NEW r \in Requests, Retry(r) PROVE ReqInv'
<1>1. /\ req[r] \in ReqType /\ req[r].stage = "backoff"
      /\ CountersFit(req[r]) /\ AnswerFits(r, req[r])
      BY DEF Retry, At, IInv, ReqInv, Sound
<1>2. req' = [req EXCEPT ![r] = Attempted(req[r])] /\ UNCHANGED gateVars
      BY DEF Retry, IInv, ReqInv
<1> QED BY <1>1, <1>2, AttemptedFits, LoopStepSound DEF Looping

-----------------------------------------------------------------------------
(* The ways out of the loop.                                               *)

(* What a request may be told, given the answer it holds.                  *)
Allowed(r, q, code, status) ==
    /\ code \in Codes \ {"none"} /\ status \in Statuses
    /\ IF status # NoStatus THEN status = q.resp.status ELSE q.seen = q.resp.status
    /\ code \in {"ok", "MalformedResponse"} => Ok(q.resp.status)
    /\ code = "NotFound" => q.resp.status = 404
    /\ code = "HttpError" => q.resp.status \notin {NoStatus, 404} /\ ~Ok(q.resp.status)
    /\ code \in {"NotFound", "HttpError"} => Final(r, q)

Told(q, t, code, status) ==
    [[q EXCEPT !.timer = t] EXCEPT !.stage = "settled",
                                   !.result = [code |-> code, status |-> status]]

(* Every way out of the loop: the timer is stopped or has fired, the slot  *)
(* is back, and what the request is told is what it may be told.           *)
LEMMA SettleSound ==
    ASSUME IInv, NEW r \in Requests, NEW t \in {"off", "fired"},
           NEW code \in Codes, NEW status \in Statuses,
           req[r].stage \in {"fetch", "body", "errorBody"},
           Gate!Finish(r), req' = [req EXCEPT ![r] = Told(req[r], t, code, status)],
           Allowed(r, req[r], code, status)
    PROVE  ReqInv'
<1> DEFINE q == [req[r] EXCEPT !.timer = t]
           result == [code |-> code, status |-> status]
           p == [q EXCEPT !.stage = "settled", !.result = result]
<1>1. req[r] \in ReqType /\ CountersFit(req[r]) /\ code \in Codes /\ status \in Statuses
      BY DEF IInv, ReqInv, Sound, Allowed
<1>2. /\ q \in ReqType /\ q.attempts = req[r].attempts /\ q.retries = req[r].retries
      /\ q.seen = req[r].seen /\ q.resp = req[r].resp
      BY <1>1 DEF ReqType
<1>3. /\ phase[r] = "running" /\ phase'[r] = "done"
      /\ \A s \in Requests \ {r} : \/ phase'[s] = phase[s]
                                   \/ phase[s] = "queued" /\ phase'[s] = "handed"
      BY FinishMovesPhases DEF IInv
<1>4. req' = [req EXCEPT ![r] = p] BY DEF Told
<1>5. result \in [code : Codes, status : Statuses] /\ result.code = code /\ result.status = status
      BY <1>1
<1> HIDE DEF q, result
<1>6. /\ p \in ReqType /\ p.stage = "settled" /\ p.result = result
      /\ p.attempts = q.attempts /\ p.retries = q.retries
      /\ p.seen = q.seen /\ p.resp = q.resp
      BY <1>2, <1>5 DEF ReqType, Stages
<1> HIDE DEF p
<1>7. StageFitsPhase(p, phase'[r]) BY <1>3, <1>6 DEF StageFitsPhase, Looping
<1>8. CountersFit(p) BY <1>1, <1>2, <1>6 DEF CountersFit
<1>9. AnswerFits(r, p) BY <1>6 DEF AnswerFits
<1>10. Final(r, req[r]) => Final(r, p) BY <1>2, <1>6 DEF Final
<1>11. OutcomeFits(r, p)
       BY <1>2, <1>5, <1>6, <1>10 DEF OutcomeFits, EndStatus, Allowed
<1>12. Sound(r, p, phase'[r]) BY <1>6, <1>7, <1>8, <1>9, <1>11 DEF Sound
<1> QED BY <1>3, <1>4, <1>12, OneMoves DEF IInv

LEMMA TimeoutSound ==
    ASSUME IInv, NEW r \in Requests, HeaderTimeout(r) PROVE ReqInv'
<1>1. /\ req[r].stage = "fetch" /\ req[r] \in ReqType /\ AnswerFits(r, req[r])
      BY DEF HeaderTimeout, At, IInv, ReqInv, Sound
<1>2. CASE RetriesLeft(r) /\ req' = [req EXCEPT ![r] = BackOff(r, BackoffTicks(req[r].attempts - 1))]
                          /\ UNCHANGED gateVars
  <2>1. req[r].attempts <= MaxRetries
        BY <1>1, <1>2, AnswersTyped DEF RetriesLeft, ReqType
  <2>2. BackoffTicks(req[r].attempts - 1) \in Nat BY BackoffTicksType
  <2> QED BY <1>1, <1>2, <2>1, <2>2, BackOffFits
<1>3. CASE /\ Gate!Finish(r)
           /\ req' = [req EXCEPT ![r] = Told(req[r], "fired", "TimedOut", NoStatus)]
  <2>1. Allowed(r, req[r], "TimedOut", NoStatus)
        BY <1>1, AnswersTyped DEF AnswerFits, Allowed, Codes
  <2>2. req[r].stage \in {"fetch", "body", "errorBody"} /\ "fired" \in {"off", "fired"}
        BY <1>1
  <2> QED BY <1>3, <2>1, <2>2, AnswersTyped, SettleSound DEF Allowed
<1> QED BY <1>2, <1>3 DEF HeaderTimeout, Settle, Told

LEMMA NetworkErrorSound ==
    ASSUME IInv, NEW r \in Requests, NetworkError(r) PROVE ReqInv'
<1>1. /\ req[r].stage = "fetch" /\ AnswerFits(r, req[r])
      /\ Gate!Finish(r)
      /\ req' = [req EXCEPT ![r] = Told(req[r], "off", "MirrorNodeError", NoStatus)]
      BY DEF NetworkError, Settle, Told, At, IInv, ReqInv, Sound
<1>2. Allowed(r, req[r], "MirrorNodeError", NoStatus)
      BY <1>1, AnswersTyped DEF AnswerFits, Allowed, Codes
<1>3. req[r].stage \in {"fetch", "body", "errorBody"} /\ "off" \in {"off", "fired"}
      BY <1>1
<1> QED BY <1>1, <1>2, <1>3, AnswersTyped, SettleSound DEF Allowed

LEMMA BodySound ==
    ASSUME IInv, NEW r \in Requests, BodyRead(r) \/ BodyDropped(r) \/ BodyTimeout(r)
    PROVE  ReqInv'
<1>1. req[r].stage = "body" /\ req[r] \in ReqType /\ AnswerFits(r, req[r])
      BY DEF BodyRead, BodyDropped, BodyTimeout, At, IInv, ReqInv, Sound
<1>2. PICK t \in {"off", "fired"}, code \in {"ok", "MalformedResponse", "MirrorNodeError", "TimedOut"},
           status \in {NoStatus, req[r].resp.status} :
              /\ Gate!Finish(r)
              /\ req' = [req EXCEPT ![r] = Told(req[r], t, code, status)]
      BY DEF BodyRead, BodyDropped, BodyTimeout, Settle, Told
<1>3. Allowed(r, req[r], code, status)
      BY <1>1, AnswersTyped DEF AnswerFits, Allowed, Codes, ReqType
<1>4. req[r].stage \in {"fetch", "body", "errorBody"} BY <1>1
<1> QED BY <1>2, <1>3, <1>4, SettleSound DEF Allowed

LEMMA ErrorBodySound ==
    ASSUME IInv, NEW r \in Requests, ErrorBodyRead(r) \/ ErrorBodyTimeout(r)
    PROVE  ReqInv'
<1> DEFINE s == req[r].resp.status
<1>1. req[r].stage = "errorBody" /\ req[r] \in ReqType /\ AnswerFits(r, req[r])
      BY DEF ErrorBodyRead, ErrorBodyTimeout, At, IInv, ReqInv, Sound
<1>2. PICK t \in {"off", "fired"} :
         /\ Gate!Finish(r)
         /\ req' = [req EXCEPT ![r] = Told(req[r], t, ErrorCodeOf(s), s)]
      BY DEF ErrorBodyRead, ErrorBodyTimeout, Settle, Told
<1>3. Allowed(r, req[r], ErrorCodeOf(s), s)
      BY <1>1, AnswersTyped DEF AnswerFits, Allowed, Codes, ErrorCodeOf, ReqType
<1>4. /\ req[r].stage \in {"fetch", "body", "errorBody"}
      /\ ErrorCodeOf(s) \in Codes /\ s \in Statuses
      BY <1>1, <1>3 DEF Allowed
<1> DEFINE code == ErrorCodeOf(s)
<1>5. req' = [req EXCEPT ![r] = Told(req[r], t, code, s)] /\ code \in Codes /\ s \in Statuses
      /\ Allowed(r, req[r], code, s)
      BY <1>2, <1>3, <1>4
<1> HIDE DEF code, s
<1> QED BY <1>2, <1>4, <1>5, SettleSound

LEMMA EndSound ==
    ASSUME IInv, NEW r \in Requests, End(r) PROVE ReqInv'
<1> DEFINE e == [code |-> req[r].result.code, status |-> EndStatus(req[r]),
                 attempts |-> req[r].attempts]
           q == [req[r] EXCEPT !.stage = "ended", !.event = e]
<1>1. req[r] \in ReqType /\ req[r].stage = "settled" /\ Sound(r, req[r], phase[r])
      BY DEF End, At, IInv, ReqInv
<1>2. req' = [req EXCEPT ![r] = q] /\ phase' = phase
      BY <1>1 DEF End, gateVars, IInv, ReqInv, ReqType
<1>3. e \in [code : Codes, status : Statuses, attempts : 0..(MaxRetries + 1)]
      BY <1>1 DEF ReqType, EndStatus
<1>4. q \in ReqType BY <1>1, <1>3 DEF ReqType, Stages
<1>5. /\ q.stage = "ended" /\ q.result = req[r].result /\ q.event = e
      /\ q.seen = req[r].seen /\ q.resp = req[r].resp
      /\ q.attempts = req[r].attempts /\ q.retries = req[r].retries
      BY <1>1 DEF ReqType
<1>6. e.code = req[r].result.code /\ e.status = EndStatus(req[r])
      /\ e.attempts = req[r].attempts
      OBVIOUS
<1> HIDE DEF q, e
<1>7. StageFitsPhase(q, phase'[r]) /\ CountersFit(q) /\ AnswerFits(r, q)
      BY <1>1, <1>2, <1>5 DEF Sound, StageFitsPhase, CountersFit, AnswerFits, Looping
<1>8. EndStatus(q) = q.resp.status /\ e.status = q.resp.status
      BY <1>1, <1>5, <1>6 DEF Sound, OutcomeFits, EndStatus
<1>9. OutcomeFits(r, q)
      BY <1>1, <1>5, <1>6, <1>8 DEF Sound, OutcomeFits, CountersFit, Final
<1> QED BY <1>2, <1>4, <1>7, <1>9, OneMoves DEF Sound, IInv

-----------------------------------------------------------------------------
(* The invariant.                                                          *)
LEMMA InitIInv == Init => IInv
<1> SUFFICES ASSUME Init PROVE IInv OBVIOUS
<1>1. GateProofs!Init BY DEF Init, Gate!Init, GateProofs!Init
<1>2. GateProofs!IInv BY <1>1, GateAssumed, GateProofs!InitIInv, Zenon
<1>3. Fresh \in ReqType
      BY AnswersTyped DEF Fresh, ReqType, Stages, Codes
<1>4. \A r \in Requests : Sound(r, Fresh, "idle")
      BY <1>3, AnswersTyped DEF Sound, Fresh, StageFitsPhase, Looping, CountersFit,
         AnswerFits, OutcomeFits
<1>5. ReqInv BY <1>3, <1>4 DEF Init, Gate!Init, ReqInv
<1> QED BY <1>2, <1>5 DEF IInv

LEMMA NextIInv == IInv /\ [Next]_vars => IInv'
<1> SUFFICES ASSUME IInv, [Next]_vars PROVE IInv' OBVIOUS
<1>1. ASSUME NEW r \in Requests, Request(r) \/ Resume(r) \/ Begin(r) PROVE IInv'
  <2>1. GateProofs!IInv' BY <1>1, GateStep DEF Request, Resume, Begin, IInv
  <2> QED BY <1>1, <2>1, RequestSound, ResumeSound, BeginSound DEF IInv
<1>2. ASSUME NEW r \in Requests,
             HeadersRetry(r) \/ HeadersFinal(r) \/ Cancelled(r) \/ Retry(r) \/ End(r)
      PROVE  IInv'
  <2>1. UNCHANGED gateVars
        BY <1>2 DEF HeadersRetry, HeadersFinal, Cancelled, Retry, End
  <2>2. GateProofs!IInv' BY <2>1, GateStep DEF IInv
  <2> QED BY <1>2, <2>2, HeadersRetrySound, HeadersFinalSound, CancelledSound, RetrySound,
             EndSound DEF IInv
<1>3. ASSUME NEW r \in Requests,
             \/ NetworkError(r) \/ BodyRead(r) \/ BodyDropped(r)
             \/ ErrorBodyRead(r) \/ Abort(r)
      PROVE  IInv'
  <2>1. Gate!Finish(r) \/ UNCHANGED gateVars
        BY <1>3 DEF NetworkError, BodyRead, BodyDropped, ErrorBodyRead, Abort,
           HeaderTimeout, BodyTimeout, ErrorBodyTimeout, Settle
  <2>2. GateProofs!IInv' BY <2>1, GateStep DEF IInv
  <2> QED BY <1>3, <2>2, NetworkErrorSound, BodySound, ErrorBodySound, TimeoutSound
          DEF IInv, Abort
<1>4. CASE Tick
  <2>1. GateProofs!IInv' BY <1>4, TickKeepsGate DEF IInv
  <2>2. ReqInv' BY <1>4 DEF Tick, IInv, ReqInv
  <2> QED BY <2>1, <2>2 DEF IInv
<1>5. CASE UNCHANGED vars
  <2>1. GateProofs!IInv' BY <1>5, GateStep DEF vars, IInv
  <2>2. ReqInv' BY <1>5 DEF vars, gateVars, IInv, ReqInv
  <2> QED BY <2>1, <2>2 DEF IInv
<1> QED BY <1>1, <1>2, <1>3, <1>4, <1>5 DEF Next

(* The inductive invariant holds in every reachable state.                 *)
THEOREM TransportInvariant == Spec => []IInv
BY InitIInv, NextIInv, PTL DEF Spec

(* Every field of a request and of the gate keeps its type; in particular  *)
(* no request makes more than MaxRetries + 1 attempts, whatever the node   *)
(* answers.                                                                *)
THEOREM TransportTypeCorrect == Spec => []TypeOK
<1>1. IInv => TypeOK BY GateParts DEF IInv, ReqInv, ReqType, TypeOK
<1> QED BY <1>1, TransportInvariant, PTL

(* A request owns a slot exactly while its retry loop runs, and the slot   *)
(* is back once it settled, on every path through fetchWithRetry.          *)
THEOREM TransportOneSlotPerRequest == Spec => []OneSlotPerRequest
<1>1. IInv => OneSlotPerRequest
      BY DEF IInv, ReqInv, Sound, StageFitsPhase, Looping, OneSlotPerRequest, Settled
<1> QED BY <1>1, TransportInvariant, PTL

(* Whatever answers came before, the outcome is that of the last attempt,  *)
(* and a status worth a retry is only told when the budget is spent or the *)
(* node asked for too long a wait.                                         *)
THEOREM TransportOutcomeIsFinalAttempts == Spec => []OutcomeIsFinalAttempts
<1>1. IInv => OutcomeIsFinalAttempts
      BY DEF IInv, ReqInv, Sound, OutcomeFits, Final, OutcomeIsFinalAttempts, Settled
<1> QED BY <1>1, TransportInvariant, PTL

(* The observer's end event agrees with the promise on every path.         *)
THEOREM TransportEndEventTellsOutcome == Spec => []EndEventTellsOutcome
<1>1. IInv => EndEventTellsOutcome
      BY DEF IInv, ReqInv, Sound, OutcomeFits, EndEventTellsOutcome, At
<1> QED BY <1>1, TransportInvariant, PTL

(* The gate keeps its promises inside the transport: the retries and       *)
(* timeouts of the requests neither leak a slot nor strand a waiter, and   *)
(* starts stay spaced.                                                     *)
THEOREM TransportKeepsGate == Spec => [](Gate!SlotDiscipline /\ Gate!ReservationSpacing)
<1>1. IInv => Gate!SlotDiscipline /\ Gate!ReservationSpacing BY GateParts DEF IInv
<1> QED BY <1>1, TransportInvariant, PTL
=============================================================================
