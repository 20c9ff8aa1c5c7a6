---------------------------- MODULE RequestGate -----------------------------
(***************************************************************************)
(* packages/mirror/src/client/RequestGate.ts: the concurrency and rate     *)
(* limiter every mirror-node request passes through.                       *)
(*                                                                         *)
(* The code runs on one JavaScript thread, so an action is the code        *)
(* between two awaits.  A request r goes                                   *)
(*                                                                         *)
(*   idle --acquire--> sleeping --(timer)--> running --release--> done     *)
(*     \--acquire--> queued --(release of another)--> handed --/           *)
(*                                              (sleeping)                 *)
(*                                                                         *)
(* "handed" is the gap between resolve() in release() and the moment the   *)
(* waiter's continuation runs: the slot is counted, the start time not yet *)
(* reserved, and any other caller may run in between.  "sleeping" is the   *)
(* sleep(wait) of acquire, of length zero when there is nothing to wait    *)
(* for.  A timer may fire late, never early.                               *)
(*                                                                         *)
(* Time is counted in ticks; `now` is Date.now(), taken to be monotonic.   *)
(* maxConcurrent = Infinity behaves as any MaxConcurrent that is at least  *)
(* the number of requests.                                                 *)
(***************************************************************************)
EXTENDS Integers, Sequences, FiniteSets

CONSTANTS Requests,       \* calls of run()
          MaxConcurrent,  \* this.maxConcurrent
          Interval,       \* this.minRequestIntervalMs, 0 when there is no rate limit
          MaxTime         \* bound: the clock runs past MaxTime only for a sleeper

(* What the constructor lets through. *)
GateOptionsValid == /\ MaxConcurrent \in Nat \ {0}
                    /\ Interval \in Nat

ASSUME GateAssumption == /\ GateOptionsValid
                         /\ MaxTime \in Nat
                         /\ IsFiniteSet(Requests)

VARIABLES active,       \* this.active
          waiters,      \* this.waiters, each resolver standing for its request
          nextStartAt,  \* this.nextStartAt
          now,          \* Date.now()
          phase,        \* where each request stands
          due           \* startAt of each request that has reserved one

vars == <<active, waiters, nextStartAt, now, phase, due>>

Phase == {"idle", "queued", "handed", "sleeping", "running", "done"}

HoldsSlot(p) == p \in {"handed", "sleeping", "running"}
Reserved(p)  == p \in {"sleeping", "running", "done"}

Holders  == {r \in Requests : HoldsSlot(phase[r])}
Started  == {r \in Requests : phase[r] \in {"running", "done"}}

Init == /\ active = 0
        /\ waiters = <<>>
        /\ nextStartAt = 0
        /\ now = 0
        /\ phase = [r \in Requests |-> "idle"]
        /\ due = [r \in Requests |-> 0]

-----------------------------------------------------------------------------
(* The second half of acquire(): reserve a start and sleep until it.       *)

StartAt == IF now >= nextStartAt THEN now ELSE nextStartAt

(* Faulty: reserve without taking over the start another caller reserved.  *)
ReserveFromNow(r) ==
    /\ phase' = [phase EXCEPT ![r] = "sleeping"]
    /\ due' = [due EXCEPT ![r] = StartAt]
    /\ nextStartAt' = now + Interval

(* Faulty: the next start is computed from the clock when the sleep ends.  *)
ReserveNothing(r) ==
    /\ phase' = [phase EXCEPT ![r] = "sleeping"]
    /\ due' = [due EXCEPT ![r] = StartAt]
    /\ UNCHANGED nextStartAt

Reserve(r) ==
    /\ phase' = [phase EXCEPT ![r] = "sleeping"]
    /\ IF Interval > 0
       THEN /\ due' = [due EXCEPT ![r] = StartAt]
            /\ nextStartAt' = StartAt + Interval
       ELSE /\ due' = [due EXCEPT ![r] = now]
            /\ UNCHANGED nextStartAt

-----------------------------------------------------------------------------
(* Faulty: off by one in the comparison with the cap.                      *)
FullTooLate == active > MaxConcurrent

(* The test of acquire(): every slot is taken.                             *)
Full == active >= MaxConcurrent

(* acquire() with a free slot: count it and reserve, all synchronously.    *)
AcquireFree(r) ==
    /\ phase[r] = "idle"
    /\ ~Full
    /\ active' = active + 1
    /\ Reserve(r)
    /\ UNCHANGED <<waiters, now>>

(* acquire() with every slot taken: push a resolver and await it.          *)
AcquireQueue(r) ==
    /\ phase[r] = "idle"
    /\ Full
    /\ waiters' = Append(waiters, r)
    /\ phase' = [phase EXCEPT ![r] = "queued"]
    /\ UNCHANGED <<active, nextStartAt, now, due>>

Acquire(r) == AcquireFree(r) \/ AcquireQueue(r)

(* The waiter's continuation, after release() resolved its promise.        *)
Resume(r) ==
    /\ phase[r] = "handed"
    /\ Reserve(r)
    /\ UNCHANGED <<active, waiters, now>>

(* The sleep is over: acquire() returns and run() starts the task.         *)
Begin(r) ==
    /\ phase[r] = "sleeping"
    /\ now >= due[r]
    /\ phase' = [phase EXCEPT ![r] = "running"]
    /\ UNCHANGED <<active, waiters, nextStartAt, now, due>>

-----------------------------------------------------------------------------
(* Faulty: free the slot and wake the waiter, which does not count itself. *)
ReleaseAndWake(r) ==
    IF waiters # <<>>
    THEN /\ waiters' = Tail(waiters)
         /\ phase' = [phase EXCEPT ![r] = "done", ![Head(waiters)] = "handed"]
         /\ active' = active - 1
    ELSE /\ active' = active - 1
         /\ phase' = [phase EXCEPT ![r] = "done"]
         /\ UNCHANGED waiters

(* Faulty: the slot is freed and nobody is woken.                          *)
ReleaseWithoutHandoff(r) ==
    /\ active' = active - 1
    /\ phase' = [phase EXCEPT ![r] = "done"]
    /\ UNCHANGED waiters

(* Faulty: waiters.pop() instead of waiters.shift().                       *)
ReleaseToLast(r) ==
    IF waiters # <<>>
    THEN /\ waiters' = SubSeq(waiters, 1, Len(waiters) - 1)
         /\ phase' = [phase EXCEPT ![r] = "done", ![waiters[Len(waiters)]] = "handed"]
         /\ UNCHANGED active
    ELSE /\ active' = active - 1
         /\ phase' = [phase EXCEPT ![r] = "done"]
         /\ UNCHANGED waiters

(* release(): hand the slot to the first waiter, or give it back.          *)
Release(r) ==
    \/ /\ waiters # <<>>
       /\ waiters' = Tail(waiters)
       /\ phase' = [phase EXCEPT ![r] = "done", ![Head(waiters)] = "handed"]
       /\ UNCHANGED active
    \/ /\ waiters = <<>>
       /\ active' = active - 1
       /\ phase' = [phase EXCEPT ![r] = "done"]
       /\ UNCHANGED waiters

(* The task settled, either way: the finally of run() releases.            *)
Finish(r) ==
    /\ phase[r] = "running"
    /\ Release(r)
    /\ UNCHANGED <<nextStartAt, now, due>>

Tick == /\ \/ now < MaxTime
           \/ \E r \in Requests : phase[r] = "sleeping" /\ now < due[r]
        /\ now' = now + 1
        /\ UNCHANGED <<active, waiters, nextStartAt, phase, due>>

Next == \/ \E r \in Requests : \/ Acquire(r)
                               \/ Resume(r)
                               \/ Begin(r)
                               \/ Finish(r)
        \/ Tick

(***************************************************************************)
(* Fairness: the event loop runs every continuation that is ready and the  *)
(* clock advances; a task settles (MirrorTransport bounds each by its      *)
(* abort timer).  Nothing makes a caller call.                             *)
(***************************************************************************)
Fairness == /\ WF_vars(Tick)
            /\ \A r \in Requests : /\ WF_vars(Resume(r))
                                   /\ WF_vars(Begin(r))
                                   /\ WF_vars(Finish(r))

Spec == Init /\ [][Next]_vars /\ Fairness

-----------------------------------------------------------------------------
(* The type of every field of the gate and of each caller's progress.      *)
TypeOK == /\ active \in Nat
          /\ waiters \in Seq(Requests)
          /\ nextStartAt \in Nat
          /\ now \in Nat
          /\ phase \in [Requests -> Phase]
          /\ due \in [Requests -> Nat]

(* `active` is the number of requests that own a slot, counted exactly     *)
(* once each, in particular across the handoff of release(): neither       *)
(* leaked nor returned twice.                                              *)
ActiveCountsHolders == active = Cardinality(Holders)

(* The cap: no more than maxConcurrent requests own a slot.                *)
CapRespected == active <= MaxConcurrent

(* The waiter array holds the resolver of every queued request once, and   *)
(* no other: nobody is lost, nobody is resolved twice.                     *)
WaitersAreQueued ==
    /\ \A i, j \in 1..Len(waiters) : waiters[i] = waiters[j] => i = j
    /\ \A r \in Requests : phase[r] = "queued" <=> \E i \in 1..Len(waiters) : waiters[i] = r

(* Nobody queues while a slot is free: release() never drops a slot that   *)
(* a waiter could have.                                                    *)
NoIdleSlot == waiters # <<>> => active = MaxConcurrent

(* The gate's slot discipline: the four facts above are inductive only     *)
(* together.  This is what acquire() and release() maintain between them.  *)
SlotDiscipline == /\ ActiveCountsHolders
                  /\ CapRespected
                  /\ WaitersAreQueued
                  /\ NoIdleSlot

(* Two requests never reserve starts closer than the interval, however     *)
(* acquires, handoffs and resumptions interleave (RequestGate.ts, the      *)
(* comment on reserving the start synchronously).                          *)
ReservationSpacing ==
    \A r, s \in Requests :
        r # s /\ Reserved(phase[r]) /\ Reserved(phase[s])
            => \/ due[r] + Interval <= due[s]
               \/ due[s] + Interval <= due[r]

(* maxRequestsPerSecond, as the gate can promise it: by any instant, no    *)
(* more tasks have been started than one plus the intervals elapsed, even  *)
(* though late timers may bunch two starts together.                       *)
SustainedRate == Cardinality(Started) * Interval <= now + Interval

(* A slot goes to the longest-waiting request; a newcomer gets one only    *)
(* when nobody waits.  Relates acquire() of one caller to release() of     *)
(* another: the newcomer may run between the handoff and the resumption.   *)
FirstComeFirstServed ==
    [][\A r \in Requests :
          ~HoldsSlot(phase[r]) /\ HoldsSlot(phase'[r])
              => IF waiters = <<>> THEN phase[r] = "idle" ELSE r = Head(waiters)]_vars

(* No request waits for ever: whoever called acquire() gets its turn.      *)
EveryRequestSettles == \A r \in Requests : phase[r] # "idle" ~> phase[r] = "done"

-----------------------------------------------------------------------------
(* The abstract pool: each phase seen as outside, wanting, in or gone.     *)
StatusOf(p) == IF HoldsSlot(p) THEN "in"
               ELSE IF p = "queued" THEN "wanting"
               ELSE IF p = "idle" THEN "out" ELSE "gone"

poolStatus == [r \in Requests |-> StatusOf(phase[r])]

Pool == INSTANCE SlotPool WITH Clients  <- Requests,
                               Capacity <- MaxConcurrent,
                               status   <- poolStatus

(* The counter, the waiter array and the handoff together behave as a pool *)
(* of MaxConcurrent slots that nobody leaves idle while somebody waits.    *)
ImplementsPool == Pool!Spec

=============================================================================
