------------------------- MODULE RequestGateProofs --------------------------
(***************************************************************************)
(* Theorems about RequestGate, for any number of requests, any cap, any    *)
(* interval and any bound on the clock.                                    *)
(*                                                                         *)
(* IInv is the inductive invariant.  None of the parts of SlotDiscipline   *)
(* is inductive alone: that release() may pass a slot on without touching  *)
(* `active` needs WaitersAreQueued (the waiter it pops holds no slot yet), *)
(* that a newcomer found a slot means nobody waits needs NoIdleSlot, which *)
(* in turn needs CapRespected.  Spacing needs that nextStartAt is past     *)
(* every start reserved so far.                                            *)
(***************************************************************************)
EXTENDS RequestGate, FiniteSetTheorems, SequenceTheorems, TLAPS

(* Every start reserved so far is at least one interval before the next.   *)
ReservedBeforeNext ==
    Interval > 0 => \A r \in Requests :
                       Reserved(phase[r]) => due[r] + Interval <= nextStartAt

IInv == /\ TypeOK
        /\ SlotDiscipline
        /\ ReservedBeforeNext
        /\ ReservationSpacing

-----------------------------------------------------------------------------
(* The initial states satisfy the type invariant.                          *)
LEMMA InitTypeOK == Init => TypeOK
BY GateAssumption DEF Init, TypeOK, Phase

(* Reserving a start keeps the types of the fields it writes.              *)
LEMMA ReserveType ==
    ASSUME TypeOK, NEW r \in Requests, Reserve(r)
    PROVE  /\ phase' \in [Requests -> Phase]
           /\ due' \in [Requests -> Nat]
           /\ nextStartAt' \in Nat
<1>1. StartAt \in Nat BY DEF TypeOK, StartAt
<1> QED BY <1>1, GateAssumption DEF TypeOK, Reserve, GateOptionsValid, Phase

(* A slot is given back only by a request that holds one, so the counter   *)
(* does not go below zero; this is the part of the type invariant that     *)
(* needs the slot discipline.                                              *)
LEMMA HolderMeansActive ==
    ASSUME TypeOK, ActiveCountsHolders, NEW r \in Requests, HoldsSlot(phase[r])
    PROVE  active >= 1
<1>1. IsFiniteSet(Holders)
      BY GateAssumption, FS_Subset DEF Holders
<1>2. r \in Holders BY DEF Holders
<1>3. Holders # {} BY <1>2
<1>4. Cardinality(Holders) # 0 BY <1>1, <1>3, FS_EmptySet
<1>5. Cardinality(Holders) \in Nat BY <1>1, FS_CardinalityType
<1> QED BY <1>4, <1>5 DEF ActiveCountsHolders

(* Taking a slot adds one holder.                                          *)
LEMMA HolderAdded ==
    ASSUME NEW r \in Requests, ~HoldsSlot(phase[r]),
           Holders' = Holders \cup {r}
    PROVE  Cardinality(Holders') = Cardinality(Holders) + 1
<1>1. IsFiniteSet(Holders)
      BY GateAssumption, FS_Subset DEF Holders
<1>2. r \notin Holders BY DEF Holders
<1> QED BY <1>1, <1>2, FS_AddElement

(* Giving a slot back removes one.                                         *)
LEMMA HolderRemoved ==
    ASSUME NEW r \in Requests, HoldsSlot(phase[r]),
           Holders' = Holders \ {r}
    PROVE  Cardinality(Holders') = Cardinality(Holders) - 1
<1>1. IsFiniteSet(Holders)
      BY GateAssumption, FS_Subset DEF Holders
<1>2. r \in Holders BY DEF Holders
<1> QED BY <1>1, <1>2, FS_RemoveElement

(* Passing a slot on leaves their number as it was.                        *)
LEMMA HolderReplaced ==
    ASSUME NEW r \in Requests, HoldsSlot(phase[r]),
           NEW w \in Requests, ~HoldsSlot(phase[w]),
           Holders' = (Holders \ {r}) \cup {w}
    PROVE  Cardinality(Holders') = Cardinality(Holders)
<1>1. IsFiniteSet(Holders)
      BY GateAssumption, FS_Subset DEF Holders
<1>2. r \in Holders /\ w \notin Holders BY DEF Holders
<1>3. /\ IsFiniteSet(Holders \ {r})
      /\ Cardinality(Holders \ {r}) = Cardinality(Holders) - 1
      BY <1>1, <1>2, FS_RemoveElement
<1>4. Cardinality(Holders') = Cardinality(Holders \ {r}) + 1
      BY <1>2, <1>3, FS_AddElement
<1>5. Cardinality(Holders) \in Nat BY <1>1, FS_CardinalityType
<1> QED BY <1>3, <1>4, <1>5

-----------------------------------------------------------------------------
(* acquire() with a free slot keeps the slot discipline.                   *)
LEMMA AcquireFreeDiscipline ==
    ASSUME TypeOK, SlotDiscipline, NEW r \in Requests, AcquireFree(r)
    PROVE  SlotDiscipline'
<1> USE DEF SlotDiscipline
<1>0. /\ phase[r] = "idle" /\ active < MaxConcurrent
      /\ active' = active + 1 /\ waiters' = waiters
      /\ phase' = [phase EXCEPT ![r] = "sleeping"]
      BY GateAssumption DEF AcquireFree, Reserve, Full, TypeOK, GateOptionsValid
<1>1. ActiveCountsHolders'
  <2>1. ~HoldsSlot(phase[r]) BY <1>0 DEF HoldsSlot
  <2>2. Holders' = Holders \cup {r} BY <1>0 DEF Holders, HoldsSlot, TypeOK
  <2> QED BY <1>0, <2>1, <2>2, HolderAdded DEF ActiveCountsHolders
<1>2. CapRespected'
      BY <1>0, GateAssumption DEF CapRespected, TypeOK, GateOptionsValid
<1>3. WaitersAreQueued'
      BY <1>0 DEF WaitersAreQueued, TypeOK
<1>4. NoIdleSlot'
      BY <1>0, GateAssumption DEF NoIdleSlot, TypeOK, GateOptionsValid
<1> QED BY <1>1, <1>2, <1>3, <1>4

(* acquire() with every slot taken keeps the slot discipline.              *)
LEMMA AcquireQueueDiscipline ==
    ASSUME TypeOK, SlotDiscipline, NEW r \in Requests, AcquireQueue(r)
    PROVE  SlotDiscipline'
<1> USE DEF SlotDiscipline
<1>0. /\ phase[r] = "idle" /\ active = MaxConcurrent
      /\ active' = active /\ waiters' = Append(waiters, r)
      /\ phase' = [phase EXCEPT ![r] = "queued"]
      BY GateAssumption DEF AcquireQueue, Full, TypeOK, GateOptionsValid, CapRespected
<1>1. Holders' = Holders BY <1>0 DEF Holders, HoldsSlot, TypeOK
<1>2. ActiveCountsHolders' BY <1>0, <1>1 DEF ActiveCountsHolders
<1>3. WaitersAreQueued'
  <2>1. /\ Len(waiters') = Len(waiters) + 1
        /\ waiters'[Len(waiters) + 1] = r
        /\ \A i \in 1..Len(waiters) : waiters'[i] = waiters[i]
        /\ Len(waiters) \in Nat
        BY <1>0, AppendProperties DEF TypeOK
  <2>2. \A i \in 1..Len(waiters) : waiters[i] # r
        BY <1>0 DEF WaitersAreQueued, TypeOK
  <2>3. \A i, j \in 1..Len(waiters') : waiters'[i] = waiters'[j] => i = j
        BY <2>1, <2>2 DEF WaitersAreQueued
  <2>4. \A s \in Requests : phase'[s] = "queued" <=> phase[s] = "queued" \/ s = r
        BY <1>0 DEF TypeOK
  <2>5. \A s \in Requests : (\E i \in 1..Len(waiters') : waiters'[i] = s)
                               <=> (\E i \in 1..Len(waiters) : waiters[i] = s) \/ s = r
        BY <2>1
  <2> QED BY <2>3, <2>4, <2>5 DEF WaitersAreQueued
<1>4. CapRespected' /\ NoIdleSlot'
      BY <1>0 DEF CapRespected, NoIdleSlot
<1> QED BY <1>2, <1>3, <1>4

(* release() by a running request keeps the slot discipline, whether it    *)
(* hands its slot to the first waiter or gives it back.                    *)
LEMMA FinishDiscipline ==
    ASSUME TypeOK, SlotDiscipline, NEW r \in Requests, Finish(r)
    PROVE  SlotDiscipline'
<1> USE DEF SlotDiscipline
<1>0. phase[r] = "running" /\ HoldsSlot(phase[r])
      BY DEF Finish, HoldsSlot
<1>1. CASE waiters # <<>>
  <2> DEFINE w == Head(waiters)
  <2>1. /\ waiters' = Tail(waiters) /\ active' = active
        /\ phase' = [phase EXCEPT ![r] = "done", ![w] = "handed"]
        BY <1>1 DEF Finish, Release
  <2>2. /\ Len(waiters) \in Nat \ {0} /\ waiters[1] = w
        /\ Len(Tail(waiters)) = Len(waiters) - 1
        /\ \A i \in 1..(Len(waiters) - 1) : Tail(waiters)[i] = waiters[i + 1]
        BY <1>1, HeadTailProperties DEF TypeOK
  <2>3. w \in Requests /\ phase[w] = "queued" /\ w # r
        BY <1>0, <1>1, <2>2 DEF WaitersAreQueued, TypeOK
  <2>4. /\ phase'[r] = "done" /\ phase'[w] = "handed"
        /\ \A s \in Requests \ {r, w} : phase'[s] = phase[s]
        BY <2>1, <2>3 DEF TypeOK
  <2>5. Holders' = (Holders \ {r}) \cup {w}
        BY <2>3, <2>4 DEF Holders, HoldsSlot
  <2>6. ActiveCountsHolders'
        BY <1>0, <2>1, <2>3, <2>5, HolderReplaced DEF ActiveCountsHolders, HoldsSlot
  <2>7. WaitersAreQueued'
    <3>1. \A i, j \in 1..Len(waiters') : waiters'[i] = waiters'[j] => i = j
          BY <2>1, <2>2 DEF WaitersAreQueued
    <3>2. ASSUME NEW s \in Requests
          PROVE  phase'[s] = "queued" <=> \E i \in 1..Len(waiters') : waiters'[i] = s
      <4>1. phase'[s] = "queued" <=> phase[s] = "queued" /\ s # w
            BY <1>0, <2>3, <2>4
      <4>2. phase[s] = "queued" <=> \E i \in 1..Len(waiters) : waiters[i] = s
            BY DEF WaitersAreQueued
      <4>3. (\E i \in 1..Len(waiters) : waiters[i] = s) /\ s # w
               <=> \E i \in 2..Len(waiters) : waiters[i] = s
            BY <2>2 DEF WaitersAreQueued
      <4>4. (\E i \in 2..Len(waiters) : waiters[i] = s)
               <=> \E i \in 1..(Len(waiters) - 1) : waiters[i + 1] = s
        <5>1. ASSUME NEW i \in 2..Len(waiters), waiters[i] = s
              PROVE  \E j \in 1..(Len(waiters) - 1) : waiters[j + 1] = s
          <6>1. i - 1 \in 1..(Len(waiters) - 1) /\ waiters[(i - 1) + 1] = s
                BY <5>1, <2>2
          <6> QED BY <6>1
        <5>2. ASSUME NEW j \in 1..(Len(waiters) - 1), waiters[j + 1] = s
              PROVE  \E i \in 2..Len(waiters) : waiters[i] = s
          <6>1. j + 1 \in 2..Len(waiters) BY <2>2
          <6> QED BY <5>2, <6>1
        <5> QED BY <5>1, <5>2
      <4> QED BY <4>1, <4>2, <4>3, <4>4, <2>1, <2>2
    <3> QED BY <3>1, <3>2 DEF WaitersAreQueued
  <2>8. CapRespected' /\ NoIdleSlot'
        BY <1>1, <2>1 DEF CapRespected, NoIdleSlot
  <2> QED BY <2>6, <2>7, <2>8
<1>2. CASE waiters = <<>>
  <2>1. /\ waiters' = waiters /\ active' = active - 1
        /\ phase' = [phase EXCEPT ![r] = "done"]
        BY <1>2 DEF Finish, Release
  <2>2. Holders' = Holders \ {r}
        BY <2>1 DEF Holders, HoldsSlot, TypeOK
  <2>3. ActiveCountsHolders'
        BY <1>0, <2>1, <2>2, HolderRemoved DEF ActiveCountsHolders
  <2>4. WaitersAreQueued'
        BY <1>0, <2>1 DEF WaitersAreQueued, TypeOK
  <2>5. CapRespected' /\ NoIdleSlot'
        BY <1>2, <2>1, GateAssumption DEF CapRespected, NoIdleSlot, TypeOK, GateOptionsValid
  <2> QED BY <2>3, <2>4, <2>5
<1> QED BY <1>1, <1>2

(* The resumption of a waiter, the end of a sleep, the clock and a         *)
(* stuttering step change neither who holds a slot nor who is queued.      *)
LEMMA QuietDiscipline ==
    ASSUME TypeOK, SlotDiscipline,
           active' = active, waiters' = waiters,
           \A s \in Requests : /\ HoldsSlot(phase'[s]) = HoldsSlot(phase[s])
                               /\ (phase'[s] = "queued") = (phase[s] = "queued")
    PROVE  SlotDiscipline'
<1>1. Holders' = Holders BY DEF Holders
<1> QED BY <1>1 DEF SlotDiscipline, ActiveCountsHolders, CapRespected,
                    WaitersAreQueued, NoIdleSlot

-----------------------------------------------------------------------------
(* A reservation is made at or after nextStartAt and moves it one interval *)
(* further, so it keeps its distance from every earlier one.               *)
LEMMA ReserveSpacing ==
    ASSUME TypeOK, ReservedBeforeNext, ReservationSpacing,
           NEW r \in Requests, ~Reserved(phase[r]), Reserve(r)
    PROVE  ReservedBeforeNext' /\ ReservationSpacing'
<1>0. /\ Interval \in Nat
      /\ phase' = [phase EXCEPT ![r] = "sleeping"]
      /\ \A s \in Requests \ {r} : phase'[s] = phase[s] /\ due'[s] = due[s]
      /\ \A s \in Requests : due[s] \in Nat
      BY GateAssumption DEF Reserve, TypeOK, GateOptionsValid
<1>1. CASE Interval > 0
  <2>1. /\ due'[r] = StartAt /\ nextStartAt' = StartAt + Interval
        /\ StartAt \in Nat /\ nextStartAt \in Nat /\ StartAt >= nextStartAt
        BY <1>1 DEF Reserve, StartAt, TypeOK
  <2>2. \A s \in Requests \ {r} :
           Reserved(phase'[s]) => due'[s] + Interval <= nextStartAt
        BY <1>0, <1>1 DEF ReservedBeforeNext
  <2>3. ReservedBeforeNext'
        BY <1>0, <2>1, <2>2 DEF ReservedBeforeNext
  <2>4. ReservationSpacing'
        BY <1>0, <2>1, <2>2 DEF ReservationSpacing
  <2> QED BY <2>3, <2>4
<1>2. CASE Interval = 0
  <2>1. \A s \in Requests : due'[s] \in Nat
        BY <1>2 DEF Reserve, TypeOK
  <2> QED BY <1>2, <2>1 DEF ReservedBeforeNext, ReservationSpacing
<1> QED BY <1>0, <1>1, <1>2

(* Every other step leaves the reservations alone.                         *)
LEMMA QuietSpacing ==
    ASSUME ReservedBeforeNext, ReservationSpacing,
           due' = due, nextStartAt' = nextStartAt,
           \A s \in Requests : Reserved(phase'[s]) = Reserved(phase[s])
    PROVE  ReservedBeforeNext' /\ ReservationSpacing'
BY DEF ReservedBeforeNext, ReservationSpacing

(* The initial states satisfy the inductive invariant.                     *)
LEMMA InitIInv == Init => IInv
<1> SUFFICES ASSUME Init PROVE IInv OBVIOUS
<1>1. TypeOK BY InitTypeOK
<1>2. Holders = {} BY DEF Init, Holders, HoldsSlot
<1>3. ActiveCountsHolders
      BY <1>2, FS_EmptySet DEF Init, ActiveCountsHolders
<1>4. CapRespected /\ WaitersAreQueued /\ NoIdleSlot
      BY GateAssumption DEF Init, CapRespected, WaitersAreQueued, NoIdleSlot, GateOptionsValid
<1>5. ReservedBeforeNext /\ ReservationSpacing
      BY DEF Init, ReservedBeforeNext, ReservationSpacing, Reserved
<1> QED BY <1>1, <1>3, <1>4, <1>5 DEF IInv, SlotDiscipline

(* Every step of the gate keeps the inductive invariant.                   *)
LEMMA NextIInv == IInv /\ [Next]_vars => IInv'
<1> SUFFICES ASSUME IInv, [Next]_vars PROVE IInv' OBVIOUS
<1> USE DEF IInv
<1>1. ASSUME NEW r \in Requests, AcquireFree(r) PROVE IInv'
  <2>1. Reserve(r) /\ ~Reserved(phase[r])
        BY <1>1 DEF AcquireFree, Reserved
  <2>2. TypeOK'
    <3>1. active' \in Nat /\ waiters' \in Seq(Requests) /\ now' \in Nat
          BY <1>1 DEF AcquireFree, TypeOK
    <3> QED BY <2>1, <3>1, ReserveType DEF TypeOK
  <2>3. SlotDiscipline' BY <1>1, AcquireFreeDiscipline
  <2> QED BY <2>1, <2>2, <2>3, ReserveSpacing
<1>2. ASSUME NEW r \in Requests, AcquireQueue(r) PROVE IInv'
  <2>1. TypeOK' BY <1>2 DEF AcquireQueue, TypeOK, Phase
  <2>2. SlotDiscipline' BY <1>2, AcquireQueueDiscipline
  <2>3. \A s \in Requests : Reserved(phase'[s]) = Reserved(phase[s])
        BY <1>2 DEF AcquireQueue, TypeOK, Reserved
  <2> QED BY <1>2, <2>1, <2>2, <2>3, QuietSpacing DEF AcquireQueue
<1>3. ASSUME NEW r \in Requests, Resume(r) PROVE IInv'
  <2>1. Reserve(r) /\ ~Reserved(phase[r])
        BY <1>3 DEF Resume, Reserved
  <2>2. TypeOK'
    <3>1. active' \in Nat /\ waiters' \in Seq(Requests) /\ now' \in Nat
          BY <1>3 DEF Resume, TypeOK
    <3> QED BY <2>1, <3>1, ReserveType DEF TypeOK
  <2>3. \A s \in Requests : /\ HoldsSlot(phase'[s]) = HoldsSlot(phase[s])
                            /\ (phase'[s] = "queued") = (phase[s] = "queued")
        BY <1>3 DEF Resume, Reserve, TypeOK, HoldsSlot
  <2>4. SlotDiscipline' BY <1>3, <2>3, QuietDiscipline DEF Resume
  <2> QED BY <2>1, <2>2, <2>4, ReserveSpacing
<1>4. ASSUME NEW r \in Requests, Begin(r) PROVE IInv'
  <2>1. TypeOK' BY <1>4 DEF Begin, TypeOK, Phase
  <2>2. \A s \in Requests : /\ HoldsSlot(phase'[s]) = HoldsSlot(phase[s])
                            /\ (phase'[s] = "queued") = (phase[s] = "queued")
                            /\ Reserved(phase'[s]) = Reserved(phase[s])
        BY <1>4 DEF Begin, TypeOK, HoldsSlot, Reserved
  <2>3. SlotDiscipline' BY <1>4, <2>2, QuietDiscipline DEF Begin
  <2> QED BY <1>4, <2>1, <2>2, <2>3, QuietSpacing DEF Begin
<1>5. ASSUME NEW r \in Requests, Finish(r) PROVE IInv'
  <2>1. HoldsSlot(phase[r]) /\ phase[r] = "running"
        BY <1>5 DEF Finish, HoldsSlot
  <2>2. active >= 1 BY <2>1, HolderMeansActive DEF SlotDiscipline
  <2>3. waiters # <<>> => /\ Head(waiters) \in Requests
                          /\ phase[Head(waiters)] = "queued"
                          /\ Tail(waiters) \in Seq(Requests)
    <3>1. HAVE waiters # <<>>
    <3>2. /\ Len(waiters) >= 1 /\ Head(waiters) = waiters[1]
          /\ Head(waiters) \in Requests /\ Tail(waiters) \in Seq(Requests)
          BY <3>1, HeadTailProperties DEF TypeOK
    <3> QED BY <3>2 DEF SlotDiscipline, WaitersAreQueued, TypeOK
  <2>4. TypeOK'
    <3>1. CASE waiters # <<>>
          BY <1>5, <2>3, <3>1 DEF Finish, Release, TypeOK, Phase
    <3>2. CASE waiters = <<>>
          BY <1>5, <2>2, <3>2 DEF Finish, Release, TypeOK, Phase
    <3> QED BY <3>1, <3>2
  <2>5. SlotDiscipline' BY <1>5, FinishDiscipline
  <2>6. \A s \in Requests : Reserved(phase'[s]) = Reserved(phase[s])
        BY <1>5, <2>1, <2>3 DEF Finish, Release, TypeOK, Reserved
  <2> QED BY <1>5, <2>4, <2>5, <2>6, QuietSpacing DEF Finish
<1>6. CASE Tick
  <2>1. TypeOK' BY <1>6 DEF Tick, TypeOK
  <2> QED BY <1>6, <2>1, QuietDiscipline, QuietSpacing DEF Tick
<1>7. CASE UNCHANGED vars
  <2>1. TypeOK' BY <1>7 DEF vars, TypeOK
  <2> QED BY <1>7, <2>1, QuietDiscipline, QuietSpacing DEF vars
<1> QED BY <1>1, <1>2, <1>3, <1>4, <1>5, <1>6, <1>7 DEF Next, Acquire

-----------------------------------------------------------------------------
(* The inductive invariant holds in every reachable state.                 *)
THEOREM GateInvariant == Spec => []IInv
BY InitIInv, NextIInv, PTL DEF Spec

(* Every field of the gate keeps its type; in particular `active`, which   *)
(* release() decrements without a test, never goes below zero.             *)
THEOREM GateTypeCorrect == Spec => []TypeOK
<1>1. IInv => TypeOK BY DEF IInv
<1> QED BY <1>1, GateInvariant, PTL

(* For any number of requests and any cap: `active` counts the slot        *)
(* holders, the cap is respected, no waiter is lost or duplicated, and     *)
(* nobody waits beside a free slot.                                        *)
THEOREM GateSlotDiscipline == Spec => []SlotDiscipline
<1>1. IInv => SlotDiscipline BY DEF IInv
<1> QED BY <1>1, GateInvariant, PTL

(* Any two starts reserved are at least one interval apart.                *)
THEOREM GateReservationSpacing == Spec => []ReservationSpacing
<1>1. IInv => ReservationSpacing BY DEF IInv
<1> QED BY <1>1, GateInvariant, PTL

(* Slots are granted first come, first served.                             *)
THEOREM GateFirstComeFirstServed == Spec => FirstComeFirstServed
<1> DEFINE Fair == \A r \in Requests :
                      ~HoldsSlot(phase[r]) /\ HoldsSlot(phase'[r])
                         => IF waiters = <<>> THEN phase[r] = "idle" ELSE r = Head(waiters)
<1>1. ASSUME IInv, [Next]_vars PROVE [Fair]_vars
  <2> SUFFICES ASSUME NEW r \in Requests,
                      ~HoldsSlot(phase[r]), HoldsSlot(phase'[r]), Next
               PROVE  IF waiters = <<>> THEN phase[r] = "idle" ELSE r = Head(waiters)
      BY <1>1 DEF vars
  <2>0. TypeOK /\ SlotDiscipline BY <1>1 DEF IInv
  <2>1. ASSUME NEW s \in Requests, AcquireFree(s)
        PROVE  IF waiters = <<>> THEN phase[r] = "idle" ELSE r = Head(waiters)
    <3>1. s = r BY <2>0, <2>1 DEF AcquireFree, Reserve, TypeOK
    <3>2. waiters = <<>>
          BY <2>0, <2>1, GateAssumption
          DEF AcquireFree, Full, SlotDiscipline, NoIdleSlot, TypeOK, GateOptionsValid
    <3> QED BY <2>1, <3>1, <3>2 DEF AcquireFree
  <2>2. ASSUME NEW s \in Requests, AcquireQueue(s) \/ Resume(s) \/ Begin(s)
        PROVE  FALSE
        BY <2>0, <2>2 DEF AcquireQueue, Resume, Reserve, Begin, TypeOK, HoldsSlot
  <2>3. ASSUME NEW s \in Requests, Finish(s)
        PROVE  IF waiters = <<>> THEN phase[r] = "idle" ELSE r = Head(waiters)
        BY <2>0, <2>3 DEF Finish, Release, TypeOK, HoldsSlot
  <2>4. CASE Tick BY <2>4 DEF Tick
  <2> QED BY <2>1, <2>2, <2>3, <2>4 DEF Next, Acquire
<1> QED BY <1>1, GateInvariant, PTL DEF Spec, FirstComeFirstServed

-----------------------------------------------------------------------------
(* Refinement: the phases, seen through StatusOf, behave as a SlotPool.    *)

(* Who is in and who wants in, read off the phases.                        *)
LEMMA StatusCases ==
    ASSUME TypeOK
    PROVE  /\ Pool!In(poolStatus) = Holders
           /\ Pool!Wanting(poolStatus) = {r \in Requests : phase[r] = "queued"}
BY DEF TypeOK, Phase, Pool!In, Pool!Wanting, poolStatus, StatusOf, Holders, HoldsSlot

(* Somebody wants a slot exactly when the waiter array is not empty.       *)
LEMMA WantingIsWaiting ==
    ASSUME TypeOK, SlotDiscipline
    PROVE  waiters = <<>> <=> Pool!Wanting(poolStatus) = {}
<1>1. waiters = <<>> <=> Len(waiters) = 0
      BY EmptySeq DEF TypeOK
<1>2. Len(waiters) \in Nat BY DEF TypeOK
<1>3. \A i \in 1..Len(waiters) : waiters[i] \in Requests /\ phase[waiters[i]] = "queued"
      BY ElementOfSeq DEF SlotDiscipline, WaitersAreQueued, TypeOK
<1>4. Len(waiters) # 0 => 1 \in 1..Len(waiters) BY <1>2
<1> QED BY <1>1, <1>3, <1>4, StatusCases DEF SlotDiscipline, WaitersAreQueued

(* The pool's Cardinality is the gate's: both come from FiniteSets.        *)
LEMMA PoolCardinality ==
    ASSUME NEW S
    PROVE  Pool!Cardinality(S) = Cardinality(S)
BY Zenon DEF Pool!Cardinality, Cardinality

(* RequestGate implements SlotPool: for any cap and any callers, what the  *)
(* counter, the array and the handoff do together is what a pool of        *)
(* MaxConcurrent slots does.                                               *)
THEOREM GateImplementsPool == Spec => ImplementsPool
<1>1. Init => Pool!Init
      BY DEF Init, Pool!Init, poolStatus, StatusOf, HoldsSlot
<1>2. ASSUME IInv, [Next]_vars PROVE [Pool!Next]_(Pool!vars)
  <2> USE DEF Pool!vars
  <2>0. /\ TypeOK /\ SlotDiscipline
        /\ Pool!In(poolStatus) = Holders /\ Cardinality(Holders) = active
        /\ active \in Nat
        BY <1>2, StatusCases DEF IInv, SlotDiscipline, ActiveCountsHolders, TypeOK
  <2>1. ASSUME NEW r \in Requests, AcquireFree(r) PROVE Pool!Next
    <3>1. Pool!Wanting(poolStatus) = {}
          BY <2>0, <2>1, WantingIsWaiting, GateAssumption
          DEF AcquireFree, Full, SlotDiscipline, NoIdleSlot, GateOptionsValid
    <3>2. Cardinality(Pool!In(poolStatus)) < MaxConcurrent
          BY <2>0, <2>1, GateAssumption DEF AcquireFree, Full, GateOptionsValid
    <3>3. poolStatus' = [poolStatus EXCEPT ![r] = "in"] /\ poolStatus[r] = "out"
          BY <2>0, <2>1 DEF AcquireFree, Reserve, poolStatus, StatusOf, HoldsSlot, TypeOK
    <3>4. Pool!Enter(r) BY <3>1, <3>2, <3>3, PoolCardinality DEF Pool!Enter
    <3> QED BY <3>4 DEF Pool!Next
  <2>2. ASSUME NEW r \in Requests, AcquireQueue(r) PROVE Pool!Next
    <3>1. Cardinality(Pool!In(poolStatus)) = MaxConcurrent
          BY <2>0, <2>2, GateAssumption
          DEF AcquireQueue, Full, SlotDiscipline, CapRespected, GateOptionsValid
    <3>2. poolStatus' = [poolStatus EXCEPT ![r] = "wanting"] /\ poolStatus[r] = "out"
          BY <2>0, <2>2 DEF AcquireQueue, poolStatus, StatusOf, HoldsSlot, TypeOK
    <3>3. Pool!Want(r) BY <3>1, <3>2, PoolCardinality DEF Pool!Want
    <3> QED BY <3>3 DEF Pool!Next
  <2>3. ASSUME NEW r \in Requests, Resume(r) \/ Begin(r) PROVE poolStatus' = poolStatus
        BY <2>0, <2>3 DEF Resume, Reserve, Begin, poolStatus, StatusOf, HoldsSlot, TypeOK
  <2>4. ASSUME NEW r \in Requests, Finish(r) PROVE Pool!Next
    <3>0. phase[r] = "running" /\ poolStatus[r] = "in"
          BY <2>4 DEF Finish, poolStatus, StatusOf, HoldsSlot
    <3>1. CASE waiters = <<>>
      <4>1. Pool!Wanting(poolStatus) = {} BY <2>0, <3>1, WantingIsWaiting
      <4>2. poolStatus' = [poolStatus EXCEPT ![r] = "gone"]
            BY <2>0, <2>4, <3>1 DEF Finish, Release, poolStatus, StatusOf, HoldsSlot, TypeOK
      <4>3. Pool!Leave(r) BY <3>0, <4>1, <4>2 DEF Pool!Leave
      <4> QED BY <4>3 DEF Pool!Next
    <3>2. CASE waiters # <<>>
      <4> DEFINE w == Head(waiters)
      <4>1. /\ Len(waiters) >= 1 /\ w = waiters[1] /\ w \in Requests
            BY <2>0, <3>2, HeadTailProperties DEF TypeOK
      <4>2. phase[w] = "queued" /\ w # r
            BY <2>0, <3>0, <4>1 DEF SlotDiscipline, WaitersAreQueued, TypeOK
      <4>3. w \in Pool!Wanting(poolStatus)
            BY <2>0, <4>1, <4>2, StatusCases
      <4>4. phase' = [phase EXCEPT ![r] = "done", ![w] = "handed"]
            BY <2>4, <3>2 DEF Finish, Release
      <4>5. poolStatus' = [poolStatus EXCEPT ![r] = "gone", ![w] = "in"]
            BY <2>0, <4>1, <4>2, <4>4 DEF poolStatus, StatusOf, HoldsSlot, TypeOK
      <4>6. Pool!Pass(r) BY <3>0, <4>3, <4>5 DEF Pool!Pass
      <4> QED BY <4>6 DEF Pool!Next
    <3> QED BY <3>1, <3>2
  <2>5. CASE Tick \/ UNCHANGED vars
        BY <2>5 DEF Tick, vars, poolStatus
  <2> QED BY <1>2, <2>1, <2>2, <2>3, <2>4, <2>5 DEF Next, Acquire
<1> QED BY <1>1, <1>2, GateInvariant, PTL DEF Spec, ImplementsPool, Pool!Spec

-----------------------------------------------------------------------------
(* The sustained rate.  By induction over the steps, the starts reserved   *)
(* up to any instant t are at most one more than the intervals in t; a     *)
(* started task is one of those reserved up to now.                        *)

ReservedBy(t) == {r \in Requests : Reserved(phase[r]) /\ due[r] <= t}

RateInv ==
    /\ \A r \in Requests : phase[r] \in {"running", "done"} => due[r] <= now
    /\ \A t \in Nat : Cardinality(ReservedBy(t)) * Interval <= t + Interval

(* A set of reservations is finite, with a natural number of members.      *)
LEMMA ReservedByFinite ==
    ASSUME NEW t
    PROVE  IsFiniteSet(ReservedBy(t)) /\ Cardinality(ReservedBy(t)) \in Nat
<1>1. IsFiniteSet(ReservedBy(t)) BY GateAssumption, FS_Subset DEF ReservedBy
<1> QED BY <1>1, FS_CardinalityType

(* One more reservation keeps the bound: all the earlier ones lie at least *)
(* one interval before it.                                                 *)
LEMMA ReserveRate ==
    ASSUME TypeOK, ReservedBeforeNext, RateInv, Interval > 0,
           NEW r \in Requests, ~Reserved(phase[r]), Reserve(r),
           NEW t \in Nat
    PROVE  Cardinality(ReservedBy(t)') * Interval <= t + Interval
<1>0. /\ Interval \in Nat /\ StartAt \in Nat /\ nextStartAt \in Nat
      /\ nextStartAt <= StartAt
      /\ phase' = [phase EXCEPT ![r] = "sleeping"]
      /\ due' = [due EXCEPT ![r] = StartAt]
      /\ \A s \in Requests : due[s] \in Nat
      BY GateAssumption DEF Reserve, StartAt, TypeOK, GateOptionsValid
<1>1. CASE t < StartAt
  <2>1. ReservedBy(t)' = ReservedBy(t)
        BY <1>0, <1>1 DEF ReservedBy, TypeOK, Reserved
  <2> QED BY <2>1 DEF RateInv
<1>2. CASE t >= StartAt
  <2> DEFINE before == StartAt - Interval
             n == Cardinality(ReservedBy(t))
  <2>1. \A s \in Requests : Reserved(phase[s]) => due[s] <= before
        BY <1>0 DEF ReservedBeforeNext
  <2>2. n * Interval <= StartAt
    <3>1. CASE before \in Nat
      <4>1. ReservedBy(t) = ReservedBy(before)
            BY <1>0, <1>2, <2>1, <3>1 DEF ReservedBy
      <4>2. n * Interval <= before + Interval
            BY <3>1, <4>1 DEF RateInv
      <4> QED BY <1>0, <4>2
    <3>2. CASE before \notin Nat
      <4>1. ReservedBy(t) = {}
            BY <1>0, <2>1, <3>2 DEF ReservedBy
      <4>2. n = 0 BY <4>1, FS_EmptySet
      <4> QED BY <1>0, <4>2
    <3> QED BY <3>1, <3>2
  <2>3. ReservedBy(t)' = ReservedBy(t) \cup {r} /\ r \notin ReservedBy(t)
        BY <1>0, <1>2 DEF ReservedBy, TypeOK, Reserved
  <2>4. Cardinality(ReservedBy(t)') = n + 1 /\ n \in Nat
        BY <2>3, ReservedByFinite, FS_AddElement
  <2> HIDE DEF n
  <2>5. (n + 1) * Interval = n * Interval + Interval
        BY <1>0, <2>4
  <2> QED BY <1>0, <1>2, <2>2, <2>4, <2>5
<1> QED BY <1>0, <1>1, <1>2

(* By any instant no more tasks have been started than one plus the        *)
(* intervals elapsed, for every interval and any number of requests.       *)
THEOREM GateSustainedRate == Spec => []SustainedRate
<1>0. Interval \in Nat BY GateAssumption DEF GateOptionsValid
<1>1. Init => RateInv
  <2> SUFFICES ASSUME Init PROVE RateInv OBVIOUS
  <2>1. \A t \in Nat : ReservedBy(t) = {} BY DEF Init, ReservedBy, Reserved
  <2>2. \A t \in Nat : Cardinality(ReservedBy(t)) = 0 BY <2>1, FS_EmptySet
  <2> QED BY <1>0, <2>2 DEF RateInv, Init
<1>2. ASSUME IInv, RateInv, [Next]_vars PROVE RateInv'
  <2>0. TypeOK /\ ReservedBeforeNext BY <1>2 DEF IInv
  <2>1. ASSUME NEW r \in Requests, AcquireFree(r) \/ Resume(r) PROVE RateInv'
    <3>1. Reserve(r) /\ ~Reserved(phase[r]) /\ now' = now
          BY <2>1 DEF AcquireFree, Resume, Reserved
    <3>2. \A s \in Requests : phase'[s] \in {"running", "done"} => due'[s] <= now'
          BY <1>2, <2>0, <3>1 DEF RateInv, Reserve, TypeOK
    <3>3. ASSUME NEW t \in Nat
          PROVE  Cardinality(ReservedBy(t)') * Interval <= t + Interval
      <4>1. CASE Interval > 0 BY <1>2, <2>0, <3>1, <4>1, ReserveRate
      <4>2. CASE Interval = 0
        <5>1. IsFiniteSet(ReservedBy(t)')
              BY GateAssumption, FS_Subset DEF ReservedBy
        <5>2. Cardinality(ReservedBy(t)') \in Nat BY <5>1, FS_CardinalityType
        <5> QED BY <4>2, <5>2
      <4> QED BY <1>0, <4>1, <4>2
    <3> QED BY <3>2, <3>3 DEF RateInv
  <2>2. ASSUME due' = due, now' \in Nat, now <= now',
               \A s \in Requests : /\ Reserved(phase'[s]) = Reserved(phase[s])
                                   /\ phase'[s] \in {"running", "done"} =>
                                        phase[s] \in {"running", "done"} \/ due[s] <= now
        PROVE  RateInv'
    <3>1. \A t : ReservedBy(t)' = ReservedBy(t) BY <2>2 DEF ReservedBy
    <3>2. \A s \in Requests : phase'[s] \in {"running", "done"} => due'[s] <= now'
          BY <1>2, <2>0, <2>2 DEF RateInv, TypeOK
    <3> QED BY <1>2, <3>1, <3>2 DEF RateInv
  <2>3. ASSUME NEW r \in Requests, AcquireQueue(r) PROVE RateInv'
        BY <2>0, <2>2, <2>3 DEF AcquireQueue, TypeOK, Reserved
  <2>4. ASSUME NEW r \in Requests, Begin(r) PROVE RateInv'
        BY <2>0, <2>2, <2>4 DEF Begin, TypeOK, Reserved
  <2>5. ASSUME NEW r \in Requests, Finish(r) PROVE RateInv'
    <3>1. phase[r] = "running" /\ due' = due /\ now' = now
          BY <2>5 DEF Finish
    <3>2. \A s \in Requests : /\ Reserved(phase'[s]) = Reserved(phase[s])
                              /\ phase'[s] \in {"running", "done"} =>
                                   phase[s] \in {"running", "done"}
      <4>1. CASE waiters = <<>>
            BY <2>0, <2>5, <3>1, <4>1 DEF Finish, Release, TypeOK, Reserved
      <4>2. CASE waiters # <<>>
        <5>1. /\ Head(waiters) \in Requests /\ phase[Head(waiters)] = "queued"
          <6>1. Len(waiters) >= 1 /\ Head(waiters) = waiters[1] /\ Head(waiters) \in Requests
                BY <2>0, <4>2, HeadTailProperties DEF TypeOK
          <6> QED BY <1>2, <2>0, <6>1 DEF IInv, SlotDiscipline, WaitersAreQueued, TypeOK
        <5>2. phase' = [phase EXCEPT ![r] = "done", ![Head(waiters)] = "handed"]
              BY <2>5, <4>2 DEF Finish, Release
        <5>3. \A s \in Requests : phase'[s] = IF s = Head(waiters) THEN "handed"
                                             ELSE IF s = r THEN "done" ELSE phase[s]
              BY <2>0, <5>1, <5>2 DEF TypeOK
        <5> QED BY <3>1, <5>1, <5>3 DEF Reserved
      <4> QED BY <4>1, <4>2
    <3> QED BY <2>0, <2>2, <3>1, <3>2 DEF TypeOK
  <2>6. CASE Tick BY <2>0, <2>2, <2>6 DEF Tick, TypeOK
  <2>7. CASE UNCHANGED vars BY <2>0, <2>2, <2>7 DEF vars, TypeOK
  <2> QED BY <1>2, <2>1, <2>3, <2>4, <2>5, <2>6, <2>7 DEF Next, Acquire
<1>3. IInv /\ RateInv => SustainedRate
  <2> SUFFICES ASSUME IInv, RateInv PROVE SustainedRate OBVIOUS
  <2>1. now \in Nat BY DEF IInv, TypeOK
  <2>2. Started \subseteq ReservedBy(now)
        BY DEF RateInv, Started, ReservedBy, Reserved
  <2>3. /\ Cardinality(Started) <= Cardinality(ReservedBy(now))
        /\ Cardinality(Started) \in Nat /\ Cardinality(ReservedBy(now)) \in Nat
        BY <2>2, ReservedByFinite, FS_Subset, FS_CardinalityType
  <2>4. Cardinality(ReservedBy(now)) * Interval <= now + Interval
        BY <2>1 DEF RateInv
  <2>5. Cardinality(Started) * Interval <= Cardinality(ReservedBy(now)) * Interval
        BY <1>0, <2>3
  <2> QED BY <1>0, <2>1, <2>3, <2>4, <2>5 DEF SustainedRate
<1> QED BY <1>1, <1>2, <1>3, GateInvariant, PTL DEF Spec
=============================================================================
