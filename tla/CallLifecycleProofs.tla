------------------------ MODULE CallLifecycleProofs -------------------------
(***************************************************************************)
(* Theorems about CallLifecycle, for any number of calls and listeners,    *)
(* any listener array and any bound on removals.                           *)
(*                                                                         *)
(* LInv is the inductive invariant.  That an answer is honest when it is   *)
(* given (AnswerMatchesChain) is not inductive alone: it needs to know, at *)
(* every stage before, what the chain can hold and what is already decided *)
(* about the answer.  StageInvariant says that, stage by stage.            *)
(***************************************************************************)
EXTENDS CallLifecycle, FiniteSetTheorems, SequenceTheorems, TLAPS

(* The fields that do not depend on the listener array keep their types.   *)
FieldsOK ==
    /\ chain \in [Calls -> {"none", "sent", "success", "failed"}]
    /\ call \in [Calls -> [kind : Kinds, stage : Stages, pos : Nat,
                           busy : BOOLEAN, told : {"nothing", "status", "error"},
                           answer : Answers, kept : SUBSET Listeners,
                           heard : SUBSET Listeners, cuts : Nat]]

ListenersOK == /\ listeners \in Seq(Listeners)
               /\ Len(listeners) <= MaxListeners
               /\ \A c \in Calls : call[c].pos <= MaxListeners /\ call[c].cuts <= MaxCuts

(* The try block ended well: the receipt of a success, or a query result.  *)
Succeeded(q, fate) == /\ q.told = "status" /\ q.answer = Open
                      /\ fate = IF q.kind \in Queries THEN "none" ELSE "success"

(* It threw: the answer is decided, and honest.                            *)
Threw(q, fate) == /\ q.told = "error"
                  /\ \/ q.answer = Rejected("SDK_ERROR")
                     \/ q.answer = Rejected("UNKNOWN")
                     \/ q.answer = WithTx("SDK_ERROR")
                     \/ q.answer = Rejected("INPUT_INVALID") /\ fate = "none"

Settled(q, fate) ==
    \/ Threw(q, fate)
    \/ /\ q.told = "nothing" /\ fate = "none"
       /\ q.answer \in Refusals(q.kind)
    \/ /\ q.told = "status" /\ fate = IF q.kind \in Queries THEN "none" ELSE "success"
       /\ q.answer \in {Mapped(q.kind)} \cup MappingFailures(q.kind)

Pending(q) == q.told = "nothing" /\ q.answer = Open

StageInvariant(q, fate) ==
    /\ q.stage \in {"idle", "before", "sign", "query"} => Pending(q) /\ fate = "none"
    /\ q.stage = "sign" => q.kind \notin Queries
    /\ q.stage = "query" => q.kind \in Queries
    /\ q.stage = "execute" => Pending(q) /\ q.kind \notin Queries
    /\ q.stage = "receipt" => Pending(q) /\ q.kind \notin Queries /\ fate # "none"
    /\ q.stage = "after" => Succeeded(q, fate) \/ Threw(q, fate)
    /\ q.stage = "map" => Succeeded(q, fate)
    /\ q.stage = "done" => Settled(q, fate)

LInv == /\ FieldsOK
        /\ ListenersOK
        /\ \A c \in Calls : StageInvariant(call[c], chain[c])

-----------------------------------------------------------------------------
(* A record of a call that is still of the right type.                     *)
Call == [kind : Kinds, stage : Stages, pos : Nat, busy : BOOLEAN,
         told : {"nothing", "status", "error"}, answer : Answers,
         kept : SUBSET Listeners, heard : SUBSET Listeners, cuts : Nat]

(* The answers named in the code are answers.                              *)
LEMMA AnswerTypes ==
    /\ Open \in Answers
    /\ \A code \in {"INPUT_INVALID", "raw", "SDK_ERROR", "UNKNOWN", "result"} :
          Rejected(code) \in Answers
    /\ \A code \in {"ok", "SDK_ERROR", "RESULT_MAPPING_FAILED"} : WithTx(code) \in Answers
    /\ Normalized \subseteq Answers /\ NormalizedReceiptError \in Answers
    /\ \A kind \in Kinds : /\ MappingFailures(kind) \subseteq Answers
                           /\ Refusals(kind) \subseteq Answers
                           /\ Mapped(kind) \in Answers
BY DEF Open, Answers, Rejected, WithTx, Normalized, NormalizedReceiptError, MappingFailures,
       Refusals, Mapped

(* A call that has not begun.                                              *)
LEMMA FreshType == Fresh \in Call
BY DEF Fresh, Call, Kinds, Stages, Open, Answers

(* ToSet of a sequence of listeners is a set of listeners.                 *)
LEMMA ToSetType == ASSUME listeners \in Seq(Listeners) PROVE ToSet(listeners) \in SUBSET Listeners
BY DEF ToSet

(* What Emission and Walked leave alone, and what they set.                *)
LEMMA EmissionFields ==
    ASSUME NEW q \in Call, NEW stage \in Stages, listeners \in Seq(Listeners)
    PROVE  /\ Emission(q, stage) \in Call
           /\ Emission(q, stage).stage = stage /\ Emission(q, stage).pos = 0
           /\ Emission(q, stage).cuts = 0 /\ Emission(q, stage).kind = q.kind
           /\ Emission(q, stage).told = q.told /\ Emission(q, stage).answer = q.answer
           /\ Walked(q, stage) \in Call
           /\ Walked(q, stage).stage = stage /\ Walked(q, stage).pos = 0
           /\ Walked(q, stage).cuts = 0 /\ Walked(q, stage).kind = q.kind
           /\ Walked(q, stage).told = q.told /\ Walked(q, stage).answer = q.answer
BY ToSetType DEF Emission, Walked, Call

LEMMA FailedFields ==
    ASSUME NEW q \in Call, NEW a \in Answers, listeners \in Seq(Listeners)
    PROVE  /\ Failed(q, a) \in Call
           /\ Failed(q, a).stage = "after" /\ Failed(q, a).pos = 0 /\ Failed(q, a).cuts = 0
           /\ Failed(q, a).kind = q.kind
           /\ Failed(q, a).told = "error" /\ Failed(q, a).answer = a
<1>1. Emission(q, "after") \in Call /\ Emission(q, "after").stage = "after"
      /\ Emission(q, "after").pos = 0 /\ Emission(q, "after").cuts = 0
      /\ Emission(q, "after").kind = q.kind
  BY EmissionFields DEF Stages
<1>2. QED BY <1>1 DEF Failed, Call

LEMMA ReportedFields ==
    ASSUME NEW q \in Call, listeners \in Seq(Listeners)
    PROVE  LET p == [Emission(q, "after") EXCEPT !.told = "status"] IN
           /\ p \in Call /\ p.stage = "after" /\ p.pos = 0 /\ p.cuts = 0 /\ p.kind = q.kind
           /\ p.told = "status" /\ p.answer = q.answer
<1>1. Emission(q, "after") \in Call /\ Emission(q, "after").stage = "after"
      /\ Emission(q, "after").pos = 0 /\ Emission(q, "after").cuts = 0
      /\ Emission(q, "after").kind = q.kind /\ Emission(q, "after").answer = q.answer
  BY EmissionFields DEF Stages
<1>2. QED BY <1>1 DEF Call

(* A step that only rewrites one call's record keeps the invariant when    *)
(* the new record is in order.                                             *)
LEMMA OneCall ==
    ASSUME LInv, NEW c \in Calls, NEW p \in Call,
           call' = [call EXCEPT ![c] = p], UNCHANGED <<listeners, chain>>,
           p.pos <= MaxListeners, p.cuts <= MaxCuts,
           StageInvariant(p, chain[c])
    PROVE  LInv'
<1>1. call \in [Calls -> Call] BY DEF LInv, FieldsOK, Call
<1>2. FieldsOK' BY <1>1 DEF LInv, FieldsOK, Call
<1>3. ListenersOK' BY <1>1 DEF LInv, ListenersOK
<1>4. \A d \in Calls : StageInvariant(call'[d], chain'[d]) BY <1>1 DEF LInv
<1>5. QED BY <1>2, <1>3, <1>4 DEF LInv

(* A step of the network touches the chain of one call only.               *)
LEMMA OneChain ==
    ASSUME LInv, NEW c \in Calls, NEW fate \in {"sent", "success", "failed"},
           chain' = [chain EXCEPT ![c] = fate], UNCHANGED <<listeners, call>>,
           StageInvariant(call[c], fate)
    PROVE  LInv'
<1>1. FieldsOK' BY DEF LInv, FieldsOK
<1>2. ListenersOK' BY DEF LInv, ListenersOK
<1>3. \A d \in Calls : StageInvariant(call'[d], chain'[d]) BY DEF LInv, FieldsOK
<1>4. QED BY <1>1, <1>2, <1>3 DEF LInv

(* The same where the step begins or ends an emission.                     *)
LEMMA OneCallReset ==
    ASSUME LInv, NEW c \in Calls, NEW p \in Call,
           call' = [call EXCEPT ![c] = p], UNCHANGED <<listeners, chain>>,
           p.pos = 0, p.cuts = 0,
           StageInvariant(p, chain[c])
    PROVE  LInv'
<1>1. p.pos <= MaxListeners /\ p.cuts <= MaxCuts BY LifecycleAssumption
<1>2. QED BY <1>1, OneCall

LEMMA InitLInv == Init => LInv
<1> SUFFICES ASSUME Init PROVE LInv OBVIOUS
<1>1. Fresh \in Call BY FreshType
<1>2. FieldsOK BY <1>1 DEF Init, FieldsOK, Call
<1>3. ListenersOK BY LifecycleAssumption DEF Init, ListenersOK, Fresh
<1>4. \A c \in Calls : StageInvariant(call[c], chain[c])
  BY DEF Init, Fresh, StageInvariant, Pending
<1>5. QED BY <1>2, <1>3, <1>4 DEF LInv

-----------------------------------------------------------------------------
(* Every step keeps the invariant: the ways into and out of an emission.   *)
LEMMA StartingKeepsLInv ==
    ASSUME LInv, NEW c \in Calls, Refuse(c) \/ Start(c)
    PROVE  LInv'
<1> DEFINE q == call[c]
<1>0. q \in Call /\ listeners \in Seq(Listeners) /\ StageInvariant(q, chain[c])
      /\ q.pos <= MaxListeners /\ q.cuts <= MaxCuts
  BY DEF LInv, FieldsOK, ListenersOK, Call
<1>1. CASE Refuse(c)
  <2>0. PICK kind \in Kinds : \E a \in Refusals(kind) :
           call' = [call EXCEPT ![c] = [Fresh EXCEPT !.kind = kind, !.stage = "done",
                                                     !.answer = a]]
    BY <1>1 DEF Refuse
  <2>1. PICK a \in Refusals(kind) :
           call' = [call EXCEPT ![c] = [Fresh EXCEPT !.kind = kind, !.stage = "done",
                                                     !.answer = a]]
    BY <2>0
  <2> DEFINE p == [Fresh EXCEPT !.kind = kind, !.stage = "done", !.answer = a]
  <2>2. p \in Call /\ p.stage = "done" /\ p.answer = a /\ p.kind = kind /\ p.told = "nothing"
        /\ p.pos = 0 /\ p.cuts = 0
    BY <2>1, AnswerTypes, FreshType DEF Fresh, Call, Stages
  <2>3. chain[c] = "none"
    BY <1>0, <1>1 DEF Refuse, At, StageInvariant
  <2>4. StageInvariant(p, chain[c])
    BY <2>1, <2>2, <2>3 DEF StageInvariant, Settled
  <2>5. QED BY <1>1, <2>1, <2>2, <2>4, OneCallReset DEF Refuse
<1>2. CASE Start(c)
  <2>0. PICK kind \in Kinds :
           call' = [call EXCEPT ![c] = Emission([Fresh EXCEPT !.kind = kind], "before")]
    BY <1>2 DEF Start
  <2> DEFINE f == [Fresh EXCEPT !.kind = kind]
  <2>1. call' = [call EXCEPT ![c] = Emission(f, "before")] BY <2>0
  <2>2. f \in Call /\ f.told = "nothing" /\ f.answer = Open
    BY DEF Fresh, Call, Kinds, Stages, Open, Answers
  <2> HIDE DEF f
  <2> DEFINE p == Emission(f, "before")
  <2>3. p \in Call /\ p.stage = "before" /\ p.pos = 0 /\ p.cuts = 0
        /\ p.told = "nothing" /\ p.answer = Open
    BY <1>0, <2>2, EmissionFields DEF Stages
  <2>4. chain[c] = "none"
    BY <1>0, <1>2 DEF Start, At, StageInvariant
  <2>5. StageInvariant(p, chain[c])
    BY <2>3, <2>4 DEF StageInvariant, Pending
  <2>6. QED BY <1>2, <2>1, <2>3, <2>5, OneCallReset DEF Start
<1>3. QED BY <1>1, <1>2

LEMMA WalkingKeepsLInv ==
    ASSUME LInv, NEW c \in Calls, Notify(c) \/ HandlerSettles(c) \/ Emitted(c)
    PROVE  LInv'
<1> DEFINE q == call[c]
<1>0. q \in Call /\ listeners \in Seq(Listeners) /\ StageInvariant(q, chain[c])
      /\ q.pos <= MaxListeners /\ q.cuts <= MaxCuts /\ Len(listeners) <= MaxListeners
  BY DEF LInv, FieldsOK, ListenersOK, Call
<1>1. CASE Notify(c)
  <2> DEFINE l == listeners[q.pos + 1]
             p == [q EXCEPT !.pos = q.pos + 1, !.busy = l \in Handles(c),
                            !.heard = IF l \in Handles(c) THEN q.heard \cup {l} ELSE q.heard]
  <2>1. call' = [call EXCEPT ![c] = p] BY <1>1 DEF Notify
  <2>2. q.pos \in Nat /\ q.pos < Len(listeners) BY <1>0, <1>1 DEF Notify, Call
  <2>3. l \in Listeners BY <1>0, <2>2
  <2>4. ASSUME NEW b \in BOOLEAN, NEW h \in SUBSET Listeners
        PROVE  [q EXCEPT !.pos = q.pos + 1, !.busy = b, !.heard = h] \in Call
    <3> HIDE DEF q
    <3>1. q.pos + 1 \in Nat BY <2>2
    <3>2. CASE b = TRUE BY <1>0, <3>1, <3>2 DEF Call
    <3>3. CASE b = FALSE BY <1>0, <3>1, <3>3 DEF Call
    <3>4. QED BY <3>2, <3>3
  <2>5. p \in Call
    <3>1. (l \in Handles(c)) \in BOOLEAN OBVIOUS
    <3>2. (IF l \in Handles(c) THEN q.heard \cup {l} ELSE q.heard) \in SUBSET Listeners
      BY <1>0, <2>3 DEF Call
    <3> DEFINE b == l \in Handles(c)
               h == IF l \in Handles(c) THEN q.heard \cup {l} ELSE q.heard
    <3>3. b \in BOOLEAN /\ h \in SUBSET Listeners BY <3>1, <3>2
    <3>4. p = [q EXCEPT !.pos = q.pos + 1, !.busy = b, !.heard = h] OBVIOUS
    <3> HIDE DEF b, h, p
    <3>5. QED BY <2>4, <3>3, <3>4
  <2>6. p.stage = q.stage /\ p.told = q.told /\ p.answer = q.answer /\ p.kind = q.kind
        /\ p.pos = q.pos + 1 /\ p.cuts = q.cuts
    BY <1>0 DEF Call
  <2>7. q.stage \in {"before", "after"} BY <1>1 DEF Notify, Emitting
  <2>8. StageInvariant(p, chain[c])
    BY <1>0, <2>6, <2>7 DEF StageInvariant, Pending, Succeeded, Threw
  <2>9. p.pos <= MaxListeners BY <1>0, <2>2, <2>6, LifecycleAssumption
  <2>10. QED BY <1>0, <1>1, <2>1, <2>4, <2>5, <2>6, <2>8, <2>9, OneCall DEF Notify
<1>2. CASE HandlerSettles(c)
  <2> DEFINE p == [q EXCEPT !.busy = FALSE]
  <2>1. call' = [call EXCEPT ![c] = p] BY <1>2 DEF HandlerSettles
  <2>2. p \in Call /\ p.stage = q.stage /\ p.told = q.told /\ p.answer = q.answer
        /\ p.kind = q.kind /\ p.pos = q.pos /\ p.cuts = q.cuts
    BY <1>0 DEF Call
  <2>3. q.stage \in {"before", "after"} BY <1>2 DEF HandlerSettles, Emitting
  <2>4. StageInvariant(p, chain[c])
    BY <1>0, <2>2, <2>3 DEF StageInvariant, Pending, Succeeded, Threw
  <2>5. QED BY <1>0, <1>2, <2>1, <2>2, <2>4, OneCall DEF HandlerSettles
<1>3. CASE Emitted(c)
  <2> DEFINE p == Walked(q, AfterWalk(q))
  <2>1. call' = [call EXCEPT ![c] = p] BY <1>3 DEF Emitted
  <2>2. AfterWalk(q) \in Stages BY DEF AfterWalk, Stages
  <2>3. p \in Call /\ p.stage = AfterWalk(q) /\ p.told = q.told /\ p.answer = q.answer
        /\ p.kind = q.kind /\ p.pos = 0 /\ p.cuts = 0
    BY <1>0, <2>2, EmissionFields
  <2>4. StageInvariant(p, chain[c])
    <3>1. CASE q.stage = "before"
      <4>1. Pending(q) /\ chain[c] = "none" BY <1>0, <3>1 DEF StageInvariant
      <4>2. Pending(p) BY <2>3, <4>1 DEF Pending
      <4>3. p.stage = IF p.kind \in Queries THEN "query" ELSE "sign"
        BY <2>3, <3>1 DEF AfterWalk
      <4>4. QED BY <4>1, <4>2, <4>3 DEF StageInvariant
    <3>2. CASE q.stage = "after"
      <4>1. Succeeded(q, chain[c]) \/ Threw(q, chain[c]) BY <1>0, <3>2 DEF StageInvariant
      <4>2. p.stage = IF p.answer = Open THEN "map" ELSE "done"
        BY <2>3, <3>2 DEF AfterWalk
      <4>3. Threw(q, chain[c]) => q.answer # Open
        BY DEF Threw, Open, Rejected, WithTx
      <4>4. Succeeded(q, chain[c]) => Succeeded(p, chain[c]) BY <2>3 DEF Succeeded
      <4>5. Threw(q, chain[c]) => Threw(p, chain[c]) BY <2>3 DEF Threw
      <4>6. Succeeded(q, chain[c]) => p.answer = Open BY <2>3 DEF Succeeded
      <4>7. QED BY <2>3, <4>1, <4>2, <4>3, <4>4, <4>5, <4>6 DEF StageInvariant, Settled
    <3>3. QED BY <1>3, <3>1, <3>2 DEF Emitted, Emitting
  <2>5. QED BY <1>3, <2>1, <2>3, <2>4, OneCallReset DEF Emitted
<1>4. QED BY <1>1, <1>2, <1>3

-----------------------------------------------------------------------------
(* The stages between the two emissions, and the mapping.                  *)
LEMMA SigningKeepsLInv ==
    ASSUME LInv, NEW c \in Calls, Sign(c)
    PROVE  LInv'
<1> DEFINE q == call[c]
<1>0. q \in Call /\ listeners \in Seq(Listeners) /\ StageInvariant(q, chain[c])
      /\ q.pos <= MaxListeners /\ q.cuts <= MaxCuts
  BY DEF LInv, FieldsOK, ListenersOK, Call
<1>1. q.stage = "sign" /\ Pending(q) /\ q.kind \notin Queries /\ chain[c] = "none"
  BY <1>0 DEF Sign, At, StageInvariant
<1>2. CASE call' = [call EXCEPT ![c].stage = "execute"]
  <2> DEFINE p == [q EXCEPT !.stage = "execute"]
  <2>1. p \in Call /\ p.stage = "execute" /\ p.told = q.told /\ p.answer = q.answer
        /\ p.kind = q.kind /\ p.pos = q.pos /\ p.cuts = q.cuts
    BY <1>0 DEF Call, Stages
  <2>2. StageInvariant(p, chain[c]) BY <1>1, <2>1 DEF StageInvariant, Pending
  <2>3. QED BY <1>0, <1>2, <2>1, <2>2, OneCall DEF Sign
<1>3. ASSUME NEW a \in Normalized \cup {Rejected("INPUT_INVALID")},
             call' = [call EXCEPT ![c] = Failed(q, a)]
      PROVE  LInv'
  <2> DEFINE p == Failed(q, a)
  <2>1. a \in Answers BY AnswerTypes
  <2>2. p \in Call /\ p.stage = "after" /\ p.pos = 0 /\ p.cuts = 0 /\ p.told = "error"
        /\ p.answer = a
    BY <1>0, <2>1, FailedFields
  <2>3. Threw(p, chain[c]) BY <1>1, <2>2 DEF Threw, Normalized
  <2>4. StageInvariant(p, chain[c]) BY <2>2, <2>3 DEF StageInvariant
  <2>5. QED BY <1>3, <2>2, <2>4, OneCallReset DEF Sign
<1>4. QED BY <1>2, <1>3 DEF Sign

LEMMA NetworkKeepsLInv ==
    ASSUME LInv, NEW c \in Calls, Reach(c) \/ Consensus(c)
    PROVE  LInv'
<1>0. StageInvariant(call[c], chain[c]) BY DEF LInv
<1>1. CASE Reach(c)
  <2>1. StageInvariant(call[c], "sent") BY <1>0, <1>1 DEF Reach, At, StageInvariant
  <2>2. QED BY <1>1, <2>1, OneChain DEF Reach
<1>2. CASE Consensus(c)
  <2>1. PICK fate \in {"success", "failed"} : chain' = [chain EXCEPT ![c] = fate]
    BY <1>2 DEF Consensus
  <2>2. StageInvariant(call[c], fate)
    BY <1>0, <1>2 DEF Consensus, StageInvariant, Succeeded, Threw, Settled
  <2>3. QED BY <1>2, <2>1, <2>2, OneChain DEF Consensus
<1>3. QED BY <1>1, <1>2

LEMMA ThrowingKeepsLInv ==
    ASSUME LInv, NEW c \in Calls, call[c].stage \in {"execute", "receipt", "query"},
           NEW a \in Normalized \cup {NormalizedReceiptError},
           call' = [call EXCEPT ![c] = Failed(call[c], a)], UNCHANGED <<listeners, chain>>
    PROVE  LInv'
<1> DEFINE p == Failed(call[c], a)
<1>1. call[c] \in Call /\ listeners \in Seq(Listeners)
  BY DEF LInv, FieldsOK, ListenersOK, Call
<1>2. a \in Answers BY AnswerTypes
<1>3. p \in Call /\ p.stage = "after" /\ p.pos = 0 /\ p.cuts = 0 /\ p.told = "error"
      /\ p.answer = a
  BY <1>1, <1>2, FailedFields
<1>4. Threw(p, chain[c]) BY <1>3 DEF Threw, Normalized, NormalizedReceiptError
<1>5. StageInvariant(p, chain[c]) BY <1>3, <1>4 DEF StageInvariant
<1>6. QED BY <1>3, <1>5, OneCallReset

LEMMA ReportingKeepsLInv ==
    ASSUME LInv, NEW c \in Calls, call[c].stage \in {"receipt", "query"},
           call[c].stage = "receipt" => chain[c] = "success",
           call' = [call EXCEPT ![c] = [Emission(call[c], "after") EXCEPT !.told = "status"]],
           UNCHANGED <<listeners, chain>>
    PROVE  LInv'
<1> DEFINE p == [Emission(call[c], "after") EXCEPT !.told = "status"]
<1>1. call[c] \in Call /\ listeners \in Seq(Listeners) /\ StageInvariant(call[c], chain[c])
  BY DEF LInv, FieldsOK, ListenersOK, Call
<1>2. p \in Call /\ p.stage = "after" /\ p.pos = 0 /\ p.cuts = 0 /\ p.kind = call[c].kind
      /\ p.told = "status" /\ p.answer = call[c].answer
  BY <1>1, ReportedFields
<1>3. /\ call[c].answer = Open
      /\ chain[c] = IF call[c].kind \in Queries THEN "none" ELSE "success"
  BY <1>1 DEF StageInvariant, Pending
<1>4. Succeeded(p, chain[c]) BY <1>2, <1>3 DEF Succeeded
<1>5. StageInvariant(p, chain[c]) BY <1>2, <1>4 DEF StageInvariant
<1>6. QED BY <1>2, <1>5, OneCallReset

LEMMA SdkKeepsLInv ==
    ASSUME LInv, NEW c \in Calls, SdkSettles(c)
    PROVE  LInv'
<1> DEFINE q == call[c]
<1>0. q \in Call /\ listeners \in Seq(Listeners) /\ StageInvariant(q, chain[c])
      /\ q.pos <= MaxListeners /\ q.cuts <= MaxCuts
  BY DEF LInv, FieldsOK, ListenersOK, Call
<1>1. CASE Executed(c)
  <2> DEFINE p == [q EXCEPT !.stage = "receipt"]
  <2>1. call' = [call EXCEPT ![c] = p] BY <1>1 DEF Executed
  <2>2. p \in Call /\ p.stage = "receipt" /\ p.told = q.told /\ p.answer = q.answer
        /\ p.kind = q.kind /\ p.pos = q.pos /\ p.cuts = q.cuts
    BY <1>0 DEF Call, Stages
  <2>3. StageInvariant(p, chain[c])
    BY <1>0, <1>1, <2>2 DEF Executed, At, StageInvariant, Pending
  <2>4. QED BY <1>0, <1>1, <2>1, <2>2, <2>3, OneCall DEF Executed
<1>2. CASE ExecuteFails(c)
  BY <1>2, ThrowingKeepsLInv DEF ExecuteFails, At
<1>3. CASE ReceiptArrives(c)
  <2>1. CASE call' = [call EXCEPT ![c] = [Emission(q, "after") EXCEPT !.told = "status"]]
    BY <1>3, <2>1, ReportingKeepsLInv DEF ReceiptArrives, At
  <2>2. CASE call' = [call EXCEPT ![c] = Failed(q, WithTx("SDK_ERROR"))]
    BY <1>3, <2>2, ThrowingKeepsLInv DEF ReceiptArrives, At, NormalizedReceiptError
  <2>3. QED BY <1>3, <2>1, <2>2 DEF ReceiptArrives
<1>4. CASE ReceiptFails(c)
  BY <1>4, ThrowingKeepsLInv DEF ReceiptFails, At
<1>5. CASE QueryAnswers(c)
  <2>1. CASE call' = [call EXCEPT ![c] = [Emission(q, "after") EXCEPT !.told = "status"]]
    BY <1>5, <2>1, ReportingKeepsLInv DEF QueryAnswers, At
  <2>2. ASSUME NEW a \in Normalized \cup {NormalizedReceiptError},
               call' = [call EXCEPT ![c] = Failed(q, a)]
        PROVE  LInv'
    BY <1>5, <2>2, ThrowingKeepsLInv DEF QueryAnswers, At
  <2>3. QED BY <1>5, <2>1, <2>2 DEF QueryAnswers
<1>6. QED BY <1>1, <1>2, <1>3, <1>4, <1>5 DEF SdkSettles

LEMMA MappingKeepsLInv ==
    ASSUME LInv, NEW c \in Calls, Map(c)
    PROVE  LInv'
<1> DEFINE q == call[c]
<1>0. q \in Call /\ StageInvariant(q, chain[c]) /\ q.pos <= MaxListeners /\ q.cuts <= MaxCuts
  BY DEF LInv, FieldsOK, ListenersOK, Call
<1>1. q.kind \in Kinds /\ Succeeded(q, chain[c])
  BY <1>0 DEF Map, At, StageInvariant, Call
<1>2. PICK a \in MappingFailures(q.kind) \cup {Mapped(q.kind)} :
         call' = [call EXCEPT ![c] = [q EXCEPT !.stage = "done", !.answer = a]]
  BY DEF Map
<1> DEFINE p == [q EXCEPT !.stage = "done", !.answer = a]
<1>3. a \in Answers BY <1>1, AnswerTypes
<1>4. p \in Call /\ p.stage = "done" /\ p.answer = a /\ p.kind = q.kind /\ p.told = q.told
      /\ p.pos = q.pos /\ p.cuts = q.cuts
  BY <1>0, <1>3 DEF Call, Stages
<1>5. Settled(p, chain[c]) BY <1>1, <1>2, <1>4 DEF Succeeded, Settled
<1>6. StageInvariant(p, chain[c]) BY <1>4, <1>5 DEF StageInvariant
<1>7. QED BY <1>0, <1>2, <1>4, <1>6, OneCall DEF Map

-----------------------------------------------------------------------------
(* Listeners come and go: the array stays an array of listeners within its *)
(* bound, and no call's stage or answer changes.                           *)
LEMMA RemoveAtType ==
    ASSUME NEW S, NEW s \in Seq(S), NEW i \in 1..Len(s)
    PROVE  RemoveAt(s, i) \in Seq(S) /\ Len(RemoveAt(s, i)) = Len(s) - 1
<1>1. SubSeq(s, 1, i - 1) \in Seq(S) /\ Len(SubSeq(s, 1, i - 1)) = i - 1
  OBVIOUS
<1>2. SubSeq(s, i + 1, Len(s)) \in Seq(S) /\ Len(SubSeq(s, i + 1, Len(s))) = Len(s) - i
  OBVIOUS
<1> DEFINE a == SubSeq(s, 1, i - 1)
           b == SubSeq(s, i + 1, Len(s))
<1> HIDE DEF a, b
<1>3. a \o b \in Seq(S) /\ Len(a \o b) = Len(a) + Len(b)
  BY <1>1, <1>2, ConcatProperties DEF a, b
<1>4. Len(a) = i - 1 /\ Len(b) = Len(s) - i BY <1>1, <1>2 DEF a, b
<1>5. Len(s) \in Nat /\ i \in Int OBVIOUS
<1>6. Len(a) + Len(b) = Len(s) - 1 BY <1>4, <1>5
<1>7. QED BY <1>3, <1>6 DEF RemoveAt, a, b

LEMMA ChurnKeepsLInv ==
    ASSUME LInv, NEW l \in Listeners, AddListener(l) \/ RemoveListener(l)
    PROVE  LInv'
<1>0. listeners \in Seq(Listeners) /\ Len(listeners) <= MaxListeners
  BY DEF LInv, ListenersOK
<1>1. CASE AddListener(l)
  <2>1. FieldsOK' BY <1>1 DEF LInv, FieldsOK, AddListener
  <2>2. ListenersOK' BY <1>0, <1>1, LifecycleAssumption DEF LInv, ListenersOK, AddListener
  <2>3. \A c \in Calls : StageInvariant(call'[c], chain'[c]) BY <1>1 DEF LInv, AddListener
  <2>4. QED BY <2>1, <2>2, <2>3 DEF LInv
<1>2. CASE RemoveListener(l)
  <2>1. PICK i \in 1..Len(listeners) :
           /\ \A c \in Calls : call[c].cuts < MaxCuts
           /\ listeners' = RemoveAt(listeners, i)
           /\ call' = [c \in Calls |->
                          [call[c] EXCEPT !.kept = @ \ {l},
                                          !.cuts = IF Emitting(c) /\ i <= call[c].pos
                                                   THEN @ + 1 ELSE @]]
           /\ UNCHANGED chain
    BY <1>2 DEF RemoveListener
  <2>2. ASSUME NEW c \in Calls
        PROVE  /\ call'[c] \in Call
               /\ call'[c].stage = call[c].stage /\ call'[c].kind = call[c].kind
               /\ call'[c].told = call[c].told /\ call'[c].answer = call[c].answer
               /\ call'[c].pos = call[c].pos /\ call'[c].cuts <= MaxCuts
    <3> DEFINE q == call[c]
               n == IF Emitting(c) /\ i <= q.pos THEN q.cuts + 1 ELSE q.cuts
               p == [q EXCEPT !.kept = q.kept \ {l}, !.cuts = n]
    <3>1. q \in Call BY DEF LInv, FieldsOK, Call
    <3>2. q.cuts \in Nat /\ q.cuts < MaxCuts BY <2>1, <3>1 DEF Call
    <3>3. n \in Nat /\ n <= MaxCuts BY <3>2, LifecycleAssumption
    <3>4. call'[c] = p BY <2>1
    <3> HIDE DEF n, q
    <3>5. p \in Call BY <3>1, <3>3 DEF Call
    <3>6. p.stage = q.stage /\ p.kind = q.kind /\ p.told = q.told /\ p.answer = q.answer
          /\ p.pos = q.pos /\ p.cuts = n
      BY <3>1 DEF Call
    <3> HIDE DEF p
    <3>7. QED BY <3>3, <3>4, <3>5, <3>6 DEF q
  <2>3. call' \in [Calls -> Call] BY <2>1, <2>2
  <2>4. FieldsOK' BY <2>1, <2>3 DEF LInv, FieldsOK, Call
  <2>5. listeners' \in Seq(Listeners) /\ Len(listeners') <= MaxListeners
    <3>1. RemoveAt(listeners, i) \in Seq(Listeners)
          /\ Len(RemoveAt(listeners, i)) = Len(listeners) - 1
      BY <1>0, <2>1, RemoveAtType
    <3>2. Len(listeners) \in Nat BY <1>0
    <3>3. listeners' = RemoveAt(listeners, i) BY <2>1
    <3>4. Len(listeners) - 1 <= MaxListeners BY <1>0, <3>2, LifecycleAssumption
    <3>5. QED BY <3>1, <3>3, <3>4
  <2>6. ListenersOK' BY <2>2, <2>5 DEF LInv, ListenersOK
  <2>7. \A c \in Calls : StageInvariant(call'[c], chain'[c])
    <3> SUFFICES ASSUME NEW c \in Calls PROVE StageInvariant(call'[c], chain[c])
      BY <2>1
    <3> DEFINE q == call[c]
               p == call'[c]
    <3>1. p.stage = q.stage /\ p.kind = q.kind /\ p.told = q.told /\ p.answer = q.answer
      BY <2>2
    <3>2. StageInvariant(q, chain[c]) BY DEF LInv
    <3> HIDE DEF p, q
    <3>3. StageInvariant(p, chain[c])
      BY <3>1, <3>2 DEF StageInvariant, Pending, Succeeded, Threw, Settled
    <3>4. QED BY <3>3 DEF p
  <2>8. QED BY <2>4, <2>6, <2>7 DEF LInv
<1>3. QED BY <1>1, <1>2

LEMMA NextKeepsLInv == LInv /\ [Next]_vars => LInv'
<1> SUFFICES ASSUME LInv, [Next]_vars PROVE LInv' OBVIOUS
<1>1. CASE UNCHANGED vars
  <2>1. FieldsOK' BY <1>1 DEF LInv, FieldsOK, vars
  <2>2. ListenersOK' BY <1>1 DEF LInv, ListenersOK, vars
  <2>3. \A c \in Calls : StageInvariant(call'[c], chain'[c]) BY <1>1 DEF LInv, vars
  <2>4. QED BY <2>1, <2>2, <2>3 DEF LInv
<1>2. ASSUME NEW c \in Calls,
             \/ Refuse(c) \/ Start(c) \/ Step(c) \/ HandlerSettles(c)
             \/ Reach(c) \/ Consensus(c) \/ SdkSettles(c)
      PROVE  LInv'
  BY <1>2, StartingKeepsLInv, WalkingKeepsLInv, SigningKeepsLInv, NetworkKeepsLInv,
     SdkKeepsLInv, MappingKeepsLInv DEF Step
<1>3. ASSUME NEW l \in Listeners, AddListener(l) \/ RemoveListener(l) PROVE LInv'
  BY <1>3, ChurnKeepsLInv
<1>4. QED BY <1>1, <1>2, <1>3 DEF Next

-----------------------------------------------------------------------------
(* The inductive invariant holds of every behaviour.                       *)
THEOREM LifecycleInvariant == Spec => []LInv
BY InitLInv, NextKeepsLInv, PTL DEF Spec

LEMMA LInvTypeOK == LInv => TypeOK
<1> SUFFICES ASSUME LInv PROVE TypeOK OBVIOUS
<1>1. ASSUME NEW c \in Calls
      PROVE  call[c].pos \in 0..MaxListeners /\ call[c].cuts \in 0..MaxCuts
  BY LifecycleAssumption DEF LInv, FieldsOK, ListenersOK
<1>2. QED BY <1>1 DEF LInv, FieldsOK, ListenersOK, TypeOK

(* Type correctness: the walked position never passes the longest array,   *)
(* and every answer is one normalizeError or an operation can give.        *)
THEOREM LifecycleTypeCorrect == Spec => []TypeOK
BY LifecycleInvariant, LInvTypeOK, PTL

(* A settled answer is honest: one LedgerCall allows.                      *)
LEMMA SettledIsHonest ==
    ASSUME NEW q, NEW fate, Settled(q, fate)
    PROVE  /\ q.answer \in Ledger!Answers
           /\ Ledger!Honest(q.answer, fate)
<1> DEFINE Fine(a) == a \in Ledger!Answers /\ Ledger!Honest(a, fate)
<1>1. Fine(Rejected("SDK_ERROR")) /\ Fine(Rejected("UNKNOWN")) /\ Fine(WithTx("SDK_ERROR"))
  BY DEF Rejected, WithTx, Ledger!Answers, Ledger!AnswerCodes, Ledger!Honest
<1>2. fate = "none" => /\ Fine(Rejected("INPUT_INVALID")) /\ Fine(Rejected("raw"))
                       /\ Fine(Rejected("result")) /\ Fine(Rejected("NOT_FOUND"))
  BY DEF Rejected, Ledger!Answers, Ledger!AnswerCodes, Ledger!Honest
<1>3. fate = "success" => Fine(WithTx("ok")) /\ Fine(WithTx("RESULT_MAPPING_FAILED"))
  BY DEF WithTx, Ledger!Answers, Ledger!AnswerCodes, Ledger!Honest
<1> HIDE DEF Fine
<1>4. Fine(q.answer)
  <2>1. CASE Threw(q, fate) BY <2>1, <1>1, <1>2 DEF Threw
  <2>2. CASE q.answer \in Refusals(q.kind) /\ fate = "none"
    BY <2>2, <1>1, <1>2 DEF Refusals
  <2>3. CASE /\ fate = IF q.kind \in Queries THEN "none" ELSE "success"
             /\ q.answer \in {Mapped(q.kind)} \cup MappingFailures(q.kind)
    BY <2>3, <1>1, <1>2, <1>3 DEF Mapped, MappingFailures, Queries, QueryClasses
  <2>4. QED BY <2>1, <2>2, <2>3 DEF Settled
<1>5. QED BY <1>4 DEF Fine

(* What the caller is told of its transaction is true, whatever the        *)
(* listeners of HieroContext do.                                           *)
THEOREM LifecycleAnswers == Spec => []AnswerMatchesChain
<1>1. LInv => AnswerMatchesChain
  <2> SUFFICES ASSUME LInv, NEW c \in Calls, At(c, "done")
               PROVE  LET a == call[c].answer IN
                      /\ a.code \in {"ok", "RESULT_MAPPING_FAILED"}
                            => chain[c] = "success" /\ a.tx
                      /\ a.code \in {"INPUT_INVALID", "raw", "result", "NOT_FOUND"}
                            => chain[c] = "none" /\ ~a.tx
    BY DEF AnswerMatchesChain
  <2>1. Settled(call[c], chain[c]) BY DEF LInv, StageInvariant, At
  <2>2. QED BY <2>1, SettledIsHonest DEF Ledger!Honest
<1>2. QED BY <1>1, LifecycleInvariant, PTL

(* The after-event and the promise tell the same story.                    *)
THEOREM LifecycleEvents == Spec => []EventMatchesAnswer
<1>1. LInv => EventMatchesAnswer
  <2> SUFFICES ASSUME LInv, NEW c \in Calls, At(c, "done")
               PROVE  LET q == call[c] IN
                      /\ q.told = "status"
                            => /\ chain[c] = IF q.kind \in Queries THEN "none" ELSE "success"
                               /\ q.answer \in {Mapped(q.kind)} \cup MappingFailures(q.kind)
                      /\ q.told = "error"
                            => q.answer.code \notin {"ok", "result", "RESULT_MAPPING_FAILED",
                                                     "NOT_FOUND"}
                      /\ q.told = "nothing"
                            => /\ chain[c] = "none"
                               /\ \/ q.answer.code \in {"INPUT_INVALID", "raw"}
                                  \/ q.kind \in QueryClasses /\ q.answer = Rejected("SDK_ERROR")
    BY DEF EventMatchesAnswer
  <2>1. Settled(call[c], chain[c]) BY DEF LInv, StageInvariant, At
  <2>2. CASE Threw(call[c], chain[c]) BY <2>2 DEF Threw, Rejected, WithTx
  <2>3. CASE call[c].told = "nothing"
    <3>1. chain[c] = "none" /\ call[c].answer \in Refusals(call[c].kind)
      BY <2>1, <2>3 DEF Settled, Threw
    <3>2. Rejected("INPUT_INVALID").code = "INPUT_INVALID" /\ Rejected("raw").code = "raw"
      BY DEF Rejected
    <3>3. QED BY <2>3, <3>1, <3>2 DEF Refusals
  <2>4. CASE call[c].told = "status" BY <2>1, <2>4 DEF Settled, Threw
  <2>5. QED BY <2>1, <2>2, <2>3, <2>4 DEF Settled
<1>2. QED BY <1>1, LifecycleInvariant, PTL

-----------------------------------------------------------------------------
(* Refinement.  The reply is open until the promise settles.               *)
LEMMA OpenIsOpen == Ledger!Open = Open
BY DEF Ledger!Open, Open

(* A step within one call answers it or leaves the ledger's view alone.    *)
LEMMA OneCallRefines ==
    ASSUME LInv, LInv', NEW c \in Calls, NEW p, call[c].stage # "done",
           call' = [call EXCEPT ![c] = p], chain' = chain
    PROVE  Ledger!Answer(c) \/ UNCHANGED Ledger!vars
<1>1. call'[c] = p BY DEF LInv, FieldsOK
<1>2. \A d \in Calls : d # c => call'[d] = call[d] BY DEF LInv, FieldsOK
<1>3. CASE p.stage # "done"
  <2>1. \A d \in Calls : (IF At(d, "done") THEN call[d].answer ELSE Open)'
                         = IF At(d, "done") THEN call[d].answer ELSE Open
    BY <1>1, <1>2, <1>3 DEF At
  <2>2. replyOf' = replyOf BY <2>1 DEF replyOf
  <2>3. QED BY <2>2 DEF Ledger!vars
<1>4. CASE p.stage = "done"
  <2>1. Settled(p, chain[c]) BY <1>1, <1>4 DEF LInv, StageInvariant
  <2>2. p.answer \in Ledger!Answers /\ Ledger!Honest(p.answer, chain[c])
    BY <2>1, SettledIsHonest
  <2>3. replyOf[c] = Ledger!Open BY OpenIsOpen DEF replyOf, At
  <2>4. replyOf' = [replyOf EXCEPT ![c] = p.answer]
    <3>1. replyOf'[c] = p.answer BY <1>1, <1>4 DEF replyOf, At
    <3>2. \A d \in Calls : d # c => replyOf'[d] = replyOf[d] BY <1>2 DEF replyOf, At
    <3>3. replyOf' = [d \in Calls |-> replyOf'[d]] /\ replyOf = [d \in Calls |-> replyOf[d]]
      BY DEF replyOf
    <3>4. QED BY <3>1, <3>2, <3>3
  <2>5. QED BY <2>2, <2>3, <2>4 DEF Ledger!Answer
<1>5. QED BY <1>3, <1>4

(* Listeners coming and going are invisible to the ledger.                 *)
LEMMA ChurnRefines ==
    ASSUME LInv, NEW l \in Listeners, AddListener(l) \/ RemoveListener(l)
    PROVE  UNCHANGED Ledger!vars
<1>1. CASE AddListener(l) BY <1>1 DEF AddListener, Ledger!vars, replyOf, At
<1>2. CASE RemoveListener(l)
  <2>1. chain' = chain BY <1>2 DEF RemoveListener
  <2>2. \A d \in Calls : call'[d].stage = call[d].stage /\ call'[d].answer = call[d].answer
    <3> TAKE d \in Calls
    <3>1. call[d] \in Call BY DEF LInv, FieldsOK, Call
    <3>2. PICK i \in 1..Len(listeners) :
             call' = [c \in Calls |->
                        [call[c] EXCEPT !.kept = @ \ {l},
                                        !.cuts = IF Emitting(c) /\ i <= call[c].pos
                                                 THEN @ + 1 ELSE @]]
      BY <1>2 DEF RemoveListener
    <3>3. QED BY <3>1, <3>2 DEF Call
  <2>3. replyOf' = replyOf BY <2>2 DEF replyOf, At
  <2>4. QED BY <2>1, <2>3 DEF Ledger!vars
<1>3. QED BY <1>1, <1>2

LEMMA StepRefines ==
    ASSUME LInv, LInv', [Next]_vars
    PROVE  [Ledger!Next]_(Ledger!vars)
<1>1. CASE UNCHANGED vars BY <1>1 DEF vars, Ledger!vars, replyOf, At
<1>2. ASSUME NEW c \in Calls, Refuse(c) \/ Start(c) \/ Step(c) \/ HandlerSettles(c)
                              \/ SdkSettles(c)
      PROVE  Ledger!Answer(c) \/ UNCHANGED Ledger!vars
  <2>1. call[c].stage # "done" /\ chain' = chain
    BY <1>2 DEF Refuse, Start, Step, HandlerSettles, SdkSettles, Notify, Emitted, Sign, Map,
                Executed, ExecuteFails, ReceiptArrives, ReceiptFails, QueryAnswers, At, Emitting
  <2>2. \E p : call' = [call EXCEPT ![c] = p]
    <3>1. CASE Refuse(c) BY <3>1 DEF Refuse
    <3>2. CASE Start(c) BY <3>2 DEF Start
    <3>3. CASE Notify(c) BY <3>3 DEF Notify
    <3>4. CASE Emitted(c) BY <3>4 DEF Emitted
    <3>5. CASE Sign(c) BY <3>5 DEF Sign
    <3>6. CASE Map(c) BY <3>6 DEF Map
    <3>7. CASE HandlerSettles(c) BY <3>7 DEF HandlerSettles
    <3>8. CASE Executed(c) BY <3>8 DEF Executed
    <3>9. CASE ExecuteFails(c) BY <3>9 DEF ExecuteFails
    <3>10. CASE ReceiptArrives(c) BY <3>10 DEF ReceiptArrives
    <3>11. CASE ReceiptFails(c) BY <3>11 DEF ReceiptFails
    <3>12. CASE QueryAnswers(c) BY <3>12 DEF QueryAnswers
    <3>13. QED BY <1>2, <3>1, <3>2, <3>3, <3>4, <3>5, <3>6, <3>7, <3>8, <3>9, <3>10, <3>11,
                  <3>12 DEF Step, SdkSettles
  <2>3. QED BY <2>1, <2>2, OneCallRefines
<1>3. ASSUME NEW c \in Calls, Reach(c) \/ Consensus(c)
      PROVE  Ledger!Send(c) \/ Ledger!Decide(c)
  <2>1. replyOf' = replyOf BY <1>3 DEF Reach, Consensus, replyOf, At
  <2>2. CASE Reach(c)
    <3>1. replyOf[c] = Ledger!Open BY <2>2, OpenIsOpen DEF Reach, At, replyOf
    <3>2. QED BY <2>1, <2>2, <3>1 DEF Reach, Ledger!Send
  <2>3. CASE Consensus(c) BY <2>1, <2>3 DEF Consensus, Ledger!Decide
  <2>4. QED BY <1>3, <2>2, <2>3
<1>4. ASSUME NEW l \in Listeners, AddListener(l) \/ RemoveListener(l)
      PROVE  UNCHANGED Ledger!vars
  BY <1>4, ChurnRefines
<1>5. QED BY <1>1, <1>2, <1>3, <1>4 DEF Next, Ledger!Next

(* The detailed lifecycle implements LedgerCall: no listener, however it   *)
(* behaves, shows in what the caller is promised.                          *)
THEOREM LifecycleImplementsLedger == Spec => ImplementsLedger
<1>1. Init => Ledger!Init
  BY OpenIsOpen DEF Init, Ledger!Init, replyOf, At, Fresh
<1>2. QED BY <1>1, StepRefines, LifecycleInvariant, PTL DEF Spec, ImplementsLedger, Ledger!Spec
-----------------------------------------------------------------------------
(* The walks through the live array of listeners, for any number of calls  *)
(* that emit at once: a walk misses at most one listener for every removal.*)
(* The bound itself is inductive (with LInv), because Miss, the set of     *)
(* listeners missed, only ever grows in one step: RemoveListener at or     *)
(* before the position of the walk, by the one listener that slides back   *)
(* over it.  The proof says that of each kind of step.                     *)

Walking(q) == q.stage \in {"before", "after"}
Hearers(q) == IF q.stage = "before" THEN HasBefore ELSE HasAfter

(* Overlooked, as a function of the call's record and the array.           *)
Miss(q, array) == {x \in q.kept : /\ x \in Hearers(q) /\ x \notin q.heard
                                  /\ \A i \in (q.pos + 1)..Len(array) : array[i] # x}

AtMost(S, n) == IsFiniteSet(S) /\ Cardinality(S) <= n

MissInv == \A c \in Calls : Walking(call[c]) => AtMost(Miss(call[c], listeners), call[c].cuts)

LEMMA MissIsOverlooked == \A c \in Calls : Overlooked(c) = Miss(call[c], listeners)
BY DEF Overlooked, Miss, StillAhead, Handles, Hearers

-----------------------------------------------------------------------------
(* A bound on a set bounds its subsets, and one element more is one more.  *)
LEMMA AtMostShrinks ==
    ASSUME NEW n \in Nat, NEW S, AtMost(S, n), NEW T, T \subseteq S
    PROVE  AtMost(T, n)
<1>1. IsFiniteSet(T) /\ Cardinality(T) <= Cardinality(S) BY FS_Subset DEF AtMost
<1>2. Cardinality(T) \in Nat /\ Cardinality(S) \in Nat
  BY <1>1, FS_CardinalityType DEF AtMost
<1>3. QED BY <1>1, <1>2 DEF AtMost

LEMMA AtMostGrows ==
    ASSUME NEW n \in Nat, NEW S, AtMost(S, n), NEW x, NEW T, T \subseteq S \cup {x}
    PROVE  AtMost(T, n + 1)
<1>1. IsFiniteSet(S \cup {x}) /\ Cardinality(S \cup {x}) \in {Cardinality(S), Cardinality(S) + 1}
  BY FS_AddElement DEF AtMost
<1>2. Cardinality(S) \in Nat BY FS_CardinalityType DEF AtMost
<1>3. AtMost(S \cup {x}, n + 1) BY <1>1, <1>2 DEF AtMost
<1>4. QED BY <1>3, AtMostShrinks

LEMMA AtMostNone == ASSUME NEW n \in Nat PROVE AtMost({}, n)
BY FS_EmptySet DEF AtMost

(* What splicing one element out does to the others.                       *)
LEMMA RemoveAtElements ==
    ASSUME NEW S, NEW s \in Seq(S), NEW i \in 1..Len(s), NEW j \in 1..(Len(s) - 1)
    PROVE  RemoveAt(s, i)[j] = IF j < i THEN s[j] ELSE s[j + 1]
<1> DEFINE a == SubSeq(s, 1, i - 1)
           b == SubSeq(s, i + 1, Len(s))
<1>1. a \in Seq(S) /\ Len(a) = i - 1 /\ \A k \in 1..(i - 1) : a[k] = s[k]
  OBVIOUS
<1>2. b \in Seq(S) /\ Len(b) = Len(s) - i /\ \A k \in 1..(Len(s) - i) : b[k] = s[i + k]
  OBVIOUS
<1> HIDE DEF a, b
<1>3. RemoveAt(s, i) = a \o b BY DEF RemoveAt, a, b
<1>4. \A k \in 1..(Len(a) + Len(b)) : (a \o b)[k] = IF k <= Len(a) THEN a[k] ELSE b[k - Len(a)]
  BY <1>1, <1>2, ConcatProperties
<1>5. (a \o b)[j] = IF j <= i - 1 THEN a[j] ELSE b[j - (i - 1)]
  BY <1>1, <1>2, <1>4
<1>6. CASE j < i BY <1>1, <1>3, <1>5, <1>6
<1>7. CASE ~(j < i)
  <2>1. j - (i - 1) \in 1..(Len(s) - i) /\ i + (j - (i - 1)) = j + 1 BY <1>7
  <2>2. b[j - (i - 1)] = s[j + 1] BY <1>2, <2>1
  <2>3. (a \o b)[j] = b[j - (i - 1)] BY <1>5, <1>7
  <2>4. QED BY <1>3, <1>7, <2>2, <2>3
<1>8. QED BY <1>6, <1>7

-----------------------------------------------------------------------------
(* The three ways a call's own step can leave its walk: it is over, it     *)
(* starts afresh, or it goes on past listeners that were told or need not. *)
Begins(p) == p.pos = 0 /\ p.kept = ToSet(listeners) /\ p.cuts = 0

GoesOn(q, p) == /\ p.stage = q.stage /\ p.kept = q.kept /\ p.cuts = q.cuts
                /\ q.heard \subseteq p.heard /\ q.pos <= p.pos
                /\ \A i \in (q.pos + 1)..p.pos :
                      i <= Len(listeners) /\ listeners[i] \in Hearers(q) => listeners[i] \in p.heard

LEMMA OwnStepKeepsMiss ==
    ASSUME LInv, MissInv, NEW c \in Calls, NEW p \in Call,
           call' = [call EXCEPT ![c] = p], listeners' = listeners,
           ~Walking(p) \/ Begins(p) \/ GoesOn(call[c], p)
    PROVE  MissInv'
<1>1. call \in [Calls -> Call] /\ listeners \in Seq(Listeners)
  BY DEF LInv, FieldsOK, ListenersOK, Call
<1> SUFFICES ASSUME NEW d \in Calls, Walking(call'[d])
             PROVE  AtMost(Miss(call'[d], listeners), call'[d].cuts)
  BY DEF MissInv
<1>2. CASE d # c
  <2>1. call'[d] = call[d] BY <1>1, <1>2
  <2>2. QED BY <2>1 DEF MissInv
<1>3. CASE d = c
  <2> DEFINE q == call[c]
  <2>0. call'[c] = p /\ Walking(p) BY <1>1, <1>3
  <2>1. q \in Call /\ q.pos \in Nat /\ p.pos \in Nat /\ p.cuts \in Nat /\ q.cuts \in Nat
        /\ Len(listeners) \in Nat
    BY <1>1 DEF Call
  <2>2. CASE Begins(p)
    <3>1. Miss(p, listeners) = {} BY <2>1, <2>2 DEF Begins, Miss, ToSet
    <3>2. QED BY <1>3, <2>0, <2>1, <3>1, AtMostNone
  <2>3. CASE GoesOn(q, p)
    <3>1. Miss(p, listeners) \subseteq Miss(q, listeners)
      <4> SUFFICES ASSUME NEW x \in Miss(p, listeners) PROVE x \in Miss(q, listeners)
        OBVIOUS
      <4>1. x \in q.kept /\ x \in Hearers(q) /\ x \notin q.heard
        BY <2>3 DEF GoesOn, Miss, Hearers
      <4>2. ASSUME NEW i \in (q.pos + 1)..Len(listeners) PROVE listeners[i] # x
        <5>1. CASE i <= p.pos
          <6>1. i \in (q.pos + 1)..p.pos /\ i <= Len(listeners) BY <2>1, <5>1
          <6>2. listeners[i] \in Hearers(q) => listeners[i] \in p.heard
            BY <2>3, <6>1 DEF GoesOn
          <6>3. QED BY <4>1, <6>2 DEF Miss
        <5>2. CASE ~(i <= p.pos)
          <6>1. i \in (p.pos + 1)..Len(listeners) BY <2>1, <5>2
          <6>2. QED BY <6>1 DEF Miss
        <5>3. QED BY <5>1, <5>2
      <4>3. QED BY <4>1, <4>2 DEF Miss
    <3>2. Walking(q) BY <2>0, <2>3 DEF GoesOn, Walking
    <3>3. AtMost(Miss(q, listeners), q.cuts) BY <3>2 DEF MissInv
    <3>4. AtMost(Miss(p, listeners), q.cuts) BY <2>1, <3>1, <3>3, AtMostShrinks
    <3>5. QED BY <1>3, <2>0, <2>3, <3>4 DEF GoesOn
  <2>4. QED BY <2>0, <2>2, <2>3
<1>4. QED BY <1>2, <1>3

(* What Emission, Failed and Walked do to the walk.                        *)
LEMMA EmissionBegins ==
    ASSUME NEW q \in Call, NEW stage \in Stages, listeners \in Seq(Listeners)
    PROVE  Begins(Emission(q, stage))
BY DEF Emission, Begins, Call

LEMMA FailedBegins ==
    ASSUME NEW q \in Call, NEW a \in Answers, listeners \in Seq(Listeners)
    PROVE  Begins(Failed(q, a))
BY DEF Failed, Emission, Begins, Call

LEMMA ReportedBegins ==
    ASSUME NEW q \in Call, listeners \in Seq(Listeners)
    PROVE  Begins([Emission(q, "after") EXCEPT !.told = "status"])
BY DEF Emission, Begins, Call

-----------------------------------------------------------------------------
LEMMA StartingKeepsMiss ==
    ASSUME LInv, MissInv, NEW c \in Calls, Refuse(c) \/ Start(c)
    PROVE  MissInv'
<1> DEFINE q == call[c]
<1>0. q \in Call /\ listeners \in Seq(Listeners)
  BY DEF LInv, FieldsOK, ListenersOK, Call
<1>1. CASE Refuse(c)
  <2>0. PICK kind \in Kinds : \E a \in Refusals(kind) :
           call' = [call EXCEPT ![c] = [Fresh EXCEPT !.kind = kind, !.stage = "done",
                                                     !.answer = a]]
    BY <1>1 DEF Refuse
  <2>1. PICK a \in Refusals(kind) :
           call' = [call EXCEPT ![c] = [Fresh EXCEPT !.kind = kind, !.stage = "done",
                                                     !.answer = a]]
    BY <2>0
  <2> DEFINE p == [Fresh EXCEPT !.kind = kind, !.stage = "done", !.answer = a]
  <2>2. p \in Call /\ p.stage = "done"
    BY <2>1, AnswerTypes, FreshType DEF Fresh, Call, Stages
  <2>3. ~Walking(p) BY <2>2 DEF Walking
  <2>4. QED BY <1>1, <2>1, <2>2, <2>3, OwnStepKeepsMiss DEF Refuse
<1>2. CASE Start(c)
  <2>0. PICK kind \in Kinds :
           call' = [call EXCEPT ![c] = Emission([Fresh EXCEPT !.kind = kind], "before")]
    BY <1>2 DEF Start
  <2> DEFINE f == [Fresh EXCEPT !.kind = kind]
             p == Emission(f, "before")
  <2>1. call' = [call EXCEPT ![c] = p] BY <2>0
  <2>2. f \in Call BY DEF Fresh, Call, Kinds, Stages, Open, Answers
  <2> HIDE DEF f
  <2>3. p \in Call /\ Begins(p) BY <1>0, <2>2, EmissionFields, EmissionBegins DEF Stages
  <2>4. QED BY <1>2, <2>1, <2>3, OwnStepKeepsMiss DEF Start
<1>3. QED BY <1>1, <1>2

(* A walk passes one listener at a time, and tells it if it has a handler. *)
LEMMA WalkingKeepsMiss ==
    ASSUME LInv, MissInv, NEW c \in Calls, Notify(c) \/ HandlerSettles(c) \/ Emitted(c)
    PROVE  MissInv'
<1> DEFINE q == call[c]
<1>0. q \in Call /\ listeners \in Seq(Listeners) /\ StageInvariant(q, chain[c])
  BY DEF LInv, FieldsOK, ListenersOK, Call
<1>1. CASE Notify(c)
  <2> DEFINE l == listeners[q.pos + 1]
             b == l \in Handles(c)
             h == IF l \in Handles(c) THEN q.heard \cup {l} ELSE q.heard
             p == [q EXCEPT !.pos = q.pos + 1, !.busy = b, !.heard = h]
  <2>1. call' = [call EXCEPT ![c] = p] BY <1>1 DEF Notify
  <2>2. q.pos \in Nat /\ q.pos < Len(listeners) BY <1>0, <1>1 DEF Notify, Call
  <2>3. b \in BOOLEAN /\ h \in SUBSET Listeners
    <3>1. l \in Listeners BY <1>0, <2>2
    <3>2. q.heard \in SUBSET Listeners BY <1>0 DEF Call
    <3>3. h \in SUBSET Listeners BY <3>1, <3>2
    <3>4. b \in BOOLEAN OBVIOUS
    <3>5. QED BY <3>3, <3>4
  <2>4. q.heard \subseteq h /\ (l \in Handles(c) => l \in h) OBVIOUS
  <2>5. Handles(c) = Hearers(q) BY DEF Handles, Hearers
  <2>6. p \in Call
    <3> SUFFICES ASSUME NEW b2 \in BOOLEAN, NEW h2 \in SUBSET Listeners
                 PROVE  [q EXCEPT !.pos = q.pos + 1, !.busy = b2, !.heard = h2] \in Call
      BY <2>3
    <3> HIDE DEF q
    <3>1. q.pos + 1 \in Nat BY <2>2
    <3>2. CASE b2 = TRUE BY <1>0, <3>1, <3>2 DEF Call
    <3>3. CASE b2 = FALSE BY <1>0, <3>1, <3>3 DEF Call
    <3>4. QED BY <3>2, <3>3
  <2>7. p.stage = q.stage /\ p.kept = q.kept /\ p.cuts = q.cuts /\ p.heard = h
        /\ p.pos = q.pos + 1
    BY <1>0 DEF Call
  <2> HIDE DEF p, h, b
  <2>8. GoesOn(q, p)
    <3>1. \A i \in (q.pos + 1)..p.pos : i = q.pos + 1 BY <2>2, <2>7
    <3>2. QED BY <2>2, <2>4, <2>5, <2>7, <3>1 DEF GoesOn
  <2>9. listeners' = listeners BY <1>1 DEF Notify
  <2>10. QED BY <2>1, <2>6, <2>8, <2>9, OwnStepKeepsMiss
<1>2. CASE HandlerSettles(c)
  <2> DEFINE p == [q EXCEPT !.busy = FALSE]
  <2>1. call' = [call EXCEPT ![c] = p] /\ listeners' = listeners BY <1>2 DEF HandlerSettles
  <2>2. p \in Call /\ p.stage = q.stage /\ p.kept = q.kept /\ p.cuts = q.cuts
        /\ p.heard = q.heard /\ p.pos = q.pos /\ q.pos \in Nat
    BY <1>0 DEF Call
  <2> HIDE DEF p
  <2>3. GoesOn(q, p) BY <2>2 DEF GoesOn
  <2>4. QED BY <2>1, <2>2, <2>3, OwnStepKeepsMiss
<1>3. CASE Emitted(c)
  <2> DEFINE p == Walked(q, AfterWalk(q))
  <2>1. call' = [call EXCEPT ![c] = p] /\ listeners' = listeners BY <1>3 DEF Emitted
  <2>2. AfterWalk(q) \in Stages /\ AfterWalk(q) \notin {"before", "after"}
    BY DEF AfterWalk, Stages
  <2>3. p \in Call /\ p.stage = AfterWalk(q) BY <1>0, <2>2, EmissionFields
  <2>4. ~Walking(p) BY <2>2, <2>3 DEF Walking
  <2>5. QED BY <2>1, <2>3, <2>4, OwnStepKeepsMiss
<1>4. QED BY <1>1, <1>2, <1>3

(* Between the walks: every way into the after-event starts a new one.     *)
LEMMA FailingKeepsMiss ==
    ASSUME LInv, MissInv, NEW c \in Calls, NEW a \in Answers,
           call' = [call EXCEPT ![c] = Failed(call[c], a)], listeners' = listeners
    PROVE  MissInv'
<1>1. call[c] \in Call /\ listeners \in Seq(Listeners)
  BY DEF LInv, FieldsOK, ListenersOK, Call
<1>2. Failed(call[c], a) \in Call /\ Begins(Failed(call[c], a))
  BY <1>1, FailedFields, FailedBegins
<1>3. QED BY <1>2, OwnStepKeepsMiss

LEMMA ReportingKeepsMiss ==
    ASSUME LInv, MissInv, NEW c \in Calls, listeners' = listeners,
           call' = [call EXCEPT ![c] = [Emission(call[c], "after") EXCEPT !.told = "status"]]
    PROVE  MissInv'
<1> DEFINE p == [Emission(call[c], "after") EXCEPT !.told = "status"]
<1>1. call[c] \in Call /\ listeners \in Seq(Listeners)
  BY DEF LInv, FieldsOK, ListenersOK, Call
<1>2. p \in Call /\ Begins(p) BY <1>1, ReportedFields, ReportedBegins
<1>3. QED BY <1>2, OwnStepKeepsMiss

LEMMA WorkingKeepsMiss ==
    ASSUME LInv, MissInv, NEW c \in Calls, Sign(c) \/ Map(c) \/ SdkSettles(c)
    PROVE  MissInv'
<1> DEFINE q == call[c]
<1>0. q \in Call BY DEF LInv, FieldsOK, Call
<1>00. listeners' = listeners
  BY DEF Sign, Map, SdkSettles, Executed, ExecuteFails, ReceiptArrives, ReceiptFails, QueryAnswers
<1>1. ASSUME NEW stage \in {"execute", "receipt"},
             call' = [call EXCEPT ![c] = [q EXCEPT !.stage = stage]]
      PROVE  MissInv'
  <2>1. [q EXCEPT !.stage = stage] \in Call /\ [q EXCEPT !.stage = stage].stage = stage
    BY <1>0 DEF Call, Stages
  <2>2. ~Walking([q EXCEPT !.stage = stage]) BY <2>1 DEF Walking
  <2>3. QED BY <1>00, <1>1, <2>1, <2>2, OwnStepKeepsMiss
<1>2. CASE Sign(c)
  <2>1. CASE call' = [call EXCEPT ![c].stage = "execute"] BY <1>1, <2>1
  <2>2. ASSUME NEW a \in Normalized \cup {Rejected("INPUT_INVALID")},
               call' = [call EXCEPT ![c] = Failed(q, a)]
        PROVE  MissInv'
    BY <1>00, <2>2, AnswerTypes, FailingKeepsMiss
  <2>3. QED BY <1>2, <2>1, <2>2 DEF Sign
<1>3. CASE Map(c)
  <2>1. PICK a \in MappingFailures(q.kind) \cup {Mapped(q.kind)} :
           call' = [call EXCEPT ![c] = [q EXCEPT !.stage = "done", !.answer = a]]
    BY <1>3 DEF Map
  <2>2. a \in Answers
    <3>1. q.kind \in Kinds BY <1>0 DEF Call
    <3>2. QED BY <3>1, AnswerTypes
  <2> DEFINE p == [q EXCEPT !.stage = "done", !.answer = a]
  <2>3. p \in Call /\ p.stage = "done" BY <1>0, <2>2 DEF Call, Stages
  <2>4. ~Walking(p) BY <2>3 DEF Walking
  <2>5. QED BY <1>00, <2>1, <2>3, <2>4, OwnStepKeepsMiss
<1>4. CASE SdkSettles(c)
  <2>1. CASE Executed(c) BY <1>1, <2>1 DEF Executed
  <2>2. ASSUME NEW a \in Normalized \cup {NormalizedReceiptError},
               call' = [call EXCEPT ![c] = Failed(q, a)]
        PROVE  MissInv'
    BY <1>00, <2>2, AnswerTypes, FailingKeepsMiss
  <2>3. CASE call' = [call EXCEPT ![c] = [Emission(q, "after") EXCEPT !.told = "status"]]
    BY <1>00, <2>3, ReportingKeepsMiss
  <2>4. CASE ExecuteFails(c) BY <2>2, <2>4 DEF ExecuteFails
  <2>5. CASE ReceiptArrives(c)
    <3>1. NormalizedReceiptError = WithTx("SDK_ERROR") BY DEF NormalizedReceiptError
    <3>2. QED BY <2>2, <2>3, <2>5, <3>1 DEF ReceiptArrives
  <2>6. CASE ReceiptFails(c) BY <2>2, <2>6 DEF ReceiptFails
  <2>7. CASE QueryAnswers(c) BY <2>2, <2>3, <2>7 DEF QueryAnswers
  <2>8. QED BY <1>4, <2>1, <2>4, <2>5, <2>6, <2>7 DEF SdkSettles
<1>5. QED BY <1>2, <1>3, <1>4

-----------------------------------------------------------------------------
(* One listener more puts it ahead of every walk.                          *)
LEMMA AddingKeepsMiss ==
    ASSUME LInv, MissInv, NEW l \in Listeners, AddListener(l)
    PROVE  MissInv'
<1>1. call \in [Calls -> Call] /\ listeners \in Seq(Listeners)
  BY DEF LInv, FieldsOK, ListenersOK, Call
<1>2. call' = call /\ listeners' = Append(listeners, l) BY DEF AddListener
<1> SUFFICES ASSUME NEW c \in Calls, Walking(call[c])
             PROVE  AtMost(Miss(call[c], listeners'), call[c].cuts)
  BY <1>2 DEF MissInv
<1>3. call[c].pos \in Nat /\ call[c].cuts \in Nat BY <1>1 DEF Call
<1>4. /\ Len(listeners') = Len(listeners) + 1 /\ Len(listeners) \in Nat
      /\ \A i \in 1..Len(listeners) : listeners'[i] = listeners[i]
  BY <1>1, <1>2
<1>5. \A i \in (call[c].pos + 1)..Len(listeners) :
         i \in (call[c].pos + 1)..Len(listeners') /\ listeners'[i] = listeners[i]
  BY <1>3, <1>4
<1>6. Miss(call[c], listeners') \subseteq Miss(call[c], listeners) BY <1>5 DEF Miss
<1>7. AtMost(Miss(call[c], listeners), call[c].cuts) BY DEF MissInv
<1>8. QED BY <1>3, <1>6, <1>7, AtMostShrinks

(* The splice slides what follows back by one: at or before the position   *)
(* of a walk, the listener next in line is passed by, and counted.         *)
LEMMA RemovingKeepsMiss ==
    ASSUME LInv, MissInv, NEW l \in Listeners, RemoveListener(l)
    PROVE  MissInv'
<1>0. call \in [Calls -> Call] /\ listeners \in Seq(Listeners) /\ Len(listeners) \in Nat
  BY DEF LInv, FieldsOK, ListenersOK, Call
<1>1. PICK i \in 1..Len(listeners) :
         /\ listeners[i] = l
         /\ listeners' = RemoveAt(listeners, i)
         /\ call' = [c \in Calls |->
                        [call[c] EXCEPT !.kept = @ \ {l},
                                        !.cuts = IF Emitting(c) /\ i <= call[c].pos
                                                 THEN @ + 1 ELSE @]]
  BY DEF RemoveListener
<1>2. /\ Len(listeners') = Len(listeners) - 1
      /\ \A j \in 1..(Len(listeners) - 1) :
            listeners'[j] = IF j < i THEN listeners[j] ELSE listeners[j + 1]
  BY <1>0, <1>1, RemoveAtType, RemoveAtElements
<1> SUFFICES ASSUME NEW c \in Calls, Walking(call'[c])
             PROVE  AtMost(Miss(call'[c], listeners'), call'[c].cuts)
  BY DEF MissInv
<1> DEFINE q == call[c]
           p == call'[c]
           n == IF Emitting(c) /\ i <= q.pos THEN q.cuts + 1 ELSE q.cuts
<1>3. q \in Call /\ q.pos \in Nat /\ q.cuts \in Nat BY <1>0 DEF Call
<1>4. p = [q EXCEPT !.kept = q.kept \ {l}, !.cuts = n] BY <1>1
<1>5. p.stage = q.stage /\ p.pos = q.pos /\ p.heard = q.heard /\ p.kept = q.kept \ {l}
      /\ p.cuts = n
  BY <1>3, <1>4 DEF Call
<1>6. Walking(q) /\ Emitting(c) BY <1>5 DEF Walking, Emitting
<1>7. AtMost(Miss(q, listeners), q.cuts) BY <1>6 DEF MissInv
<1>8. ASSUME NEW x \in Miss(p, listeners')
      PROVE  /\ x \in q.kept /\ x # l /\ x \in Hearers(q) /\ x \notin q.heard
             /\ \A j \in (q.pos + 1)..(Len(listeners) - 1) : listeners'[j] # x
  BY <1>2, <1>5 DEF Miss, Hearers
<1> HIDE DEF p, q
<1>9. CASE i <= q.pos
  <2>1. Miss(p, listeners') \subseteq Miss(q, listeners) \cup {listeners[q.pos + 1]}
    <3> SUFFICES ASSUME NEW x \in Miss(p, listeners'), x # listeners[q.pos + 1]
                 PROVE  x \in Miss(q, listeners)
      OBVIOUS
    <3>1. ASSUME NEW k \in (q.pos + 1)..Len(listeners) PROVE listeners[k] # x
      <4>1. CASE k = q.pos + 1 BY <4>1
      <4>2. CASE k # q.pos + 1
        <5>1. k - 1 \in (q.pos + 1)..(Len(listeners) - 1) /\ k - 1 \in 1..(Len(listeners) - 1)
              /\ ~(k - 1 < i) /\ (k - 1) + 1 = k
          BY <1>0, <1>3, <1>9, <4>2
        <5>2. listeners'[k - 1] = listeners[k] BY <1>2, <5>1
        <5>3. QED BY <1>8, <5>1, <5>2
      <4>3. QED BY <4>1, <4>2
    <3>2. QED BY <1>8, <3>1 DEF Miss
  <2>2. p.cuts = q.cuts + 1 BY <1>5, <1>6, <1>9
  <2>3. QED BY <1>3, <1>7, <2>1, <2>2, AtMostGrows DEF p
<1>10. CASE ~(i <= q.pos)
  <2>1. Miss(p, listeners') \subseteq Miss(q, listeners)
    <3> SUFFICES ASSUME NEW x \in Miss(p, listeners') PROVE x \in Miss(q, listeners)
      OBVIOUS
    <3>1. ASSUME NEW k \in (q.pos + 1)..Len(listeners) PROVE listeners[k] # x
      <4>1. CASE k = i BY <1>1, <1>8, <4>1
      <4>2. CASE k < i
        <5>1. k \in (q.pos + 1)..(Len(listeners) - 1) /\ k \in 1..(Len(listeners) - 1)
          BY <1>0, <1>3, <4>2
        <5>2. listeners'[k] = listeners[k] BY <1>2, <4>2, <5>1
        <5>3. QED BY <1>8, <5>1, <5>2
      <4>3. CASE k > i
        <5>1. k - 1 \in (q.pos + 1)..(Len(listeners) - 1) /\ k - 1 \in 1..(Len(listeners) - 1)
              /\ ~(k - 1 < i) /\ (k - 1) + 1 = k
          BY <1>0, <1>3, <1>10, <4>3
        <5>2. listeners'[k - 1] = listeners[k] BY <1>2, <5>1
        <5>3. QED BY <1>8, <5>1, <5>2
      <4>4. QED BY <1>0, <1>3, <4>1, <4>2, <4>3
    <3>2. QED BY <1>8, <3>1 DEF Miss
  <2>2. p.cuts = q.cuts BY <1>5, <1>10
  <2>3. QED BY <1>3, <1>7, <2>1, <2>2, AtMostShrinks DEF p
<1>11. QED BY <1>9, <1>10

LEMMA NextKeepsMiss == LInv /\ MissInv /\ [Next]_vars => MissInv'
<1> SUFFICES ASSUME LInv, MissInv, [Next]_vars PROVE MissInv' OBVIOUS
<1>1. CASE listeners' = listeners /\ call' = call BY <1>1 DEF MissInv
<1>2. CASE UNCHANGED vars BY <1>1, <1>2 DEF vars
<1>3. ASSUME NEW c \in Calls,
             \/ Refuse(c) \/ Start(c) \/ Step(c) \/ HandlerSettles(c)
             \/ Reach(c) \/ Consensus(c) \/ SdkSettles(c)
      PROVE  MissInv'
  <2>1. CASE Reach(c) \/ Consensus(c) BY <1>1, <2>1 DEF Reach, Consensus
  <2>2. QED BY <1>3, <2>1, StartingKeepsMiss, WalkingKeepsMiss, WorkingKeepsMiss DEF Step
<1>4. ASSUME NEW l \in Listeners, AddListener(l) \/ RemoveListener(l) PROVE MissInv'
  BY <1>4, AddingKeepsMiss, RemovingKeepsMiss
<1>5. QED BY <1>2, <1>3, <1>4 DEF Next

-----------------------------------------------------------------------------
(* emitBefore and emitAfter: however many calls emit at once and however   *)
(* listeners come and go meanwhile, a walk leaves out no more registered   *)
(* listeners than were removed behind it.                                  *)
THEOREM LifecycleOverlooksOnlyByRemoval == Spec => []OverlooksOnlyByRemoval
<1>1. Init => MissInv BY DEF Init, Fresh, MissInv, Walking
<1>2. MissInv => OverlooksOnlyByRemoval
  BY MissIsOverlooked DEF MissInv, OverlooksOnlyByRemoval, AtMost, Walking, Emitting
<1>3. QED BY <1>1, <1>2, NextKeepsMiss, LifecycleInvariant, PTL DEF Spec
=============================================================================
