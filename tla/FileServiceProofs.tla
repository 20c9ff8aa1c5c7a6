-------------------------- MODULE FileServiceProofs --------------------------
(***************************************************************************)
(* Theorems about FileService, for any callers, any options, any size of a *)
(* transaction and of a chunk.                                             *)
(*                                                                         *)
(* Fits relates, for one call, its stage and its answer to what became of  *)
(* its two transactions and to what was answered for each; Holds relates   *)
(* the bytes of the file to the head and the chunks that have landed.  A   *)
(* step of another call disturbs neither, except that it takes `clean`     *)
(* away where it writes to the same file.                                  *)
(***************************************************************************)
EXTENDS FileService, SequenceTheorems, TLAPS

(* TailFrom, TailOf, Target and Bytes, of the options a call has.          *)
From(o)      == IF o.op = "append" THEN 0 ELSE splitContents(o.size).from
Rest(o)      == o.size - From(o)
FileOf(w, o) == IF o.op = "create" THEN w ELSE Shared
Content(w, o) == [i \in 1..o.size |-> <<w, i>>]

Replacing == {"create", "update"}

CallType == [stage : {"idle", "write", "append", "done"},
             opts : Options \cup {NoOptions}, landed : Nat,
             answer : [code : {"open", "ok", "INPUT_INVALID", "SDK_ERROR", "UNKNOWN"},
                       tx : {"none", "write", "append"}, file : BOOLEAN],
             clean : BOOLEAN]

FileType == [exists : BOOLEAN, locked : BOOLEAN, bytes : Seq(Callers \X Nat)]

Typed ==
    /\ chain \in [Callers \X Parts -> {"none", "sent", "success", "failed"}]
    /\ reply \in [Callers \X Parts -> Ledger!Answers \cup {Ledger!Open}]
    /\ file \in [Callers \cup {Shared} -> FileType]
    /\ call \in [Callers -> CallType]

(* Where the call stands, and what has been sent and answered by then.     *)
StageFits(q, cw, ca, rw, ra) ==
    /\ q.stage = "idle" => /\ cw = "none" /\ rw = Ledger!Open /\ q.landed = 0
                           /\ q.clean = FALSE
    /\ q.stage \in {"idle", "write"} => ca = "none" /\ ra = Ledger!Open
    /\ q.stage = "write" => /\ rw = Ledger!Open /\ q.opts.op # "append"
                            /\ q.opts.op = "scheduleUpdate" => Rest(q.opts) = 0
    /\ q.stage = "append" => /\ ra = Ledger!Open /\ q.opts.op # "scheduleUpdate"
                             /\ q.opts.op # "append" => rw.code = "ok" /\ Rest(q.opts) > 0
    /\ q.stage # "done" <=> q.answer.code = "open"

(* What is answered "ok" has landed, the tail is not sent before that, and *)
(* no byte of it lands before it is sent.                                  *)
ChainFits(q, cw, ca, rw, ra) ==
    /\ q.opts.op = "append" => cw = "none" /\ rw = Ledger!Open
    /\ q.opts.op = "scheduleUpdate" => ca = "none"
    /\ rw.code = "ok" => cw = "success"
    /\ ra.code = "ok" => ca = "success"
    /\ ca # "none" /\ q.opts.op # "append" => rw.code = "ok"
    /\ q.landed > 0 => q.opts.op = "scheduleUpdate" \/ ca # "none"
    /\ q.landed <= q.opts.size
    /\ q.opts.op # "scheduleUpdate" => q.landed <= Rest(q.opts)
    /\ ca = "success" => q.landed = Rest(q.opts)

(* What the settled call told its caller.                                  *)
AnswerFits(q, cw, ca, rw, ra) ==
    /\ q.answer.code = "open" => q.answer.file = FALSE
    /\ q.answer.code = "INPUT_INVALID" => cw = "none" /\ ca = "none"
    /\ q.opts.op \in Replacing /\ q.answer.code = "ok" =>
          rw.code = "ok" /\ (Rest(q.opts) > 0 => ra.code = "ok")
    /\ q.opts.op \in Replacing /\ q.answer.code \notin {"open", "ok"} =>
          /\ q.answer.file <=> rw.code = "ok"
          /\ q.answer.file => q.answer.tx = "write"

Fits(q, cw, ca, rw, ra) == /\ StageFits(q, cw, ca, rw, ra)
                           /\ ChainFits(q, cw, ca, rw, ra)
                           /\ AnswerFits(q, cw, ca, rw, ra)

(* The file holds the head and the chunks landed, in order and no more.    *)
Holds(w, q, bytes) ==
    q.clean /\ q.opts.op \in Replacing =>
        bytes = SubSeq(Content(w, q.opts), 1, From(q.opts) + q.landed)

FitsAt(w) == Fits(call[w], chain[<<w, "write">>], chain[<<w, "append">>],
                  reply[<<w, "write">>], reply[<<w, "append">>])
HoldsAt(w) == Holds(w, call[w], file[FileOf(w, call[w].opts)].bytes)

IInv == Typed /\ \A w \in Callers : FitsAt(w) /\ HoldsAt(w)

-----------------------------------------------------------------------------
(* Facts about the options and the contents.                               *)

(* A write of others' bytes changes of a call at most whether it is clean. *)
LEMMA Intruded ==
    ASSUME call \in [Callers -> CallType], NEW w \in Callers
    PROVE  \A v \in Callers : Intrude(w)[v] \in CallType
<1> TAKE v \in Callers
<1>1. call[v] \in CallType
  OBVIOUS
<1>2. [call[v] EXCEPT !.clean = FALSE] \in CallType
  BY <1>1, Zenon DEF CallType
<1>3. Intrude(w)[v] = call[v] \/ Intrude(w)[v] = [call[v] EXCEPT !.clean = FALSE]
  BY DEF Intrude
<1> QED
  BY <1>1, <1>2, <1>3

(* What FileAssumption says of each option record, and what follows of the *)
(* split: the head ends where the tail begins, and the append's options    *)
(* never contradict each other.                                            *)
LEMMA OptionFacts ==
    ASSUME NEW o \in Options \cup {NoOptions}
    PROVE  /\ o.op \in Ops /\ o.size \in Nat
           /\ From(o) \in 0..o.size /\ Rest(o) \in 0..o.size
           /\ o.op # "append" => splitContents(o.size).head = From(o)
           /\ ~Conflict(AppendOptions(o))
<1>1. /\ DOMAIN o = {"op", "size", "keys", "payer", "id"}
      /\ o.op \in Ops /\ o.size \in Nat /\ MaxBytes \in Nat
      BY FileAssumption DEF FileAssumption, NoOptions, Ops
<1>2. AppendOptions(o).id = NoAccount BY <1>1 DEF AppendOptions
<1>3. ~Conflict(AppendOptions(o)) BY <1>2 DEF Conflict
<1>4. /\ splitContents(o.size).from \in 0..o.size
      /\ splitContents(o.size).head = splitContents(o.size).from
      BY <1>1 DEF splitContents
<1> QED BY <1>1, <1>3, <1>4 DEF From, Rest

(* The operators of the module, on the options.                            *)
LEMMA OnOptions ==
    ASSUME Typed, NEW w \in Callers
    PROVE  /\ TailFrom(w) = From(call[w].opts) /\ TailOf(w) = Rest(call[w].opts)
           /\ Target(w) = FileOf(w, call[w].opts) /\ Bytes(w) = Content(w, call[w].opts)
           /\ Op(w) # "append" => HeadOf(w) = From(call[w].opts)
<1>1. call[w].opts \in Options \cup {NoOptions} BY DEF Typed, CallType
<1> QED BY <1>1, OptionFacts DEF TailFrom, TailOf, HeadOf, Target, Bytes, Op,
        From, Rest, FileOf, Content

(* A piece put behind the piece before it.                                 *)
LEMMA Adjoin ==
    ASSUME NEW S, NEW s \in Seq(S), NEW a \in 0..Len(s), NEW b \in a..Len(s)
    PROVE  SubSeq(s, 1, a) \o SubSeq(s, a + 1, b) = SubSeq(s, 1, b)
<1> DEFINE t == SubSeq(s, 1, a)
           u == SubSeq(s, a + 1, b)
           v == SubSeq(s, 1, b)
<1>1. Len(s) \in Nat /\ a \in Nat /\ b \in Nat /\ a <= b OBVIOUS
<1>2. /\ t \in Seq(S) /\ Len(t) = a /\ \A i \in 1..a : t[i] = s[i]
      BY <1>1
<1>3. /\ u \in Seq(S) /\ Len(u) = b - a /\ \A i \in 1..(b - a) : u[i] = s[a + i]
      BY <1>1
<1>4. /\ v \in Seq(S) /\ Len(v) = b /\ \A i \in 1..b : v[i] = s[i]
      BY <1>1
<1> HIDE DEF t, u, v
<1>5. /\ t \o u \in Seq(S) /\ Len(t \o u) = b
      /\ \A i \in 1..b : (t \o u)[i] = s[i]
  <2>1. /\ t \o u \in Seq(S) /\ Len(t \o u) = a + (b - a)
        /\ \A i \in 1..(a + (b - a)) : (t \o u)[i] = IF i <= a THEN t[i] ELSE u[i - a]
        BY <1>2, <1>3, ConcatProperties
  <2>2. ASSUME NEW i \in 1..b PROVE (t \o u)[i] = s[i]
    <3>1. CASE i <= a BY <1>1, <1>2, <2>1, <3>1
    <3>2. CASE i > a
      <4>1. i - a \in 1..(b - a) /\ a + (i - a) = i BY <1>1, <3>2
      <4>2. (t \o u)[i] = u[i - a] BY <1>1, <2>1, <3>2
      <4> QED BY <1>3, <4>1, <4>2
    <3>3. i <= a \/ i > a BY <1>1
    <3> QED BY <3>1, <3>2, <3>3
  <2> QED BY <1>1, <2>1, <2>2
<1>6. t \o u = v BY <1>4, <1>5, SeqEqual
<1> QED BY <1>6 DEF t, u, v

LEMMA ContentFacts ==
    ASSUME NEW w \in Callers, NEW o \in Options \cup {NoOptions}
    PROVE  /\ Content(w, o) \in Seq(Callers \X Nat) /\ Len(Content(w, o)) = o.size
           /\ SubSeq(Content(w, o), 1, o.size) = Content(w, o)
<1>1. o.size \in Nat BY OptionFacts
<1>2. Content(w, o) \in Seq(Callers \X Nat) /\ Len(Content(w, o)) = o.size
      BY <1>1 DEF Content
<1> DEFINE s == Content(w, o)
<1> HIDE DEF s
<1>3. SubSeq(s, 1, o.size) = s
  <2>1. s \in Seq(Callers \X Nat) /\ Len(s) = o.size BY <1>2 DEF s
  <2> QED BY <1>1, <2>1
<1> QED BY <1>2, <1>3 DEF s

-----------------------------------------------------------------------------
(* One call moves: what every action has to show.                          *)

(* Another call keeps its transactions, its answers and its options; its   *)
(* file too, unless it is no longer clean.                                 *)
LeftAlone(v) ==
    /\ \A part \in Parts : /\ chain'[<<v, part>>] = chain[<<v, part>>]
                           /\ reply'[<<v, part>>] = reply[<<v, part>>]
    /\ \/ /\ call'[v] = call[v]
          /\ file'[FileOf(v, call[v].opts)].bytes = file[FileOf(v, call[v].opts)].bytes
       \/ call'[v] = [call[v] EXCEPT !.clean = FALSE]

LEMMA LeftAloneFits ==
    ASSUME Typed, NEW v \in Callers, FitsAt(v), HoldsAt(v), LeftAlone(v)
    PROVE  FitsAt(v)' /\ HoldsAt(v)'
<1>1. /\ chain'[<<v, "write">>] = chain[<<v, "write">>]
      /\ chain'[<<v, "append">>] = chain[<<v, "append">>]
      /\ reply'[<<v, "write">>] = reply[<<v, "write">>]
      /\ reply'[<<v, "append">>] = reply[<<v, "append">>]
      BY DEF LeftAlone, Parts
<1>2. CASE /\ call'[v] = call[v]
           /\ file'[FileOf(v, call[v].opts)].bytes = file[FileOf(v, call[v].opts)].bytes
      BY <1>1, <1>2 DEF FitsAt, HoldsAt, Holds
<1>3. CASE call'[v] = [call[v] EXCEPT !.clean = FALSE]
  <2> DEFINE q == [call[v] EXCEPT !.clean = FALSE]
  <2>1. /\ q.stage = call[v].stage /\ q.opts = call[v].opts /\ q.landed = call[v].landed
        /\ q.answer = call[v].answer /\ q.clean = FALSE
        BY DEF Typed, CallType
  <2>2. call'[v] = q BY <1>3
  <2> HIDE DEF q
  <2> DEFINE cw == chain[<<v, "write">>]
             ca == chain[<<v, "append">>]
             rw == reply[<<v, "write">>]
             ra == reply[<<v, "append">>]
  <2>3. Fits(call[v], cw, ca, rw, ra) BY DEF FitsAt
  <2> HIDE DEF cw, ca, rw, ra
  <2>4. Fits(q, cw, ca, rw, ra)
        BY <2>1, <2>3 DEF Fits, StageFits, ChainFits, AnswerFits
  <2>5. FitsAt(v)' BY <1>1, <2>2, <2>4 DEF FitsAt, cw, ca, rw, ra
  <2>6. HoldsAt(v)' BY <2>1, <2>2 DEF HoldsAt, Holds
  <2> QED BY <2>5, <2>6
<1> QED BY <1>2, <1>3 DEF LeftAlone

LEMMA OneMoves ==
    ASSUME IInv, NEW w \in Callers, Typed', FitsAt(w)', HoldsAt(w)',
           \A v \in Callers \ {w} : LeftAlone(v)
    PROVE  IInv'
<1>1. ASSUME NEW v \in Callers \ {w} PROVE FitsAt(v)' /\ HoldsAt(v)'
      BY <1>1, LeftAloneFits DEF IInv
<1> QED BY <1>1 DEF IInv

(* A step of the service itself: the file and the other calls stay.        *)
LEMMA ServiceStep ==
    ASSUME IInv, NEW w \in Callers, Typed', FitsAt(w)', HoldsAt(w)', UNCHANGED file,
           \A v \in Callers \ {w} :
              /\ call'[v] = call[v]
              /\ \A part \in Parts : /\ chain'[<<v, part>>] = chain[<<v, part>>]
                                     /\ reply'[<<v, part>>] = reply[<<v, part>>]
    PROVE  IInv'
<1>1. \A v \in Callers \ {w} : LeftAlone(v) BY DEF LeftAlone
<1> QED BY <1>1, OneMoves

-----------------------------------------------------------------------------
(* The steps of the service.                                               *)

(* The keys of a call's two transactions, and what LedgerCall's steps do   *)
(* to a function over them.                                                *)
LEMMA Keys ==
    /\ \A w \in Callers, part \in Parts : <<w, part>> \in Callers \X Parts
    /\ "write" \in Parts /\ "append" \in Parts
    /\ \A w, v, p1, p2 : <<w, p1>> = <<v, p2>> <=> w = v /\ p1 = p2
BY DEF Parts

(* The options taken, or refused.                                          *)
Asked(q, o, stage, code) ==
    [q EXCEPT !.opts = o, !.stage = stage, !.answer = [q.answer EXCEPT !.code = code]]

LEMMA AskSound == ASSUME IInv, NEW w \in Callers, Ask(w) PROVE IInv'
<1>1. PICK o \in Options, stage \in {"write", "append", "done"}, code \in {"open", "INPUT_INVALID"} :
         /\ call' = [call EXCEPT ![w] = Asked(call[w], o, stage, code)]
         /\ stage = "append" => o.op = "append"
         /\ stage = "write" => o.op # "append"
         /\ stage = "done" <=> code = "INPUT_INVALID"
         /\ stage # "done" => ~Refused(o)
  <2>1. /\ call[w] \in CallType /\ call \in [Callers -> CallType]
        /\ call[w].answer.code = "open"
        BY DEF IInv, Typed, FitsAt, Fits, StageFits, Ask, At
  <2>2. PICK o \in Options :
           \/ call' = [call EXCEPT ![w].opts = o, ![w].stage = "done",
                                   ![w].answer.code = "INPUT_INVALID"]
           \/ /\ ~Refused(o)
              /\ call' = [call EXCEPT ![w].opts = o,
                                      ![w].stage = IF o.op = "append" THEN "append" ELSE "write"]
        BY DEF Ask
  <2>3. CASE call' = [call EXCEPT ![w].opts = o, ![w].stage = "done",
                                  ![w].answer.code = "INPUT_INVALID"]
    <3>1. call' = [call EXCEPT ![w] = Asked(call[w], o, "done", "INPUT_INVALID")]
          BY <2>1, <2>3 DEF Asked, CallType
    <3> QED BY <3>1
  <2>4. CASE /\ ~Refused(o)
             /\ call' = [call EXCEPT ![w].opts = o,
                                     ![w].stage = IF o.op = "append" THEN "append" ELSE "write"]
    <3> DEFINE stage == IF o.op = "append" THEN "append" ELSE "write"
    <3>1. call' = [call EXCEPT ![w].opts = o, ![w].stage = stage] BY <2>4
    <3>2. stage \in {"write", "append"} OBVIOUS
    <3>3. stage = "append" <=> o.op = "append" OBVIOUS
    <3> HIDE DEF stage
    <3>4. [call[w].answer EXCEPT !.code = "open"] = call[w].answer
          BY <2>1 DEF CallType
    <3>5. call' = [call EXCEPT ![w] = Asked(call[w], o, stage, "open")]
      <4>1. Asked(call[w], o, stage, "open") = [call[w] EXCEPT !.opts = o, !.stage = stage]
            BY <2>1, <3>4 DEF Asked, CallType
      <4>2. [call EXCEPT ![w].opts = o, ![w].stage = stage]
               = [call EXCEPT ![w] = [call[w] EXCEPT !.opts = o, !.stage = stage]]
            BY <2>1
      <4> QED BY <3>1, <4>1, <4>2
    <3> QED BY <2>4, <3>2, <3>3, <3>5
  <2> QED BY <2>2, <2>3, <2>4
<1>2. Typed /\ call[w] \in CallType /\ call[w].stage = "idle" /\ FitsAt(w)
      BY DEF IInv, Ask, At, Typed
<1>3. UNCHANGED <<chain, reply, file>> BY DEF Ask
<1> DEFINE q == Asked(call[w], o, stage, code)
<1>4. q \in CallType
  <2>1. [call[w].answer EXCEPT !.code = code] \in
             [code : {"open", "ok", "INPUT_INVALID", "SDK_ERROR", "UNKNOWN"},
              tx : {"none", "write", "append"}, file : BOOLEAN]
        BY <1>2 DEF CallType
  <2> QED BY <1>2, <2>1 DEF CallType, Asked
<1>5. /\ q.opts = o /\ q.landed = call[w].landed /\ q.clean = call[w].clean
      /\ q.stage = stage /\ q.answer.code = code
      /\ q.answer.file = call[w].answer.file
      BY <1>2 DEF CallType, Asked
<1>6. call' = [call EXCEPT ![w] = q] BY <1>1
<1> HIDE DEF q
<1>7. Typed' BY <1>2, <1>3, <1>4, <1>6 DEF Typed
<1>8. /\ chain[<<w, "write">>] = "none" /\ chain[<<w, "append">>] = "none"
      /\ reply[<<w, "write">>] = Ledger!Open /\ reply[<<w, "append">>] = Ledger!Open
      /\ call[w].landed = 0 /\ call[w].clean = FALSE /\ call[w].answer.code = "open"
      BY <1>2 DEF FitsAt, Fits, StageFits
<1>9. call'[w] = q /\ \A v \in Callers \ {w} : call'[v] = call[v]
      BY <1>2, <1>6 DEF Typed
<1>10. FitsAt(w)'
  <2>1. o.op \in Ops /\ o.size \in Nat /\ Rest(o) \in 0..o.size
        BY OptionFacts
  <2>2. Ledger!Open.code = "open" BY DEF Ledger!Open
  <2>4. call[w].answer.file = FALSE BY <1>2, <1>8 DEF FitsAt, Fits, AnswerFits
  <2>3. stage = "write" /\ o.op = "scheduleUpdate" => Rest(o) = 0
    <3>1. splitContents(o.size).from \in 0..o.size
          BY <2>1, FileAssumption DEF splitContents, FileAssumption
    <3> QED BY <1>1, <2>1, <3>1 DEF Refused, Rest, From
  <2>5. Fits(q, "none", "none", Ledger!Open, Ledger!Open)
        BY <1>1, <1>5, <2>3, <1>8, <2>1, <2>2, <2>4 DEF Fits, StageFits, ChainFits, AnswerFits, Replacing
  <2> QED BY <1>3, <1>8, <1>9, <2>5 DEF FitsAt
<1>11. HoldsAt(w)' BY <1>5, <1>8, <1>9 DEF HoldsAt, Holds
<1> QED BY <1>3, <1>7, <1>9, <1>10, <1>11, ServiceStep

(* What a step on one transaction does to a function over all of them.     *)
LEMMA OneKey ==
    ASSUME NEW S, NEW f \in [Callers \X Parts -> S], NEW w \in Callers, NEW part \in Parts,
           NEW x \in S, NEW g, g = [f EXCEPT ![<<w, part>>] = x]
    PROVE  /\ g \in [Callers \X Parts -> S]
           /\ g[<<w, part>>] = x
           /\ \A v \in Callers, p \in Parts : v # w \/ p # part => g[<<v, p>>] = f[<<v, p>>]
BY DEF Parts

LEMMA SendSound ==
    ASSUME IInv, NEW w \in Callers, NEW part \in Parts, Send(w, part)
    PROVE  IInv'
<1>1. /\ Typed /\ FitsAt(w) /\ HoldsAt(w) /\ call[w].stage = part /\ UNCHANGED <<file, call, reply>>
      /\ chain' = [chain EXCEPT ![<<w, part>>] = "sent"]
      BY DEF IInv, Send, At, Ledger!Send
<1>2. /\ chain' \in [Callers \X Parts -> {"none", "sent", "success", "failed"}]
      /\ chain'[<<w, part>>] = "sent"
      /\ \A v \in Callers, p \in Parts : v # w \/ p # part => chain'[<<v, p>>] = chain[<<v, p>>]
      BY <1>1, OneKey DEF Typed
<1>3. Typed' BY <1>1, <1>2 DEF Typed
<1>4. FitsAt(w)'
  <2> DEFINE q == call[w]
             rw == reply[<<w, "write">>]
             ra == reply[<<w, "append">>]
  <2>1. q.stage = part /\ Ledger!Open.code = "open" /\ chain[<<w, part>>] = "none"
        BY <1>1 DEF Ledger!Open, Send, Ledger!Send
  <2>2. Fits(q, chain[<<w, "write">>], chain[<<w, "append">>], rw, ra) BY <1>1 DEF FitsAt
  <2> HIDE DEF q, rw, ra
  <2>3. CASE part = "write"
    <3>1. chain'[<<w, "write">>] = "sent" /\ chain'[<<w, "append">>] = chain[<<w, "append">>]
          BY <1>2, <2>3 DEF Parts
    <3>2. Fits(q, "sent", chain[<<w, "append">>], rw, ra)
          BY <2>1, <2>2, <2>3 DEF Fits, StageFits, ChainFits, AnswerFits
    <3> QED BY <1>1, <3>1, <3>2 DEF FitsAt, q, rw, ra
  <2>4. CASE part = "append"
    <3>1. chain'[<<w, "append">>] = "sent" /\ chain'[<<w, "write">>] = chain[<<w, "write">>]
          BY <1>2, <2>4 DEF Parts
    <3>2. Fits(q, chain[<<w, "write">>], "sent", rw, ra)
          BY <2>1, <2>2, <2>4 DEF Fits, StageFits, ChainFits, AnswerFits
    <3> QED BY <1>1, <3>1, <3>2 DEF FitsAt, q, rw, ra
  <2> QED BY <2>3, <2>4 DEF Parts
<1>5. HoldsAt(w)' BY <1>1 DEF HoldsAt
<1> QED BY <1>1, <1>2, <1>3, <1>4, <1>5, ServiceStep

(* What LedgerCall lets an awaited transaction be answered with.           *)
LEMMA Answered ==
    ASSUME Typed, NEW w \in Callers, NEW part \in Parts, Ledger!Answer(<<w, part>>)
    PROVE  /\ reply[<<w, part>>] = Ledger!Open /\ UNCHANGED chain
           /\ reply'[<<w, part>>] \in Ledger!Answers
           /\ reply'[<<w, part>>].code = "ok" => chain[<<w, part>>] = "success"
           /\ reply' \in [Callers \X Parts -> Ledger!Answers \cup {Ledger!Open}]
           /\ \A v \in Callers, p \in Parts : v # w \/ p # part => reply'[<<v, p>>] = reply[<<v, p>>]
<1>1. PICK a \in Ledger!Answers : /\ Ledger!Honest(a, chain[<<w, part>>])
                                  /\ reply' = [reply EXCEPT ![<<w, part>>] = a]
      BY DEF Ledger!Answer
<1>2. /\ reply'[<<w, part>>] = a
      /\ reply' \in [Callers \X Parts -> Ledger!Answers \cup {Ledger!Open}]
      /\ \A v \in Callers, p \in Parts : v # w \/ p # part => reply'[<<v, p>>] = reply[<<v, p>>]
      BY <1>1, OneKey DEF Typed
<1> QED BY <1>1, <1>2 DEF Ledger!Answer, Ledger!Honest

LEMMA WriteAnsweredSound == ASSUME IInv, NEW w \in Callers, WriteAnswered(w) PROVE IInv'
<1> DEFINE a == reply'[<<w, "write">>]
           q == call[w]
           o == call[w].opts
<1>1. /\ Typed /\ FitsAt(w) /\ HoldsAt(w) /\ q.stage = "write" /\ UNCHANGED file
      /\ Ledger!Answer(<<w, "write">>) /\ a.code \in Codes(w, "write")
      BY DEF IInv, WriteAnswered, At
<1>2. /\ reply[<<w, "write">>] = Ledger!Open /\ UNCHANGED chain
      /\ a \in Ledger!Answers
      /\ a.code = "ok" => chain[<<w, "write">>] = "success"
      /\ reply' \in [Callers \X Parts -> Ledger!Answers \cup {Ledger!Open}]
      /\ \A v \in Callers, p \in Parts : v # w \/ p # "write" => reply'[<<v, p>>] = reply[<<v, p>>]
      BY <1>1, Answered DEF Parts
<1>3. a.code \in {"ok", "SDK_ERROR", "UNKNOWN"} BY <1>1 DEF Codes
<1>4. reply'[<<w, "append">>] = reply[<<w, "append">>] BY <1>2 DEF Parts
<1>5. /\ q \in CallType /\ o \in Options \cup {NoOptions} /\ TailOf(w) = Rest(o)
      BY <1>1, OnOptions DEF Typed, CallType
<1>6. Rest(o) \in Nat BY <1>5, OptionFacts
<1>7. PICK p \in CallType :
         /\ call' = [call EXCEPT ![w] = p]
         /\ p.opts = o /\ p.landed = q.landed /\ p.clean = q.clean
         /\ \/ /\ a.code = "ok" /\ Rest(o) > 0 /\ p.stage = "append" /\ p.answer = q.answer
            \/ /\ ~(a.code = "ok" /\ Rest(o) > 0) /\ p.stage = "done"
               /\ p.answer.code = a.code /\ p.answer.file = FALSE
  <2>1. CASE a.code = "ok" /\ TailOf(w) > 0
    <3> DEFINE p == [q EXCEPT !.stage = "append"]
    <3>1. call' = [call EXCEPT ![w] = p] BY <1>1, <2>1 DEF WriteAnswered, Typed
    <3>2. p \in CallType /\ p.stage = "append" /\ p.answer = q.answer /\ p.opts = o
          /\ p.landed = q.landed /\ p.clean = q.clean
          BY <1>5 DEF CallType
    <3> QED BY <1>5, <2>1, <3>1, <3>2
  <2>2. CASE ~(a.code = "ok" /\ TailOf(w) > 0)
    <3> DEFINE h == HandedOn(a, "write")
               p == [q EXCEPT !.stage = "done", !.answer = h]
    <3>1. call' = [call EXCEPT ![w] = p] BY <1>1, <2>2 DEF WriteAnswered, Settled, Typed
    <3>2. /\ h \in [code : {"open", "ok", "INPUT_INVALID", "SDK_ERROR", "UNKNOWN"},
                    tx : {"none", "write", "append"}, file : BOOLEAN]
          /\ h.code = a.code /\ h.file = FALSE
          BY <1>3 DEF HandedOn
    <3> HIDE DEF h
    <3>3. /\ p \in CallType /\ p.stage = "done" /\ p.answer = h /\ p.opts = o
          /\ p.landed = q.landed /\ p.clean = q.clean
          BY <1>5, <3>2 DEF CallType
    <3> QED BY <1>5, <2>2, <3>1, <3>2, <3>3
  <2> QED BY <2>1, <2>2
<1>8. call'[w] = p /\ \A v \in Callers \ {w} : call'[v] = call[v]
      BY <1>1, <1>7 DEF Typed
<1>9. Typed' BY <1>1, <1>2, <1>7 DEF Typed
<1>10. FitsAt(w)'
  <2> DEFINE cw == chain[<<w, "write">>]
             ca == chain[<<w, "append">>]
             ra == reply[<<w, "append">>]
  <2>1. Fits(q, cw, ca, Ledger!Open, ra) /\ Ledger!Open.code = "open" /\ Ledger!Open # a
        BY <1>1, <1>2, <1>3 DEF FitsAt, Ledger!Open
  <2>2. a.code = "ok" => cw = "success" BY <1>2
  <2> HIDE DEF a, q, o, cw, ca, ra
  <2>3. Fits(p, cw, ca, a, ra)
        BY <1>3, <1>6, <1>7, <2>1, <2>2, <1>1 DEF Fits, StageFits, ChainFits, AnswerFits, o, q, Replacing
  <2> QED BY <1>2, <1>4, <1>8, <2>3 DEF FitsAt, a, cw, ca, ra
<1>11. HoldsAt(w)' BY <1>1, <1>7, <1>8 DEF HoldsAt, Holds
<1> QED BY <1>1, <1>2, <1>8, <1>9, <1>10, <1>11, ServiceStep

LEMMA AppendAnsweredSound == ASSUME IInv, NEW w \in Callers, AppendAnswered(w) PROVE IInv'
<1> DEFINE a == reply'[<<w, "append">>]
           q == call[w]
           o == call[w].opts
           h == IF Op(w) = "append" THEN HandedOn(a, "append")
                ELSE IF a.code = "ok" THEN HandedOn(a, "write") ELSE wrapAppendFailure(a)
           p == [q EXCEPT !.stage = "done", !.answer = h]
<1>1. /\ Typed /\ FitsAt(w) /\ HoldsAt(w) /\ q.stage = "append" /\ UNCHANGED file
      /\ Ledger!Answer(<<w, "append">>) /\ a.code \in Codes(w, "append")
      BY DEF IInv, AppendAnswered, At
<1>2. /\ reply[<<w, "append">>] = Ledger!Open /\ UNCHANGED chain
      /\ a \in Ledger!Answers
      /\ a.code = "ok" => chain[<<w, "append">>] = "success"
      /\ reply' \in [Callers \X Parts -> Ledger!Answers \cup {Ledger!Open}]
      /\ \A v \in Callers, part \in Parts :
            v # w \/ part # "append" => reply'[<<v, part>>] = reply[<<v, part>>]
      BY <1>1, Answered DEF Parts
<1>3. q \in CallType /\ o \in Options \cup {NoOptions} BY <1>1 DEF Typed, CallType
<1>4. ~Conflict(AppendOptions(o)) BY <1>3, OptionFacts
<1>5. a.code \in {"ok", "SDK_ERROR", "UNKNOWN"} BY <1>1, <1>4 DEF Codes
<1>6. reply'[<<w, "write">>] = reply[<<w, "write">>] BY <1>2 DEF Parts
<1>7. /\ h \in [code : {"open", "ok", "INPUT_INVALID", "SDK_ERROR", "UNKNOWN"},
                tx : {"none", "write", "append"}, file : BOOLEAN]
      /\ h.code = a.code
      /\ o.op # "append" => /\ h.file <=> a.code # "ok"
                            /\ h.file => h.tx = "write"
      BY <1>5 DEF HandedOn, wrapAppendFailure, Op
<1>8. call' = [call EXCEPT ![w] = p] BY <1>1 DEF AppendAnswered, Settled, Typed
<1> HIDE DEF h
<1>9. /\ p \in CallType /\ p.stage = "done" /\ p.answer = h /\ p.opts = o
      /\ p.landed = q.landed /\ p.clean = q.clean
      BY <1>3, <1>7 DEF CallType
<1> HIDE DEF p
<1>10. call'[w] = p /\ \A v \in Callers \ {w} : call'[v] = call[v]
       BY <1>1, <1>8 DEF Typed
<1>11. Typed' BY <1>1, <1>2, <1>8, <1>9 DEF Typed
<1>12. FitsAt(w)'
  <2> DEFINE cw == chain[<<w, "write">>]
             ca == chain[<<w, "append">>]
             rw == reply[<<w, "write">>]
  <2>1. Fits(q, cw, ca, rw, Ledger!Open) /\ Ledger!Open.code = "open" /\ Ledger!Open # a
        BY <1>1, <1>2, <1>5 DEF FitsAt, Ledger!Open
  <2>2. a.code = "ok" => ca = "success" BY <1>2
  <2>3. q.stage = "append" /\ q.opts = o BY <1>1
  <2> HIDE DEF a, q, o, cw, ca, rw
  <2>4. Fits(p, cw, ca, rw, a)
        BY <1>5, <1>7, <1>9, <2>1, <2>2, <2>3
        DEF Fits, StageFits, ChainFits, AnswerFits, Replacing
  <2> QED BY <1>2, <1>6, <1>10, <2>4 DEF FitsAt, a, cw, ca, rw
<1>13. HoldsAt(w)' BY <1>1, <1>9, <1>10 DEF HoldsAt, Holds
<1> QED BY <1>1, <1>2, <1>10, <1>11, <1>12, <1>13, ServiceStep

-----------------------------------------------------------------------------
(* The network's steps.                                                    *)

(* LedgerCall's Decide with a known fate.                                  *)
LEMMA Decided ==
    ASSUME Typed, NEW w \in Callers, NEW part \in Parts, NEW fate \in {"success", "failed"},
           Ledger!Decide(<<w, part>>), chain'[<<w, part>>] = fate
    PROVE  /\ chain[<<w, part>>] = "sent" /\ UNCHANGED reply
           /\ chain' \in [Callers \X Parts -> {"none", "sent", "success", "failed"}]
           /\ \A v \in Callers, p \in Parts : v # w \/ p # part => chain'[<<v, p>>] = chain[<<v, p>>]
<1>1. PICK x \in {"success", "failed"} : chain' = [chain EXCEPT ![<<w, part>>] = x]
      BY DEF Ledger!Decide
<1> QED BY <1>1, OneKey DEF Typed, Ledger!Decide

LEMMA FailsSound ==
    ASSUME IInv, NEW w \in Callers, NEW part \in Parts, Fails(w, part)
    PROVE  IInv'
<1>1. /\ Typed /\ FitsAt(w) /\ HoldsAt(w) /\ UNCHANGED <<file, call>>
      /\ chain[<<w, part>>] = "sent" /\ UNCHANGED reply
      /\ chain'[<<w, part>>] = "failed"
      /\ chain' \in [Callers \X Parts -> {"none", "sent", "success", "failed"}]
      /\ \A v \in Callers, p \in Parts : v # w \/ p # part => chain'[<<v, p>>] = chain[<<v, p>>]
      BY Decided DEF IInv, Fails
<1>2. Typed' BY <1>1 DEF Typed
<1>3. FitsAt(w)'
  <2> DEFINE q == call[w]
             rw == reply[<<w, "write">>]
             ra == reply[<<w, "append">>]
  <2>1. Fits(q, chain[<<w, "write">>], chain[<<w, "append">>], rw, ra) BY <1>1 DEF FitsAt
  <2> HIDE DEF q, rw, ra
  <2>2. CASE part = "write"
    <3>1. chain'[<<w, "append">>] = chain[<<w, "append">>] BY <1>1, <2>2 DEF Parts
    <3>2. Fits(q, "failed", chain[<<w, "append">>], rw, ra)
          BY <1>1, <2>1, <2>2 DEF Fits, StageFits, ChainFits, AnswerFits
    <3> QED BY <1>1, <2>2, <3>1, <3>2 DEF FitsAt, q, rw, ra
  <2>3. CASE part = "append"
    <3>1. chain'[<<w, "write">>] = chain[<<w, "write">>] BY <1>1, <2>3 DEF Parts
    <3>2. Fits(q, chain[<<w, "write">>], "failed", rw, ra)
          BY <1>1, <2>1, <2>3 DEF Fits, StageFits, ChainFits, AnswerFits
    <3> QED BY <1>1, <2>3, <3>1, <3>2 DEF FitsAt, q, rw, ra
  <2> QED BY <2>2, <2>3 DEF Parts
<1>4. HoldsAt(w)' BY <1>1 DEF HoldsAt
<1> QED BY <1>1, <1>2, <1>3, <1>4, ServiceStep

(* Who writes a file takes `clean` from everyone else on it, and touches   *)
(* no other file.                                                          *)
LEMMA IntrudeLeavesAlone ==
    ASSUME Typed, NEW w \in Callers, NEW v \in Callers \ {w},
           NEW x \in FileType, file' = [file EXCEPT ![Target(w)] = x],
           call'[v] = Intrude(w)[v],
           \A part \in Parts : /\ chain'[<<v, part>>] = chain[<<v, part>>]
                               /\ reply'[<<v, part>>] = reply[<<v, part>>]
    PROVE  LeftAlone(v)
<1>1. CASE Target(v) = Target(w)
      BY <1>1 DEF Intrude, LeftAlone
<1>2. CASE Target(v) # Target(w)
  <2>1. call'[v] = call[v] BY <1>2 DEF Intrude
  <2>2. Target(v) = FileOf(v, call[v].opts) BY OnOptions
  <2>3. Target(v) \in Callers \cup {Shared} BY DEF Target
  <2>4. file'[Target(v)] = file[Target(v)] BY <1>2, <2>3 DEF Typed
  <2> QED BY <2>1, <2>2, <2>4 DEF LeftAlone
<1> QED BY <1>1, <1>2

(* What a call writes has the type of a file.                              *)
LEMMA WrittenType ==
    ASSUME Typed, NEW w \in Callers
    PROVE  /\ Target(w) \in Callers \cup {Shared}
           /\ Written(w) \in FileType
           /\ Op(w) \in Replacing => Written(w).bytes = SubSeq(Content(w, call[w].opts), 1, From(call[w].opts))
<1> DEFINE o == call[w].opts
<1>1. o \in Options \cup {NoOptions} /\ Target(w) \in Callers \cup {Shared}
      BY DEF Typed, CallType, Target
<1>2. Locked(Target(w), o.keys) \in BOOLEAN BY <1>1 DEF Locked, Typed, FileType
<1>3. /\ Bytes(w) = Content(w, o) /\ Content(w, o) \in Seq(Callers \X Nat)
      /\ Len(Content(w, o)) = o.size /\ o.size \in Nat
      BY <1>1, OnOptions, ContentFacts, OptionFacts
<1>4. HeadOf(w) \in 0..o.size
      BY <1>3, FileAssumption DEF HeadOf, splitContents, FileAssumption
<1>5. SubSeq(Content(w, o), 1, HeadOf(w)) \in Seq(Callers \X Nat)
  <2> DEFINE s == Content(w, o)
             n == HeadOf(w)
  <2>1. s \in Seq(Callers \X Nat) /\ Len(s) = o.size /\ n \in 0..o.size BY <1>3, <1>4
  <2> HIDE DEF s, n
  <2>2. SubSeq(s, 1, n) \in Seq(Callers \X Nat) BY <1>3, <2>1
  <2> QED BY <2>2 DEF s, n
<1>6. CASE Op(w) = "delete"
  <2>1. Written(w) = [exists |-> FALSE, locked |-> TRUE, bytes |-> <<>>] BY <1>6 DEF Written
  <2> QED BY <1>1, <1>6, <2>1 DEF FileType, Replacing
<1>7. CASE Op(w) # "delete"
  <2>1. Written(w) = [exists |-> TRUE, locked |-> Locked(Target(w), o.keys),
                      bytes |-> SubSeq(Content(w, o), 1, HeadOf(w))]
        BY <1>3, <1>7 DEF Written
  <2>2. Op(w) \in Replacing => HeadOf(w) = From(o) BY OnOptions DEF Replacing
  <2> QED BY <1>1, <1>2, <1>5, <2>1, <2>2 DEF FileType
<1> QED BY <1>6, <1>7

LEMMA WriteLandsSound == ASSUME IInv, NEW w \in Callers, WriteLands(w) PROVE IInv'
<1> DEFINE q == call[w]
           p == [q EXCEPT !.clean = TRUE]
<1>1. /\ Typed /\ FitsAt(w) /\ Op(w) # "scheduleUpdate"
      /\ file' = [file EXCEPT ![Target(w)] = Written(w)]
      /\ call' = [Intrude(w) EXCEPT ![w].clean = TRUE]
      /\ Target(w) \in Callers \cup {Shared} /\ Written(w) \in FileType
      BY WrittenType DEF IInv, WriteLands
<1>2. /\ chain[<<w, "write">>] = "sent" /\ UNCHANGED reply
      /\ chain'[<<w, "write">>] = "success"
      /\ chain' \in [Callers \X Parts -> {"none", "sent", "success", "failed"}]
      /\ \A v \in Callers, part \in Parts : v # w \/ part # "write" => chain'[<<v, part>>] = chain[<<v, part>>]
      BY <1>1, Decided DEF WriteLands, Parts
<1>3. q \in CallType BY <1>1 DEF Typed
<1>4. /\ p \in CallType /\ p.stage = q.stage /\ p.opts = q.opts /\ p.landed = q.landed
      /\ p.answer = q.answer
      BY <1>3 DEF CallType
<1>5. /\ call'[w] = p /\ \A v \in Callers \ {w} : call'[v] = Intrude(w)[v]
      /\ call' \in [Callers -> CallType]
  <2>1. Intrude(w)[w] = q BY DEF Intrude
  <2>2. \A v \in Callers : Intrude(w)[v] \in CallType
        BY <1>1, Intruded DEF Typed
  <2>3. Intrude(w) = [v \in Callers |-> Intrude(w)[v]] BY DEF Intrude
  <2>4. call' = [v \in Callers |-> IF v = w THEN p ELSE Intrude(w)[v]]
        BY <1>1, <2>1, <2>3
  <2> QED BY <1>4, <2>2, <2>4
<1> HIDE DEF p
<1>6. file' \in [Callers \cup {Shared} -> FileType] /\ file'[Target(w)] = Written(w)
      BY <1>1 DEF Typed
<1>7. Typed' BY <1>1, <1>2, <1>5, <1>6 DEF Typed
<1>8. chain'[<<w, "append">>] = chain[<<w, "append">>] BY <1>2 DEF Parts
<1>9. FitsAt(w)'
  <2> DEFINE ca == chain[<<w, "append">>]
             rw == reply[<<w, "write">>]
             ra == reply[<<w, "append">>]
  <2>1. Fits(q, "sent", ca, rw, ra) BY <1>1, <1>2 DEF FitsAt
  <2> HIDE DEF q, ca, rw, ra
  <2>2. Fits(p, "success", ca, rw, ra)
        BY <1>4, <2>1 DEF Fits, StageFits, ChainFits, AnswerFits
  <2> QED BY <1>2, <1>5, <1>8, <2>2 DEF FitsAt, ca, rw, ra
<1>10. HoldsAt(w)'
  <2>1. FileOf(w, p.opts) = Target(w) BY <1>1, <1>4, OnOptions
  <2>2. q.landed = 0
        BY <1>1, <1>2, <1>3, <1>8 DEF FitsAt, Fits, ChainFits, CallType, Op
  <2>3. p.opts.op \in Replacing =>
           Written(w).bytes = SubSeq(Content(w, p.opts), 1, From(p.opts))
        BY <1>1, <1>4, WrittenType DEF Op
  <2>4. From(p.opts) + 0 = From(p.opts)
        BY <1>4, <1>3, OptionFacts DEF CallType
  <2> QED BY <1>4, <1>5, <1>6, <2>1, <2>2, <2>3, <2>4 DEF HoldsAt, Holds
<1>11. ASSUME NEW v \in Callers \ {w} PROVE LeftAlone(v)
       BY <1>1, <1>2, <1>5, IntrudeLeavesAlone
<1> QED BY <1>7, <1>9, <1>10, <1>11, OneMoves

LEMMA ScheduleLandsSound == ASSUME IInv, NEW w \in Callers, ScheduleLands(w) PROVE IInv'
<1>1. /\ Typed /\ FitsAt(w) /\ HoldsAt(w) /\ UNCHANGED <<file, call>>
      /\ chain[<<w, "write">>] = "sent" /\ UNCHANGED reply
      /\ chain'[<<w, "write">>] = "success"
      /\ chain' \in [Callers \X Parts -> {"none", "sent", "success", "failed"}]
      /\ \A v \in Callers, part \in Parts : v # w \/ part # "write" => chain'[<<v, part>>] = chain[<<v, part>>]
      BY Decided DEF IInv, ScheduleLands, Parts
<1>2. chain'[<<w, "append">>] = chain[<<w, "append">>] BY <1>1 DEF Parts
<1>3. FitsAt(w)'
  <2> DEFINE q == call[w]
             ca == chain[<<w, "append">>]
             rw == reply[<<w, "write">>]
             ra == reply[<<w, "append">>]
  <2>1. Fits(q, "sent", ca, rw, ra) BY <1>1 DEF FitsAt
  <2> HIDE DEF q, ca, rw, ra
  <2>2. Fits(q, "success", ca, rw, ra)
        BY <2>1 DEF Fits, StageFits, ChainFits, AnswerFits
  <2> QED BY <1>1, <1>2, <2>2 DEF FitsAt, q, ca, rw, ra
<1>4. Typed' /\ HoldsAt(w)' BY <1>1 DEF Typed, HoldsAt
<1> QED BY <1>1, <1>3, <1>4, ServiceStep

LEMMA ScheduleExecutesSound == ASSUME IInv, NEW w \in Callers, ScheduleExecutes(w) PROVE IInv'
<1> DEFINE q == call[w]
           p == [q EXCEPT !.landed = q.opts.size]
<1>1. /\ Typed /\ FitsAt(w) /\ Op(w) = "scheduleUpdate" /\ UNCHANGED <<chain, reply>>
      /\ Target(w) = Shared
      /\ file' = [file EXCEPT ![Target(w)] = Written(w)]
      /\ call' = [Intrude(w) EXCEPT ![w].landed = q.opts.size]
      /\ Target(w) \in Callers \cup {Shared} /\ Written(w) \in FileType
      BY WrittenType DEF IInv, ScheduleExecutes, Target
<1>2. /\ q \in CallType /\ q.opts \in Options \cup {NoOptions}
      /\ q.opts.size \in Nat /\ q.opts.op = "scheduleUpdate"
      BY <1>1, OptionFacts DEF Typed, CallType, Op
<1>3. /\ p \in CallType /\ p.stage = q.stage /\ p.opts = q.opts /\ p.landed = q.opts.size
      /\ p.answer = q.answer /\ p.clean = q.clean
      BY <1>2 DEF CallType
<1>4. /\ call'[w] = p /\ \A v \in Callers \ {w} : call'[v] = Intrude(w)[v]
      /\ call' \in [Callers -> CallType]
  <2>1. Intrude(w)[w] = q BY DEF Intrude
  <2>2. \A v \in Callers : Intrude(w)[v] \in CallType
        BY <1>1, Intruded DEF Typed
  <2>3. Intrude(w) = [v \in Callers |-> Intrude(w)[v]] BY DEF Intrude
  <2>4. call' = [v \in Callers |-> IF v = w THEN p ELSE Intrude(w)[v]]
        BY <1>1, <2>1, <2>3
  <2> QED BY <1>3, <2>2, <2>4
<1> HIDE DEF p
<1>5. file' \in [Callers \cup {Shared} -> FileType] BY <1>1 DEF Typed
<1>6. Typed' BY <1>1, <1>4, <1>5 DEF Typed
<1>7. chain[<<w, "write">>] = "success" BY DEF ScheduleExecutes
<1>8. FitsAt(w)'
  <2> DEFINE ca == chain[<<w, "append">>]
             rw == reply[<<w, "write">>]
             ra == reply[<<w, "append">>]
  <2>1. Fits(q, "success", ca, rw, ra) BY <1>1, <1>7 DEF FitsAt
  <2>2. ca # "success" BY <1>2, <2>1 DEF Fits, ChainFits
  <2> HIDE DEF ca, rw, ra
  <2>3. Fits(p, "success", ca, rw, ra)
        BY <1>2, <1>3, <2>1, <2>2 DEF Fits, StageFits, ChainFits, AnswerFits, Replacing
  <2> QED BY <1>1, <1>4, <1>7, <2>3 DEF FitsAt, ca, rw, ra
<1>9. HoldsAt(w)' BY <1>2, <1>3, <1>4 DEF HoldsAt, Holds, Replacing
<1>10. ASSUME NEW v \in Callers \ {w} PROVE LeftAlone(v)
       BY <1>1, <1>4, IntrudeLeavesAlone
<1> QED BY <1>6, <1>8, <1>9, <1>10, OneMoves

LEMMA ChunkLandsSound == ASSUME IInv, NEW w \in Callers, ChunkLands(w) PROVE IInv'
<1> DEFINE q == call[w]
           o == call[w].opts
           n == o.size
           from == TailFrom(w) + q.landed
           upTo == IF from + ChunkBytes < n THEN from + ChunkBytes ELSE n
           f == Target(w)
           x == [file[f] EXCEPT !.bytes = @ \o SubSeq(Bytes(w), from + 1, upTo)]
           p == [q EXCEPT !.landed = upTo - TailFrom(w)]
<1>1. /\ Typed /\ FitsAt(w) /\ HoldsAt(w)
      /\ chain[<<w, "append">>] = "sent" /\ q.landed < TailOf(w)
      /\ file' = [file EXCEPT ![f].bytes = @ \o SubSeq(Bytes(w), from + 1, upTo)]
      /\ call' = [Intrude(w) EXCEPT ![w].landed = upTo - TailFrom(w)]
      /\ IF upTo = n THEN Ledger!Decide(<<w, "append">>) /\ chain'[<<w, "append">>] = "success"
                     ELSE UNCHANGED <<chain, reply>>
      BY DEF IInv, ChunkLands
<1>2. /\ q \in CallType /\ o \in Options \cup {NoOptions}
      /\ q.landed \in Nat /\ n \in Nat
      /\ TailFrom(w) = From(o) /\ TailOf(w) = Rest(o) /\ f = FileOf(w, o)
      /\ Bytes(w) = Content(w, o)
      /\ From(o) \in 0..n /\ Rest(o) = n - From(o)
      BY <1>1, OnOptions, OptionFacts DEF Typed, CallType, Rest
<1>3. ChunkBytes \in Nat \ {0} BY FileAssumption DEF FileAssumption
<1>4. /\ from \in 0..n /\ from = From(o) + q.landed /\ from < n
      /\ upTo \in 0..n /\ upTo > from
      /\ upTo - TailFrom(w) \in 0..Rest(o)
      /\ upTo - TailFrom(w) > q.landed
      /\ From(o) + (upTo - TailFrom(w)) = upTo
      /\ (upTo = n <=> upTo - TailFrom(w) = Rest(o))
  <2>1. from = From(o) + q.landed /\ from \in 0..n /\ from < n
    <3>1. q.landed < Rest(o) BY <1>1, <1>2
    <3>2. from = From(o) + q.landed BY <1>2
    <3> HIDE DEF from
    <3> QED BY <1>2, <3>1, <3>2
  <2>2. upTo \in 0..n /\ upTo > from
        BY <1>2, <1>3, <2>1
  <2> HIDE DEF from, upTo
  <2> QED BY <1>2, <2>1, <2>2
<1> HIDE DEF upTo, from
<1>5. f \in Callers \cup {Shared} /\ file[f] \in FileType
      BY <1>1 DEF Typed, Target
<1>6. /\ Content(w, o) \in Seq(Callers \X Nat) /\ Len(Content(w, o)) = n
      BY <1>2, ContentFacts
<1>7. SubSeq(Bytes(w), from + 1, upTo) \in Seq(Callers \X Nat)
  <2> DEFINE s == Content(w, o)
  <2>1. s \in Seq(Callers \X Nat) /\ Len(s) = n BY <1>6
  <2> HIDE DEF s
  <2>2. n \in Nat /\ from \in 0..n /\ upTo \in 0..n BY <1>2, <1>4
  <2> HIDE DEF n
  <2>3. from + 1 \in Int /\ upTo \in Int BY <2>2
  <2>4. ASSUME NEW i \in (from + 1)..upTo PROVE s[i] \in Callers \X Nat
    <3>1. i \in 1..Len(s) BY <2>1, <2>2
    <3> QED BY <2>1, <3>1
  <2>5. SubSeq(s, from + 1, upTo) \in Seq(Callers \X Nat)
        BY <2>3, <2>4, SubSeqProperties
  <2> QED BY <1>2, <2>5 DEF s
<1>8. x \in FileType /\ x.bytes = file[f].bytes \o SubSeq(Bytes(w), from + 1, upTo)
  <2> DEFINE s == SubSeq(Bytes(w), from + 1, upTo)
             y == file[f]
  <2>1. y \in FileType /\ s \in Seq(Callers \X Nat) BY <1>5, <1>7
  <2>2. x = [y EXCEPT !.bytes = y.bytes \o s] OBVIOUS
  <2> HIDE DEF s, y, x
  <2>3. y.bytes \o s \in Seq(Callers \X Nat) BY <2>1, ConcatProperties DEF FileType
  <2>4. x \in FileType /\ x.bytes = y.bytes \o s BY <2>1, <2>2, <2>3 DEF FileType
  <2> QED BY <2>4 DEF s, y
<1>9. file' = [file EXCEPT ![f] = x] BY <1>1
<1> HIDE DEF x
<1>10. file' \in [Callers \cup {Shared} -> FileType] /\ file'[f] = x
       BY <1>1, <1>5, <1>8, <1>9 DEF Typed
<1>11. /\ p \in CallType /\ p.stage = q.stage /\ p.opts = o /\ p.answer = q.answer
       /\ p.landed = upTo - TailFrom(w) /\ p.clean = q.clean
       BY <1>2, <1>4 DEF CallType
<1>12. /\ call'[w] = p /\ \A v \in Callers \ {w} : call'[v] = Intrude(w)[v]
       /\ call' \in [Callers -> CallType]
  <2>1. Intrude(w)[w] = q BY DEF Intrude
  <2>2. \A v \in Callers : Intrude(w)[v] \in CallType
        BY <1>1, Intruded DEF Typed
  <2>3. Intrude(w) = [v \in Callers |-> Intrude(w)[v]] BY DEF Intrude
  <2>4. call' = [v \in Callers |-> IF v = w THEN p ELSE Intrude(w)[v]]
        BY <1>1, <2>1, <2>3
  <2> QED BY <1>11, <2>2, <2>4
<1> HIDE DEF p
<1>13. /\ UNCHANGED reply
       /\ chain' \in [Callers \X Parts -> {"none", "sent", "success", "failed"}]
       /\ chain'[<<w, "append">>] = IF upTo = n THEN "success" ELSE "sent"
       /\ \A v \in Callers, part \in Parts :
             v # w \/ part # "append" => chain'[<<v, part>>] = chain[<<v, part>>]
  <2>1. CASE upTo = n BY <1>1, <2>1, Decided DEF Parts
  <2>2. CASE upTo # n BY <1>1, <2>2 DEF Typed
  <2> QED BY <2>1, <2>2
<1>14. chain'[<<w, "write">>] = chain[<<w, "write">>] BY <1>13 DEF Parts
<1>15. Typed' BY <1>1, <1>10, <1>12, <1>13 DEF Typed
<1>16. FitsAt(w)'
  <2> DEFINE cw == chain[<<w, "write">>]
             rw == reply[<<w, "write">>]
             ra == reply[<<w, "append">>]
             landed == upTo - TailFrom(w)
  <2>1. Fits(q, cw, "sent", rw, ra) BY <1>1 DEF FitsAt
  <2>2. /\ landed \in Nat /\ landed <= Rest(o) /\ landed <= n /\ landed > 0
        /\ (upTo = n <=> landed = Rest(o))
        BY <1>2, <1>4
  <2>3. p.landed = landed BY <1>11
  <2>4. q.opts = o /\ n = o.size OBVIOUS
  <2> HIDE DEF q, cw, rw, ra, landed, o, n
  <2>5. Fits(p, cw, IF upTo = n THEN "success" ELSE "sent", rw, ra)
    <3>1. CASE upTo = n
          BY <1>11, <2>1, <2>2, <2>3, <2>4, <3>1 DEF Fits, StageFits, ChainFits, AnswerFits
    <3>2. CASE upTo # n
          BY <1>11, <2>1, <2>2, <2>3, <2>4, <3>2 DEF Fits, StageFits, ChainFits, AnswerFits
    <3> QED BY <3>1, <3>2
  <2> QED BY <1>12, <1>13, <1>14, <2>5 DEF FitsAt, cw, rw, ra
<1>17. HoldsAt(w)'
  <2> SUFFICES ASSUME p.clean, o.op \in Replacing
               PROVE  x.bytes = SubSeq(Content(w, o), 1, From(o) + p.landed)
      BY <1>2, <1>10, <1>11, <1>12 DEF HoldsAt, Holds
  <2>1. file[f].bytes = SubSeq(Content(w, o), 1, from)
        BY <1>1, <1>2, <1>4, <1>11 DEF HoldsAt, Holds
  <2>2. x.bytes = SubSeq(Content(w, o), 1, from) \o SubSeq(Content(w, o), from + 1, upTo)
        BY <1>2, <1>8, <2>1
  <2>3. From(o) + p.landed = upTo BY <1>4, <1>11
  <2> DEFINE s == Content(w, o)
  <2>4. s \in Seq(Callers \X Nat) /\ from \in 0..Len(s) /\ upTo \in from..Len(s)
        BY <1>4, <1>6
  <2> HIDE DEF s
  <2>5. SubSeq(s, 1, from) \o SubSeq(s, from + 1, upTo) = SubSeq(s, 1, upTo)
        BY <2>4, Adjoin
  <2> QED BY <2>2, <2>3, <2>5 DEF s
<1>18. ASSUME NEW v \in Callers \ {w} PROVE LeftAlone(v)
  <2>1. file' = [file EXCEPT ![Target(w)] = x] BY <1>9
  <2>2. \A part \in Parts : /\ chain'[<<v, part>>] = chain[<<v, part>>]
                            /\ reply'[<<v, part>>] = reply[<<v, part>>]
        BY <1>13
  <2>3. call'[v] = Intrude(w)[v] BY <1>12
  <2> QED BY <1>1, <1>8, <2>1, <2>2, <2>3, IntrudeLeavesAlone
<1> QED BY <1>15, <1>16, <1>17, <1>18, OneMoves

-----------------------------------------------------------------------------
(* The invariant.                                                          *)
LEMMA InitIInv == Init => IInv
<1> SUFFICES ASSUME Init PROVE IInv OBVIOUS
<1>1. Ledger!Open \in Ledger!Answers \cup {Ledger!Open} /\ Ledger!Open.code = "open"
      BY DEF Ledger!Open
<1>2. Fresh \in CallType BY DEF Fresh, CallType, NoAnswer
<1>3. Typed
      BY <1>1, <1>2 DEF Init, Ledger!Init, Typed, FileType
<1>4. ASSUME NEW w \in Callers PROVE FitsAt(w) /\ HoldsAt(w)
  <2>1. /\ chain[<<w, "write">>] = "none" /\ chain[<<w, "append">>] = "none"
        /\ reply[<<w, "write">>] = Ledger!Open /\ reply[<<w, "append">>] = Ledger!Open
        /\ call[w] = Fresh
        BY DEF Init, Ledger!Init, Parts
  <2> DEFINE q == Fresh
             r == Ledger!Open
  <2>2. /\ q.stage = "idle" /\ q.landed = 0 /\ q.clean = FALSE
        /\ q.answer.code = "open" /\ q.answer.file = FALSE
        /\ q.opts.op = "delete" /\ q.opts.size \in Nat
        BY DEF Fresh, NoOptions, NoAnswer
  <2>3. Rest(q.opts) \in Nat
        BY <1>2, OptionFacts DEF CallType
  <2>4. r.code = "open" BY <1>1
  <2> HIDE DEF q, r
  <2>5. StageFits(q, "none", "none", Ledger!Open, Ledger!Open)
        BY <2>2 DEF StageFits
  <2>6. ChainFits(q, "none", "none", r, r)
        BY <2>2, <2>3, <2>4 DEF ChainFits
  <2>7. AnswerFits(q, "none", "none", r, r)
        BY <2>2, <2>4 DEF AnswerFits, Replacing
  <2>8. Fits(Fresh, "none", "none", Ledger!Open, Ledger!Open)
        BY <2>5, <2>6, <2>7 DEF Fits, q, r
  <2> QED BY <2>1, <2>2, <2>8 DEF FitsAt, HoldsAt, Holds, q
<1> QED BY <1>3, <1>4 DEF IInv

LEMMA NextIInv == IInv /\ [Next]_vars => IInv'
<1> SUFFICES ASSUME IInv, [Next]_vars PROVE IInv' OBVIOUS
<1>1. ASSUME NEW w \in Callers, Ask(w) \/ WriteAnswered(w) \/ AppendAnswered(w) PROVE IInv'
      BY <1>1, AskSound, WriteAnsweredSound, AppendAnsweredSound
<1>2. ASSUME NEW w \in Callers,
             WriteLands(w) \/ ScheduleLands(w) \/ ScheduleExecutes(w) \/ ChunkLands(w)
      PROVE  IInv'
      BY <1>2, WriteLandsSound, ScheduleLandsSound, ScheduleExecutesSound, ChunkLandsSound
<1>3. ASSUME NEW w \in Callers, NEW part \in Parts, Send(w, part) \/ Fails(w, part)
      PROVE  IInv'
      BY <1>3, SendSound, FailsSound
<1>4. CASE UNCHANGED vars
      BY <1>4 DEF vars, IInv, Typed, FitsAt, HoldsAt
<1> QED BY <1>1, <1>2, <1>3, <1>4 DEF Next

(* The inductive invariant holds in every reachable state.                 *)
THEOREM FileInvariant == Spec => []IInv
BY InitIInv, NextIInv, PTL DEF Spec

(* Every field keeps its type, and no call brings in more bytes than it    *)
(* was given.                                                              *)
THEOREM FileTypeCorrect == Spec => []TypeOK
<1>1. ASSUME IInv PROVE TypeOK
  <2>1. Typed BY <1>1 DEF IInv
  <2>2. \A f \in DOMAIN file : /\ {file[f].exists, file[f].locked} \subseteq BOOLEAN
                               /\ file[f].bytes \in Seq(Callers \X Nat)
        BY <2>1 DEF Typed, FileType
  <2>3. ASSUME NEW w \in Callers
        PROVE  /\ call[w].stage \in {"idle", "write", "append", "done"}
               /\ call[w].opts \in Options \cup {NoOptions}
               /\ call[w].landed \in 0..call[w].opts.size
               /\ call[w].answer \in [code : {"open", "ok", "INPUT_INVALID", "SDK_ERROR", "UNKNOWN"},
                                      tx : {"none", "write", "append"}, file : BOOLEAN]
               /\ call[w].clean \in BOOLEAN
    <3>1. call[w] \in CallType BY <2>1 DEF Typed
    <3>2. call[w].opts.size \in Nat BY <3>1, OptionFacts DEF CallType
    <3>3. call[w].landed <= call[w].opts.size
          BY <1>1 DEF IInv, FitsAt, Fits, ChainFits
    <3> QED BY <3>1, <3>2, <3>3 DEF CallType
  <2> QED BY <2>1, <2>2, <2>3 DEF Typed, TypeOK
<1> QED BY <1>1, FileInvariant, PTL

(* The tail is sent only when the head is known to have landed.            *)
THEOREM FileTailFollowsHead == Spec => []TailFollowsHead
<1>1. IInv => TailFollowsHead
      BY DEF IInv, FitsAt, Fits, ChainFits, TailFollowsHead, Op
<1> QED BY <1>1, FileInvariant, PTL

(* A create or update that resolves has put exactly its contents into the  *)
(* file, whatever the sizes, unless somebody else wrote there meanwhile.   *)
THEOREM FileWholeWhenResolved == Spec => []WholeWhenResolved
<1>1. ASSUME IInv, NEW w \in Callers,
             Replaces(w), Answer(w).code = "ok", call[w].clean
      PROVE  file[Target(w)].bytes = Bytes(w)
  <2> DEFINE o == call[w].opts
  <2>1. /\ Typed /\ FitsAt(w) /\ HoldsAt(w) /\ o \in Options \cup {NoOptions}
        /\ o.op \in Replacing /\ call[w].landed \in Nat
        BY <1>1 DEF IInv, Typed, CallType, Replaces, Replacing, Op
  <2>2. /\ o.size \in Nat /\ From(o) \in 0..o.size /\ Rest(o) = o.size - From(o)
        BY <2>1, OptionFacts DEF Rest
  <2>3. call[w].landed = Rest(o)
        BY <1>1, <2>1, <2>2 DEF FitsAt, Fits, ChainFits, AnswerFits, Answer, Replacing
  <2>4. From(o) + call[w].landed = o.size BY <2>2, <2>3
  <2>5. file[FileOf(w, o)].bytes = SubSeq(Content(w, o), 1, o.size)
        BY <1>1, <2>1, <2>4 DEF HoldsAt, Holds
  <2> QED BY <2>1, <2>5, OnOptions, ContentFacts
<1>2. IInv => WholeWhenResolved BY <1>1 DEF WholeWhenResolved
<1> QED BY <1>2, FileInvariant, PTL

(* The error names file and write exactly when the head is known to have   *)
(* landed and the rest failed, the file then holds a beginning of the      *)
(* contents that includes the head, and no input is found invalid once     *)
(* something was sent.                                                     *)
THEOREM FileErrorsTellTruly == Spec => []ErrorsTellTruly
<1>1. ASSUME IInv, NEW w \in Callers, Replaces(w), Answer(w).code \notin {"open", "ok"}
      PROVE  /\ Answer(w).file <=> reply[<<w, "write">>].code = "ok"
             /\ Answer(w).file =>
                   /\ chain[<<w, "write">>] = "success" /\ Answer(w).tx = "write"
                   /\ call[w].clean => /\ IsPrefix(file[Target(w)].bytes, Bytes(w))
                                       /\ Len(file[Target(w)].bytes) >= HeadOf(w)
  <2> DEFINE o == call[w].opts
             k == From(o) + call[w].landed
             s == Content(w, o)
  <2>1. /\ Typed /\ FitsAt(w) /\ HoldsAt(w) /\ o \in Options \cup {NoOptions}
        /\ o.op \in Replacing /\ call[w].landed \in Nat
        BY <1>1 DEF IInv, Typed, CallType, Replaces, Replacing, Op
  <2>2. Answer(w).file <=> reply[<<w, "write">>].code = "ok"
        BY <1>1, <2>1 DEF FitsAt, Fits, AnswerFits, Answer
  <2>3. Answer(w).file => chain[<<w, "write">>] = "success" /\ Answer(w).tx = "write"
        BY <1>1, <2>1, <2>2 DEF FitsAt, Fits, ChainFits, AnswerFits, Answer
  <2>4. ASSUME call[w].clean
        PROVE  /\ IsPrefix(file[Target(w)].bytes, Bytes(w))
               /\ Len(file[Target(w)].bytes) >= HeadOf(w)
    <3>1. /\ file[Target(w)].bytes = SubSeq(s, 1, k) /\ Bytes(w) = s /\ HeadOf(w) = From(o)
          BY <2>1, <2>4, OnOptions DEF HoldsAt, Holds, Replacing, Op
    <3>2. o.size \in Nat /\ From(o) \in 0..o.size /\ Rest(o) = o.size - From(o)
          BY <2>1, OptionFacts DEF Rest
    <3>3. k \in 0..o.size /\ k >= From(o)
          BY <2>1, <3>2 DEF FitsAt, Fits, ChainFits, Replacing
    <3>4. s \in Seq(Callers \X Nat) /\ Len(s) = o.size BY <2>1, ContentFacts
    <3> HIDE DEF s, k
    <3>5. Len(SubSeq(s, 1, k)) = k /\ SubSeq(s, 1, k) = SubSeq(s, 1, k)
          BY <3>2, <3>3, <3>4
    <3>6. IsPrefix(SubSeq(s, 1, k), s)
          BY <3>2, <3>3, <3>4, <3>5 DEF IsPrefix
    <3> QED BY <3>1, <3>3, <3>5, <3>6, <3>2
  <2> QED BY <2>2, <2>3, <2>4
<1>2. ASSUME IInv, NEW w \in Callers, Answer(w).code = "INPUT_INVALID", NEW part \in Parts
      PROVE  chain[<<w, part>>] = "none"
      BY <1>2 DEF IInv, FitsAt, Fits, AnswerFits, Answer, Parts
<1>3. IInv => ErrorsTellTruly
      BY <1>1, <1>2 DEF ErrorsTellTruly, PartialErrorNamesFile, RejectedInputSentNothing
<1> QED BY <1>3, FileInvariant, PTL
=============================================================================
