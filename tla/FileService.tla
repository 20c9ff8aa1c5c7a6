----------------------------- MODULE FileService -----------------------------
(***************************************************************************)
(* packages/core/src/services/file/FileService.ts: create, update, append, *)
(* delete and schedule on the file service.  Contents over the size of one *)
(* transaction are split: a create or update carries the head, an append   *)
(* the tail, each a service call of its own, so anything may happen to the *)
(* file, or to the call, between the two.                                  *)
(*                                                                         *)
(* The service calls are those of LedgerCall, which CallLifecycle          *)
(* implements; refused options are kept apart from them.  Option values    *)
(* the SDK cannot parse, and signers that throw errors of their own, are   *)
(* left to CallLifecycle.  A byte is <<caller, position>>.                 *)
(*                                                                         *)
(* External: the network's file, and the SDK's split of an append into     *)
(* chunks, each awaited before the next.                                   *)
(***************************************************************************)
EXTENDS Integers, Sequences, SequencesExt

CONSTANTS Callers,      \* calls of the service
          Options,      \* what they may ask for
          Shared,       \* the file every call but a create is about
          NoAccount,    \* no payer, no transaction ID
          MaxBytes,     \* MAX_FILE_TX_BYTES
          ChunkBytes,   \* SDK: the chunk size of an append
          MaxChunks     \* SDK: the most chunks it makes

Ops == {"create", "update", "append", "delete", "scheduleUpdate"}

ASSUME FileAssumption ==
    /\ MaxBytes \in Nat \ {0} /\ ChunkBytes \in Nat \ {0} /\ MaxChunks \in Nat
    /\ Shared \notin Callers
    /\ \A o \in Options : /\ DOMAIN o = {"op", "size", "keys", "payer", "id"}
                          /\ o.op \in Ops /\ o.size \in Nat
                          /\ o.keys \in {"operator", "none", "unchanged"}

VARIABLES chain, reply,   \* LedgerCall's, for each <<caller, part>>
          file,           \* the files of the network
          call            \* the calls of the service

vars == <<chain, reply, file, call>>

Parts == {"write", "append"}
Ledger == INSTANCE LedgerCall WITH Calls <- Callers \X Parts

(* stage     where the call stands: idle, in write or append, done         *)
(* landed    how many bytes its append, or its schedule once executed, has *)
(*           brought in                                                    *)
(* answer    what the promise settled with: code, the transaction and      *)
(*           whether the file is named                                     *)
(* clean     history: its write landed, nobody else's on the file since    *)
NoAnswer == [code |-> "open", tx |-> "none", file |-> FALSE]
NoOptions == [op |-> "delete", size |-> 0, keys |-> "unchanged",
              payer |-> NoAccount, id |-> NoAccount]
Fresh == [stage |-> "idle", opts |-> NoOptions, landed |-> 0, answer |-> NoAnswer,
          clean |-> FALSE]

Init == /\ Ledger!Init
        /\ file = [f \in Callers \cup {Shared} |->
                      [exists |-> f = Shared, locked |-> FALSE, bytes |-> <<>>]]
        /\ call = [w \in Callers |-> Fresh]

At(w, stage) == call[w].stage = stage
Op(w)        == call[w].opts.op
Target(w)    == IF Op(w) = "create" THEN w ELSE Shared
Bytes(w)     == [i \in 1..call[w].opts.size |-> <<w, i>>]

-----------------------------------------------------------------------------
(* The head is the first bytes, the tail all those behind `from`.           *)

(* Faulty: the tail starts one byte late.                                  *)
SplitWithGap(size) ==
    IF size <= MaxBytes THEN [head |-> size, from |-> size]
    ELSE [head |-> MaxBytes, from |-> MaxBytes + 1]

splitContents(size) ==
    IF size <= MaxBytes THEN [head |-> size, from |-> size]
    ELSE [head |-> MaxBytes, from |-> MaxBytes]

HeadOf(w) == splitContents(call[w].opts.size).head
TailFrom(w) == IF Op(w) = "append" THEN 0 ELSE splitContents(call[w].opts.size).from
TailOf(w) == call[w].opts.size - TailFrom(w)

(* resolveTransactionId: a payer and a transaction ID exclude each other.  *)
Conflict(o) == o.payer # NoAccount /\ o.id # NoAccount

(* Faulty: the append repeats the transaction ID next to the payer.        *)
AppendWithSameId(o) == [o EXCEPT !.payer = IF o.payer # NoAccount THEN o.payer ELSE o.id]

(* The options of the follow-up append: the same payer, no transaction ID. *)
AppendOptions(o) ==
    [o EXCEPT !.payer = IF o.payer # NoAccount THEN o.payer ELSE o.id, !.id = NoAccount]

(* The options are refused before anything is sent.                        *)
Refused(o) == \/ o.op = "scheduleUpdate" /\ splitContents(o.size).from < o.size
              \/ Conflict(o)
-----------------------------------------------------------------------------
Settled(w, answer) == [call EXCEPT ![w].stage = "done", ![w].answer = answer]

Ask(w) ==
    /\ At(w, "idle")
    /\ \E o \in Options :
          \/ /\ Refused(o)
             /\ call' = [call EXCEPT ![w].opts = o, ![w].stage = "done",
                                     ![w].answer.code = "INPUT_INVALID"]
          \/ /\ ~Refused(o)
             /\ call' = [call EXCEPT ![w].opts = o,
                                     ![w].stage = IF o.op = "append" THEN "append" ELSE "write"]
    /\ UNCHANGED <<chain, reply, file>>

(* The SDK refuses to freeze an append of too many chunks.                 *)
Sendable(w, part) == part = "append" => /\ TailOf(w) <= ChunkBytes * MaxChunks
                                        /\ Op(w) = "append" \/ ~Conflict(AppendOptions(call[w].opts))

Send(w, part) == /\ At(w, part) /\ Sendable(w, part)
                 /\ Ledger!Send(<<w, part>>)
                 /\ UNCHANGED <<file, call>>

(* What an awaited operation may answer, over what LedgerCall promises.    *)
Codes(w, part) == IF part = "append" /\ Op(w) # "append"
                     /\ Conflict(AppendOptions(call[w].opts))
                  THEN {"INPUT_INVALID"} ELSE {"ok", "SDK_ERROR", "UNKNOWN"}

(* An operation's own error is handed on as it is.                         *)
HandedOn(a, part) == [code |-> a.code, tx |-> IF a.tx THEN part ELSE "none", file |-> FALSE]

(* Faulty: what the append failed with is thrown as it came.               *)
AppendFailureUnwrapped(a) == a

(* Faulty: the append's error is handed on.                                *)
AppendFailureHandedOn(a) == HandedOn(a, "append")

(* wrapAppendFailure: the append's code, the write's transaction, the file.*)
wrapAppendFailure(a) == [code |-> a.code, tx |-> "write", file |-> TRUE]

(* Faulty: the append follows whatever became of the write.                *)
WriteAnsweredAnyhow(w) ==
    /\ At(w, "write") /\ Ledger!Answer(<<w, "write">>)
    /\ LET a == reply'[<<w, "write">>] IN
       /\ a.code \in Codes(w, "write")
       /\ call' = IF TailOf(w) > 0 THEN [call EXCEPT ![w].stage = "append"]
                  ELSE Settled(w, HandedOn(a, "write"))
    /\ UNCHANGED file

(* The create or update settled; the append follows one that succeeded.    *)
WriteAnswered(w) ==
    /\ At(w, "write") /\ Ledger!Answer(<<w, "write">>)
    /\ LET a == reply'[<<w, "write">>] IN
       /\ a.code \in Codes(w, "write")
       /\ call' = IF a.code = "ok" /\ TailOf(w) > 0 THEN [call EXCEPT ![w].stage = "append"]
                  ELSE Settled(w, HandedOn(a, "write"))
    /\ UNCHANGED file

(* createFile and updateFile return the write's result, not the append's.  *)
AppendAnswered(w) ==
    /\ At(w, "append") /\ Ledger!Answer(<<w, "append">>)
    /\ LET a == reply'[<<w, "append">>] IN
       /\ a.code \in Codes(w, "append")
       /\ call' = Settled(w, IF Op(w) = "append" THEN HandedOn(a, "append")
                             ELSE IF a.code = "ok" THEN HandedOn(a, "write")
                             ELSE wrapAppendFailure(a))
    /\ UNCHANGED file

-----------------------------------------------------------------------------
(* External: the network.                                                  *)
Open(f) == file[f].exists /\ ~file[f].locked

Locked(f, keys) == IF keys = "unchanged" THEN file[f].locked ELSE keys = "none"

Written(w) ==
    CASE Op(w) = "delete" -> [exists |-> FALSE, locked |-> TRUE, bytes |-> <<>>]
      [] Op(w) # "delete" -> [exists |-> TRUE,
                              locked |-> Locked(Target(w), call[w].opts.keys),
                              bytes  |-> SubSeq(Bytes(w), 1, HeadOf(w))]

(* w changed the file: nobody else's contents are safe there any more.     *)
Intrude(w) == [v \in Callers |-> IF v # w /\ Target(v) = Target(w)
                                 THEN [call[v] EXCEPT !.clean = FALSE] ELSE call[v]]

WriteLands(w) ==
    /\ Op(w) # "scheduleUpdate"
    /\ Op(w) = "create" \/ Open(Target(w))
    /\ Ledger!Decide(<<w, "write">>) /\ chain'[<<w, "write">>] = "success"
    /\ file' = [file EXCEPT ![Target(w)] = Written(w)]
    /\ call' = [Intrude(w) EXCEPT ![w].clean = TRUE]

ScheduleLands(w) ==
    /\ Op(w) = "scheduleUpdate"
    /\ Ledger!Decide(<<w, "write">>) /\ chain'[<<w, "write">>] = "success"
    /\ UNCHANGED <<file, call>>

(* The signatures are complete, at some moment of somebody else's choice.  *)
ScheduleExecutes(w) ==
    /\ Op(w) = "scheduleUpdate" /\ chain[<<w, "write">>] = "success"
    /\ call[w].landed = 0 /\ Open(Shared)
    /\ file' = [file EXCEPT ![Shared] = Written(w)]
    /\ call' = [Intrude(w) EXCEPT ![w].landed = call[w].opts.size]
    /\ UNCHANGED <<chain, reply>>

ChunkLands(w) ==
    /\ chain[<<w, "append">>] = "sent" /\ call[w].landed < TailOf(w)
    /\ Open(Target(w))
    /\ LET from == TailFrom(w) + call[w].landed
           upTo == IF from + ChunkBytes < call[w].opts.size
                   THEN from + ChunkBytes ELSE call[w].opts.size
       IN  /\ file' = [file EXCEPT ![Target(w)].bytes = @ \o SubSeq(Bytes(w), from + 1, upTo)]
           /\ call' = [Intrude(w) EXCEPT ![w].landed = upTo - TailFrom(w)]
           /\ IF upTo = call[w].opts.size
              THEN Ledger!Decide(<<w, "append">>) /\ chain'[<<w, "append">>] = "success"
              ELSE UNCHANGED <<chain, reply>>

Fails(w, part) == /\ Ledger!Decide(<<w, part>>) /\ chain'[<<w, part>>] = "failed"
                  /\ UNCHANGED <<file, call>>

Next == \E w \in Callers :
           \/ Ask(w) \/ WriteAnswered(w) \/ AppendAnswered(w)
           \/ WriteLands(w) \/ ScheduleLands(w) \/ ScheduleExecutes(w) \/ ChunkLands(w)
           \/ \E part \in Parts : Send(w, part) \/ Fails(w, part)

Spec == Init /\ [][Next]_vars

-----------------------------------------------------------------------------
TypeOK ==
    /\ chain \in [Callers \X Parts -> {"none", "sent", "success", "failed"}]
    /\ reply \in [Callers \X Parts -> Ledger!Answers \cup {Ledger!Open}]
    /\ \A f \in DOMAIN file : /\ {file[f].exists, file[f].locked} \subseteq BOOLEAN
                              /\ file[f].bytes \in Seq(Callers \X Nat)
    /\ \A w \in Callers :
          /\ call[w].stage \in {"idle", "write", "append", "done"}
          /\ call[w].opts \in Options \cup {NoOptions}
          /\ call[w].landed \in 0..call[w].opts.size
          /\ call[w].answer \in [code : {"open", "ok", "INPUT_INVALID", "SDK_ERROR", "UNKNOWN"},
                                 tx : {"none", "write", "append"}, file : BOOLEAN]
          /\ call[w].clean \in BOOLEAN

Replaces(w) == Op(w) \in {"create", "update"}
Answer(w)   == call[w].answer

(* A create or update that resolves has put exactly its contents into the  *)
(* file, unless somebody else changed it since its head landed.            *)
WholeWhenResolved ==
    \A w \in Callers :
        Replaces(w) /\ Answer(w).code = "ok" /\ call[w].clean
            => file[Target(w)].bytes = Bytes(w)

(* The tail is sent only when the head is known to have landed, however    *)
(* late and however wrongly the network's answer came.                     *)
TailFollowsHead ==
    \A w \in Callers :
        Op(w) # "append" /\ chain[<<w, "append">>] # "none"
            => chain[<<w, "write">>] = "success" /\ reply[<<w, "write">>].code = "ok"

(* The error names the file and the write's transaction exactly when the   *)
(* head landed, is known to have, and the rest did not follow: the file    *)
(* then holds a beginning of the contents.                                 *)
PartialErrorNamesFile ==
    \A w \in Callers :
        Replaces(w) /\ Answer(w).code \notin {"open", "ok"} =>
            /\ Answer(w).file <=> reply[<<w, "write">>].code = "ok"
            /\ Answer(w).file =>
                  /\ chain[<<w, "write">>] = "success" /\ Answer(w).tx = "write"
                  /\ call[w].clean => /\ IsPrefix(file[Target(w)].bytes, Bytes(w))
                                      /\ Len(file[Target(w)].bytes) >= HeadOf(w)

(* "Invalid caller input, rejected before anything is sent" (HieroError):  *)
(* no input is found invalid between head and tail.                        *)
RejectedInputSentNothing ==
    \A w \in Callers : Answer(w).code = "INPUT_INVALID"
        => \A part \in Parts : chain[<<w, part>>] = "none"

(* What an error of a call says can be relied on (HieroError.ts,           *)
(* wrapAppendFailure).                                                     *)
ErrorsTellTruly == PartialErrorNamesFile /\ RejectedInputSentNothing
=============================================================================
