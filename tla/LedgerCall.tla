----------------------------- MODULE LedgerCall -----------------------------
(***************************************************************************)
(* What a service call of the core package promises its caller about the   *)
(* ledger, with no lifecycle, no listeners and no stages: a call may send  *)
(* one transaction, the network may decide it, and the promise settles     *)
(* once with an answer that is honest about what had been sent by then.    *)
(* CallLifecycle is shown to implement this module, whatever its listeners *)
(* do and however they come and go.                                        *)
(***************************************************************************)
CONSTANT Calls

VARIABLES chain,    \* chain[c]: what became of the transaction of call c
          reply     \* reply[c]: "open", or what the promise settled with

vars == <<chain, reply>>

(* An answer: "ok" (a receipt of success), "result" (of a query), an error *)
(* code, or "raw" (an error that is not a HieroError); and whether it      *)
(* names the transaction.                                                  *)
AnswerCodes == {"ok", "result", "INPUT_INVALID", "SDK_ERROR",
                "RESULT_MAPPING_FAILED", "NOT_FOUND", "UNKNOWN", "raw"}
Answers == [code : AnswerCodes, tx : BOOLEAN]
Open    == [code |-> "open", tx |-> FALSE]

(* Success and a failed mapping are only told of a transaction that landed,*)
(* a rejected input, a raw error and what a query answers or does not find *)
(* only where none was sent; and the answers that invite the caller to     *)
(* look the transaction up name it.                                        *)
Honest(a, fate) == /\ a.code \in {"ok", "RESULT_MAPPING_FAILED"}
                         => fate = "success" /\ a.tx
                   /\ a.code \in {"INPUT_INVALID", "raw", "result", "NOT_FOUND"}
                         => fate = "none" /\ ~a.tx

Init == /\ chain = [c \in Calls |-> "none"]
        /\ reply = [c \in Calls |-> Open]

(* At most once, and never after the caller has its answer.                *)
Send(c) == /\ chain[c] = "none" /\ reply[c] = Open
           /\ chain' = [chain EXCEPT ![c] = "sent"]
           /\ UNCHANGED reply

Decide(c) == /\ chain[c] = "sent"
             /\ \E fate \in {"success", "failed"} : chain' = [chain EXCEPT ![c] = fate]
             /\ UNCHANGED reply

Answer(c) == /\ reply[c] = Open
             /\ \E a \in Answers : /\ Honest(a, chain[c])
                                   /\ reply' = [reply EXCEPT ![c] = a]
             /\ UNCHANGED chain

Next == \E c \in Calls : Send(c) \/ Decide(c) \/ Answer(c)

Spec == Init /\ [][Next]_vars
=============================================================================
