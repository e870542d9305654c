------------------------------- MODULE KvSpec -------------------------------
(***************************************************************************)
(* What one worker of the store promises to its callers: every call takes  *)
(* effect atomically at some moment between its submission and its one     *)
(* answer, and the answer tells the truth about the keys present at that   *)
(* moment.  A GET may also fail with an I/O error.  Item values are left   *)
(* out.                                                                    *)
(***************************************************************************)
CONSTANTS Ctxs,      \* the callers, each with at most one call outstanding
          Keys,
          CtxOps,    \* the operations each caller uses
          NoCall,    \* the call of a caller that waits for nothing
          NoAnswer   \* the answer of a call that is outstanding

VARIABLES present,   \* the keys in the store
          call,      \* the outstanding call of each caller
          res        \* the answer to each caller's last call

Init ==
  /\ present = {}
  /\ call = [c \in Ctxs |-> NoCall]
  /\ res = [c \in Ctxs |-> NoAnswer]

Call(c) ==
  /\ call[c] = NoCall
  /\ \E op \in CtxOps[c], k \in Keys : call' = [call EXCEPT ![c] = [op |-> op, key |-> k]]
  /\ res' = [res EXCEPT ![c] = NoAnswer]
  /\ UNCHANGED present

\* A put makes its key present before it is answered.
TakeEffect(c) ==
  /\ call[c] # NoCall /\ call[c].op = "PUT"
  /\ present' = present \cup {call[c].key}
  /\ UNCHANGED <<call, res>>

Allowed(c) ==
  CASE call[c].op = "GET"    -> IF call[c].key \in present
                                THEN {"success", "eio"} ELSE {"not_exist"}
    [] call[c].op = "PUT"    -> IF call[c].key \in present THEN {"success"} ELSE {}
    [] call[c].op = "DELETE" -> IF call[c].key \in present
                                THEN {"success"} ELSE {"not_exist"}
    [] call[c].op = "SCAN"   -> {"success"}

Answer(c) ==
  /\ call[c] # NoCall
  /\ \E r \in Allowed(c) : res' = [res EXCEPT ![c] = r]
  /\ present' = IF call[c].op = "DELETE" THEN present \ {call[c].key} ELSE present
  /\ call' = [call EXCEPT ![c] = NoCall]

Next == \E c \in Ctxs : Call(c) \/ TakeEffect(c) \/ Answer(c)

Spec == Init /\ [][Next]_<<present, call, res>>
=============================================================================
