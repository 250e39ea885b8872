------------------------------ MODULE ScopeLocks ------------------------------
(***************************************************************************)
(* What the transaction coordinator of one IndexedDB database promises,    *)
(* whatever it does to keep the promise: a writer runs alone on the object *)
(* stores of its scope, no transaction passes a writer that was created    *)
(* before it and shares a store with it, and a transaction that has ended  *)
(* never runs again.  Transactions are numbered in the order of their      *)
(* creation.  Several may end, and several start, in one step of the       *)
(* coordinator.                                                            *)
(***************************************************************************)
EXTENDS Naturals

CONSTANTS Txn,      \* the transactions, numbered in creation order
          Store     \* the object stores

VARIABLES phase,    \* "new", "waiting", "running" or "done"
          kind,     \* "readonly", "readwrite", or "observer": a reader that waits for nobody
          stores    \* the scope

vars == <<phase, kind, stores>>

Writer(t) == kind[t] = "readwrite"

Share(t, u) == stores[t] \cap stores[u] # {}

Later(p) == CASE p = "new"     -> {"new", "waiting", "running"}
              [] p = "waiting" -> {"waiting", "running", "done"}
              [] p = "running" -> {"running", "done"}
              [] p = "done"    -> {"done"}

Init ==
  /\ phase = [t \in Txn |-> "new"]
  /\ kind \in [Txn -> {"readonly", "readwrite", "observer"}]
  /\ stores \in [Txn -> SUBSET Store \ {{}}]

(***************************************************************************)
(* t may start in a step that leads to phase' when no writer sharing a     *)
(* store was running and goes on running, and none created before t has    *)
(* still to run or to end.                                                 *)
(***************************************************************************)
MayStart(t) ==
  \A u \in Txn : Writer(u) /\ Share(t, u) /\ u # t =>
    /\ ~(phase[u] = "running" /\ phase'[u] = "running")
    /\ u < t => phase'[u] \notin {"waiting", "running"}

Next ==
  /\ phase' \in [Txn -> {"new", "waiting", "running", "done"}]
  /\ \A t \in Txn : phase'[t] \in Later(phase[t])
  /\ \A t \in Txn : phase[t] # "running" /\ phase'[t] = "running" =>
       kind[t] = "observer" \/ MayStart(t)
  /\ UNCHANGED <<kind, stores>>

Spec == Init /\ [][Next]_vars
=============================================================================
