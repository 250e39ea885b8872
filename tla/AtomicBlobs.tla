----------------------------- MODULE AtomicBlobs -----------------------------
(***************************************************************************)
(* What IndexedDB promises of the blobs in its records: the records that a *)
(* transaction wrote change in one step, to blobs that no record has or    *)
(* had before, or they go with their database.  Nothing else, a crash      *)
(* least of all, changes what a reader that starts now will find.          *)
(***************************************************************************)
EXTENDS Naturals

CONSTANTS Database, Record, Key, Txn, NoBlob, DatabaseOf(_)

VARIABLES
  databases,  \* the databases there are
  content,    \* the blob that a new reader finds in a record
  spent,      \* the keys that have been given out
  writes      \* what each transaction has for the records it wrote

vars == <<databases, content, spent, writes>>

Nothing == [r \in {} |-> NoBlob]

Init ==
  /\ databases = Database
  /\ content = [r \in Record |-> NoBlob]
  /\ spent = {}
  /\ writes = [t \in Txn |-> Nothing]

\* A transaction has written the records W.
Write(t, W) ==
  /\ writes' = [writes EXCEPT ![t] = [r \in W |-> NoBlob]]
  /\ UNCHANGED <<databases, content, spent>>

\* The transaction is given keys for the blobs it brings.
Reserve(t, K) ==
  /\ K \cap spent = {}
  /\ spent' = spent \cup K
  /\ \E new \in [DOMAIN writes[t] -> K \cup {NoBlob}] :
       /\ \A r, q \in DOMAIN new : new[r] = new[q] => r = q \/ new[r] = NoBlob
       /\ writes' = [writes EXCEPT ![t] = new]
  /\ UNCHANGED <<databases, content>>

Commit(t) ==
  /\ \A r \in DOMAIN writes[t] : DatabaseOf(r) \in databases
  /\ content' = [r \in Record |->
       IF r \in DOMAIN writes[t] THEN writes[t][r] ELSE content[r]]
  /\ writes' = [writes EXCEPT ![t] = Nothing]
  /\ UNCHANGED <<databases, spent>>

\* Some transactions are aborted.
Forget(T) ==
  /\ writes' = [t \in Txn |-> IF t \in T THEN Nothing ELSE writes[t]]
  /\ UNCHANGED <<databases, content, spent>>

Delete(d) ==
  /\ databases' = databases \ {d}
  /\ content' = [r \in Record |-> IF DatabaseOf(r) = d THEN NoBlob ELSE content[r]]
  /\ \A t \in Txn : \A r \in DOMAIN writes[t] : DatabaseOf(r) # d
  /\ UNCHANGED <<spent, writes>>

Next ==
  \/ \E T \in SUBSET Txn : Forget(T)
  \/ \E t \in Txn : \/ \E W \in SUBSET Record : Write(t, W)
                    \/ \E K \in SUBSET Key : Reserve(t, K)
                    \/ Commit(t)
  \/ \E d \in Database : Delete(d)

Spec == Init /\ [][Next]_vars
=============================================================================
