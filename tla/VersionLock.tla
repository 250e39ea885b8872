----------------------------- MODULE VersionLock -----------------------------
(***************************************************************************)
(* What IndexedDB promises of the version of one database.  Whoever holds  *)
(* the database open shares its version; a version change and a deletion   *)
(* have the database to themselves, and a version change that fails leaves *)
(* the version as it was.                                                  *)
(***************************************************************************)
EXTENDS Naturals

CONSTANT Request

VARIABLES
  version,   \* the version that has been committed, 0 without a database
  holders,   \* the requests whose connections are open
  upgrader,  \* the set of at most one request that is changing the version
  told       \* the version that a request was told of on success

vars == <<version, holders, upgrader, told>>

Init ==
  /\ version = 0 /\ holders = {} /\ upgrader = {}
  /\ told = [r \in Request |-> 0]

\* r opens the database as it is.
Share(r) ==
  /\ upgrader = {} /\ version # 0
  /\ holders' = holders \cup {r}
  /\ told' = [told EXCEPT ![r] = version]
  /\ UNCHANGED <<version, upgrader>>

BeginUpgrade(r) ==
  /\ upgrader = {} /\ holders = {}
  /\ upgrader' = {r}
  /\ UNCHANGED <<version, holders, told>>

CommitUpgrade(r) ==
  /\ upgrader = {r}
  /\ upgrader' = {} /\ holders' = {r}
  /\ version' > version
  /\ told' = [told EXCEPT ![r] = version']

\* The connection stays until its page lets it go.
RollBackUpgrade(r) ==
  /\ upgrader = {r}
  /\ upgrader' = {} /\ holders' = {r}
  /\ UNCHANGED <<version, told>>

Leave(r) ==
  /\ r \in holders
  /\ holders' = holders \ {r}
  /\ UNCHANGED <<version, upgrader, told>>

Delete ==
  /\ upgrader = {} /\ holders = {}
  /\ version' = 0
  /\ UNCHANGED <<holders, upgrader, told>>

Next ==
  \/ Delete
  \/ \E r \in Request : \/ Share(r) \/ BeginUpgrade(r) \/ CommitUpgrade(r)
                        \/ RollBackUpgrade(r) \/ Leave(r)

Spec == Init /\ [][Next]_vars
=============================================================================
