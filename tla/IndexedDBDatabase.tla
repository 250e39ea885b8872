-------------------------- MODULE IndexedDBDatabase --------------------------
(***************************************************************************)
(* The requests of script to open and to delete one IndexedDB database,    *)
(* which IndexedDBDatabase serves one after the other, and the connections *)
(* they make (IndexedDBConnection).  Whether the database object exists is *)
(* kept by IndexedDBFactoryImpl, in its database_map_.                     *)
(*                                                                         *)
(* Everything runs on one sequence.  Its tasks are the front end's calls   *)
(* (Open, DeleteDatabase, CloseConnection, VersionChangeIgnored, the end   *)
(* of an upgrade), ForceClose, and VersionChangeOperation.  A task calls   *)
(* deep: closing a connection ends its upgrade, which performs requests,   *)
(* and then lets the waiting request go on, which performs more.  Those    *)
(* calls are actions here, with the call stack in the variables of         *)
(* `control': no other task begins before it has returned (Returned).      *)
(*                                                                         *)
(* A request's connection has the request's number.  Version 0 stands for  *)
(* NO_VERSION, and on disk for no database too.  Left out: DEFAULT_VERSION *)
(* (for unit tests only), corruption, which destroys the backing store,    *)
(* and the transactions other than upgrades: see IndexedDBTransactions.    *)
(***************************************************************************)
EXTENDS Integers, Sequences, FiniteSets

CONSTANTS
  MaxRequests,   \* bound: requests ever made
  MaxVersion,    \* bound: the versions that script asks for
  JournalFails   \* TRUE: a commit may fail after LevelDB has taken the changes

ASSUME ConstantsAssumption ==
  /\ MaxRequests \in Nat
  /\ MaxVersion \in Nat \ {0}
  /\ JournalFails \in BOOLEAN

Request == 1..MaxRequests    \* in the order in which they are made
Version == 0..MaxVersion
None == 0

VARIABLES
  want,         \* pending_->version of an open request
  deletes,      \* the requests that are DeleteRequests
  next,         \* the request made next
  queue,        \* pending_requests_
  active,       \* active_request_
  phase,        \* what the active request waits for: connections to close
                \* ("waiting"), VersionChangeOperation ("scheduled"), or its
                \* upgrade transaction ("running")
  version,      \* metadata_.version
  previous,     \* the version that the abort task of the upgrade restores
  known,        \* metadata_.id # kInvalidId
  stored,       \* the version in LevelDB
  alive,        \* the database is in database_map_
  connections,  \* connections_
  asked,        \* connections that ever got OnVersionChange
  told,         \* the version a request was told of with OnSuccess
  answers,      \* OnSuccess, OnError, OnForcedClose calls made to a request
  blocked,      \* requests that got OnBlocked
  processing,   \* processing_pending_requests_
  closing,      \* the connection that Close() is at
  notify,       \* Close() has yet to tell the active request
  force,        \* ForceClose(): "no", "called", or in its "loop"
  toForce,      \* the connections the loop has yet to come to
  opening       \* IndexedDBFactoryImpl::Open() has yet to register the database

requests == <<want, deletes, next>>
metadata == <<version, previous, known>>
client   == <<asked, told, answers, blocked>>
control  == <<processing, closing, notify, force, toForce, opening>>

vars == <<requests, queue, active, phase, metadata, stored, alive, connections,
          client, control>>

Queued == {queue[i] : i \in 1..Len(queue)}

\* The task has returned to the sequence.
Returned == ~processing /\ closing = None /\ force = "no" /\ ~opening

TypeOK ==
  /\ want \in [Request -> Version]
  /\ deletes \subseteq Request
  /\ next \in 1..MaxRequests + 1
  /\ queue \in Seq(Request)
  /\ active \in Request \cup {None}
  /\ phase \in {"none", "waiting", "scheduled", "running"}
  /\ phase = "none" <=> active = None
  /\ phase \in {"scheduled", "running"} => active \notin deletes
  /\ version \in Version /\ previous \in Version /\ stored \in Version
  /\ known \in BOOLEAN /\ alive \in BOOLEAN /\ opening \in BOOLEAN
  /\ connections \subseteq Request
  /\ asked \subseteq Request /\ blocked \subseteq Request
  /\ told \in [Request -> Version]
  /\ answers \in [Request -> Seq({"success", "error", "closed"})]
  /\ processing \in BOOLEAN
  /\ processing => active = None /\ queue # <<>>
  /\ closing \in Request \cup {None}
  /\ notify \in BOOLEAN
  /\ force \in {"no", "called", "loop"}
  /\ toForce \subseteq Request

\* What script will ask for is drawn here once and for all.
Init ==
  /\ deletes \in SUBSET Request
  /\ want \in {w \in [Request -> Version] : \A r \in deletes : w[r] = 0}
  /\ next = 1
  /\ queue = <<>> /\ active = None /\ phase = "none"
  /\ version = 0 /\ previous = 0 /\ known = FALSE /\ stored = 0
  /\ alive = FALSE
  /\ connections = {}
  /\ asked = {} /\ blocked = {}
  /\ told = [r \in Request |-> 0]
  /\ answers = [r \in Request |-> <<>>]
  /\ processing = FALSE /\ closing = None /\ notify = FALSE
  /\ force = "no" /\ toForce = {} /\ opening = FALSE

-----------------------------------------------------------------------------
(* Serving requests. *)

Answer(r, a) == answers' = [answers EXCEPT ![r] = Append(@, a)]

\* Mutant: the next request is left in the queue.
RequestCompleteOnly(q) ==
  /\ active' = None /\ phase' = "none"
  /\ queue' = q
  /\ processing' = FALSE

\* RequestComplete with the queue q: the loop of ProcessRequestQueue goes on.
RequestComplete(q) ==
  /\ active' = None /\ phase' = "none"
  /\ queue' = q
  /\ processing' = (q # <<>>)

\* 1 for a database that is made without a version.
NewVersion(r) == IF want[r] = 0 THEN 1 ELSE want[r]

(***************************************************************************)
(* OpenRequest::StartUpgrade, which makes the connection and schedules     *)
(* VersionChangeOperation in an upgrade transaction of it.                 *)
(***************************************************************************)
StartUpgrade(r) ==
  /\ active' = r /\ phase' = "scheduled"
  /\ connections' = connections \cup {r}

\* DeleteRequest::DoDelete, for a request whose completion leaves the queue q.
DoDelete(r, q) ==
  /\ RequestComplete(q)
  /\ \/ /\ version' = 0 /\ known' = FALSE /\ stored' = 0
        /\ Answer(r, "success")
     \/ /\ Answer(r, "error")
        /\ UNCHANGED <<version, known, stored>>
  /\ UNCHANGED previous

\* Mutant: nobody is asked to close.
AwaitConnectionsSilently(r, q) ==
  /\ active' = r /\ phase' = "waiting"
  /\ queue' = q /\ processing' = FALSE
  /\ UNCHANGED asked

\* The request has to wait until all connections are closed.
AwaitConnections(r, q) ==
  /\ active' = r /\ phase' = "waiting"
  /\ queue' = q /\ processing' = FALSE
  /\ asked' = asked \cup connections

\* OpenRequest::Perform.  OpenInternal makes anew a database that was deleted.
PerformOpen(r, q) ==
  \/ /\ ~known
     /\ Answer(r, "error") /\ RequestComplete(q)
     /\ UNCHANGED <<known, connections, asked, told>>
  \/ /\ known' = TRUE
     /\ version # 0 /\ want[r] \in {0, version}
     /\ connections' = connections \cup {r}
     /\ told' = [told EXCEPT ![r] = version]
     /\ Answer(r, "success") /\ RequestComplete(q)
     /\ UNCHANGED asked
  \/ /\ known' = TRUE
     /\ want[r] # 0 /\ want[r] < version
     /\ Answer(r, "error") /\ RequestComplete(q)
     /\ UNCHANGED <<connections, asked, told>>
  \/ /\ known' = TRUE
     /\ NewVersion(r) > version /\ (want[r] # 0 \/ version = 0)
     /\ \/ /\ connections = {}
           /\ StartUpgrade(r)
           /\ queue' = q /\ processing' = FALSE
           /\ UNCHANGED asked
        \/ /\ connections # {}
           /\ AwaitConnections(r, q)
           /\ UNCHANGED connections
     /\ UNCHANGED <<told, answers>>

\* Mutant: a deletion does not wait for the connections.
PerformDeleteAtOnce(r, q) ==
  DoDelete(r, q) /\ UNCHANGED asked

\* DeleteRequest::Perform.
PerformDelete(r, q) ==
  \/ /\ connections = {}
     /\ DoDelete(r, q)
     /\ UNCHANGED asked
  \/ /\ connections # {}
     /\ AwaitConnections(r, q)
     /\ UNCHANGED <<metadata, stored, answers>>

\* One turn of the loop of ProcessRequestQueue.
ProcessRequest ==
  /\ processing
  /\ LET r == Head(queue)  q == Tail(queue)
     IN  \/ /\ r \notin deletes /\ PerformOpen(r, q)
            /\ UNCHANGED <<version, previous, stored>>
         \/ /\ r \in deletes /\ PerformDelete(r, q)
            /\ UNCHANGED <<connections, told>>
  /\ UNCHANGED <<requests, alive, blocked, closing, notify, force, toForce, opening>>

-----------------------------------------------------------------------------
(* The factory. *)

\* Mutant: the newest request is served first.
AppendRequestInFront(r) ==
  /\ queue' = <<r>> \o queue
  /\ processing' = (active = None)

\* AppendRequest: the queue is processed unless a request is active.
AppendRequest(r) ==
  /\ queue' = Append(queue, r)
  /\ processing' = (active = None)

(***************************************************************************)
(* IndexedDBFactoryImpl::Open.  A database that is not open is created     *)
(* with what the backing store holds of it, which may fail.                *)
(***************************************************************************)
Open(r) ==
  /\ Returned /\ r = next /\ r \notin deletes
  /\ next' = next + 1
  /\ \/ /\ alive
        /\ AppendRequest(r)
        /\ UNCHANGED <<version, known, answers, opening>>
     \/ /\ ~alive
        /\ AppendRequest(r)
        /\ version' = stored /\ known' = TRUE /\ opening' = TRUE
        /\ UNCHANGED answers
     \/ /\ ~alive
        /\ Answer(r, "error")
        /\ UNCHANGED <<version, known, queue, processing, opening>>
  /\ UNCHANGED <<want, deletes, active, phase, previous, stored, alive, connections,
                 asked, told, blocked, closing, notify, force, toForce>>

\* The end of IndexedDBFactoryImpl::Open: a database without a connection goes.
Register ==
  /\ opening /\ ~processing
  /\ opening' = FALSE
  /\ alive' = (connections # {})
  /\ UNCHANGED <<requests, queue, active, phase, metadata, stored, connections,
                 client, processing, closing, notify, force, toForce>>

(***************************************************************************)
(* IndexedDBFactoryImpl::DeleteDatabase: a database that is not open is    *)
(* opened for the deletion only, which finds no connections.               *)
(***************************************************************************)
DeleteDatabase(r) ==
  /\ Returned /\ r = next /\ r \in deletes
  /\ next' = next + 1
  /\ \/ /\ alive
        /\ AppendRequest(r)
        /\ force' \in {"no", "called"}
        /\ UNCHANGED <<stored, answers>>
     \/ /\ ~alive
        /\ \/ stored' = 0 /\ Answer(r, "success")
           \/ Answer(r, "error") /\ UNCHANGED stored
        /\ UNCHANGED <<queue, processing, force>>
  /\ UNCHANGED <<want, deletes, active, phase, metadata, alive, connections, asked,
                 told, blocked, closing, notify, toForce, opening>>

-----------------------------------------------------------------------------
(* The upgrade transaction of the active request. *)

\* The transaction runs, and the connection is passed to the front end.
VersionChangeOperation ==
  /\ Returned /\ phase = "scheduled"
  /\ phase' = "running"
  /\ previous' = version /\ version' = NewVersion(active)
  /\ UNCHANGED <<requests, queue, active, known, stored, alive, connections, client,
                 control>>

UpgradeCommits ==
  /\ Returned /\ phase = "running"
  /\ stored' = version
  /\ told' = [told EXCEPT ![active] = version]
  /\ Answer(active, "success")
  /\ RequestComplete(queue)
  /\ UNCHANGED <<requests, metadata, alive, connections, asked, blocked, closing,
                 notify, force, toForce, opening>>

\* Mutant: VersionChangeAbortOperation is not run.
AbortUpgradeOnly ==
  /\ UNCHANGED version
  /\ Answer(active, "error")
  /\ RequestComplete(queue)

(***************************************************************************)
(* The abort tasks run, VersionChangeAbortOperation among them if          *)
(* VersionChangeOperation has run, and UpgradeTransactionFinished(false).  *)
(***************************************************************************)
AbortUpgrade ==
  /\ version' = IF phase = "running" THEN previous ELSE version
  /\ Answer(active, "error")
  /\ RequestComplete(queue)

\* By the page or by the timer.
UpgradeAborts ==
  /\ Returned /\ phase = "running"
  /\ AbortUpgrade
  /\ UNCHANGED <<requests, previous, known, stored, alive, connections, asked, told,
                 blocked, closing, notify, force, toForce, opening>>

(***************************************************************************)
(* Its commit fails: the requests behind it are performed before the       *)
(* failure is reported to the factory, which closes the database.          *)
(***************************************************************************)
UpgradeFails ==
  /\ Returned /\ phase = "running"
  /\ stored' \in {stored} \cup (IF JournalFails THEN {version} ELSE {})
  /\ AbortUpgrade
  /\ force' = "called"
  /\ UNCHANGED <<requests, previous, known, alive, connections, asked, told, blocked,
                 closing, notify, toForce, opening>>

-----------------------------------------------------------------------------
(* Closing connections. *)

(***************************************************************************)
(* IndexedDBDatabase::Close begins by aborting the transactions of c.  If  *)
(* that ends an upgrade, requests are performed while c still counts.  An  *)
(* upgrade that is only scheduled can be reached by a force close: the     *)
(* request then deletes the connection that Close is at, which is not      *)
(* defined; here it goes on as if the connection were still there.         *)
(***************************************************************************)
Close(c) ==
  /\ closing' = c
  /\ \/ /\ phase \in {"scheduled", "running"} /\ active = c
        /\ AbortUpgrade
     \/ /\ ~(phase \in {"scheduled", "running"} /\ active = c)
        /\ UNCHANGED <<queue, active, phase, version, answers, processing>>

\* The front end does not have the connection of an upgrade that is scheduled.
CloseConnection(c) ==
  /\ Returned /\ c \in connections
  /\ ~(phase = "scheduled" /\ active = c)
  /\ Close(c)
  /\ UNCHANGED <<requests, previous, known, stored, alive, connections, asked, told,
                 blocked, notify, force, toForce, opening>>

EraseConnection ==
  /\ closing \in connections /\ ~processing
  /\ connections' = connections \ {closing}
  /\ notify' = TRUE
  /\ UNCHANGED <<requests, queue, active, phase, metadata, stored, alive, client,
                 processing, closing, force, toForce, opening>>

\* Mutant: an open request does not look at the connections that are left.
LetActiveRequestGoOnAtOnce ==
  \/ active = None /\ UNCHANGED <<queue, active, phase, connections, metadata, stored, answers, processing>>
  \/ /\ active \in Request \ deletes
     /\ StartUpgrade(active)
     /\ UNCHANGED <<queue, metadata, stored, answers, processing>>
  \/ /\ active \in deletes /\ connections = {}
     /\ DoDelete(active, queue)
     /\ UNCHANGED connections
  \/ /\ active \in deletes /\ connections # {}
     /\ UNCHANGED <<queue, active, phase, connections, metadata, stored, answers, processing>>

(***************************************************************************)
(* OnConnectionClosed of the active request.  An open request also looks   *)
(* whether the connection is its own: it never is, since the abort of its  *)
(* upgrade has completed it.                                               *)
(***************************************************************************)
LetActiveRequestGoOn ==
  \/ /\ active = None \/ connections # {}
     /\ UNCHANGED <<queue, active, phase, connections, metadata, stored, answers,
                    processing>>
  \/ /\ active \in Request \ deletes /\ connections = {}
     /\ StartUpgrade(active)
     /\ UNCHANGED <<queue, metadata, stored, answers, processing>>
  \/ /\ active \in deletes /\ connections = {}
     /\ DoDelete(active, queue)
     /\ UNCHANGED connections

OnConnectionClosed ==
  /\ notify
  /\ notify' = FALSE
  /\ LetActiveRequestGoOn
  /\ UNCHANGED <<requests, alive, asked, told, blocked, closing, force, toForce,
                 opening>>

\* Mutant: the other connections are not counted.
UnusedByRequests == active = None /\ queue = <<>>

Unused == connections = {} /\ active = None /\ queue = <<>>

\* The end of Close(): the factory releases a database that nobody uses.
ReleaseDatabase ==
  /\ closing # None /\ closing \notin connections /\ ~notify /\ ~processing
  /\ closing' = None
  /\ alive' = (alive /\ ~Unused)
  /\ UNCHANGED <<requests, queue, active, phase, metadata, stored, connections, client,
                 processing, notify, force, toForce, opening>>

-----------------------------------------------------------------------------
(* Closing all of them. *)

\* For an origin that is deleted or copied, or by the internals page.
ForceClose ==
  /\ Returned /\ alive
  /\ force' = "called"
  /\ UNCHANGED <<requests, queue, active, phase, metadata, stored, alive, connections,
                 client, processing, closing, notify, toForce, opening>>

\* Mutant: requests are told, and stay in the queue.
DropRequestsButKeepThem ==
  /\ answers' = [r \in Request |->
       IF r \in Queued
         THEN Append(answers[r], IF r \in deletes THEN "error" ELSE "closed")
         ELSE answers[r]]
  /\ UNCHANGED queue

\* AbortForForceClose of every pending request.
DropRequests ==
  /\ answers' = [r \in Request |->
       IF r \in Queued
         THEN Append(answers[r], IF r \in deletes THEN "error" ELSE "closed")
         ELSE answers[r]]
  /\ queue' = <<>>

\* IndexedDBDatabase::ForceClose, up to its loop over the connections.
BeginForceClose ==
  /\ force = "called" /\ ~processing
  /\ force' = "loop"
  /\ toForce' = connections
  /\ DropRequests
  /\ UNCHANGED <<requests, active, phase, metadata, stored, alive, connections, asked,
                 told, blocked, processing, closing, notify, opening>>

\* A turn of the loop: connections_ keeps the order of insertion.
ForceCloseConnection(c) ==
  /\ force = "loop" /\ closing = None /\ ~processing
  /\ c \in toForce /\ \A d \in toForce : c <= d
  /\ toForce' = toForce \ {c}
  /\ Close(c)
  /\ UNCHANGED <<requests, previous, known, stored, alive, connections, asked, told,
                 blocked, notify, force, opening>>

ForceCloseReturns ==
  /\ force = "loop" /\ closing = None /\ ~processing /\ toForce = {}
  /\ force' = "no"
  /\ UNCHANGED <<requests, queue, active, phase, metadata, stored, alive, connections,
                 client, processing, closing, notify, toForce, opening>>

\* The page of c has not closed c in its versionchange event.
VersionChangeIgnored(c) ==
  /\ Returned /\ c \in connections \cap asked
  /\ active # None
  /\ blocked' = blocked \cup {active}
  /\ UNCHANGED <<requests, queue, active, phase, metadata, stored, alive, connections,
                 asked, told, answers, control>>

Continue ==
  \/ ProcessRequest \/ Register
  \/ EraseConnection \/ OnConnectionClosed \/ ReleaseDatabase
  \/ BeginForceClose \/ ForceCloseReturns
  \/ \E c \in Request : ForceCloseConnection(c)

UpgradeEnds == UpgradeCommits \/ UpgradeAborts \/ UpgradeFails

Next ==
  \/ Continue
  \/ VersionChangeOperation \/ UpgradeEnds \/ ForceClose
  \/ \E r \in Request :
       Open(r) \/ DeleteDatabase(r) \/ CloseConnection(r) \/ VersionChangeIgnored(r)

Spec == Init /\ [][Next]_vars

(***************************************************************************)
(* Calls return, the sequence runs the upgrade that is scheduled, an       *)
(* upgrade ends, at the latest by its timer, and a page that got a         *)
(* versionchange event closes its connection sooner or later.              *)
(***************************************************************************)
FairSpec ==
  /\ Spec
  /\ WF_vars(Continue)
  /\ WF_vars(VersionChangeOperation)
  /\ WF_vars(UpgradeEnds)
  /\ \A c \in Request : WF_vars(c \in asked /\ CloseConnection(c))

-----------------------------------------------------------------------------
(* What should hold. *)

Upgrader == IF phase \in {"scheduled", "running"} THEN {active} ELSE {}

(***************************************************************************)
(* An upgrade has the database to itself: no other connection, although    *)
(* the request was performed while others were open, or while one that was *)
(* being closed still counted.                                             *)
(***************************************************************************)
UpgradeRunsAlone == Upgrader # {} => connections = Upgrader

(***************************************************************************)
(* Every open connection whose page was told of success was told of the    *)
(* version that the database has: nobody changes or deletes it under an    *)
(* open connection.                                                        *)
(***************************************************************************)
OpenConnectionsAgree ==
  \A c \in connections : told[c] # 0 => told[c] = version

(***************************************************************************)
(* The version in memory is that on disk, unless an upgrade is running.    *)
(***************************************************************************)
DiskAgrees ==
  (alive \/ opening) /\ phase # "running" => version = stored

(***************************************************************************)
(* A request is answered once, and while it is queued or active not yet,   *)
(* whatever mixture of closes, failures and force close it goes through.   *)
(***************************************************************************)
AnsweredOnce ==
  \A r \in Request :
    Len(answers[r]) = IF r >= next \/ r = active \/ r \in Queued THEN 0 ELSE 1

(***************************************************************************)
(* Requests are served in the order they were made: when one is at work,   *)
(* or has got its connection, those before it have their answer.           *)
(***************************************************************************)
ServedInOrder ==
  \A r, s \in Request :
    r < s /\ (s = active \/ answers[s] = <<"success">>) => answers[r] # <<>>

(***************************************************************************)
(* When the sequence is at rest, requests are queued only behind an active *)
(* one, and one that waits for connections to close has some to wait for.  *)
(***************************************************************************)
NobodyIsForgotten ==
  Returned => /\ active = None => queue = <<>>
              /\ phase = "waiting" => connections # {}

(***************************************************************************)
(* The factory keeps the database exactly as long as it has connections:   *)
(* it is neither leaked nor released under one.                            *)
(***************************************************************************)
ReleasedWhenUnused == Returned => (alive <=> connections # {})

(***************************************************************************)
(* OnBlocked goes to a request that is waiting for connections to close,   *)
(* although it is sent to whoever is active when a page's message arrives. *)
(***************************************************************************)
BlockedMeansWaiting ==
  [][\A r \in blocked' \ blocked : r = active /\ phase = "waiting"]_vars

\* The promise of the database's version.
Lock == INSTANCE VersionLock WITH version <- stored, upgrader <- Upgrader,
                                  holders <- connections \ Upgrader

(***************************************************************************)
(* Every step of the requests is a step that VersionLock allows, or none.  *)
(***************************************************************************)
ImplementsVersionLock == Lock!Spec

(***************************************************************************)
(* "After every callback, the request must call RequestComplete() or be    *)
(* expecting a further callback" (ConnectionRequest): each gets an answer. *)
(***************************************************************************)
EveryRequestAnswered ==
  \A r \in Request : r < next ~> answers[r] # <<>>

-----------------------------------------------------------------------------
(* What assertions of the code say and the code does not do. *)

(***************************************************************************)
(* DCHECK(connections_.empty()) and DCHECK(!active_request_) at the end of *)
(* ForceClose.                                                             *)
(***************************************************************************)
ForceClosesAll ==
  force = "loop" /\ closing = None /\ ~processing /\ toForce = {} =>
    connections = {} /\ active = None

(***************************************************************************)
(* "Ownership of connection was already passed along in OnUpgradeNeeded",  *)
(* DCHECK(!connection_) in OpenRequest::UpgradeTransactionFinished: no     *)
(* request is completed while it holds the connection of its upgrade.      *)
(***************************************************************************)
OwnershipPassedOn ==
  [][phase = "scheduled" => active' = active]_vars
=============================================================================
