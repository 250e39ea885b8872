----------------------- MODULE IndexedDBDatabase_proof -----------------------
(***************************************************************************)
(* Proofs about the connection requests of IndexedDBDatabase, for any      *)
(* number of requests and versions.                                        *)
(*                                                                         *)
(* The inductive invariant says where a request can be - queued, active,   *)
(* or answered - and what of the call stack may still be unfinished.  Its  *)
(* parts: Line (the queue is in order, the active request before it),      *)
(* Answered (each request's answers follow from where it is), Past         *)
(* (successes come in order), Marks (who has a connection, is being        *)
(* closed, was asked or told has been answered), Stack (what the           *)
(* unfinished calls still owe), Alone (an upgrade has the only             *)
(* connection) and Versions.  DiskInv says what is on disk.                *)
(***************************************************************************)
EXTENDS IndexedDBDatabase, TLAPS

Upgrading == phase \in {"scheduled", "running"}

Line ==
  /\ \A i, j \in 1..Len(queue) : i < j => queue[i] < queue[j]
  /\ \A i \in 1..Len(queue) : active < queue[i] /\ queue[i] < next
  /\ active < next

Answered ==
  \A r \in Request :
    Len(answers[r]) = IF r >= next \/ r = active \/ r \in Queued THEN 0 ELSE 1

\* Successes come in order.
Past ==
  \A s \in Request :
    answers[s] = <<"success">> =>
      /\ active # None => s < active
      /\ \A i \in 1..Len(queue) : s < queue[i]

Marks ==
  /\ \A c \in connections : answers[c] # <<>> \/ (c = active /\ Upgrading)
  /\ closing # None => answers[closing] # <<>>
  /\ \A c \in asked : answers[c] # <<>>
  /\ \A r \in Request : told[r] # 0 => answers[r] # <<>>

Stack ==
  /\ active = None /\ queue # <<>> => processing
  /\ phase = "waiting" /\ connections = {} => notify
  /\ notify => closing # None /\ closing \notin connections
  /\ closing # None => alive
  /\ alive /\ closing = None => connections # {}
  /\ opening => ~alive /\ force = "no"
  /\ ~alive /\ ~opening => connections = {} /\ active = None /\ queue = <<>>
  /\ force = "called" => alive /\ closing = None
  /\ force # "loop" => toForce = {}
  /\ toForce \subseteq connections \ {closing}

Alone == Upgrading => connections = {active}

Versions ==
  /\ OpenConnectionsAgree
  /\ phase \in {"waiting", "scheduled"} /\ active \notin deletes => NewVersion(active) > version
  /\ phase = "running" => version > previous

IInv ==
  /\ TypeOK
  /\ Line
  /\ Answered
  /\ Past
  /\ Marks
  /\ Stack
  /\ Alone
  /\ Versions

DiskInv ==
  /\ DiskAgrees
  /\ phase = "running" => previous = stored

-----------------------------------------------------------------------------
(* Where a request can be. *)

(***************************************************************************)
(* r is the request at work, or the one that gets its turn, and q is what  *)
(* is queued behind it.                                                    *)
(***************************************************************************)
AtWork(r, q) ==
  \/ active = r /\ r # None /\ queue = q
  \/ active = None /\ queue # <<>> /\ r = Head(queue) /\ q = Tail(queue)

LEMMA TailFacts ==
  ASSUME NEW S, NEW q \in Seq(S), q # <<>>
  PROVE  /\ Head(q) = q[1] /\ Head(q) \in S /\ Tail(q) \in Seq(S)
         /\ Len(q) \in Nat /\ Len(q) >= 1 /\ Len(Tail(q)) = Len(q) - 1
         /\ \A i \in 1..Len(Tail(q)) : Tail(q)[i] = q[i + 1]
OBVIOUS

LEMMA ElementFacts ==
  ASSUME NEW q \in Seq(Request)
  PROVE  Len(q) \in Nat /\ \A i \in 1..Len(q) : q[i] \in Request /\ q[i] \in Nat /\ 0 < q[i]
<1>1. \A i \in 1..Len(q) : q[i] \in Request
  OBVIOUS
<1> QED
  BY <1>1 DEF Request

LEMMA SingletonFacts ==
  ASSUME NEW a PROVE Append(<<>>, a) = <<a>> /\ Len(<<a>>) = 1 /\ <<a>> # <<>>
OBVIOUS

LEMMA AppendFacts ==
  ASSUME NEW S, NEW q \in Seq(S), NEW m \in S
  PROVE  /\ Append(q, m) \in Seq(S) /\ Len(Append(q, m)) = Len(q) + 1
         /\ Append(q, m) # <<>>
         /\ \A i \in 1..Len(q) : Append(q, m)[i] = q[i]
         /\ Append(q, m)[Len(q) + 1] = m
OBVIOUS

(***************************************************************************)
(* The request at work is older than those behind it and newer than those  *)
(* that were served; it has no answer yet.                                 *)
(***************************************************************************)
LEMMA WorkFacts ==
  ASSUME TypeOK, Line, Answered, Past, NEW r, NEW q, AtWork(r, q)
  PROVE  /\ r \in Request /\ r < next /\ q \in Seq(Request)
         /\ \A i, j \in 1..Len(q) : i < j => q[i] < q[j]
         /\ \A i \in 1..Len(q) : r < q[i] /\ q[i] < next
         /\ \A s \in Request : (s = active \/ s \in Queued)
                               <=> (s = r \/ \E i \in 1..Len(q) : s = q[i])
         /\ answers[r] = <<>>
         /\ \A s \in Request : answers[s] = <<"success">> => s < r
<1>1. CASE active = r /\ r # None /\ queue = q
  <2>1. r \in Request /\ q \in Seq(Request)
    BY <1>1 DEF TypeOK
  <2>2. Len(answers[r]) = 0
    BY <1>1, <2>1 DEF Answered
  <2>3. answers[r] = <<>>
    BY <2>1, <2>2 DEF TypeOK
  <2> QED
    BY <1>1, <2>1, <2>3 DEF Line, Past, Queued
<1>2. CASE active = None /\ queue # <<>> /\ r = Head(queue) /\ q = Tail(queue)
  <2>1. queue \in Seq(Request)
    BY DEF TypeOK
  <2>2. /\ r = queue[1] /\ r \in Request /\ q \in Seq(Request)
        /\ Len(queue) \in Nat /\ Len(queue) >= 1 /\ Len(q) = Len(queue) - 1
        /\ \A i \in 1..Len(q) : q[i] = queue[i + 1]
    BY <1>2, <2>1, TailFacts
  <2>3. r < next /\ \A i \in 1..Len(q) : r < q[i] /\ q[i] < next
    BY <2>2 DEF Line
  <2>4. \A i, j \in 1..Len(q) : i < j => q[i] < q[j]
    BY <2>2 DEF Line
  <2>5. \A i \in 1..Len(queue) : i = 1 \/ (i - 1 \in 1..Len(q) /\ queue[i] = q[i - 1])
    BY <2>2
  <2>6. \A s \in Request : s \in Queued <=> (s = r \/ \E i \in 1..Len(q) : s = q[i])
    <3>1. \A s \in Queued : s = r \/ \E i \in 1..Len(q) : s = q[i]
      BY <2>2, <2>5 DEF Queued
    <3>2. r \in Queued
      BY <2>2 DEF Queued
    <3>3. \A i \in 1..Len(q) : i + 1 \in 1..Len(queue) /\ q[i] = queue[i + 1]
      BY <2>2
    <3>4. \A i \in 1..Len(q) : q[i] \in Queued
      BY <3>3 DEF Queued
    <3> QED
      BY <3>1, <3>2, <3>4
  <2>7. \A s \in Request : s # active
    BY <1>2 DEF Request, None
  <2>8. r \in Queued
    BY <2>2, <2>6
  <2>9. Len(answers[r]) = 0
    BY <2>2, <2>8 DEF Answered
  <2>10. answers[r] = <<>>
    BY <2>2, <2>9 DEF TypeOK
  <2> QED
    BY <2>2, <2>3, <2>4, <2>6, <2>7, <2>10 DEF Past
<1> QED
  BY <1>1, <1>2 DEF AtWork

(***************************************************************************)
(* RequestComplete of the request at work.                                 *)
(***************************************************************************)
LEMMA Completion ==
  ASSUME TypeOK, Line, Answered, Past, NEW r, NEW q, AtWork(r, q),
         NEW a \in {"success", "error", "closed"},
         Answer(r, a), RequestComplete(q), next' = next
  PROVE  /\ Line' /\ Answered' /\ Past'
         /\ answers' \in [Request -> Seq({"success", "error", "closed"})]
         /\ \A s \in Request : answers[s] # <<>> => answers'[s] # <<>>
         /\ answers'[r] # <<>>
<1>1. /\ r \in Request /\ r < next /\ q \in Seq(Request)
      /\ \A i, j \in 1..Len(q) : i < j => q[i] < q[j]
      /\ \A i \in 1..Len(q) : r < q[i] /\ q[i] < next
      /\ \A s \in Request : (s = active \/ s \in Queued)
                            <=> (s = r \/ \E i \in 1..Len(q) : s = q[i])
      /\ answers[r] = <<>>
      /\ \A s \in Request : answers[s] = <<"success">> => s < r
  BY WorkFacts
<1>2. active' = None /\ queue' = q
  BY DEF RequestComplete
<1>3. /\ answers' \in [Request -> Seq({"success", "error", "closed"})]
      /\ answers'[r] = Append(<<>>, a)
      /\ \A s \in Request \ {r} : answers'[s] = answers[s]
  BY <1>1 DEF Answer, TypeOK
<1>4. Len(answers'[r]) = 1 /\ answers'[r] # <<>>
  BY <1>3
<1>5. next \in Nat /\ 0 < next
  BY DEF TypeOK
<1>6. \A i \in 1..Len(q) : q[i] \in Request /\ 0 < q[i]
  BY <1>1, ElementFacts
<1>7. Line'
  BY <1>1, <1>2, <1>5, <1>6 DEF Line, None
<1>8. Answered'
  <2> SUFFICES ASSUME NEW s \in Request
               PROVE  Len(answers'[s]) = IF s >= next' \/ s = active' \/ s \in Queued'
                                         THEN 0 ELSE 1
    BY DEF Answered
  <2>1. s # None
    BY DEF Request, None
  <2>2. s \in Queued' <=> \E i \in 1..Len(q) : s = q[i]
    BY <1>2 DEF Queued
  <2>3. CASE s = r
    <3>1. s \notin Queued'
      BY <1>1, <2>2, <2>3 DEF Request
    <3>2. ~(s >= next') /\ s # active'
      BY <1>1, <1>2, <1>5, <2>1, <2>3 DEF Request
    <3> QED
      BY <1>4, <2>3, <3>1, <3>2
  <2>4. CASE s # r
    <3>1. s \in Queued' <=> (s = active \/ s \in Queued)
      BY <1>1, <2>2, <2>4
    <3> QED
      BY <1>2, <1>3, <2>1, <2>4, <3>1 DEF Answered
  <2> QED
    BY <2>3, <2>4
<1>9. Past'
  <2> SUFFICES ASSUME NEW s \in Request, answers'[s] = <<"success">>
               PROVE  \A i \in 1..Len(q) : s < q[i]
    BY <1>2 DEF Past
  <2>1. s <= r
    BY <1>1, <1>3 DEF Request
  <2> QED
    BY <1>1, <1>6, <2>1 DEF Request
<1> QED
  BY <1>3, <1>4, <1>7, <1>8, <1>9

(***************************************************************************)
(* The request at work stays, or gets its turn and has to wait.            *)
(***************************************************************************)
LEMMA Activation ==
  ASSUME TypeOK, Line, Answered, Past, NEW r, NEW q, AtWork(r, q),
         active' = r, queue' = q, answers' = answers, next' = next
  PROVE  Line' /\ Answered' /\ Past'
<1>1. /\ r \in Request /\ r < next /\ q \in Seq(Request)
      /\ \A i, j \in 1..Len(q) : i < j => q[i] < q[j]
      /\ \A i \in 1..Len(q) : r < q[i] /\ q[i] < next
      /\ \A s \in Request : (s = active \/ s \in Queued)
                            <=> (s = r \/ \E i \in 1..Len(q) : s = q[i])
      /\ \A s \in Request : answers[s] = <<"success">> => s < r
  BY WorkFacts
<1>2. Line'
  BY <1>1 DEF Line
<1>3. \A s \in Request : s \in Queued' <=> \E i \in 1..Len(q) : s = q[i]
  BY DEF Queued
<1>4. Answered'
  BY <1>1, <1>3 DEF Answered
<1>5. \A i \in 1..Len(q) : q[i] \in Request
  BY <1>1
<1>6. Past'
  BY <1>1, <1>5 DEF Past, Request
<1> QED
  BY <1>2, <1>4, <1>6

(***************************************************************************)
(* AppendRequest.                                                          *)
(***************************************************************************)
LEMMA Arrival ==
  ASSUME TypeOK, Line, Answered, Past, next \in Request, next' = next + 1,
         AppendRequest(next), active' = active, answers' = answers
  PROVE  Line' /\ Answered' /\ Past'
<1>1. queue \in Seq(Request) /\ queue' = Append(queue, next) /\ next \in Nat
      /\ active \in Nat
  BY DEF TypeOK, AppendRequest, Request, None
<1>2. /\ Len(queue) \in Nat /\ Len(queue') = Len(queue) + 1
      /\ \A i \in 1..Len(queue) : queue'[i] = queue[i]
      /\ queue'[Len(queue) + 1] = next
  BY <1>1, AppendFacts
<1>3. \A i \in 1..Len(queue') : i \in 1..Len(queue) \/ i = Len(queue) + 1
  BY <1>2
<1>4. \A i \in 1..Len(queue) : queue[i] \in Nat
  BY <1>1, ElementFacts
<1>5. Line'
  <2>1. \A i \in 1..Len(queue') : active' < queue'[i] /\ queue'[i] < next'
    BY <1>1, <1>2, <1>3, <1>4 DEF Line
  <2>2. \A i, j \in 1..Len(queue') : i < j => queue'[i] < queue'[j]
    BY <1>1, <1>2, <1>3, <1>4 DEF Line
  <2> QED
    BY <1>1, <2>1, <2>2 DEF Line
<1>6. \A s \in Request : s \in Queued' <=> s \in Queued \/ s = next
  BY <1>2, <1>3 DEF Queued
<1>7. Answered'
  <2> SUFFICES ASSUME NEW s \in Request
               PROVE  Len(answers[s]) = IF s >= next + 1 \/ s = active \/ s \in Queued'
                                        THEN 0 ELSE 1
    BY DEF Answered
  <2>1. s >= next + 1 \/ s = next <=> s >= next
    BY <1>1 DEF Request
  <2> QED
    BY <1>6, <2>1 DEF Answered
<1>8. Past'
  <2> SUFFICES ASSUME NEW s \in Request, answers[s] = <<"success">>
               PROVE  /\ active # None => s < active
                      /\ \A i \in 1..Len(queue') : s < queue'[i]
    BY DEF Past
  <2>1. Len(answers[s]) = 1
    BY DEF Answered
  <2>2. s < next
    BY <1>1, <2>1 DEF Answered, Request
  <2> QED
    BY <1>2, <1>3, <2>2 DEF Past
<1> QED
  BY <1>5, <1>7, <1>8

(***************************************************************************)
(* A request that the factory answers, with nobody queued or active.       *)
(***************************************************************************)
LEMMA AnsweredAtOnce ==
  ASSUME TypeOK, Line, Answered, Past, next \in Request, next' = next + 1,
         NEW a \in {"success", "error", "closed"}, Answer(next, a),
         queue = <<>>, active = None, queue' = queue, active' = active
  PROVE  /\ Line' /\ Answered' /\ Past'
         /\ answers' \in [Request -> Seq({"success", "error", "closed"})]
         /\ \A s \in Request : answers[s] # <<>> => answers'[s] # <<>>
<1>1. next \in Nat /\ 0 < next
  BY DEF TypeOK
<1>2. Len(queue) = 0 /\ Len(queue') = 0
  OBVIOUS
<1>3. Line' /\ Past'
  BY <1>1, <1>2 DEF Line, Past, None
<1>4. Queued = {} /\ Queued' = {}
  BY <1>2 DEF Queued
<1>5. Len(answers[next]) = 0
  BY <1>1 DEF Answered
<1>6. answers[next] = <<>>
  BY <1>5 DEF TypeOK
<1>7. /\ answers' \in [Request -> Seq({"success", "error", "closed"})]
      /\ Len(answers'[next]) = 1
      /\ \A s \in Request \ {next} : answers'[s] = answers[s]
  BY <1>6 DEF Answer, TypeOK
<1>8. Answered'
  <2> SUFFICES ASSUME NEW s \in Request
               PROVE  Len(answers'[s]) = IF s >= next + 1 \/ s = None THEN 0 ELSE 1
    BY <1>4 DEF Answered
  <2>1. s \in Nat /\ s # None
    BY DEF Request, None
  <2>2. CASE s = next
    BY <1>1, <1>7, <2>1, <2>2
  <2>3. CASE s # next
    BY <1>1, <1>4, <1>7, <2>1, <2>3 DEF Answered
  <2> QED
    BY <2>2, <2>3
<1> QED
  BY <1>3, <1>6, <1>7, <1>8

(***************************************************************************)
(* AbortForForceClose of every queued request.                             *)
(***************************************************************************)
LEMMA Dropping ==
  ASSUME TypeOK, Line, Answered, Past, DropRequests, next' = next, active' = active
  PROVE  /\ Line' /\ Answered' /\ Past'
         /\ answers' \in [Request -> Seq({"success", "error", "closed"})]
         /\ \A s \in Request : answers[s] # <<>> => answers'[s] # <<>>
<1>1. queue' = <<>> /\ Len(queue') = 0 /\ Queued' = {}
  BY DEF DropRequests, Queued
<1>2. \A s \in Request :
        IF s \in Queued
          THEN /\ answers'[s] = <<"error">> \/ answers'[s] = <<"closed">>
               /\ answers[s] = <<>>
          ELSE answers'[s] = answers[s]
  <2> SUFFICES ASSUME NEW s \in Request
               PROVE  IF s \in Queued
                        THEN /\ answers'[s] = <<"error">> \/ answers'[s] = <<"closed">>
                             /\ answers[s] = <<>>
                        ELSE answers'[s] = answers[s]
    OBVIOUS
  <2>1. s \in Queued => answers[s] = <<>>
    <3>1. s \in Queued => Len(answers[s]) = 0
      BY DEF Answered
    <3> QED
      BY <3>1 DEF TypeOK
  <2>2. answers'[s] = IF s \in Queued
                        THEN Append(answers[s], IF s \in deletes THEN "error" ELSE "closed")
                        ELSE answers[s]
    BY DEF DropRequests
  <2> QED
    BY <2>1, <2>2, SingletonFacts
<1>3. answers' \in [Request -> Seq({"success", "error", "closed"})]
  <2>1. answers' = [s \in Request |-> answers'[s]]
    BY DEF DropRequests
  <2>2. \A s \in Request : answers[s] \in Seq({"success", "error", "closed"})
    BY DEF TypeOK
  <2>3. \A s \in Request : answers'[s] \in Seq({"success", "error", "closed"})
    <3>1. <<"error">> \in Seq({"success", "error", "closed"})
          /\ <<"closed">> \in Seq({"success", "error", "closed"})
      OBVIOUS
    <3> QED
      BY <1>2, <2>2, <3>1
  <2> QED
    BY <2>1, <2>3
<1>4. Line'
  BY <1>1 DEF Line
<1>5. Answered'
  <2> SUFFICES ASSUME NEW s \in Request
               PROVE  Len(answers'[s]) = IF s >= next \/ s = active THEN 0 ELSE 1
    BY <1>1 DEF Answered
  <2>1. s \in Queued => s < next /\ active < s
    BY DEF Line, Queued
  <2>2. CASE s \in Queued
    <3>1. Len(answers'[s]) = 1
      BY <1>2, <2>2, SingletonFacts
    <3> QED
      BY <2>1, <2>2, <3>1 DEF TypeOK, Request, None
  <2>3. CASE s \notin Queued
    BY <1>2, <2>3 DEF Answered
  <2> QED
    BY <2>2, <2>3
<1>6. Past'
  BY <1>1, <1>2 DEF Past
<1> QED
  BY <1>2, <1>3, <1>4, <1>5, <1>6

-----------------------------------------------------------------------------
(* The actions keep the invariant. *)

(***************************************************************************)
(* Tasks that leave the queue, the active request and the answers alone.   *)
(***************************************************************************)
LEMMA AtRest ==
  ASSUME Line, Answered, Past, UNCHANGED <<queue, active, answers, next>>
  PROVE  Line' /\ Answered' /\ Past'
BY DEF Line, Answered, Past, Queued

(***************************************************************************)
(* A turn of the loop that completes the request.                          *)
(***************************************************************************)
LEMMA TurnCompletes ==
  ASSUME IInv, processing, NEW a \in {"success", "error"},
         Answer(Head(queue), a), RequestComplete(Tail(queue)),
         UNCHANGED <<requests, alive, blocked, closing, notify, force, toForce, opening,
                     previous, asked>>,
         known' \in BOOLEAN, stored' \in Version,
         \/ connections' = connections /\ told' = told /\ version' = version
         \/ /\ version # 0 /\ version' = version
            /\ connections' = connections \cup {Head(queue)}
            /\ told' = [told EXCEPT ![Head(queue)] = version]
         \/ connections = {} /\ connections' = {} /\ told' = told /\ version' = 0
  PROVE  IInv'
<1> DEFINE r == Head(queue)
           q == Tail(queue)
<1>1. active = None /\ queue # <<>> /\ phase = "none" /\ AtWork(r, q)
  BY DEF IInv, TypeOK, AtWork
<1>2. /\ r \in Request /\ q \in Seq(Request) /\ answers[r] = <<>>
  BY <1>1, WorkFacts DEF IInv
<1>3. /\ Line' /\ Answered' /\ Past'
      /\ answers' \in [Request -> Seq({"success", "error", "closed"})]
      /\ \A s \in Request : answers[s] # <<>> => answers'[s] # <<>>
      /\ answers'[r] # <<>>
  <2> HIDE DEF r, q
  <2> USE <1>1, <1>2
  <2> QED
    BY Completion DEF IInv, requests, r, q
<1>4. active' = None /\ phase' = "none" /\ queue' = q /\ processing' = (q # <<>>)
  BY DEF RequestComplete
<1>5. closing # r /\ r \notin connections /\ r # None
  BY <1>1, <1>2 DEF IInv, Marks, Upgrading, Request, None
<1>6. TypeOK'
  <2>1. 0 \in Version
    BY ConstantsAssumption DEF Version
  <2>2. version' \in Version /\ told' \in [Request -> Version] /\ connections' \subseteq Request
    BY <1>2, <2>1 DEF IInv, TypeOK
  <2> QED
    BY <1>2, <1>3, <1>4, <2>2 DEF IInv, TypeOK, requests
<1>7. Marks'
  BY <1>1, <1>2, <1>3, <1>4 DEF IInv, Marks, TypeOK, Upgrading
<1>8. Stack'
  BY <1>1, <1>4, <1>5 DEF IInv, Stack
<1>9. Alone' /\ Versions'
  BY <1>1, <1>2, <1>4, <1>5 DEF IInv, Alone, Versions, OpenConnectionsAgree, Upgrading, TypeOK
<1> QED
  BY <1>3, <1>6, <1>7, <1>8, <1>9 DEF IInv

(***************************************************************************)
(* A turn of the loop after which the request starts its upgrade or waits. *)
(***************************************************************************)
LEMMA TurnBlocks ==
  ASSUME IInv, processing,
         active' = Head(queue), queue' = Tail(queue), processing' = FALSE,
         UNCHANGED <<requests, alive, blocked, closing, notify, force, toForce, opening,
                     version, previous, stored, told, answers>>,
         known' \in BOOLEAN,
         Head(queue) \notin deletes => NewVersion(Head(queue)) > version,
         \/ /\ connections = {} /\ connections' = {Head(queue)}
            /\ phase' = "scheduled" /\ asked' = asked
            /\ Head(queue) \notin deletes
         \/ /\ connections # {} /\ connections' = connections
            /\ phase' = "waiting" /\ asked' = asked \cup connections
  PROVE  IInv'
<1> DEFINE r == Head(queue)
           q == Tail(queue)
<1>1. active = None /\ queue # <<>> /\ phase = "none" /\ AtWork(r, q)
  BY DEF IInv, TypeOK, AtWork
<1>2. r \in Request /\ q \in Seq(Request) /\ answers[r] = <<>> /\ r # None
  <2>1. r \in Request /\ q \in Seq(Request) /\ answers[r] = <<>>
    BY <1>1, WorkFacts DEF IInv
  <2> QED
    BY <2>1 DEF Request, None
<1>3. Line' /\ Answered' /\ Past'
  BY <1>1, Activation DEF IInv, requests
<1>4. closing # r /\ r \notin connections
  BY <1>1, <1>2 DEF IInv, Marks, Upgrading
<1>5. TypeOK'
  BY <1>2 DEF IInv, TypeOK, requests
<1>6. Marks'
  BY <1>1, <1>2 DEF IInv, Marks, Upgrading
<1>7. Stack'
  BY <1>1, <1>2, <1>4 DEF IInv, Stack
<1>8. Alone'
  BY <1>1, <1>4 DEF IInv, Alone, Upgrading
<1>9. Versions'
  <2>1. told[r] = 0
    BY <1>2 DEF IInv, Marks
  <2>2. NewVersion(active)' = NewVersion(r)
    BY DEF NewVersion, requests
  <2> QED
    BY <2>1, <2>2 DEF IInv, Versions, OpenConnectionsAgree, requests
<1> QED
  BY <1>3, <1>5, <1>6, <1>7, <1>8, <1>9 DEF IInv

LEMMA ProcessRequestKeeps == IInv /\ ProcessRequest => IInv'
<1> SUFFICES ASSUME IInv, ProcessRequest PROVE IInv'
  OBVIOUS
<1> DEFINE r == Head(queue)
           q == Tail(queue)
<1>1. /\ processing
      /\ UNCHANGED <<requests, alive, blocked, closing, notify, force, toForce, opening>>
      /\ known \in BOOLEAN /\ stored \in Version
  BY DEF ProcessRequest, IInv, TypeOK
<1>2. CASE r \notin deletes /\ PerformOpen(r, q) /\ UNCHANGED <<version, previous, stored>>
  <2>1. CASE /\ Answer(r, "error") /\ RequestComplete(q)
             /\ UNCHANGED <<connections, asked, told>> /\ known' \in BOOLEAN
    BY <1>1, <1>2, <2>1, TurnCompletes
  <2>2. CASE /\ known' = TRUE /\ version # 0 /\ UNCHANGED asked
             /\ connections' = connections \cup {r}
             /\ told' = [told EXCEPT ![r] = version]
             /\ Answer(r, "success") /\ RequestComplete(q)
    BY <1>1, <1>2, <2>2, TurnCompletes
  <2>3. CASE /\ known' = TRUE /\ NewVersion(r) > version /\ UNCHANGED <<told, answers>>
             /\ connections = {} /\ StartUpgrade(r)
             /\ queue' = q /\ processing' = FALSE /\ UNCHANGED asked
    BY <1>1, <1>2, <2>3, TurnBlocks DEF StartUpgrade
  <2>4. CASE /\ known' = TRUE /\ NewVersion(r) > version /\ UNCHANGED <<told, answers>>
             /\ connections # {} /\ AwaitConnections(r, q) /\ UNCHANGED connections
    BY <1>1, <1>2, <2>4, TurnBlocks DEF AwaitConnections
  <2> QED
    BY <1>1, <1>2, <2>1, <2>2, <2>3, <2>4 DEF PerformOpen
<1>3. CASE r \in deletes /\ PerformDelete(r, q) /\ UNCHANGED <<connections, told>>
  <2>1. CASE connections = {} /\ DoDelete(r, q) /\ UNCHANGED asked
    <3>1. 0 \in Version
      BY ConstantsAssumption DEF Version
    <3>2. CASE version' = 0 /\ known' = FALSE /\ stored' = 0 /\ Answer(r, "success")
      BY <1>1, <1>3, <2>1, <3>1, <3>2, TurnCompletes DEF DoDelete
    <3>3. CASE Answer(r, "error") /\ UNCHANGED <<version, known, stored>>
      BY <1>1, <1>3, <2>1, <3>3, TurnCompletes DEF DoDelete
    <3> QED
      BY <2>1, <3>2, <3>3 DEF DoDelete
  <2>2. CASE /\ connections # {} /\ AwaitConnections(r, q)
             /\ UNCHANGED <<metadata, stored, answers>>
    BY <1>1, <1>3, <2>2, TurnBlocks DEF AwaitConnections, metadata
  <2> QED
    BY <1>3, <2>1, <2>2 DEF PerformDelete
<1> QED
  BY <1>2, <1>3 DEF ProcessRequest

LEMMA RegisterKeeps == IInv /\ Register => IInv'
<1> SUFFICES ASSUME IInv, Register PROVE IInv'
  OBVIOUS
<1> USE DEF Register, requests, metadata, client
<1>1. Line' /\ Answered' /\ Past'
  BY AtRest DEF IInv
<1>2. TypeOK'
  BY DEF IInv, TypeOK
<1>3. Marks' /\ Alone' /\ Versions'
  BY DEF IInv, Marks, Alone, Versions, OpenConnectionsAgree, Upgrading, NewVersion
<1>4. Stack'
  <2>1. ~alive /\ closing = None /\ force = "no" /\ ~notify /\ toForce = {}
    BY DEF IInv, Stack
  <2>2. connections = {} => active = None
    BY <2>1 DEF IInv, Stack, Alone, Upgrading, TypeOK
  <2>3. connections = {} => queue = <<>>
    BY <2>1, <2>2 DEF IInv, Stack
  <2> QED
    BY <2>1, <2>2, <2>3 DEF IInv, Stack, TypeOK
<1> QED
  BY <1>1, <1>2, <1>3, <1>4 DEF IInv

LEMMA OpenKeeps == ASSUME NEW r \in Request PROVE IInv /\ Open(r) => IInv'
<1> SUFFICES ASSUME IInv, Open(r) PROVE IInv'
  OBVIOUS
<1>1. /\ r = next /\ next' = next + 1 /\ next \in Nat /\ next' \in 1..MaxRequests + 1
      /\ Returned
      /\ UNCHANGED <<want, deletes, active, phase, previous, stored, alive, connections,
                     asked, told, blocked, closing, notify, force, toForce>>
  BY ConstantsAssumption DEF Open, IInv, TypeOK, Request
<1>2. CASE /\ AppendRequest(r) /\ answers' = answers
           /\ \/ alive /\ UNCHANGED <<version, known, opening>>
              \/ ~alive /\ version' = stored /\ known' = TRUE /\ opening' = TRUE
  <2>1. Line' /\ Answered' /\ Past'
    BY <1>1, <1>2, Arrival DEF IInv
  <2>2. queue' \in Seq(Request) /\ queue' # <<>> /\ processing' = (active = None)
    BY <1>2, AppendFacts DEF AppendRequest, IInv, TypeOK
  <2>3. ~alive => connections = {} /\ active = None /\ phase = "none"
    BY <1>1 DEF Returned, IInv, Stack, TypeOK
  <2>4. TypeOK'
    BY <1>1, <1>2, <2>2 DEF IInv, TypeOK
  <2>5. Marks'
    BY <1>1, <1>2 DEF IInv, Marks, Upgrading
  <2>6. Stack'
    <3>1. /\ ~processing /\ closing = None /\ force = "no" /\ ~opening /\ ~notify
          /\ toForce = {} /\ (phase = "waiting" => connections # {})
      BY <1>1 DEF IInv, Stack, Returned
    <3>2. CASE alive /\ UNCHANGED <<version, known, opening>>
      BY <1>1, <2>2, <3>1, <3>2 DEF IInv, Stack
    <3>3. CASE ~alive /\ opening' = TRUE
      BY <1>1, <2>2, <2>3, <3>1, <3>3 DEF Stack
    <3> QED
      BY <1>2, <3>2, <3>3
  <2>7. Alone' /\ Versions'
    BY <1>1, <1>2, <2>3 DEF IInv, Alone, Versions, OpenConnectionsAgree, Upgrading, NewVersion
  <2> QED
    BY <2>1, <2>4, <2>5, <2>6, <2>7 DEF IInv
<1>3. CASE /\ ~alive /\ Answer(r, "error")
           /\ UNCHANGED <<version, known, queue, processing, opening>>
  <2>1. queue = <<>> /\ active = None
    BY <1>1, <1>3 DEF Returned, IInv, Stack
  <2>2. /\ Line' /\ Answered' /\ Past'
        /\ answers' \in [Request -> Seq({"success", "error", "closed"})]
        /\ \A s \in Request : answers[s] # <<>> => answers'[s] # <<>>
    BY <1>1, <1>3, <2>1, AnsweredAtOnce DEF IInv
  <2>3. TypeOK'
    BY <1>1, <1>3, <2>2 DEF IInv, TypeOK
  <2>4. Marks'
    BY <1>1, <1>3, <2>2 DEF IInv, Marks, Upgrading, TypeOK
  <2>5. Stack' /\ Alone' /\ Versions'
    BY <1>1, <1>3 DEF IInv, Stack, Alone, Versions, OpenConnectionsAgree, Upgrading, NewVersion
  <2> QED
    BY <2>2, <2>3, <2>4, <2>5 DEF IInv
<1> QED
  BY <1>1, <1>2, <1>3 DEF Open

LEMMA DeleteDatabaseKeeps == ASSUME NEW r \in Request PROVE IInv /\ DeleteDatabase(r) => IInv'
<1> SUFFICES ASSUME IInv, DeleteDatabase(r) PROVE IInv'
  OBVIOUS
<1>1. /\ r = next /\ next' = next + 1 /\ next \in Nat /\ next' \in 1..MaxRequests + 1
      /\ Returned
      /\ UNCHANGED <<want, deletes, active, phase, metadata, alive, connections, asked,
                     told, blocked, closing, notify, toForce, opening>>
  BY ConstantsAssumption DEF DeleteDatabase, IInv, TypeOK, Request
<1>2. CASE /\ alive /\ AppendRequest(r) /\ force' \in {"no", "called"}
           /\ UNCHANGED <<stored, answers>>
  <2>1. Line' /\ Answered' /\ Past'
    BY <1>1, <1>2, Arrival DEF IInv
  <2>2. queue' \in Seq(Request) /\ queue' # <<>> /\ processing' = (active = None)
    BY <1>2, AppendFacts DEF AppendRequest, IInv, TypeOK
  <2>3. TypeOK'
    BY <1>1, <1>2, <2>2 DEF IInv, TypeOK, metadata
  <2>4. Marks'
    BY <1>1, <1>2 DEF IInv, Marks, Upgrading
  <2>5. Stack'
    BY <1>1, <1>2, <2>2 DEF IInv, Stack, Returned
  <2>6. Alone' /\ Versions'
    BY <1>1, <1>2 DEF IInv, Alone, Versions, OpenConnectionsAgree, Upgrading, NewVersion, metadata
  <2> QED
    BY <2>1, <2>3, <2>4, <2>5, <2>6 DEF IInv
<1>3. CASE /\ ~alive
           /\ \/ stored' = 0 /\ Answer(r, "success")
              \/ Answer(r, "error") /\ UNCHANGED stored
           /\ UNCHANGED <<queue, processing, force>>
  <2>1. queue = <<>> /\ active = None
    BY <1>1, <1>3 DEF Returned, IInv, Stack
  <2>2. /\ Line' /\ Answered' /\ Past'
        /\ answers' \in [Request -> Seq({"success", "error", "closed"})]
        /\ \A s \in Request : answers[s] # <<>> => answers'[s] # <<>>
    BY <1>1, <1>3, <2>1, AnsweredAtOnce DEF IInv
  <2>3. TypeOK'
    <3>1. 0 \in Version
      BY ConstantsAssumption DEF Version
    <3>2. stored' \in Version
      BY <1>3, <3>1 DEF IInv, TypeOK
    <3> QED
      BY <1>1, <1>3, <2>2, <3>2 DEF IInv, TypeOK, metadata
  <2>4. Marks'
    BY <1>1, <1>3, <2>2 DEF IInv, Marks, Upgrading, TypeOK
  <2>5. Stack' /\ Alone' /\ Versions'
    BY <1>1, <1>3 DEF IInv, Stack, Alone, Versions, OpenConnectionsAgree, Upgrading,
                      NewVersion, metadata
  <2> QED
    BY <2>2, <2>3, <2>4, <2>5 DEF IInv
<1> QED
  BY <1>1, <1>2, <1>3 DEF DeleteDatabase

LEMMA VersionChangeOperationKeeps == IInv /\ VersionChangeOperation => IInv'
<1> SUFFICES ASSUME IInv, VersionChangeOperation PROVE IInv'
  OBVIOUS
<1> USE DEF VersionChangeOperation, requests, client, control
<1>1. active \in Request /\ answers[active] = <<>> /\ connections = {active}
  <2>1. active \in Request /\ connections = {active}
    BY DEF IInv, TypeOK, Alone, Upgrading, None
  <2>2. Len(answers[active]) = 0
    BY <2>1 DEF IInv, Answered
  <2> QED
    BY <2>1, <2>2 DEF IInv, TypeOK
<1>2. told[active] = 0
  BY <1>1 DEF IInv, Marks
<1>3. Line' /\ Answered' /\ Past'
  BY AtRest DEF IInv
<1>4. TypeOK'
  <2>1. NewVersion(active) \in Version
    BY <1>1, ConstantsAssumption DEF NewVersion, IInv, TypeOK, Version
  <2> QED
    BY <1>1, <2>1 DEF IInv, TypeOK, None
<1>5. Marks' /\ Stack' /\ Alone'
  BY <1>1 DEF IInv, Marks, Stack, Alone, Upgrading
<1>6. Versions'
  BY <1>1, <1>2 DEF IInv, Versions, OpenConnectionsAgree, TypeOK
<1> QED
  BY <1>3, <1>4, <1>5, <1>6 DEF IInv
(***************************************************************************)
(* The request whose upgrade is scheduled or running has the only          *)
(* connection, and no answer yet.                                          *)
(***************************************************************************)
LEMMA UpgraderFacts ==
  ASSUME IInv, Upgrading
  PROVE  /\ active \in Request /\ active # None /\ active \notin deletes
         /\ connections = {active} /\ answers[active] = <<>> /\ told[active] = 0
         /\ ~processing /\ AtWork(active, queue)
<1>1. active \in Request /\ active # None /\ active \notin deletes /\ ~processing
  BY DEF IInv, TypeOK, Upgrading, None
<1>2. AtWork(active, queue)
  BY <1>1 DEF AtWork
<1>3. answers[active] = <<>>
  BY <1>2, WorkFacts DEF IInv
<1> QED
  BY <1>1, <1>2, <1>3 DEF IInv, Alone, Marks

LEMMA UpgradeCommitsKeeps == IInv /\ UpgradeCommits => IInv'
<1> SUFFICES ASSUME IInv, UpgradeCommits PROVE IInv'
  OBVIOUS
<1>1. /\ active \in Request /\ active # None /\ connections = {active}
      /\ AtWork(active, queue)
  BY UpgraderFacts DEF UpgradeCommits, Upgrading
<1>2. /\ Line' /\ Answered' /\ Past'
      /\ answers' \in [Request -> Seq({"success", "error", "closed"})]
      /\ \A s \in Request : answers[s] # <<>> => answers'[s] # <<>>
      /\ answers'[active] # <<>>
  BY <1>1, Completion DEF UpgradeCommits, IInv, requests
<1>3. /\ active' = None /\ phase' = "none" /\ queue' = queue /\ processing' = (queue # <<>>)
      /\ UNCHANGED <<requests, version, previous, known, alive, connections, asked,
                     blocked, closing, notify, force, toForce, opening>>
      /\ stored' = version /\ told' = [told EXCEPT ![active] = version]
      /\ Returned
  BY DEF UpgradeCommits, RequestComplete, metadata
<1>4. TypeOK'
  <2>1. told' \in [Request -> Version]
    BY <1>1, <1>3 DEF IInv, TypeOK
  <2> QED
    BY <1>2, <1>3, <2>1 DEF IInv, TypeOK, requests
<1>5. Marks'
  BY <1>1, <1>2, <1>3 DEF IInv, Marks, TypeOK, Upgrading, Returned
<1>6. Stack'
  BY <1>1, <1>3 DEF IInv, Stack
<1>7. Alone' /\ Versions'
  BY <1>1, <1>3 DEF IInv, Alone, Versions, OpenConnectionsAgree, Upgrading, TypeOK
<1> QED
  BY <1>2, <1>4, <1>5, <1>6, <1>7 DEF IInv

(***************************************************************************)
(* An upgrade that is aborted, whether or not its connection is being      *)
(* closed.                                                                 *)
(***************************************************************************)
LEMMA AbortKeeps ==
  ASSUME IInv, Upgrading, AbortUpgrade, closing = None, alive, force # "called",
         UNCHANGED <<requests, previous, known, alive, connections, asked, told, blocked,
                     notify, opening>>,
         stored' \in Version,
         \/ /\ closing' = closing /\ toForce' = toForce
            /\ force = "no" /\ force' \in {"no", "called"}
         \/ /\ closing' = active /\ toForce' = toForce \ {active}
            /\ force' = force
  PROVE  IInv'
<1>1. /\ active \in Request /\ active # None /\ connections = {active}
      /\ told[active] = 0 /\ AtWork(active, queue)
  BY UpgraderFacts
<1>2. /\ Line' /\ Answered' /\ Past'
      /\ answers' \in [Request -> Seq({"success", "error", "closed"})]
      /\ \A s \in Request : answers[s] # <<>> => answers'[s] # <<>>
      /\ answers'[active] # <<>>
  BY <1>1, Completion DEF AbortUpgrade, IInv, requests
<1>3. /\ active' = None /\ phase' = "none" /\ queue' = queue /\ processing' = (queue # <<>>)
      /\ version' = IF phase = "running" THEN previous ELSE version
  BY DEF AbortUpgrade, RequestComplete
<1>4. TypeOK'
  <2>1. force' \in {"no", "called", "loop"} /\ toForce' \subseteq Request
        /\ closing' \in Request \cup {None} /\ version' \in Version
    BY <1>1, <1>3 DEF IInv, TypeOK
  <2> QED
    BY <1>2, <1>3, <2>1 DEF IInv, TypeOK, requests
<1>5. Marks'
  BY <1>1, <1>2, <1>3 DEF IInv, Marks, TypeOK, Upgrading
<1>6. Stack'
  BY <1>1, <1>3 DEF IInv, Stack
<1>7. Alone' /\ Versions'
  BY <1>1, <1>3 DEF IInv, Alone, Versions, OpenConnectionsAgree, Upgrading
<1> QED
  BY <1>2, <1>4, <1>5, <1>6, <1>7 DEF IInv

LEMMA UpgradeAbortsKeeps == IInv /\ (UpgradeAborts \/ UpgradeFails) => IInv'
<1> SUFFICES ASSUME IInv, UpgradeAborts \/ UpgradeFails PROVE IInv'
  OBVIOUS
<1>1. Upgrading /\ AbortUpgrade /\ Returned
  BY DEF UpgradeAborts, UpgradeFails, Upgrading
<1>2. closing = None /\ force = "no" /\ alive
  BY <1>1, UpgraderFacts DEF Returned, IInv, Stack
<1>3. stored' \in Version
  BY DEF UpgradeAborts, UpgradeFails, IInv, TypeOK
<1> QED
  BY <1>1, <1>2, <1>3, AbortKeeps DEF UpgradeAborts, UpgradeFails

-----------------------------------------------------------------------------
(* Closing. *)

(***************************************************************************)
(* The beginning of Close, for script and in the loop of ForceClose.       *)
(***************************************************************************)
LEMMA CloseKeeps ==
  ASSUME IInv, NEW c \in connections, Close(c), closing = None, ~processing,
         force # "called", ~opening, toForce' = toForce \ {c},
         UNCHANGED <<requests, previous, known, stored, alive, connections, asked, told,
                     blocked, notify, force, opening>>
  PROVE  IInv'
<1>1. alive /\ c \in Request
  BY DEF IInv, Stack, TypeOK
<1>2. CASE Upgrading /\ active = c
  <2>1. AbortUpgrade /\ closing' = c /\ stored' \in Version
    BY <1>2 DEF Close, Upgrading, IInv, TypeOK
  <2> QED
    BY <1>1, <1>2, <2>1, AbortKeeps
<1>3. CASE ~(Upgrading /\ active = c)
  <2>1. closing' = c /\ UNCHANGED <<queue, active, phase, version, answers, processing>>
    BY <1>3 DEF Close, Upgrading
  <2>2. answers[c] # <<>>
    BY <1>3 DEF IInv, Marks
  <2>3. Line' /\ Answered' /\ Past'
    BY <2>1, AtRest DEF IInv, requests
  <2>4. TypeOK'
    BY <1>1, <2>1 DEF IInv, TypeOK, requests
  <2>5. Marks' /\ Alone'
    BY <1>1, <2>1, <2>2 DEF IInv, Marks, Alone, Upgrading
  <2>6. Versions'
    BY <2>1 DEF IInv, Versions, OpenConnectionsAgree, NewVersion, requests
  <2>7. Stack'
    BY <1>1, <2>1 DEF IInv, Stack
  <2> QED
    BY <2>3, <2>4, <2>5, <2>6, <2>7 DEF IInv
<1> QED
  BY <1>2, <1>3

LEMMA CloseConnectionKeeps ==
  ASSUME NEW c \in Request PROVE IInv /\ CloseConnection(c) => IInv'
<1> SUFFICES ASSUME IInv, CloseConnection(c) PROVE IInv'
  OBVIOUS
<1>1. closing = None /\ ~processing /\ force = "no" /\ ~opening /\ toForce = {}
  BY DEF CloseConnection, Returned, IInv, Stack
<1> QED
  BY <1>1, CloseKeeps DEF CloseConnection

LEMMA ForceCloseConnectionKeeps ==
  ASSUME NEW c \in Request PROVE IInv /\ ForceCloseConnection(c) => IInv'
<1> SUFFICES ASSUME IInv, ForceCloseConnection(c) PROVE IInv'
  OBVIOUS
<1>1. force = "loop" /\ ~opening /\ c \in connections /\ closing = None /\ ~processing
  BY DEF ForceCloseConnection, IInv, Stack
<1> QED
  BY <1>1, CloseKeeps DEF ForceCloseConnection

LEMMA EraseConnectionKeeps == IInv /\ EraseConnection => IInv'
<1> SUFFICES ASSUME IInv, EraseConnection PROVE IInv'
  OBVIOUS
<1> USE DEF EraseConnection, requests, metadata, client
<1>1. closing \in Request /\ closing # None /\ answers[closing] # <<>>
  BY DEF IInv, TypeOK, Marks, Request, None
<1>2. ~Upgrading
  BY <1>1, UpgraderFacts
<1>3. Line' /\ Answered' /\ Past'
  BY AtRest DEF IInv
<1>4. TypeOK'
  BY DEF IInv, TypeOK
<1>5. Marks' /\ Alone'
  BY <1>2 DEF IInv, Marks, Alone, Upgrading
<1>6. Versions'
  BY DEF IInv, Versions, OpenConnectionsAgree, NewVersion
<1>7. Stack'
  BY <1>1 DEF IInv, Stack
<1> QED
  BY <1>3, <1>4, <1>5, <1>6, <1>7 DEF IInv
LEMMA OnConnectionClosedKeeps == IInv /\ OnConnectionClosed => IInv'
<1> SUFFICES ASSUME IInv, OnConnectionClosed PROVE IInv'
  OBVIOUS
<1>1. /\ closing \in Request /\ closing # None /\ closing \notin connections
      /\ answers[closing] # <<>> /\ alive /\ notify /\ notify' = FALSE
      /\ UNCHANGED <<requests, alive, asked, told, blocked, closing, force, toForce,
                     opening>>
  BY DEF OnConnectionClosed, IInv, TypeOK, Stack, Marks
<1>2. connections = {} => ~Upgrading
  BY UpgraderFacts
<1>3. CASE /\ active = None \/ connections # {}
           /\ UNCHANGED <<queue, active, phase, connections, metadata, stored, answers,
                          processing>>
  <2>1. Line' /\ Answered' /\ Past'
    BY <1>1, <1>3, AtRest DEF IInv, requests
  <2>2. TypeOK'
    BY <1>1, <1>3 DEF IInv, TypeOK, requests, metadata
  <2>3. Marks' /\ Alone' /\ Versions'
    BY <1>1, <1>3 DEF IInv, Marks, Alone, Versions, OpenConnectionsAgree, NewVersion,
                      Upgrading, requests, metadata
  <2>4. Stack'
    BY <1>1, <1>3 DEF IInv, Stack, TypeOK
  <2> QED
    BY <2>1, <2>2, <2>3, <2>4 DEF IInv
<1>4. CASE /\ active \in Request \ deletes /\ connections = {} /\ StartUpgrade(active)
           /\ UNCHANGED <<queue, metadata, stored, answers, processing>>
  <2>1. active # None /\ AtWork(active, queue)
    BY <1>4 DEF AtWork, Request, None
  <2>2. Line' /\ Answered' /\ Past'
    BY <1>1, <1>4, <2>1, Activation DEF StartUpgrade, IInv, requests
  <2>3. answers[active] = <<>> /\ told[active] = 0 /\ phase = "waiting"
    <3>1. answers[active] = <<>>
      BY <2>1, WorkFacts DEF IInv
    <3>2. phase = "waiting"
      BY <1>2, <1>4, <2>1 DEF IInv, TypeOK, Upgrading
    <3> QED
      BY <1>4, <3>1, <3>2 DEF IInv, Marks
  <2>4. /\ active' = active /\ phase' = "scheduled" /\ connections' = {active}
        /\ ~processing
    BY <1>4, <2>1 DEF StartUpgrade, IInv, TypeOK
  <2>5. TypeOK'
    BY <1>1, <1>4, <2>1, <2>4 DEF IInv, TypeOK, requests, metadata
  <2>6. Marks' /\ Alone'
    BY <1>1, <1>4, <2>4 DEF IInv, Marks, Alone, Upgrading
  <2>7. Stack'
    BY <1>1, <1>4, <2>1, <2>3, <2>4 DEF IInv, Stack
  <2>8. Versions'
    BY <1>1, <1>4, <2>3, <2>4 DEF IInv, Versions, OpenConnectionsAgree, NewVersion,
                                  requests, metadata
  <2> QED
    BY <2>2, <2>5, <2>6, <2>7, <2>8 DEF IInv
<1>5. CASE /\ active \in deletes /\ connections = {} /\ DoDelete(active, queue)
           /\ UNCHANGED connections
  <2>1. active \in Request /\ active # None /\ AtWork(active, queue)
    BY <1>5 DEF AtWork, IInv, TypeOK, Request, None
  <2>2. PICK a \in {"success", "error"} : Answer(active, a)
    BY <1>5 DEF DoDelete
  <2>3. /\ Line' /\ Answered' /\ Past'
        /\ answers' \in [Request -> Seq({"success", "error", "closed"})]
        /\ \A s \in Request : answers[s] # <<>> => answers'[s] # <<>>
    BY <1>1, <1>5, <2>1, <2>2, Completion DEF DoDelete, IInv, requests
  <2>4. active' = None /\ phase' = "none" /\ queue' = queue /\ processing' = (queue # <<>>)
    BY <1>5 DEF DoDelete, RequestComplete
  <2>5. TypeOK'
    <3>1. 0 \in Version
      BY ConstantsAssumption DEF Version
    <3>2. version' \in Version /\ previous' \in Version /\ stored' \in Version /\ known' \in BOOLEAN
      BY <1>5, <3>1 DEF DoDelete, IInv, TypeOK
    <3> QED
      BY <1>1, <1>5, <2>3, <2>4, <3>2 DEF IInv, TypeOK, requests
  <2>6. Marks' /\ Alone'
    BY <1>1, <1>5, <2>3, <2>4 DEF IInv, Marks, Alone, Upgrading, TypeOK
  <2>7. Stack'
    BY <1>1, <1>5, <2>4 DEF IInv, Stack
  <2>8. Versions'
    BY <1>5, <2>4 DEF Versions, OpenConnectionsAgree
  <2> QED
    BY <2>3, <2>5, <2>6, <2>7, <2>8 DEF IInv
<1> QED
  BY <1>3, <1>4, <1>5 DEF OnConnectionClosed, LetActiveRequestGoOn

LEMMA ReleaseDatabaseKeeps == IInv /\ ReleaseDatabase => IInv'
<1> SUFFICES ASSUME IInv, ReleaseDatabase PROVE IInv'
  OBVIOUS
<1> USE DEF ReleaseDatabase, requests, metadata, client
<1>1. Line' /\ Answered' /\ Past'
  BY AtRest DEF IInv
<1>2. TypeOK'
  BY DEF IInv, TypeOK
<1>3. Marks' /\ Alone' /\ Versions'
  BY DEF IInv, Marks, Alone, Versions, OpenConnectionsAgree, NewVersion, Upgrading, None
<1>4. Stack'
  <2>1. ~Unused => connections # {}
    BY DEF Unused, IInv, Stack, Alone, Upgrading, TypeOK
  <2>2. alive /\ force # "called" /\ ~opening
    BY DEF IInv, Stack
  <2>3. toForce \subseteq connections \ {None}
    BY DEF IInv, Stack, TypeOK, Request, None
  <2> QED
    BY <2>1, <2>2, <2>3 DEF IInv, Stack, Unused
<1> QED
  BY <1>1, <1>2, <1>3, <1>4 DEF IInv

LEMMA ForceCloseKeeps == IInv /\ (ForceClose \/ ForceCloseReturns) => IInv'
<1> SUFFICES ASSUME IInv, ForceClose \/ ForceCloseReturns PROVE IInv'
  OBVIOUS
<1> USE DEF ForceClose, ForceCloseReturns, requests, metadata, client
<1>1. Line' /\ Answered' /\ Past'
  BY AtRest DEF IInv
<1>2. TypeOK'
  BY DEF IInv, TypeOK
<1>3. Marks' /\ Alone' /\ Versions'
  BY DEF IInv, Marks, Alone, Versions, OpenConnectionsAgree, NewVersion, Upgrading
<1>4. Stack'
  BY DEF IInv, Stack, Returned
<1> QED
  BY <1>1, <1>2, <1>3, <1>4 DEF IInv

LEMMA BeginForceCloseKeeps == IInv /\ BeginForceClose => IInv'
<1> SUFFICES ASSUME IInv, BeginForceClose PROVE IInv'
  OBVIOUS
<1>1. /\ force = "called" /\ ~processing /\ force' = "loop" /\ toForce' = connections
      /\ queue' = <<>>
      /\ UNCHANGED <<requests, active, phase, metadata, stored, alive, connections, asked,
                     told, blocked, processing, closing, notify, opening>>
  BY DEF BeginForceClose, DropRequests
<1>2. /\ Line' /\ Answered' /\ Past'
      /\ answers' \in [Request -> Seq({"success", "error", "closed"})]
      /\ \A s \in Request : answers[s] # <<>> => answers'[s] # <<>>
  BY <1>1, Dropping DEF BeginForceClose, IInv, requests
<1>3. TypeOK'
  BY <1>1, <1>2 DEF IInv, TypeOK, requests, metadata
<1>4. Marks' /\ Alone' /\ Versions'
  <2>1. Marks'
    BY <1>1, <1>2 DEF IInv, Marks, TypeOK, Upgrading
  <2> QED
    BY <1>1, <2>1 DEF IInv, Alone, Versions, OpenConnectionsAgree, NewVersion, Upgrading,
                      requests, metadata
<1>5. Stack'
  <2>1. closing = None /\ alive /\ ~opening
    BY <1>1 DEF IInv, Stack
  <2>2. connections \subseteq connections \ {None}
    BY DEF IInv, TypeOK, Request, None
  <2> QED
    BY <1>1, <2>1, <2>2 DEF IInv, Stack
<1> QED
  BY <1>2, <1>3, <1>4, <1>5 DEF IInv

LEMMA VersionChangeIgnoredKeeps ==
  ASSUME NEW c \in Request PROVE IInv /\ VersionChangeIgnored(c) => IInv'
<1> SUFFICES ASSUME IInv, VersionChangeIgnored(c) PROVE IInv'
  OBVIOUS
<1> USE DEF VersionChangeIgnored, requests, metadata, control
<1>1. Line' /\ Answered' /\ Past'
  BY AtRest DEF IInv
<1>2. TypeOK'
  BY DEF IInv, TypeOK
<1>3. Marks' /\ Alone' /\ Versions' /\ Stack'
  BY DEF IInv, Marks, Alone, Versions, Stack, OpenConnectionsAgree, NewVersion, Upgrading
<1> QED
  BY <1>1, <1>2, <1>3 DEF IInv

-----------------------------------------------------------------------------
(* The invariant. *)

LEMMA InitIInv == Init => IInv
<1> SUFFICES ASSUME Init PROVE IInv
  OBVIOUS
<1> USE DEF Init
<1>1. queue = <<>> /\ Len(queue) = 0 /\ Queued = {}
  BY DEF Queued
<1>2. TypeOK
  <2>1. 0 \in Version /\ next \in 1..MaxRequests + 1
    BY ConstantsAssumption DEF Version
  <2>2. /\ want \in [Request -> Version] /\ deletes \subseteq Request
        /\ told \in [Request -> Version]
        /\ answers \in [Request -> Seq({"success", "error", "closed"})]
        /\ queue \in Seq(Request)
    BY <2>1
  <2> QED
    BY <2>1, <2>2 DEF TypeOK
<1>3. Line /\ Past
  BY <1>1 DEF Line, Past, None
<1>4. Answered
  BY DEF Answered, Request
<1>5. Marks /\ Stack /\ Alone /\ Versions
  BY DEF Marks, Stack, Alone, Versions, OpenConnectionsAgree, Upgrading, None
<1> QED
  BY <1>2, <1>3, <1>4, <1>5 DEF IInv

(***************************************************************************)
(* Every step, whatever is unfinished on the call stack, keeps the         *)
(* invariant.                                                              *)
(***************************************************************************)
LEMMA StepIInv == IInv /\ [Next]_vars => IInv'
<1> SUFFICES ASSUME IInv, [Next]_vars PROVE IInv'
  OBVIOUS
<1>1. CASE Continue
  BY <1>1, ProcessRequestKeeps, RegisterKeeps, EraseConnectionKeeps,
     OnConnectionClosedKeeps, ReleaseDatabaseKeeps, BeginForceCloseKeeps,
     ForceCloseKeeps, ForceCloseConnectionKeeps DEF Continue
<1>2. CASE VersionChangeOperation
  BY <1>2, VersionChangeOperationKeeps
<1>3. CASE UpgradeEnds
  BY <1>3, UpgradeCommitsKeeps, UpgradeAbortsKeeps DEF UpgradeEnds
<1>4. CASE ForceClose
  BY <1>4, ForceCloseKeeps
<1>5. ASSUME NEW r \in Request,
             Open(r) \/ DeleteDatabase(r) \/ CloseConnection(r) \/ VersionChangeIgnored(r)
      PROVE  IInv'
  BY <1>5, OpenKeeps, DeleteDatabaseKeeps, CloseConnectionKeeps, VersionChangeIgnoredKeeps
<1>6. CASE UNCHANGED vars
  <2> USE <1>6 DEF vars, requests, metadata, client, control
  <2>1. Line' /\ Answered' /\ Past'
    BY AtRest DEF IInv
  <2>2. TypeOK'
    BY DEF IInv, TypeOK
  <2>3. Marks' /\ Alone' /\ Versions' /\ Stack'
    BY DEF IInv, Marks, Alone, Versions, Stack, OpenConnectionsAgree, NewVersion, Upgrading
  <2> QED
    BY <2>1, <2>2, <2>3 DEF IInv
<1> QED
  BY <1>1, <1>2, <1>3, <1>4, <1>5, <1>6 DEF Next

(***************************************************************************)
(* The invariant of the requests and the connections: what is queued is in *)
(* order, a request has exactly the answers that its place calls for, and  *)
(* the unfinished calls owe exactly what the state still lacks.            *)
(***************************************************************************)
THEOREM Invariance == Spec => []IInv
<1>1. Init => IInv
  BY InitIInv
<1>2. IInv /\ [Next]_vars => IInv'
  BY StepIInv
<1> QED
  BY <1>1, <1>2, PTL DEF Spec
(***************************************************************************)
(* The variables keep their types.                                         *)
(***************************************************************************)
THEOREM TypeCorrect == Spec => []TypeOK
<1>1. IInv => TypeOK
  BY DEF IInv
<1> QED
  BY <1>1, Invariance, PTL

(***************************************************************************)
(* A version change has the database to itself, by whatever route it was   *)
(* started: at its turn, or when the last connection closed.               *)
(***************************************************************************)
THEOREM UpgradeRunsAloneHolds == Spec => []UpgradeRunsAlone
<1>1. IInv => UpgradeRunsAlone
  BY DEF IInv, Alone, Upgrading, UpgradeRunsAlone, Upgrader
<1> QED
  BY <1>1, Invariance, PTL

(***************************************************************************)
(* Nobody changes the version that an open connection was told of.         *)
(***************************************************************************)
THEOREM OpenConnectionsAgreeHolds == Spec => []OpenConnectionsAgree
<1>1. IInv => OpenConnectionsAgree
  BY DEF IInv, Versions
<1> QED
  BY <1>1, Invariance, PTL

(***************************************************************************)
(* No request is answered twice, and none is given up unanswered.          *)
(***************************************************************************)
THEOREM AnsweredOnceHolds == Spec => []AnsweredOnce
<1>1. IInv => AnsweredOnce
  BY DEF IInv, Answered, AnsweredOnce
<1> QED
  BY <1>1, Invariance, PTL

(***************************************************************************)
(* Requests get to work, and succeed, in the order in which they were made.*)
(***************************************************************************)
THEOREM ServedInOrderHolds == Spec => []ServedInOrder
<1>1. IInv => ServedInOrder
  <2> SUFFICES ASSUME IInv, NEW r \in Request, NEW s \in Request, r < s,
                      s = active \/ answers[s] = <<"success">>
               PROVE  answers[r] # <<>>
    BY DEF ServedInOrder
  <2>1. /\ active \in Nat /\ next \in Nat /\ queue \in Seq(Request)
        /\ r \in Nat /\ s \in Nat /\ s # None
    BY DEF IInv, TypeOK, Request, None
  <2>2. \A i \in 1..Len(queue) : queue[i] \in Nat /\ Len(queue) \in Nat
    BY <2>1, ElementFacts
  <2>3. s < next /\ (active # None => s <= active) /\ \A i \in 1..Len(queue) : s < queue[i]
    <3>1. CASE s = active
      BY <2>1, <3>1 DEF IInv, Line
    <3>2. CASE answers[s] = <<"success">>
      <4>1. Len(answers[s]) = 1
        BY <3>2
      <4> QED
        BY <2>1, <3>2, <4>1 DEF IInv, Answered, Past
    <3> QED
      BY <3>1, <3>2
  <2>4. r # active
    BY <2>1, <2>3 DEF Request, None
  <2>5. r \notin Queued
    BY <2>1, <2>2, <2>3 DEF Queued
  <2>6. ~(r >= next)
    BY <2>1, <2>3
  <2>7. Len(answers[r]) = 1
    BY <2>4, <2>5, <2>6 DEF IInv, Answered
  <2> QED
    BY <2>7
<1> QED
  BY <1>1, Invariance, PTL

(***************************************************************************)
(* When the sequence is at rest nobody is queued behind nobody, and who    *)
(* waits for connections to close has some to wait for.                    *)
(***************************************************************************)
THEOREM NobodyIsForgottenHolds == Spec => []NobodyIsForgotten
<1>1. IInv => NobodyIsForgotten
  BY DEF IInv, Stack, NobodyIsForgotten, Returned
<1> QED
  BY <1>1, Invariance, PTL

(***************************************************************************)
(* The factory has neither leaked the database nor released it early.      *)
(***************************************************************************)
THEOREM ReleasedWhenUnusedHolds == Spec => []ReleasedWhenUnused
<1>1. IInv => ReleasedWhenUnused
  BY DEF IInv, Stack, ReleasedWhenUnused, Returned
<1> QED
  BY <1>1, Invariance, PTL

(***************************************************************************)
(* OnBlocked is never sent to a request whose upgrade has begun.           *)
(***************************************************************************)
THEOREM BlockedMeansWaitingHolds == Spec => BlockedMeansWaiting
<1>1. IInv /\ [Next]_vars
        => [\A r \in blocked' \ blocked : r = active /\ phase = "waiting"]_vars
  <2> SUFFICES ASSUME IInv, Next
               PROVE  \A r \in blocked' \ blocked : r = active /\ phase = "waiting"
    OBVIOUS
  <2>1. ASSUME NEW c \in Request, VersionChangeIgnored(c)
        PROVE  blocked' = blocked \cup {active} /\ phase = "waiting"
    <3>1. answers[c] # <<>> /\ c \in connections /\ active # None
      BY <2>1 DEF VersionChangeIgnored, IInv, Marks
    <3>2. ~Upgrading
      BY <3>1, UpgraderFacts
    <3> QED
      BY <2>1, <3>1, <3>2 DEF VersionChangeIgnored, IInv, TypeOK, Upgrading
  <2>2. \/ UNCHANGED blocked
        \/ \E c \in Request : VersionChangeIgnored(c)
    BY DEF Next, Continue, UpgradeEnds, ProcessRequest, Register, EraseConnection,
           OnConnectionClosed, ReleaseDatabase, BeginForceClose, ForceCloseReturns,
           ForceCloseConnection, VersionChangeOperation, UpgradeCommits, UpgradeAborts,
           UpgradeFails, ForceClose, Open, DeleteDatabase, CloseConnection, client
  <2> QED
    BY <2>1, <2>2
<1> QED
  BY <1>1, Invariance, PTL DEF Spec, BlockedMeansWaiting

-----------------------------------------------------------------------------
(* What is on disk. *)

LEMMA InitDiskInv == Init => DiskInv
BY DEF Init, DiskInv, DiskAgrees

(***************************************************************************)
(* Unless LevelDB takes changes whose commit then fails, the upgrade's own *)
(* backup of the version is what is on disk.                               *)
(***************************************************************************)
LEMMA StepDiskInv ==
  ASSUME ~JournalFails
  PROVE  IInv /\ DiskInv /\ [Next]_vars => DiskInv'
<1> SUFFICES ASSUME IInv, DiskInv, [Next]_vars PROVE DiskInv'
  OBVIOUS
<1> USE DEF DiskInv, DiskAgrees, requests, metadata, client, control
<1>1. CASE ProcessRequest
  <2>1. phase = "none"
    BY <1>1 DEF ProcessRequest, IInv, TypeOK
  <2>2. phase' # "running"
    BY <1>1, <2>1 DEF ProcessRequest, PerformOpen, PerformDelete, RequestComplete,
       StartUpgrade, AwaitConnections, DoDelete
  <2>3. UNCHANGED <<alive, opening>>
    BY <1>1 DEF ProcessRequest
  <2>4. UNCHANGED <<version, stored>> \/ version' = stored'
    BY <1>1 DEF ProcessRequest, PerformDelete, DoDelete
  <2> QED
    BY <2>1, <2>2, <2>3, <2>4
<1>2. CASE VersionChangeOperation
  BY <1>2 DEF VersionChangeOperation, IInv, Stack, TypeOK
<1>3. ASSUME AbortUpgrade, Upgrading, UNCHANGED <<previous, stored>> PROVE DiskInv'
  <2>1. alive \/ opening
    BY <1>3, UpgraderFacts DEF IInv, Stack
  <2> QED
    BY <1>3, <2>1 DEF AbortUpgrade, RequestComplete, Upgrading
<1>4. CASE UpgradeEnds
  <2>1. CASE UpgradeCommits
    BY <2>1 DEF UpgradeCommits, RequestComplete
  <2>2. CASE UpgradeAborts \/ UpgradeFails
    BY <2>2, <1>3 DEF UpgradeAborts, UpgradeFails, Upgrading
  <2> QED
    BY <1>4, <2>1, <2>2 DEF UpgradeEnds
<1>5. ASSUME NEW c \in Request, Close(c),
             UNCHANGED <<previous, stored, alive, opening>>
      PROVE  DiskInv'
  BY <1>3, <1>5 DEF Close, Upgrading
<1>6. CASE OnConnectionClosed
  <2>1. CASE active \in deletes /\ DoDelete(active, queue)
    <3>1. phase # "running"
      BY <2>1 DEF IInv, TypeOK
    <3> QED
      BY <1>6, <2>1, <3>1 DEF OnConnectionClosed, DoDelete, RequestComplete
  <2>2. CASE StartUpgrade(active) /\ connections = {} /\ UNCHANGED <<metadata, stored>>
    <3>1. phase # "running"
      BY <2>2, UpgraderFacts DEF Upgrading
    <3> QED
      BY <1>6, <2>2, <3>1 DEF OnConnectionClosed, StartUpgrade
  <2>3. CASE UNCHANGED <<phase, metadata, stored>>
    BY <1>6, <2>3 DEF OnConnectionClosed
  <2> QED
    BY <1>6, <2>1, <2>2, <2>3 DEF OnConnectionClosed, LetActiveRequestGoOn
<1>7. CASE Register \/ EraseConnection \/ ReleaseDatabase \/ BeginForceClose
           \/ ForceCloseReturns \/ ForceClose
  <2>1. UNCHANGED <<phase, version, previous, stored>>
    BY <1>7 DEF Register, EraseConnection, ReleaseDatabase, BeginForceClose,
       ForceCloseReturns, ForceClose
  <2>2. alive' \/ opening' => alive \/ opening
    <3>1. CASE Register
      BY <3>1 DEF Register
    <3>2. CASE ReleaseDatabase
      BY <3>2, Zenon DEF ReleaseDatabase
    <3> QED
      BY <1>7, <3>1, <3>2 DEF EraseConnection, BeginForceClose, ForceCloseReturns,
         ForceClose
  <2> QED
    BY <2>1, <2>2
<1>8. ASSUME NEW r \in Request, Open(r) PROVE DiskInv'
  <2>1. ~alive => phase = "none"
    BY <1>8 DEF Open, Returned, IInv, Stack, TypeOK
  <2> QED
    BY <1>8, <2>1 DEF Open, Returned
<1>9. ASSUME NEW r \in Request, DeleteDatabase(r) PROVE DiskInv'
  <2>1. ~alive => phase = "none"
    BY <1>9 DEF DeleteDatabase, Returned, IInv, Stack, TypeOK
  <2> QED
    BY <1>9, <2>1 DEF DeleteDatabase, Returned
<1>10. ASSUME NEW c \in Request,
              CloseConnection(c) \/ VersionChangeIgnored(c) \/ ForceCloseConnection(c)
       PROVE  DiskInv'
  BY <1>5, <1>10 DEF CloseConnection, VersionChangeIgnored, ForceCloseConnection
<1>11. CASE UNCHANGED vars
  BY <1>11 DEF vars
<1> QED
  BY <1>1, <1>2, <1>4, <1>6, <1>7, <1>8, <1>9, <1>10, <1>11 DEF Next, Continue

LEMMA DiskInvariance == ASSUME ~JournalFails PROVE Spec => [](IInv /\ DiskInv)
<1>1. Init => IInv /\ DiskInv
  BY InitIInv, InitDiskInv
<1>2. (IInv /\ DiskInv) /\ [Next]_vars => (IInv /\ DiskInv)'
  BY StepIInv, StepDiskInv
<1> QED
  BY <1>1, <1>2, PTL DEF Spec

(***************************************************************************)
(* What the database object has in memory is what a restart would read,    *)
(* unless an upgrade is running.                                           *)
(***************************************************************************)
THEOREM DiskAgreesHolds == ASSUME ~JournalFails PROVE Spec => []DiskAgrees
<1>1. IInv /\ DiskInv => DiskAgrees
  BY DEF DiskInv
<1> QED
  BY <1>1, DiskInvariance, PTL
-----------------------------------------------------------------------------
(* The requests implement the version lock. *)

LEMMA InitLock == Init => Lock!Init
BY DEF Init, Lock!Init, Upgrader

(***************************************************************************)
(* A step that leaves the version on disk, the connections, their phase    *)
(* and what was told as they are is a stutter of the lock.                 *)
(***************************************************************************)
LEMMA LockStutters ==
  ASSUME UNCHANGED <<stored, connections, told>>, Upgrader' = Upgrader
  PROVE  UNCHANGED Lock!vars
BY DEF Lock!vars

LEMMA LockRollsBack ==
  ASSUME IInv, Upgrading, AbortUpgrade, UNCHANGED <<stored, connections, told>>
  PROVE  Lock!Next
<1>1. active \in Request /\ connections = {active}
  BY UpgraderFacts
<1>2. Upgrader = {active} /\ Upgrader' = {}
  BY DEF AbortUpgrade, RequestComplete, Upgrader, Upgrading
<1>3. Lock!RollBackUpgrade(active)
  BY <1>1, <1>2 DEF Lock!RollBackUpgrade
<1> QED
  BY <1>1, <1>3 DEF Lock!Next

(***************************************************************************)
(* A deletion that is performed when no connections are left.              *)
(***************************************************************************)
LEMMA LockDeletes ==
  ASSUME connections = {}, UNCHANGED <<connections, told>>, ~Upgrading, ~Upgrading',
         stored' = 0 \/ stored' = stored
  PROVE  [Lock!Next]_(Lock!vars)
<1>1. Upgrader = {} /\ Upgrader' = {}
  BY DEF Upgrader, Upgrading
<1>2. CASE stored' = 0
  BY <1>1, <1>2 DEF Lock!Next, Lock!Delete
<1>3. CASE stored' = stored
  BY <1>1, <1>3, LockStutters
<1> QED
  BY <1>2, <1>3

(***************************************************************************)
(* An open request starts its upgrade.                                     *)
(***************************************************************************)
LEMMA LockBegins ==
  ASSUME NEW r \in Request, connections = {}, connections' = {r}, ~Upgrading,
         active' = r, phase' = "scheduled", UNCHANGED <<stored, told>>
  PROVE  Lock!Next
<1>1. Upgrader = {} /\ Upgrader' = {r}
  BY DEF Upgrader, Upgrading
<1>2. Lock!BeginUpgrade(r)
  BY <1>1 DEF Lock!BeginUpgrade
<1> QED
  BY <1>2 DEF Lock!Next

LEMMA ProcessRequestLocks ==
  ASSUME IInv, DiskInv, ProcessRequest
  PROVE  [Lock!Next]_(Lock!vars)
<1> DEFINE r == Head(queue)
           q == Tail(queue)
<1>1. /\ active = None /\ queue # <<>> /\ phase = "none" /\ processing
      /\ r \in Request /\ answers[r] = <<>>
  <2>1. active = None /\ queue # <<>> /\ phase = "none" /\ AtWork(r, q) /\ processing
    BY DEF ProcessRequest, IInv, TypeOK, AtWork
  <2> QED
    BY <2>1, WorkFacts DEF IInv
<1>2. version = stored
  BY <1>1 DEF DiskInv, DiskAgrees, IInv, Stack
<1>3. ~Upgrading /\ Upgrader = {} /\ (~Upgrading' => Upgrader' = {})
  BY <1>1 DEF Upgrading, Upgrader
<1>4. CASE r \notin deletes /\ PerformOpen(r, q) /\ UNCHANGED <<version, previous, stored>>
  <2>1. CASE RequestComplete(q) /\ UNCHANGED <<connections, told>>
    <3>1. ~Upgrading'
      BY <2>1 DEF RequestComplete, Upgrading
    <3> QED
      BY <1>3, <1>4, <2>1, <3>1, LockStutters
  <2>2. CASE /\ version # 0 /\ connections' = connections \cup {r}
             /\ told' = [told EXCEPT ![r] = version] /\ RequestComplete(q)
    <3>1. ~Upgrading'
      BY <2>2 DEF RequestComplete, Upgrading
    <3>2. Lock!Share(r)
      BY <1>2, <1>3, <1>4, <2>2, <3>1 DEF Lock!Share
    <3> QED
      BY <1>1, <3>2 DEF Lock!Next
  <2>3. CASE connections = {} /\ StartUpgrade(r) /\ UNCHANGED told
    BY <1>1, <1>3, <1>4, <2>3, LockBegins DEF StartUpgrade
  <2>4. CASE AwaitConnections(r, q) /\ UNCHANGED <<connections, told>>
    <3>1. ~Upgrading'
      BY <2>4 DEF AwaitConnections, Upgrading
    <3> QED
      BY <1>3, <1>4, <2>4, <3>1, LockStutters
  <2> QED
    BY <1>4, <2>1, <2>2, <2>3, <2>4 DEF PerformOpen
<1>5. CASE r \in deletes /\ PerformDelete(r, q) /\ UNCHANGED <<connections, told>>
  <2>1. CASE connections = {} /\ DoDelete(r, q)
    <3>1. ~Upgrading'
      BY <2>1 DEF DoDelete, RequestComplete, Upgrading
    <3> QED
      BY <1>3, <1>5, <2>1, <3>1, LockDeletes DEF DoDelete
  <2>2. CASE AwaitConnections(r, q) /\ UNCHANGED stored
    <3>1. ~Upgrading'
      BY <2>2 DEF AwaitConnections, Upgrading
    <3> QED
      BY <1>3, <1>5, <2>2, <3>1, LockStutters
  <2> QED
    BY <1>5, <2>1, <2>2 DEF PerformDelete
<1> QED
  BY <1>4, <1>5 DEF ProcessRequest

LEMMA OnConnectionClosedLocks ==
  ASSUME IInv, OnConnectionClosed
  PROVE  [Lock!Next]_(Lock!vars)
<1>1. UNCHANGED told
  BY DEF OnConnectionClosed
<1>2. CASE UNCHANGED <<active, phase, connections, stored>>
  BY <1>1, <1>2, LockStutters DEF Upgrader
<1>3. CASE /\ active \in Request /\ connections = {} /\ StartUpgrade(active)
           /\ UNCHANGED stored
  BY <1>1, <1>3, LockBegins, UpgraderFacts DEF StartUpgrade
<1>4. CASE connections = {} /\ DoDelete(active, queue) /\ UNCHANGED connections
  <2>1. ~Upgrading /\ ~Upgrading'
    BY <1>4, UpgraderFacts DEF DoDelete, RequestComplete, Upgrading
  <2> QED
    BY <1>1, <1>4, <2>1, LockDeletes DEF DoDelete
<1> QED
  BY <1>2, <1>3, <1>4 DEF OnConnectionClosed, LetActiveRequestGoOn

(***************************************************************************)
(* A commit raises the version on disk, since the upgrade started from it. *)
(***************************************************************************)
LEMMA UpgradeCommitsLocks ==
  ASSUME IInv, DiskInv, UpgradeCommits
  PROVE  Lock!Next
<1>1. active \in Request /\ connections = {active} /\ phase = "running"
  BY UpgraderFacts DEF UpgradeCommits, Upgrading
<1>2. Upgrader = {active} /\ Upgrader' = {}
  BY <1>1 DEF UpgradeCommits, RequestComplete, Upgrader
<1>3. stored' = version /\ version > stored
  BY <1>1 DEF UpgradeCommits, IInv, Versions, DiskInv
<1>4. Lock!CommitUpgrade(active)
  BY <1>1, <1>2, <1>3 DEF UpgradeCommits, Lock!CommitUpgrade
<1> QED
  BY <1>1, <1>4 DEF Lock!Next

LEMMA CloseLocks ==
  ASSUME IInv, NEW c \in Request, Close(c), UNCHANGED <<stored, connections, told>>
  PROVE  [Lock!Next]_(Lock!vars)
<1>1. CASE Upgrading /\ AbortUpgrade
  BY <1>1, LockRollsBack
<1>2. CASE UNCHANGED <<active, phase>>
  BY <1>2, LockStutters DEF Upgrader
<1> QED
  BY <1>1, <1>2 DEF Close, Upgrading

LEMMA EraseConnectionLocks ==
  ASSUME IInv, EraseConnection
  PROVE  Lock!Next
<1>1. closing \in Request /\ closing \in connections /\ answers[closing] # <<>>
  BY DEF EraseConnection, IInv, TypeOK, Marks, Request, None
<1>2. ~Upgrading
  BY <1>1, UpgraderFacts
<1>3. Upgrader = {} /\ Upgrader' = {}
  BY <1>2 DEF EraseConnection, Upgrader, Upgrading
<1>4. Lock!Leave(closing)
  BY <1>1, <1>3 DEF EraseConnection, Lock!Leave, client
<1> QED
  BY <1>1, <1>4 DEF Lock!Next

LEMMA StepLock ==
  ASSUME ~JournalFails, IInv, DiskInv, [Next]_vars
  PROVE  [Lock!Next]_(Lock!vars)
<1>1. CASE ProcessRequest
  BY <1>1, ProcessRequestLocks
<1>2. CASE OnConnectionClosed
  BY <1>2, OnConnectionClosedLocks
<1>3. CASE EraseConnection
  BY <1>3, EraseConnectionLocks
<1>4. CASE UpgradeCommits
  BY <1>4, UpgradeCommitsLocks
<1>5. CASE UpgradeAborts \/ UpgradeFails
  BY <1>5, LockRollsBack DEF UpgradeAborts, UpgradeFails, Upgrading
<1>6. ASSUME NEW c \in Request, CloseConnection(c) \/ ForceCloseConnection(c)
      PROVE  [Lock!Next]_(Lock!vars)
  BY <1>6, CloseLocks DEF CloseConnection, ForceCloseConnection
<1>7. ASSUME NEW r \in Request, DeleteDatabase(r) PROVE [Lock!Next]_(Lock!vars)
  <2>1. CASE stored' = stored
    BY <1>7, <2>1, LockStutters DEF DeleteDatabase, Upgrader
  <2>2. CASE ~alive /\ stored' = 0
    <3>1. connections = {} /\ phase = "none"
      BY <1>7, <2>2 DEF DeleteDatabase, Returned, IInv, Stack, TypeOK
    <3> QED
      BY <1>7, <2>2, <3>1, LockDeletes DEF DeleteDatabase, Upgrading
  <2> QED
    BY <1>7, <2>1, <2>2 DEF DeleteDatabase
<1>8. CASE VersionChangeOperation
  BY <1>8, LockStutters DEF VersionChangeOperation, Upgrader, client
<1>9. CASE UNCHANGED <<stored, connections, told, active, phase>>
  BY <1>9, LockStutters DEF Upgrader
<1>10. ASSUME NEW r \in Request, Open(r) \/ VersionChangeIgnored(r)
       PROVE  UNCHANGED <<stored, connections, told, active, phase>>
  BY <1>10 DEF Open, VersionChangeIgnored
<1>11. CASE Register \/ ReleaseDatabase \/ BeginForceClose \/ ForceCloseReturns \/ ForceClose
            \/ UNCHANGED vars
  BY <1>9, <1>11 DEF Register, ReleaseDatabase, BeginForceClose, ForceCloseReturns,
     ForceClose, vars, client
<1> QED
  BY <1>1, <1>2, <1>3, <1>4, <1>5, <1>6, <1>7, <1>8, <1>9, <1>10, <1>11
     DEF Next, Continue, UpgradeEnds

(***************************************************************************)
(* Requests, whichever way they interleave with closes, failures and force *)
(* closes, keep the promise that VersionLock states: a version changes or  *)
(* goes only when nobody else has the database open.                       *)
(***************************************************************************)
THEOREM RequestsImplementVersionLock ==
  ASSUME ~JournalFails PROVE Spec => ImplementsVersionLock
<1>1. Init => Lock!Init
  BY InitLock
<1>2. (IInv /\ DiskInv) /\ [Next]_vars => [Lock!Next]_(Lock!vars)
  BY StepLock
<1> QED
  BY <1>1, <1>2, DiskInvariance, PTL DEF Spec, ImplementsVersionLock, Lock!Spec
=============================================================================
