--------------------------- MODULE OsvBridge_proof ---------------------------
(***************************************************************************)
(* Proofs about OsvBridge, for any number of WebViews, of origins and of   *)
(* messages on the channels.                                               *)
(***************************************************************************)
EXTENDS OsvBridge, TLAPS

IsCommit(i, v) ==
  i \in DOMAIN toBrowser /\ toBrowser[i].type = "commit" /\ toBrowser[i].view = v

\* Just before it reads position i, the browser will have committed origin o for
\* view v: the last commit before i says so or, without one, the frame tree.
CommittedBefore(i, v, o) ==
  \/ \E j \in 1..(i - 1) :
       /\ IsCommit(j, v) /\ toBrowser[j].origin = o
       /\ \A k \in (j + 1)..(i - 1) : ~IsCommit(k, v)
  \/ committed[v] = o /\ \A k \in 1..(i - 1) : ~IsCommit(k, v)

\* Every message finds the page of its sender committed, and so will the next.
ChannelKeepsOrder ==
  /\ \A i \in DOMAIN toBrowser :
       toBrowser[i].type = "message" =>
         LET from == toBrowser[i].from IN
           status[from.view] # "gone" => CommittedBefore(i, from.view, from.origin)
  /\ \A v \in View :
       status[v] # "gone" => CommittedBefore(Len(toBrowser) + 1, v, page[v])

\* A page has the function only after the app registered with its view, and by
\* then the static routing id names a view the app registered with.
FunctionNeedsCallback ==
  /\ \A i \in DOMAIN toRenderer :
       toRenderer[i].type = "receive" => callback[toRenderer[i].view]
  /\ \A v \in View : function[v] => callback[v] /\ routingId # NoView
  /\ routingId # NoView => callback[routingId]
  /\ \A i \in DOMAIN toBrowser :
       toBrowser[i].type = "message" =>
         /\ toBrowser[i].view # NoView
         /\ callback[toBrowser[i].view] /\ callback[toBrowser[i].from.view]

-----------------------------------------------------------------------------
(* What the sequence operators do to a channel.                            *)

LEMMA AppendFacts ==
  ASSUME NEW S, NEW q \in Seq(S), NEW m \in S
  PROVE  /\ Append(q, m) \in Seq(S)
         /\ Len(Append(q, m)) = Len(q) + 1
         /\ DOMAIN Append(q, m) = 1..(Len(q) + 1)
         /\ \A i \in 1..Len(q) : Append(q, m)[i] = q[i]
         /\ Append(q, m)[Len(q) + 1] = m
  OBVIOUS

LEMMA TailFacts ==
  ASSUME NEW S, NEW q \in Seq(S), q # <<>>
  PROVE  /\ Head(q) = q[1] /\ q[1] \in S /\ Len(q) \in Nat \ {0}
         /\ Tail(q) \in Seq(S)
         /\ Len(Tail(q)) = Len(q) - 1
         /\ DOMAIN Tail(q) = 1..(Len(q) - 1)
         /\ \A i \in 1..(Len(q) - 1) : Tail(q)[i] = q[i + 1]
  OBVIOUS

-----------------------------------------------------------------------------
(* Type correctness.                                                       *)

\* Every variable keeps its type.
THEOREM TypeCorrect == Spec => []TypeOK
<1>1. Init => TypeOK
  BY DEF Init, TypeOK, Page
<1>2. TypeOK /\ [Next]_vars => TypeOK'
  <2> SUFFICES ASSUME TypeOK, [Next]_vars PROVE TypeOK'
    OBVIOUS
  <2> USE DEF TypeOK, browserVars, rendererVars
  <2>1. ASSUME NEW v \in View, ReceiveMessageFromMainFrame(v) PROVE TypeOK'
    <3>1. [type |-> "receive", view |-> v] \in ToRenderer
      BY DEF ToRenderer
    <3> QED
      BY <2>1, <3>1 DEF ReceiveMessageFromMainFrame, SendToRenderer
  <2>2. ASSUME NEW v \in View, NEW target \in Origin \cup {Anyone},
               NEW requester \in Requester \cup {Unasked}, received' \subseteq Received,
               PostMessageToMainFrame(v, target, requester)
        PROVE  TypeOK'
    <3>1. [type |-> "post", view |-> v, target |-> target, requester |-> requester]
            \in ToRenderer
      BY DEF ToRenderer
    <3> QED
      BY <2>2, <3>1 DEF PostMessageToMainFrame, SendToRenderer
  <2>3. ASSUME NEW v \in View, PostUnasked(v) PROVE TypeOK'
    BY <2>2, <2>3 DEF PostUnasked
  <2>4. ASSUME NEW r \in received, Reply(r) PROVE TypeOK'
    BY <2>2, <2>4 DEF Reply, Received
  <2>5. ASSUME NEW v \in View, Destroy(v) PROVE TypeOK'
    BY <2>5 DEF Destroy
  <2>6. ASSUME NEW v \in View, DestroyNatives(v) PROVE TypeOK'
    <3>1. [type |-> "delete", view |-> v] \in ToRenderer
      BY DEF ToRenderer
    <3> QED
      BY <2>6, <3>1 DEF DestroyNatives
  <2>7. CASE OnDidCommit
    <3>1. Head(toBrowser) \in ToBrowser /\ Tail(toBrowser) \in Seq(ToBrowser)
      BY <2>7, TailFacts DEF OnDidCommit
    <3>2. Head(toBrowser).view \in View /\ Head(toBrowser).origin \in Page
      BY <2>7, <3>1 DEF OnDidCommit, ToBrowser, Page
    <3> QED
      BY <2>7, <3>1, <3>2 DEF OnDidCommit
  <2>8. CASE OnMessageFromMainFrameReceived
    <3>1. Head(toBrowser) \in ToBrowser /\ Tail(toBrowser) \in Seq(ToBrowser)
      BY <2>8, TailFacts DEF OnMessageFromMainFrameReceived
    <3> DEFINE m == Head(toBrowser)
    <3>2. m.view \in View \cup {NoView} /\ m.from \in Requester
      BY <2>8, <3>1 DEF OnMessageFromMainFrameReceived, ToBrowser
    <3>3. m.view # NoView =>
            [view |-> m.view, frameOrigin |-> OriginSpec(committed[m.view]),
             from |-> m.from] \in Received
      BY <3>2 DEF Received, OriginSpec, Page
    <3>4. Recent \subseteq Received
      BY DEF Recent
    <3> QED
      BY <2>8, <3>1, <3>3, <3>4 DEF OnMessageFromMainFrameReceived
  <2>9. ASSUME NEW v \in View, NEW o \in Origin, CommitNavigation(v, o) PROVE TypeOK'
    <3>1. [type |-> "commit", view |-> v, origin |-> o] \in ToBrowser
      BY DEF ToBrowser
    <3> QED
      BY <2>9, <3>1 DEF CommitNavigation, SendToBrowser, Page
  <2>10. ASSUME NEW v \in View, PostMessageToNativeFrame(v) PROVE TypeOK'
    <3>1. [type |-> "message", view |-> routingId,
           from |-> [view |-> v, origin |-> page[v]]] \in ToBrowser
      BY DEF ToBrowser, Requester
    <3> QED
      BY <2>10, <3>1 DEF PostMessageToNativeFrame, SendToBrowser
  <2>11. CASE RendererReads
    <3>1. Head(toRenderer) \in ToRenderer /\ Tail(toRenderer) \in Seq(ToRenderer)
      BY <2>11, TailFacts
         DEF RendererReads, OnReceiveMessageFromMainFrame, OnPostMessageEvent, OnDeleteFrame
    <3>2. Head(toRenderer).view \in View
      BY <3>1 DEF ToRenderer
    <3> QED
      BY <2>11, <3>1, <3>2
         DEF RendererReads, OnReceiveMessageFromMainFrame, OnPostMessageEvent, OnDeleteFrame
  <2>12. CASE UNCHANGED vars
    BY <2>12 DEF vars
  <2> QED
    BY <2>1, <2>3, <2>4, <2>5, <2>6, <2>7, <2>8, <2>9, <2>10, <2>11, <2>12
       DEF Next, BrowserReads
<1> QED
  BY <1>1, <1>2, PTL DEF Spec

-----------------------------------------------------------------------------
(* The order of commits and messages.                                      *)

\* Appending to the channel changes nothing for the positions before its end.
LEMMA CommittedBeforeAppend ==
  ASSUME TypeOK, NEW m \in ToBrowser, toBrowser' = Append(toBrowser, m),
         committed' = committed,
         NEW i \in 1..(Len(toBrowser) + 1), NEW v \in View, NEW o \in Page
  PROVE  CommittedBefore(i, v, o) => CommittedBefore(i, v, o)'
<1>1. \A k \in 1..(i - 1) : IsCommit(k, v)' <=> IsCommit(k, v)
  BY AppendFacts DEF IsCommit, TypeOK
<1>2. \A k \in 1..(i - 1) : toBrowser'[k] = toBrowser[k]
  BY AppendFacts DEF TypeOK
<1>3. i \in Nat /\ i >= 1
  BY DEF TypeOK
<1>4. CASE committed[v] = o /\ \A k \in 1..(i - 1) : ~IsCommit(k, v)
  BY <1>1, <1>4 DEF CommittedBefore
<1>5. ASSUME NEW j \in 1..(i - 1), IsCommit(j, v), toBrowser[j].origin = o,
             \A k \in (j + 1)..(i - 1) : ~IsCommit(k, v)
      PROVE  CommittedBefore(i, v, o)'
  <2>1. IsCommit(j, v)' /\ toBrowser'[j].origin = o
    BY <1>1, <1>2, <1>5
  <2>2. \A k \in (j + 1)..(i - 1) : k \in 1..(i - 1)
    BY <1>3
  <2>3. \A k \in (j + 1)..(i - 1) : ~IsCommit(k, v)'
    BY <1>1, <1>5, <2>2
  <2> QED
    BY <2>1, <2>3 DEF CommittedBefore
<1> QED
  BY <1>4, <1>5 DEF CommittedBefore

\* A message that is no commit of v leaves v's page as it was for the one after.
LEMMA CommittedBeforeOther ==
  ASSUME TypeOK, NEW m \in ToBrowser, toBrowser' = Append(toBrowser, m),
         committed' = committed, NEW v \in View, NEW o \in Page,
         m.type = "message" \/ m.view # v,
         CommittedBefore(Len(toBrowser) + 1, v, o)
  PROVE  CommittedBefore(Len(toBrowser) + 1, v, o)'
<1>0. PICK n \in Nat : n = Len(toBrowser)
  BY DEF TypeOK
<1>1. Len(toBrowser') = n + 1
  BY <1>0, AppendFacts DEF TypeOK
<1>2. \A k \in 1..n : IsCommit(k, v)' <=> IsCommit(k, v)
  BY <1>0, AppendFacts DEF IsCommit, TypeOK
<1>3. ~IsCommit(n + 1, v)'
  BY <1>0, AppendFacts DEF IsCommit, TypeOK
<1>7. \A k \in 1..(n + 1) : k \in 1..n \/ k = n + 1
  BY <1>1
<1>4. \A k \in 1..n : toBrowser'[k] = toBrowser[k]
  BY <1>0, AppendFacts DEF TypeOK
<1>5. CASE committed[v] = o /\ \A k \in 1..((n + 1) - 1) : ~IsCommit(k, v)
  <2>1. \A k \in 1..(n + 1) : ~IsCommit(k, v)'
    BY <1>1, <1>2, <1>3, <1>5, <1>7
  <2> QED
    BY <1>1, <1>5, <2>1 DEF CommittedBefore
<1>6. CASE \E j \in 1..((n + 1) - 1) :
             /\ IsCommit(j, v) /\ toBrowser[j].origin = o
             /\ \A k \in (j + 1)..((n + 1) - 1) : ~IsCommit(k, v)
  <2>1. PICK j \in 1..n : /\ IsCommit(j, v) /\ toBrowser[j].origin = o
                          /\ \A k \in (j + 1)..n : ~IsCommit(k, v)
    BY <1>1, <1>6
  <2>2. IsCommit(j, v)' /\ toBrowser'[j].origin = o
    BY <2>1, <1>2, <1>4
  <2>3. \A k \in (j + 1)..(n + 1) : ~IsCommit(k, v)'
    BY <1>1, <1>2, <1>3, <1>7, <2>1
  <2> QED
    BY <1>1, <2>2, <2>3 DEF CommittedBefore
<1> QED
  BY <1>0, <1>5, <1>6 DEF CommittedBefore

\* Taking the first entry off the channel moves every position down by one; the
\* frame tree keeps up when that entry is a commit.
LEMMA CommittedBeforeTail ==
  ASSUME TypeOK, toBrowser # <<>>, toBrowser' = Tail(toBrowser),
         NEW v \in View, NEW o \in Page, NEW i \in 2..(Len(toBrowser) + 1),
         committed'[v] = IF IsCommit(1, v) THEN toBrowser[1].origin ELSE committed[v],
         CommittedBefore(i, v, o)
  PROVE  CommittedBefore(i - 1, v, o)'
<1>1. \A k \in 1..(i - 2) : (IsCommit(k, v)' <=> IsCommit(k + 1, v))
                             /\ toBrowser'[k] = toBrowser[k + 1]
  BY TailFacts DEF IsCommit, TypeOK
<1>2. CASE committed[v] = o /\ \A k \in 1..(i - 1) : ~IsCommit(k, v)
  <2>1. committed'[v] = o
    BY <1>2
  <2>2. \A k \in 1..(i - 2) : ~IsCommit(k, v)'
    BY <1>1, <1>2
  <2> QED
    BY <2>1, <2>2 DEF CommittedBefore
<1>3. CASE \E j \in 1..(i - 1) :
             /\ IsCommit(j, v) /\ toBrowser[j].origin = o
             /\ \A k \in (j + 1)..(i - 1) : ~IsCommit(k, v)
  <2>1. PICK j \in 1..(i - 1) : /\ IsCommit(j, v) /\ toBrowser[j].origin = o
                                /\ \A k \in (j + 1)..(i - 1) : ~IsCommit(k, v)
    BY <1>3
  <2>2. \A k \in j..(i - 2) : ~IsCommit(k, v)'
    BY <1>1, <2>1
  <2>3. CASE j = 1
    BY <2>1, <2>2, <2>3 DEF CommittedBefore
  <2>4. CASE j # 1
    <3>1. j - 1 \in 1..(i - 2) /\ (j - 1) + 1 = j
      BY <2>4
    <3>2. IsCommit(j - 1, v)' /\ toBrowser'[j - 1].origin = o
      BY <1>1, <2>1, <3>1
    <3> QED
      BY <2>2, <3>1, <3>2 DEF CommittedBefore
  <2> QED
    BY <2>3, <2>4
<1> QED
  BY <1>2, <1>3 DEF CommittedBefore

\* The order invariant is inductive: a commit is announced before any message of
\* the page it commits.
THEOREM ChannelKeepsOrderHolds == Spec => []ChannelKeepsOrder
<1>1. Init => ChannelKeepsOrder
  BY DEF Init, ChannelKeepsOrder, CommittedBefore, IsCommit
<1>2. TypeOK /\ TypeOK' /\ ChannelKeepsOrder /\ [Next]_vars => ChannelKeepsOrder'
  <2> SUFFICES ASSUME TypeOK, TypeOK', ChannelKeepsOrder, [Next]_vars
               PROVE  ChannelKeepsOrder'
    OBVIOUS
  <2>1. ASSUME UNCHANGED <<toBrowser, committed, page>>,
               \A v \in View : status[v] = "gone" => status'[v] = "gone"
        PROVE  ChannelKeepsOrder'
    <3>1. \A i, v, o : CommittedBefore(i, v, o)' <=> CommittedBefore(i, v, o)
      BY <2>1 DEF CommittedBefore, IsCommit
    <3>2. \A i \in DOMAIN toBrowser :
            toBrowser[i].type = "message" => toBrowser[i].from.view \in View
      BY DEF TypeOK, ToBrowser, Requester
    <3> QED
      BY <2>1, <3>1, <3>2 DEF ChannelKeepsOrder
  <2>2. ASSUME NEW v \in View, NEW o \in Origin, CommitNavigation(v, o)
        PROVE  ChannelKeepsOrder'
    <3> DEFINE m == [type |-> "commit", view |-> v, origin |-> o]
    <3>1. /\ m \in ToBrowser /\ toBrowser' = Append(toBrowser, m)
          /\ UNCHANGED <<committed, status>> /\ page' = [page EXCEPT ![v] = o]
      BY <2>2 DEF CommitNavigation, SendToBrowser, ToBrowser, browserVars
    <3>2. ASSUME NEW i \in DOMAIN toBrowser', toBrowser'[i].type = "message",
                 status'[toBrowser'[i].from.view] # "gone"
          PROVE  CommittedBefore(i, toBrowser[i].from.view, toBrowser[i].from.origin)'
      <4>1. i \in DOMAIN toBrowser /\ toBrowser'[i] = toBrowser[i]
        BY <3>1, <3>2, AppendFacts DEF TypeOK
      <4>2. PICK from \in Requester : from = toBrowser[i].from
        BY <3>2, <4>1 DEF TypeOK, ToBrowser
      <4>5. from.view \in View /\ from.origin \in Page
        BY DEF Requester
      <4>3. CommittedBefore(i, from.view, from.origin)
        BY <3>1, <3>2, <4>1, <4>2 DEF ChannelKeepsOrder
      <4>4. i \in 1..(Len(toBrowser) + 1)
        BY <4>1 DEF TypeOK
      <4>6. CommittedBefore(i, from.view, from.origin)'
        BY <3>1, <4>3, <4>4, <4>5, CommittedBeforeAppend
      <4> QED
        BY <4>1, <4>2, <4>6
    <3>3. ASSUME NEW w \in View, status'[w] # "gone"
          PROVE  CommittedBefore(Len(toBrowser) + 1, w, page[w])'
      <4>1. CASE w = v
        <5>1. PICK n \in Nat : n = Len(toBrowser)
          BY DEF TypeOK
        <5>2. /\ Len(toBrowser') = n + 1 /\ n + 1 \in DOMAIN toBrowser'
              /\ toBrowser'[n + 1] = m
          BY <3>1, <5>1, AppendFacts DEF TypeOK
        <5>3. IsCommit(n + 1, v)' /\ toBrowser'[n + 1].origin = o /\ page'[v] = o
          BY <3>1, <5>2 DEF IsCommit, TypeOK
        <5> QED
          BY <4>1, <5>2, <5>3 DEF CommittedBefore
      <4>2. CASE w # v
        <5>1. CommittedBefore(Len(toBrowser) + 1, w, page[w])
          BY <3>1, <3>3 DEF ChannelKeepsOrder
        <5>2. page'[w] = page[w] /\ page[w] \in Page
          BY <3>1, <4>2 DEF TypeOK
        <5>3. PICK p \in Page : p = page[w]
          BY <5>2
        <5>4. CommittedBefore(Len(toBrowser) + 1, w, p)'
          BY <3>1, <4>2, <5>1, <5>3, CommittedBeforeOther
        <5> QED
          BY <5>2, <5>3, <5>4
      <4> QED
        BY <4>1, <4>2
    <3> QED
      BY <3>2, <3>3 DEF ChannelKeepsOrder
  <2>3. ASSUME NEW v \in View, PostMessageToNativeFrame(v)
        PROVE  ChannelKeepsOrder'
    <3>1. PICK m \in ToBrowser :
            /\ toBrowser' = Append(toBrowser, m) /\ m.type = "message"
            /\ m.from = [view |-> v, origin |-> page[v]]
      BY <2>3 DEF PostMessageToNativeFrame, SendToBrowser, ToBrowser, Requester, TypeOK
    <3>2. UNCHANGED <<committed, status, page>>
      BY <2>3 DEF PostMessageToNativeFrame, browserVars, rendererVars
    <3>3. ASSUME NEW i \in DOMAIN toBrowser', toBrowser'[i].type = "message",
                 status'[toBrowser'[i].from.view] # "gone"
          PROVE  CommittedBefore(i, toBrowser[i].from.view, toBrowser[i].from.origin)'
      <4>1. PICK from \in Requester : from = toBrowser'[i].from
        BY <3>3 DEF TypeOK, ToBrowser
      <4>2. from.view \in View /\ from.origin \in Page /\ i \in 1..(Len(toBrowser) + 1)
        BY <3>1, <3>3, AppendFacts DEF TypeOK, Requester
      <4>3. CommittedBefore(i, from.view, from.origin)
        <5>1. CASE i \in DOMAIN toBrowser
          BY <3>1, <3>2, <3>3, <4>1, <5>1, AppendFacts DEF ChannelKeepsOrder, TypeOK
        <5>2. CASE i = Len(toBrowser) + 1
          BY <3>1, <3>2, <3>3, <4>1, <5>2, AppendFacts DEF ChannelKeepsOrder, TypeOK
        <5> QED
          BY <4>2, <5>1, <5>2 DEF TypeOK
      <4>4. CommittedBefore(i, from.view, from.origin)'
        BY <3>1, <3>2, <4>2, <4>3, CommittedBeforeAppend
      <4> QED
        BY <4>1, <4>4
    <3>4. ASSUME NEW w \in View, status'[w] # "gone"
          PROVE  CommittedBefore(Len(toBrowser) + 1, w, page[w])'
      <4>1. PICK p \in Page : p = page[w] /\ p = page'[w]
        BY <3>2 DEF TypeOK
      <4>2. CommittedBefore(Len(toBrowser) + 1, w, p)
        BY <3>2, <3>4, <4>1 DEF ChannelKeepsOrder
      <4>3. CommittedBefore(Len(toBrowser) + 1, w, p)'
        BY <3>1, <3>2, <4>2, CommittedBeforeOther
      <4> QED
        BY <4>1, <4>3
    <3> QED
      BY <3>3, <3>4 DEF ChannelKeepsOrder
  <2>4. CASE BrowserReads
    <3>1. /\ toBrowser # <<>> /\ toBrowser' = Tail(toBrowser)
          /\ UNCHANGED <<status, page>>
      BY <2>4 DEF BrowserReads, OnDidCommit, OnMessageFromMainFrameReceived,
                  browserVars, rendererVars
    <3>2. ASSUME NEW w \in View, status[w] # "gone"
          PROVE  committed'[w] = IF IsCommit(1, w) THEN toBrowser[1].origin ELSE committed[w]
      <4>1. 1 \in DOMAIN toBrowser /\ Head(toBrowser) = toBrowser[1]
        BY <3>1, TailFacts DEF TypeOK
      <4>2. CASE OnMessageFromMainFrameReceived
        BY <4>1, <4>2 DEF OnMessageFromMainFrameReceived, IsCommit, browserVars
      <4>3. CASE OnDidCommit
        BY <3>2, <4>1, <4>3 DEF OnDidCommit, IsCommit, TypeOK
      <4> QED
        BY <2>4, <4>2, <4>3 DEF BrowserReads
    <3>3. PICK n \in Nat : n = Len(toBrowser) /\ n > 0 /\ Len(toBrowser') = n - 1
      BY <3>1, TailFacts DEF TypeOK
    <3>4. ASSUME NEW i \in DOMAIN toBrowser', toBrowser'[i].type = "message",
                 status'[toBrowser'[i].from.view] # "gone"
          PROVE  CommittedBefore(i, toBrowser[i].from.view, toBrowser[i].from.origin)'
      <4>1. PICK from \in Requester : from = toBrowser'[i].from
        BY <3>4 DEF TypeOK, ToBrowser
      <4>2. /\ i + 1 \in DOMAIN toBrowser /\ toBrowser'[i] = toBrowser[i + 1]
            /\ i + 1 \in 2..(Len(toBrowser) + 1) /\ (i + 1) - 1 = i
        BY <3>1, <3>3, <3>4, TailFacts DEF TypeOK
      <4>3. CommittedBefore(i + 1, from.view, from.origin)
        BY <3>1, <3>4, <4>1, <4>2 DEF ChannelKeepsOrder
      <4>4. from.view \in View /\ from.origin \in Page
        BY DEF Requester
      <4>5. CommittedBefore((i + 1) - 1, from.view, from.origin)'
        BY <3>1, <3>2, <3>4, <4>1, <4>2, <4>3, <4>4, CommittedBeforeTail
      <4> QED
        BY <4>1, <4>2, <4>5
    <3>5. ASSUME NEW w \in View, status'[w] # "gone"
          PROVE  CommittedBefore(Len(toBrowser) + 1, w, page[w])'
      <4>1. PICK p \in Page : p = page[w] /\ p = page'[w]
        BY <3>1 DEF TypeOK
      <4>2. CommittedBefore(n + 1, w, p)
        BY <3>1, <3>3, <3>5, <4>1 DEF ChannelKeepsOrder
      <4>3. n + 1 \in 2..(Len(toBrowser) + 1) /\ (n + 1) - 1 = Len(toBrowser') + 1
        BY <3>3
      <4>4. CommittedBefore((n + 1) - 1, w, p)'
        BY <3>1, <3>2, <3>5, <4>2, <4>3, CommittedBeforeTail
      <4> QED
        BY <4>1, <4>3, <4>4
    <3> QED
      BY <3>4, <3>5 DEF ChannelKeepsOrder
  <2>5. ASSUME NEW v \in View,
               \/ ReceiveMessageFromMainFrame(v) \/ PostUnasked(v)
               \/ Destroy(v) \/ DestroyNatives(v)
        PROVE  ChannelKeepsOrder'
    BY <2>1, <2>5 DEF ReceiveMessageFromMainFrame, PostUnasked, PostMessageToMainFrame,
       Destroy, DestroyNatives, browserVars, rendererVars, TypeOK
  <2>6. ASSUME NEW r \in received, Reply(r) PROVE ChannelKeepsOrder'
    BY <2>1, <2>6 DEF Reply, PostMessageToMainFrame, browserVars, rendererVars
  <2>7. CASE RendererReads
    BY <2>1, <2>7 DEF RendererReads, OnReceiveMessageFromMainFrame, OnPostMessageEvent,
       OnDeleteFrame, browserVars, rendererVars
  <2>8. CASE UNCHANGED vars
    BY <2>1, <2>8 DEF vars, browserVars, rendererVars
  <2> QED
    BY <2>2, <2>3, <2>4, <2>5, <2>6, <2>7, <2>8 DEF Next
<1> QED
  BY <1>1, <1>2, TypeCorrect, PTL DEF Spec

\* Whatever was navigated meanwhile, a message finds the page that sent it
\* committed.
THEOREM CommittedPageIsTheSenderHolds == Spec => []CommittedPageIsTheSender
<1>1. TypeOK /\ ChannelKeepsOrder => CommittedPageIsTheSender
  <2> SUFFICES ASSUME TypeOK, ChannelKeepsOrder, toBrowser # <<>>,
                      Head(toBrowser).type = "message",
                      status[Head(toBrowser).from.view] # "gone"
               PROVE  committed[Head(toBrowser).from.view] = Head(toBrowser).from.origin
    BY DEF CommittedPageIsTheSender
  <2>1. 1 \in DOMAIN toBrowser /\ Head(toBrowser) = toBrowser[1]
    BY TailFacts DEF TypeOK
  <2>2. CommittedBefore(1, toBrowser[1].from.view, toBrowser[1].from.origin)
    BY <2>1 DEF ChannelKeepsOrder
  <2> QED
    BY <2>1, <2>2 DEF CommittedBefore
<1> QED
  BY <1>1, TypeCorrect, ChannelKeepsOrderHolds, PTL

-----------------------------------------------------------------------------
(* Who may speak to the native side, and through which callback.           *)

\* A registration travels to the renderer, sets the routing id and installs the
\* function, in that order; the callback is there before all of it.
THEOREM FunctionNeedsCallbackHolds == Spec => []FunctionNeedsCallback
<1>1. Init => FunctionNeedsCallback
  BY DEF Init, FunctionNeedsCallback
<1>2. TypeOK /\ TypeOK' /\ FunctionNeedsCallback /\ [Next]_vars => FunctionNeedsCallback'
  <2> SUFFICES ASSUME TypeOK, TypeOK', FunctionNeedsCallback, [Next]_vars
               PROVE  FunctionNeedsCallback'
    OBVIOUS
  <2> USE DEF FunctionNeedsCallback, browserVars, rendererVars
  <2>1. ASSUME NEW v \in View, ReceiveMessageFromMainFrame(v)
        PROVE  FunctionNeedsCallback'
    <3>1. PICK m \in ToRenderer : toRenderer' = Append(toRenderer, m) /\ m.view = v
      BY <2>1 DEF ReceiveMessageFromMainFrame, SendToRenderer, ToRenderer
    <3>2. callback' = [callback EXCEPT ![v] = TRUE]
      BY <2>1 DEF ReceiveMessageFromMainFrame
    <3>3. \A w : callback[w] => callback'[w]
      BY <3>2 DEF TypeOK
    <3>4. callback'[v]
      BY <3>2 DEF TypeOK
    <3>5. \A i \in DOMAIN toRenderer' :
            toRenderer'[i].type = "receive" => callback'[toRenderer'[i].view]
      BY <3>1, <3>3, <3>4, AppendFacts DEF TypeOK
    <3> QED
      BY <2>1, <3>3, <3>5 DEF ReceiveMessageFromMainFrame
  <2>2. ASSUME NEW m \in ToRenderer, m.type # "receive",
               toRenderer' = Append(toRenderer, m),
               UNCHANGED <<callback, toBrowser, function, routingId>>
        PROVE  FunctionNeedsCallback'
    BY <2>2, AppendFacts DEF TypeOK
  <2>3. ASSUME NEW v \in View, PostUnasked(v) \/ DestroyNatives(v)
        PROVE  FunctionNeedsCallback'
    <3>1. PICK m \in ToRenderer :
            m.type # "receive" /\ toRenderer' = Append(toRenderer, m)
      BY <2>3 DEF PostUnasked, PostMessageToMainFrame, SendToRenderer,
                  DestroyNatives, ToRenderer
    <3> QED
      BY <2>2, <2>3, <3>1 DEF PostUnasked, PostMessageToMainFrame, DestroyNatives
  <2>4. ASSUME NEW r \in received, Reply(r) PROVE FunctionNeedsCallback'
    <3>1. PICK m \in ToRenderer :
            m.type # "receive" /\ toRenderer' = Append(toRenderer, m)
      BY <2>4 DEF Reply, PostMessageToMainFrame, SendToRenderer, ToRenderer,
                  TypeOK, Received
    <3> QED
      BY <2>2, <2>4, <3>1 DEF Reply, PostMessageToMainFrame
  <2>5. ASSUME NEW v \in View, Destroy(v) PROVE FunctionNeedsCallback'
    BY <2>5 DEF Destroy
  <2>6. ASSUME NEW v \in View, NEW o \in Origin, CommitNavigation(v, o)
        PROVE  FunctionNeedsCallback'
    <3>1. PICK m \in ToBrowser : m.type # "message" /\ toBrowser' = Append(toBrowser, m)
      BY <2>6 DEF CommitNavigation, SendToBrowser, ToBrowser
    <3> QED
      BY <2>6, <3>1, AppendFacts DEF CommitNavigation, TypeOK
  <2>7. ASSUME NEW v \in View, PostMessageToNativeFrame(v)
        PROVE  FunctionNeedsCallback'
    <3>1. PICK m \in ToBrowser :
            /\ toBrowser' = Append(toBrowser, m)
            /\ m.view = routingId /\ m.from.view = v
      BY <2>7 DEF PostMessageToNativeFrame, SendToBrowser, ToBrowser, Requester, TypeOK
    <3>2. callback[v] /\ routingId # NoView /\ callback[routingId]
      BY <2>7 DEF PostMessageToNativeFrame
    <3>3. \A i \in DOMAIN toBrowser' :
            toBrowser'[i].type = "message" =>
              /\ toBrowser'[i].view # NoView
              /\ callback[toBrowser'[i].view] /\ callback[toBrowser'[i].from.view]
      BY <3>1, <3>2, AppendFacts DEF TypeOK
    <3> QED
      BY <2>7, <3>3 DEF PostMessageToNativeFrame
  <2>8. CASE BrowserReads
    <3>1. /\ toBrowser # <<>> /\ toBrowser' = Tail(toBrowser)
          /\ UNCHANGED <<callback, toRenderer, function, routingId>>
      BY <2>8 DEF BrowserReads, OnDidCommit, OnMessageFromMainFrameReceived
    <3> QED
      BY <3>1, TailFacts DEF TypeOK
  <2>9. CASE RendererReads
    <3>1. /\ toRenderer # <<>> /\ toRenderer' = Tail(toRenderer)
          /\ UNCHANGED <<callback, toBrowser>>
      BY <2>9 DEF RendererReads, OnReceiveMessageFromMainFrame, OnPostMessageEvent,
                  OnDeleteFrame
    <3>2. \A i \in DOMAIN toRenderer' :
            toRenderer'[i].type = "receive" => callback[toRenderer'[i].view]
      BY <3>1, TailFacts DEF TypeOK
    <3>3. Head(toRenderer).view \in View
      BY <3>1, TailFacts DEF TypeOK, ToRenderer
    <3>4. CASE OnReceiveMessageFromMainFrame
      <4>1. callback[Head(toRenderer).view]
        BY <3>1, <3>4, TailFacts DEF OnReceiveMessageFromMainFrame, TypeOK
      <4> QED
        BY <3>1, <3>2, <3>3, <3>4, <4>1, NoViewAssumption
           DEF OnReceiveMessageFromMainFrame, TypeOK
    <3>5. CASE OnPostMessageEvent
      BY <3>1, <3>2, <3>5 DEF OnPostMessageEvent
    <3>6. CASE OnDeleteFrame
      BY <3>1, <3>2, <3>3, <3>6 DEF OnDeleteFrame, TypeOK
    <3> QED
      BY <2>9, <3>4, <3>5, <3>6 DEF RendererReads
  <2>10. CASE UNCHANGED vars
    BY <2>10 DEF vars
  <2> QED
    BY <2>1, <2>3, <2>4, <2>5, <2>6, <2>7, <2>8, <2>9, <2>10 DEF Next
<1> QED
  BY <1>1, <1>2, TypeCorrect, PTL DEF Spec

\* The callback a message runs is set, and the app registered with the view of
\* the page that sent it.
THEOREM OnlyRegisteredPagesSpeakHolds == Spec => []OnlyRegisteredPagesSpeak
<1>1. TypeOK /\ FunctionNeedsCallback => OnlyRegisteredPagesSpeak
  <2> SUFFICES ASSUME TypeOK, FunctionNeedsCallback, toBrowser # <<>>
               PROVE  OnlyRegisteredPagesSpeak
    BY DEF OnlyRegisteredPagesSpeak
  <2>1. 1 \in DOMAIN toBrowser /\ Head(toBrowser) = toBrowser[1]
    BY TailFacts DEF TypeOK
  <2> QED
    BY <2>1 DEF FunctionNeedsCallback, OnlyRegisteredPagesSpeak
<1> QED
  BY <1>1, TypeCorrect, FunctionNeedsCallbackHolds, PTL

\* In an app with a single WebView, where the static routing id cannot be another
\* view's, the callback is told the origin of the page that called it.
THEOREM CallbackGetsSendersOriginHolds ==
  ASSUME NEW w, View = {w}
  PROVE  Spec => []CallbackGetsSendersOrigin
<1>1. Init => CallbackGetsSendersOrigin
  BY DEF Init, CallbackGetsSendersOrigin
<1>2. /\ TypeOK /\ CommittedPageIsTheSender /\ OnlyRegisteredPagesSpeak
      /\ CallbackGetsSendersOrigin /\ [Next]_vars
      => CallbackGetsSendersOrigin'
  <2> SUFFICES ASSUME TypeOK, CommittedPageIsTheSender, OnlyRegisteredPagesSpeak,
                      CallbackGetsSendersOrigin, [Next]_vars
               PROVE  CallbackGetsSendersOrigin'
    OBVIOUS
  <2>1. CASE received' \subseteq received
    BY <2>1 DEF CallbackGetsSendersOrigin
  <2>2. CASE OnMessageFromMainFrameReceived
    <3> DEFINE m == Head(toBrowser)
    <3>1. m \in ToBrowser /\ m.type = "message" /\ toBrowser # <<>>
      BY <2>2, TailFacts DEF OnMessageFromMainFrameReceived, TypeOK
    <3>2. m.view = w /\ m.from.view = w
      BY <3>1 DEF ToBrowser, Requester, OnlyRegisteredPagesSpeak
    <3>3. status[w] # "gone" => committed[w] = m.from.origin
      BY <3>1, <3>2 DEF CommittedPageIsTheSender
    <3> QED
      BY <2>2, <3>2, <3>3
         DEF OnMessageFromMainFrameReceived, CallbackGetsSendersOrigin, Recent
  <2> QED
    BY <2>1, <2>2 DEF Next, BrowserReads, RendererReads, vars,
       ReceiveMessageFromMainFrame, PostUnasked, Reply, Destroy, DestroyNatives,
       OnDidCommit, CommitNavigation, PostMessageToNativeFrame,
       OnReceiveMessageFromMainFrame, OnPostMessageEvent, OnDeleteFrame
<1> QED
  BY <1>1, <1>2, TypeCorrect, CommittedPageIsTheSenderHolds,
     OnlyRegisteredPagesSpeakHolds, PTL DEF Spec

\* A reply on its way goes to the view that asked, for the origin that asked.
RepliesAreAddressed ==
  \A i \in DOMAIN toRenderer :
    LET m == toRenderer[i] IN
      m.type = "post" /\ m.requester # Unasked =>
        m.view = m.requester.view /\ m.target = OriginSpec(m.requester.origin)

\* In an app with a single WebView a reply is dispatched to no other document than
\* one of the view and the origin that asked, whatever was navigated since.
THEOREM ReplyReachesRequesterHolds ==
  ASSUME NEW w, View = {w}
  PROVE  Spec => []ReplyReachesRequester
<1>1. Init => RepliesAreAddressed
  BY DEF Init, RepliesAreAddressed
<1>2. TypeOK /\ CallbackGetsSendersOrigin /\ RepliesAreAddressed /\ [Next]_vars
        => RepliesAreAddressed'
  <2> SUFFICES ASSUME TypeOK, CallbackGetsSendersOrigin, RepliesAreAddressed, [Next]_vars
               PROVE  RepliesAreAddressed'
    OBVIOUS
  <2>1. CASE UNCHANGED toRenderer
    BY <2>1 DEF RepliesAreAddressed
  <2>2. ASSUME NEW m \in ToRenderer, toRenderer' = Append(toRenderer, m),
               m.type = "post" /\ m.requester # Unasked =>
                 m.view = m.requester.view /\ m.target = OriginSpec(m.requester.origin)
        PROVE  RepliesAreAddressed'
    BY <2>2, AppendFacts DEF RepliesAreAddressed, TypeOK
  <2>3. CASE toRenderer # <<>> /\ toRenderer' = Tail(toRenderer)
    BY <2>3, TailFacts DEF RepliesAreAddressed, TypeOK
  <2>4. ASSUME NEW v \in View, ReceiveMessageFromMainFrame(v) \/ DestroyNatives(v)
        PROVE  RepliesAreAddressed'
    <3>1. PICK m \in ToRenderer :
            m.type # "post" /\ toRenderer' = Append(toRenderer, m)
      BY <2>4 DEF ReceiveMessageFromMainFrame, SendToRenderer, DestroyNatives, ToRenderer
    <3> QED
      BY <2>2, <3>1
  <2>5. ASSUME NEW v \in View, PostUnasked(v) PROVE RepliesAreAddressed'
    <3>1. PICK m \in ToRenderer :
            m.requester = Unasked /\ toRenderer' = Append(toRenderer, m)
      BY <2>5 DEF PostUnasked, PostMessageToMainFrame, SendToRenderer, ToRenderer
    <3> QED
      BY <2>2, <3>1
  <2>6. ASSUME NEW r \in received, Reply(r) PROVE RepliesAreAddressed'
    <3>1. r \in Received /\ r.view = r.from.view /\ r.frameOrigin = OriginSpec(r.from.origin)
      BY DEF TypeOK, CallbackGetsSendersOrigin
    <3>2. PICK m \in ToRenderer :
            /\ toRenderer' = Append(toRenderer, m)
            /\ m.view = r.view /\ m.target = r.frameOrigin /\ m.requester = r.from
      BY <2>6, <3>1 DEF Reply, PostMessageToMainFrame, SendToRenderer, ToRenderer, Received
    <3> QED
      BY <2>2, <3>1, <3>2
  <2> QED
    BY <2>1, <2>3, <2>4, <2>5, <2>6 DEF Next, BrowserReads, RendererReads, vars,
       Destroy, OnDidCommit, OnMessageFromMainFrameReceived, CommitNavigation,
       PostMessageToNativeFrame, OnReceiveMessageFromMainFrame, OnPostMessageEvent,
       OnDeleteFrame
<1>3. TypeOK /\ RepliesAreAddressed => ReplyReachesRequester
  <2> SUFFICES ASSUME TypeOK, RepliesAreAddressed, toRenderer # <<>>,
                      ReplyDispatched(Head(toRenderer)),
                      Head(toRenderer).requester.origin # Blank
               PROVE  Head(toRenderer).requester =
                        [view |-> Head(toRenderer).view,
                         origin |-> page[Head(toRenderer).view]]
    BY DEF ReplyReachesRequester
  <2> DEFINE m == Head(toRenderer)
  <2>1. 1 \in DOMAIN toRenderer /\ m = toRenderer[1] /\ m \in ToRenderer
    BY TailFacts DEF TypeOK
  <2>2. m.type = "post" /\ m.requester # Unasked /\ m.target \in {Anyone, page[m.view]}
    BY DEF ReplyDispatched, Dispatches
  <2>3. m.view = m.requester.view /\ m.target = OriginSpec(m.requester.origin)
    BY <2>1, <2>2 DEF RepliesAreAddressed
  <2>4. m.requester \in Requester
    BY <2>1, <2>2 DEF ToRenderer
  <2> HIDE DEF m
  <2>5. m.target = m.requester.origin /\ m.requester.origin \in Origin
    BY <2>3, <2>4 DEF m, OriginSpec, Requester, Page
  <2>6. m.requester.origin = page[m.view]
    BY <2>2, <2>5, AnyoneAssumption
  <2> QED
    BY <2>3, <2>4, <2>6 DEF m, Requester
<1> QED
  BY <1>1, <1>2, <1>3, TypeCorrect, CallbackGetsSendersOriginHolds, PTL DEF Spec

-----------------------------------------------------------------------------
(* How a frame ends.                                                       *)

\* The deletion of v's frame is in the channel q.
Doomed(q, v) == \E i \in 1..Len(q) : q[i].type = "delete" /\ q[i].view = v

\* Whatever comes is for a frame that is there, and nothing after a deletion.
ReadByFrames(q, f, st) ==
  \A i \in 1..Len(q) :
    /\ f[q[i].view]
    /\ q[i].type = "delete" =>
         /\ st[q[i].view] = "gone"
         /\ \A j \in 1..Len(q) : j > i => q[j].view # q[i].view

LEMMA FrameParts ==
  ASSUME TypeOK
  PROVE  /\ FrameOutlivesItsMessages <=>
              /\ \A v \in View : frame[v] <=> status[v] # "gone" \/ Doomed(toRenderer, v)
              /\ ReadByFrames(toRenderer, frame, status)
         /\ toRenderer \in Seq(ToRenderer) /\ DOMAIN toRenderer = 1..Len(toRenderer)
         /\ \A i \in 1..Len(toRenderer) : toRenderer[i].view \in View
<1>1. toRenderer \in Seq(ToRenderer)
  BY DEF TypeOK
<1>2. DOMAIN toRenderer = 1..Len(toRenderer)
  BY <1>1
<1>3. \A i \in 1..Len(toRenderer) : toRenderer[i].view \in View
  BY <1>1 DEF ToRenderer
<1> QED
  BY <1>1, <1>2, <1>3, Zenon DEF FrameOutlivesItsMessages, Doomed, ReadByFrames

\* A message to a frame that is to stay.
LEMMA FrameTold ==
  ASSUME NEW q \in Seq(ToRenderer), NEW m \in ToRenderer, NEW f, NEW st,
         ReadByFrames(q, f, st), m.type # "delete", st[m.view] # "gone", f[m.view]
  PROVE  /\ ReadByFrames(Append(q, m), f, st)
         /\ \A v : Doomed(Append(q, m), v) <=> Doomed(q, v)
BY AppendFacts DEF ReadByFrames, Doomed

\* The message that its frame is to go.
LEMMA FrameDoomed ==
  ASSUME NEW q \in Seq(ToRenderer), NEW m \in ToRenderer, NEW f,
         NEW st \in [View -> {"live", "destroyed", "gone"}],
         ReadByFrames(q, f, st), m.type = "delete", f[m.view], st[m.view] # "gone"
  PROVE  /\ ReadByFrames(Append(q, m), f, [st EXCEPT ![m.view] = "gone"])
         /\ \A v : Doomed(Append(q, m), v) <=> Doomed(q, v) \/ v = m.view
<1> DEFINE Q == Append(q, m)
           n == Len(q) + 1
           st2 == [st EXCEPT ![m.view] = "gone"]
<1>1. /\ Len(Q) = n /\ n \in Nat /\ Q[n] = m /\ Len(q) \in Nat
      /\ \A i \in 1..Len(q) : Q[i] = q[i]
  OBVIOUS
<1>a. /\ st2[m.view] = "gone"
      /\ \A i \in 1..Len(q) : q[i].view = m.view \/ st2[q[i].view] = st[q[i].view]
  BY DEF ToRenderer
<1> HIDE DEF Q, st2
<1>2. ASSUME NEW i \in 1..n
      PROVE  /\ f[Q[i].view]
             /\ Q[i].type = "delete" =>
                  /\ st2[Q[i].view] = "gone"
                  /\ \A j \in 1..n : j > i => Q[j].view # Q[i].view
  <2>1. CASE i = n
    BY <1>a, <1>1, <2>1
  <2>2. CASE i \in 1..Len(q)
    BY <1>a, <1>1, <2>2 DEF ReadByFrames
  <2> QED
    BY <1>1, <2>1, <2>2
<1>3. \A v : Doomed(Q, v) <=> Doomed(q, v) \/ v = m.view
  BY <1>1 DEF Doomed
<1> QED
  BY <1>1, <1>2, <1>3 DEF ReadByFrames, Q, st2

\* A message is read.
LEMMA FrameReads ==
  ASSUME NEW q \in Seq(ToRenderer), q # <<>>, NEW f, NEW st, ReadByFrames(q, f, st)
  PROVE  /\ ReadByFrames(Tail(q), f, st)
         /\ \A v : Doomed(q, v) <=> \/ q[1].type = "delete" /\ q[1].view = v
                                    \/ Doomed(Tail(q), v)
         /\ q[1].type = "delete" =>
              \A i \in 1..Len(Tail(q)) : Tail(q)[i].view # q[1].view
<1> DEFINE Q == Tail(q)
<1>1. /\ Len(q) \in Nat \ {0} /\ Len(Q) = Len(q) - 1
      /\ \A i \in 1..Len(Q) : Q[i] = q[i + 1]
  BY TailFacts
<1> HIDE DEF Q
<1>2. \A i \in 2..Len(q) : q[i] = Q[i - 1] /\ i - 1 \in 1..Len(Q)
  BY <1>1
<1>3. ReadByFrames(Q, f, st)
  BY <1>1 DEF ReadByFrames
<1>4. ASSUME NEW v
      PROVE  Doomed(q, v) <=> (q[1].type = "delete" /\ q[1].view = v) \/ Doomed(Q, v)
  <2>1. ASSUME Doomed(q, v), ~(q[1].type = "delete" /\ q[1].view = v) PROVE Doomed(Q, v)
    <3>1. PICK i \in 1..Len(q) : q[i].type = "delete" /\ q[i].view = v
      BY <2>1 DEF Doomed
    <3>2. i \in 2..Len(q)
      BY <1>1, <2>1, <3>1
    <3> QED
      BY <1>2, <3>1, <3>2 DEF Doomed
  <2>2. ASSUME Doomed(Q, v) PROVE Doomed(q, v)
    BY <1>1, <2>2 DEF Doomed
  <2>3. ASSUME q[1].type = "delete" /\ q[1].view = v PROVE Doomed(q, v)
    BY <1>1, <2>3 DEF Doomed
  <2> QED
    BY <2>1, <2>2, <2>3
<1>5. q[1].type = "delete" => \A i \in 1..Len(Q) : Q[i].view # q[1].view
  BY <1>1 DEF ReadByFrames
<1> QED
  BY <1>3, <1>4, <1>5 DEF Q

(***************************************************************************)
(* The frame of a view is there as long as its WebView and then until it   *)
(* reads the deletion, behind which nothing more comes for it: the calls   *)
(* of a destroyed WebView are refused, and what was sent before is read    *)
(* before.                                                                 *)
(***************************************************************************)
THEOREM FrameOutlivesItsMessagesHolds == Spec => []FrameOutlivesItsMessages
<1> DEFINE Frames == /\ \A v \in View : frame[v] <=> status[v] # "gone" \/ Doomed(toRenderer, v)
                     /\ ReadByFrames(toRenderer, frame, status)
<1>1. Init => FrameOutlivesItsMessages
  BY DEF Init, FrameOutlivesItsMessages
<1>2. TypeOK /\ TypeOK' /\ Frames /\ [Next]_vars => Frames'
  <2> SUFFICES ASSUME TypeOK, TypeOK', Frames, [Next]_vars PROVE Frames'
    OBVIOUS
  <2> USE DEF browserVars, rendererVars
  <2>0. /\ toRenderer \in Seq(ToRenderer)
        /\ \A i \in 1..Len(toRenderer) : toRenderer[i].view \in View
    BY FrameParts
  <2>1. ASSUME NEW m \in ToRenderer, status[m.view] = "live", m.type # "delete",
               toRenderer' = Append(toRenderer, m), UNCHANGED <<status, frame>>
        PROVE  Frames'
    <3>1. m.view \in View
      BY DEF ToRenderer
    <3>2. frame[m.view] /\ status[m.view] # "gone"
      BY <2>1, <3>1
    <3> QED
      BY <2>0, <2>1, <3>2, FrameTold
  <2>2. ASSUME NEW v \in View, ReceiveMessageFromMainFrame(v) \/ PostUnasked(v)
        PROVE  Frames'
    <3>1. PICK m \in ToRenderer :
            m.view = v /\ m.type # "delete" /\ toRenderer' = Append(toRenderer, m)
      BY <2>2 DEF ReceiveMessageFromMainFrame, PostUnasked, PostMessageToMainFrame,
         SendToRenderer, ToRenderer
    <3>2. status[v] = "live" /\ UNCHANGED <<status, frame>>
      BY <2>2 DEF ReceiveMessageFromMainFrame, PostUnasked, PostMessageToMainFrame
    <3> QED
      BY <2>1, <3>1, <3>2
  <2>3. ASSUME NEW r \in received, Reply(r) PROVE Frames'
    <3>1. PICK m \in ToRenderer :
            m.view = r.view /\ m.type # "delete" /\ toRenderer' = Append(toRenderer, m)
      BY <2>3 DEF Reply, PostMessageToMainFrame, SendToRenderer, ToRenderer,
                  TypeOK, Received
    <3>2. status[r.view] = "live" /\ UNCHANGED <<status, frame>>
      BY <2>3 DEF Reply, PostMessageToMainFrame
    <3> QED
      BY <2>1, <3>1, <3>2
  <2>4. ASSUME NEW v \in View, Destroy(v) PROVE Frames'
    <3>1. /\ \A w \in View : status'[w] = "gone" <=> status[w] = "gone"
          /\ UNCHANGED <<toRenderer, frame>>
      BY <2>4 DEF Destroy, TypeOK
    <3> QED
      BY <2>0, <3>1 DEF ReadByFrames
  <2>5. ASSUME NEW v \in View, DestroyNatives(v) PROVE Frames'
    <3> DEFINE m == [type |-> "delete", view |-> v]
    <3>1. /\ m \in ToRenderer /\ m.type = "delete" /\ m.view = v
          /\ toRenderer' = Append(toRenderer, m) /\ frame' = frame
          /\ status[v] = "destroyed" /\ status' = [status EXCEPT ![v] = "gone"]
      BY <2>5 DEF DestroyNatives, ToRenderer
    <3> HIDE DEF m
    <3>2. /\ status'[v] = "gone" /\ status[v] # "gone" /\ frame[v]
          /\ \A w \in View \ {v} : status'[w] = status[w]
      BY <3>1 DEF TypeOK
    <3>3. /\ ReadByFrames(Append(toRenderer, m), frame, [status EXCEPT ![m.view] = "gone"])
          /\ \A w : Doomed(Append(toRenderer, m), w) <=> Doomed(toRenderer, w) \/ w = m.view
      <4>1. status \in [View -> {"live", "destroyed", "gone"}]
        BY DEF TypeOK
      <4>2. ReadByFrames(toRenderer, frame, status) /\ frame[m.view] /\ status[m.view] # "gone"
        BY <3>1, <3>2
      <4> QED
        BY <2>0, <3>1, <4>1, <4>2, FrameDoomed
    <3>4. /\ ReadByFrames(toRenderer', frame, status')
          /\ \A w : Doomed(toRenderer', w) <=> Doomed(toRenderer, w) \/ w = v
      BY <3>1, <3>3
    <3> QED
      BY <3>1, <3>2, <3>4
  <2>6. ASSUME toRenderer # <<>>, toRenderer' = Tail(toRenderer), UNCHANGED status,
               toRenderer[1].type # "delete", UNCHANGED frame
        PROVE  Frames'
    BY <2>0, <2>6, FrameReads
  <2>7. CASE OnReceiveMessageFromMainFrame \/ OnPostMessageEvent
    BY <2>0, <2>6, <2>7, TailFacts DEF OnReceiveMessageFromMainFrame, OnPostMessageEvent
  <2>8. CASE OnDeleteFrame
    <3> DEFINE v == toRenderer[1].view
               rest == Tail(toRenderer)
    <3>1. /\ toRenderer # <<>> /\ toRenderer' = rest /\ status' = status
          /\ Head(toRenderer) = toRenderer[1] /\ toRenderer[1].type = "delete"
          /\ 1 \in 1..Len(toRenderer)
          /\ frame' = [frame EXCEPT ![v] = FALSE]
      <4>1. /\ toRenderer # <<>> /\ toRenderer' = rest /\ status' = status
            /\ Head(toRenderer).type = "delete"
            /\ frame' = [frame EXCEPT ![Head(toRenderer).view] = FALSE]
        BY <2>8 DEF OnDeleteFrame
      <4>2. Head(toRenderer) = toRenderer[1] /\ 1 \in 1..Len(toRenderer)
        BY <2>0, <4>1, TailFacts
      <4> HIDE DEF rest
      <4> QED
        BY <4>1, <4>2
    <3>2. /\ ReadByFrames(rest, frame, status)
          /\ \A w : Doomed(toRenderer, w) <=> w = v \/ Doomed(rest, w)
          /\ \A i \in 1..Len(rest) : rest[i].view # v
      BY <2>0, <3>1, FrameReads
    <3>3. v \in View /\ status[v] = "gone"
      BY <2>0, <3>1 DEF ReadByFrames
    <3>4. ~frame'[v]
      BY <3>1, <3>3, Zenon DEF TypeOK
    <3>5. \A w \in View \ {v} : frame'[w] = frame[w]
      BY <3>1, Zenon DEF TypeOK
    <3>6. \A i \in 1..Len(rest) : rest[i].view \in View
      BY <2>0, <3>1, TailFacts DEF ToRenderer
    <3> HIDE DEF v, rest
    <3>7. ReadByFrames(rest, frame', status)
      BY <3>2, <3>5, <3>6 DEF ReadByFrames
    <3>8. ~Doomed(rest, v)
      BY <3>2 DEF Doomed
    <3> QED
      BY <3>1, <3>2, <3>3, <3>4, <3>5, <3>7, <3>8
  <2>9. ASSUME UNCHANGED <<toRenderer, frame, status>> PROVE Frames'
    BY <2>9
  <2>10. CASE BrowserReads \/ UNCHANGED vars
    BY <2>9, <2>10 DEF BrowserReads, OnDidCommit, OnMessageFromMainFrameReceived, vars
  <2>11. ASSUME NEW v \in View,
                PostMessageToNativeFrame(v) \/ \E o \in Origin : CommitNavigation(v, o)
         PROVE  Frames'
    BY <2>9, <2>11 DEF PostMessageToNativeFrame, CommitNavigation
  <2> HIDE DEF Frames
  <2> QED
    BY <2>2, <2>3, <2>4, <2>5, <2>7, <2>8, <2>10, <2>11 DEF Next, RendererReads
<1>3. TypeOK => (FrameOutlivesItsMessages <=> Frames)
  BY FrameParts
<1> HIDE DEF Frames
<1> QED
  BY <1>1, <1>2, <1>3, TypeCorrect, PTL DEF Spec
=============================================================================
