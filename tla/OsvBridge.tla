----------------------------- MODULE OsvBridge -----------------------------
(***************************************************************************)
(* Hybrid postMessage: the native side of an app and the page in the main  *)
(* frame of a WebView exchange messages.                                   *)
(*                                                                         *)
(*   native -> web   postMessageToMainFrame sends a PostMessageEvent to    *)
(*                   the renderer, which dispatches it if the document it  *)
(*                   finds there has the target origin.                    *)
(*   web -> native   receiveMessageFromMainFrame stores a callback in the  *)
(*                   RenderFrameHost and has the renderer put a function   *)
(*                   postMessageToNativeFrame on the global object of the  *)
(*                   document; a call of it is sent back, and the browser  *)
(*                   adds the origin that the main frame has committed.    *)
(*                                                                         *)
(* All WebViews of an app share one renderer process, and so one IPC       *)
(* channel in each direction and one copy of the file-static myrouting_id. *)
(* The payload, the script origin and the onmessage flag are data that     *)
(* nothing here depends on and are left out.  So are the swap of a main    *)
(* frame's host in a navigation to another process, and a crash of the     *)
(* renderer.                                                               *)
(***************************************************************************)
EXTENDS Naturals, Sequences, FiniteSets

CONSTANTS
  View,       \* the WebViews of the app
  Origin,     \* origins of the pages they show
  Blank,      \* the origin of a document that was never navigated
  MaxToRenderer,  \* bound: messages to the renderer when another is sent
  MaxReceived,    \* bound: calls of the callback the app replies to later on
  MaxToBrowser    \* bound: messages to the browser when another is sent

ASSUME ViewAssumption == View # {}
ASSUME BlankAssumption == Blank \notin Origin
ASSUME QueueAssumption == MaxToRenderer \in Nat /\ MaxReceived \in Nat /\ MaxToBrowser \in Nat

NoView == [none |-> "view"]
ASSUME NoViewAssumption == NoView \notin View

Page == Origin \cup {Blank}
Anyone == [none |-> "target"]     \* the target "*", the empty string from here on
ASSUME AnyoneAssumption == Anyone \notin Origin

\* GetOrigin().spec() of a URL; without an origin it is the empty string.
OriginSpec(p) == IF p = Blank THEN Anyone ELSE p

VARIABLES
  status,      \* of each AwContents: live, destroyed (natives remain), gone
  callback,    \* its RenderFrameHost has a ReceiveMessageFromMainFrameCallback_
  committed,   \* the origin of the main frame's last_committed_url
  toRenderer,  \* IPC channel: browser to renderer
  toBrowser,   \* IPC channel: renderer to browser
  frame,       \* the view's main RenderFrameImpl exists
  page,        \* the origin of the document in that frame
  function,    \* the document's global has postMessageToNativeFrame
  routingId,   \* static int myrouting_id, as the view whose frame has that id
  received     \* the calls of the app's callback it has not yet replied to

browserVars  == <<status, callback, committed>>
rendererVars == <<frame, page, function, routingId>>
vars == <<browserVars, toRenderer, toBrowser, rendererVars, received>>

\* Who asked for a message: nobody, or the page of a view.
Requester == [view : View, origin : Page]
Unasked == [none |-> "requester"]

ToRenderer ==
  [type : {"receive", "delete"}, view : View]
    \cup [type : {"post"}, view : View, target : Origin \cup {Anyone},
          requester : Requester \cup {Unasked}]

ToBrowser ==
  [type : {"commit"}, view : View, origin : Origin]
    \cup [type : {"message"}, view : View \cup {NoView}, from : Requester]

Received == [view : View, frameOrigin : Origin \cup {Anyone}, from : Requester]

TypeOK ==
  /\ status \in [View -> {"live", "destroyed", "gone"}]
  /\ callback \in [View -> BOOLEAN]
  /\ committed \in [View -> Page]
  /\ toRenderer \in Seq(ToRenderer)
  /\ toBrowser \in Seq(ToBrowser)
  /\ frame \in [View -> BOOLEAN]
  /\ page \in [View -> Page]
  /\ function \in [View -> BOOLEAN]
  /\ routingId \in View \cup {NoView}
  /\ received \subseteq Received

Init ==
  /\ status = [v \in View |-> "live"]
  /\ callback = [v \in View |-> FALSE]
  /\ committed = [v \in View |-> Blank]
  /\ toRenderer = <<>> /\ toBrowser = <<>>
  /\ frame = [v \in View |-> TRUE]
  /\ page = [v \in View |-> Blank]
  /\ function = [v \in View |-> FALSE]
  /\ routingId = NoView
  /\ received = {}

-----------------------------------------------------------------------------
(* The native side of the app and the browser process.                     *)

SendToRenderer(m) ==
  Len(toRenderer) < MaxToRenderer /\ toRenderer' = Append(toRenderer, m)

SendToBrowser(m) ==
  Len(toBrowser) < MaxToBrowser /\ toBrowser' = Append(toBrowser, m)

\* receiveMessageFromMainFrame, down to the RenderFrameHost.
ReceiveMessageFromMainFrame(v) ==
  /\ status[v] = "live"
  /\ callback' = [callback EXCEPT ![v] = TRUE]
  /\ SendToRenderer([type |-> "receive", view |-> v])
  /\ UNCHANGED <<status, committed, toBrowser, rendererVars, received>>

\* postMessageToMainFrame, down to the PostMessageEvent.
PostMessageToMainFrame(v, target, requester) ==
  /\ status[v] = "live"
  /\ SendToRenderer([type |-> "post", view |-> v, target |-> target,
                     requester |-> requester])
  /\ UNCHANGED <<browserVars, toBrowser, rendererVars>>

\* The app posts a message of its own.
PostUnasked(v) ==
  /\ \E target \in Origin \cup {Anyone} : PostMessageToMainFrame(v, target, Unasked)
  /\ UNCHANGED received

\* The app answers a callback: it posts to the view it registered the callback
\* with, for the frame origin it was told.
Reply(r) ==
  /\ PostMessageToMainFrame(r.view, r.frameOrigin, r.from)
  /\ received' = received \ {r}

\* AwContents.destroy: calls are refused from now on.
Destroy(v) ==
  /\ status[v] = "live"
  /\ status' = [status EXCEPT ![v] = "destroyed"]
  /\ UNCHANGED <<callback, committed, toRenderer, toBrowser, rendererVars,
                 received>>

\* Mutant of DestroyNatives: the frame is not told to go.
DestroyNativesSilently(v) ==
  /\ status[v] = "destroyed"
  /\ status' = [status EXCEPT ![v] = "gone"]
  /\ UNCHANGED <<callback, committed, toRenderer, toBrowser, rendererVars, received>>

\* The posted destroyNatives: the RenderFrameHost goes and has its frame deleted.
DestroyNatives(v) ==
  /\ status[v] = "destroyed"
  /\ status' = [status EXCEPT ![v] = "gone"]
  /\ toRenderer' = Append(toRenderer, [type |-> "delete", view |-> v])
  /\ UNCHANGED <<callback, committed, toBrowser, rendererVars, received>>

\* Mutant of OnDidCommit: only the first commit of a frame is taken.
OnDidCommitOnce ==
  /\ toBrowser # <<>> /\ Head(toBrowser).type = "commit"
  /\ LET v == Head(toBrowser).view IN
       committed' = IF committed[v] # Blank THEN committed
                    ELSE [committed EXCEPT ![v] = Head(toBrowser).origin]
  /\ toBrowser' = Tail(toBrowser)
  /\ UNCHANGED <<status, callback, toRenderer, rendererVars, received>>

\* OnDidCommitProvisionalLoad: the frame tree takes the committed URL.
OnDidCommit ==
  /\ toBrowser # <<>> /\ Head(toBrowser).type = "commit"
  /\ LET v == Head(toBrowser).view IN
       committed' = IF status[v] = "gone" THEN committed
                    ELSE [committed EXCEPT ![v] = Head(toBrowser).origin]
  /\ toBrowser' = Tail(toBrowser)
  /\ UNCHANGED <<status, callback, toRenderer, rendererVars, received>>

\* The calls that the app still means to reply to when another one comes.
Recent == IF Cardinality(received) < MaxReceived THEN received ELSE {}

\* OnMessageFromMainFrameReceived, in the RenderFrameHost that the routing id
\* names; a message for a host that is gone is dropped.
OnMessageFromMainFrameReceived ==
  /\ toBrowser # <<>> /\ Head(toBrowser).type = "message"
  /\ LET v == Head(toBrowser).view IN
       received' = IF v = NoView \/ status[v] = "gone" THEN received
                   ELSE Recent \cup {[view |-> v, frameOrigin |-> OriginSpec(committed[v]),
                                        from |-> Head(toBrowser).from]}
  /\ toBrowser' = Tail(toBrowser)
  /\ UNCHANGED <<browserVars, toRenderer, rendererVars>>

-----------------------------------------------------------------------------
(* The renderer process.                                                   *)

\* A navigation commits: a new document, whose global is a new object.
CommitNavigation(v, o) ==
  /\ frame[v]
  /\ page' = [page EXCEPT ![v] = o]
  /\ function' = [function EXCEPT ![v] = FALSE]
  /\ SendToBrowser([type |-> "commit", view |-> v, origin |-> o])
  /\ UNCHANGED <<browserVars, toRenderer, frame, routingId, received>>

\* The page calls postMessageToNativeFrame with an argument.
PostMessageToNativeFrame(v) ==
  /\ frame[v] /\ function[v]
  /\ SendToBrowser([type |-> "message", view |-> routingId,
                    from |-> [view |-> v, origin |-> page[v]]])
  /\ UNCHANGED <<browserVars, toRenderer, rendererVars, received>>

\* OnReceiveMessageFromMainFrame.  Without a script context it only returns.
OnReceiveMessageFromMainFrame ==
  /\ toRenderer # <<>> /\ Head(toRenderer).type = "receive"
  /\ LET v == Head(toRenderer).view IN
       \/ /\ frame[v]
          /\ routingId' = v
          /\ function' = [function EXCEPT ![v] = TRUE]
       \/ UNCHANGED <<routingId, function>>
  /\ toRenderer' = Tail(toRenderer)
  /\ UNCHANGED <<browserVars, toBrowser, frame, page, received>>

\* Mutant of Dispatches: the target origin is not looked at.
DispatchesUnchecked(m) == frame[m.view]

\* DispatchMessageEventWithOriginCheck lets the event through to the document
\* that is there now.
Dispatches(m) == frame[m.view] /\ m.target \in {Anyone, page[m.view]}

\* OnPostMessageEvent: what the document does with the event is its own affair.
OnPostMessageEvent ==
  /\ toRenderer # <<>> /\ Head(toRenderer).type = "post"
  /\ toRenderer' = Tail(toRenderer)
  /\ UNCHANGED <<browserVars, toBrowser, rendererVars, received>>

OnDeleteFrame ==
  /\ toRenderer # <<>> /\ Head(toRenderer).type = "delete"
  /\ frame' = [frame EXCEPT ![Head(toRenderer).view] = FALSE]
  /\ function' = [function EXCEPT ![Head(toRenderer).view] = FALSE]
  /\ toRenderer' = Tail(toRenderer)
  /\ UNCHANGED <<browserVars, toBrowser, page, routingId, received>>

BrowserReads  == OnDidCommit \/ OnMessageFromMainFrameReceived
RendererReads == OnReceiveMessageFromMainFrame \/ OnPostMessageEvent \/ OnDeleteFrame

Next ==
  \/ \E v \in View : \/ ReceiveMessageFromMainFrame(v) \/ PostUnasked(v)
                     \/ Destroy(v) \/ DestroyNatives(v)
                     \/ PostMessageToNativeFrame(v)
                     \/ \E o \in Origin : CommitNavigation(v, o)
  \/ \E r \in received : Reply(r)
  \/ BrowserReads \/ RendererReads

Spec == Init /\ [][Next]_vars

\* Posted tasks run and both processes read their channels.
FairSpec ==
  /\ Spec
  /\ WF_vars(BrowserReads) /\ WF_vars(RendererReads)
  /\ \A v \in View : WF_vars(DestroyNatives(v))

-----------------------------------------------------------------------------
(* Properties.                                                             *)

\* OnMessageFromMainFrameReceived runs its callback unconditionally: whenever a
\* message is about to reach a RenderFrameHost, that host has a callback, and so
\* has the host of the page that sent it - a page the app never registered for
\* cannot reach the native side.
OnlyRegisteredPagesSpeak ==
  toBrowser # <<>> /\ Head(toBrowser).type = "message" =>
    LET m == Head(toBrowser) IN
      /\ m.view # NoView /\ callback[m.view]
      /\ callback[m.from.view]

\* Navigations race with messages, yet when a message is received the browser has
\* committed, for the sender's view, the very page that sent it: the channel keeps
\* the order of the commit and of the message.
CommittedPageIsTheSender ==
  toBrowser # <<>> /\ Head(toBrowser).type = "message" =>
    LET from == Head(toBrowser).from IN
      status[from.view] # "gone" => committed[from.view] = from.origin

\* The frame origin that the callback is given is that of the page that called
\* postMessageToNativeFrame, and the callback is that of the page's own view.
CallbackGetsSendersOrigin ==
  \A r \in received : r.view = r.from.view /\ r.frameOrigin = OriginSpec(r.from.origin)

\* The reply to a request that is about to be dispatched to a document.
ReplyDispatched(m) ==
  /\ m.type = "post" /\ m.requester # Unasked
  /\ Dispatches(m)

\* A reply to the origin named in the callback reaches a document of the view and
\* of the origin that asked, whatever was navigated in the meantime.  A page
\* without an origin is excepted: its origin is the empty string, which as a target
\* means everyone.
ReplyReachesRequester ==
  toRenderer # <<>> => LET m == Head(toRenderer) IN
    ReplyDispatched(m) /\ m.requester.origin # Blank =>
      m.requester = [view |-> m.view, origin |-> page[m.view]]

\* A view's frame is there as long as its WebView, and then until the deletion that
\* is on its way to it.  That is the last message to the frame, so that no request
\* of a callback and no event of the app is for a frame that is gone.
FrameOutlivesItsMessages ==
  /\ \A v \in View : frame[v] <=>
       \/ status[v] # "gone"
       \/ \E i \in DOMAIN toRenderer :
            toRenderer[i].type = "delete" /\ toRenderer[i].view = v
  /\ \A i \in DOMAIN toRenderer :
       /\ frame[toRenderer[i].view]
       /\ toRenderer[i].type = "delete" =>
            /\ status[toRenderer[i].view] = "gone"
            /\ \A j \in DOMAIN toRenderer : j > i => toRenderer[j].view # toRenderer[i].view

\* The page of a destroyed WebView does not go on running.
DestroyedPageGoes ==
  \A v \in View : status[v] = "destroyed" ~> ~frame[v]

=============================================================================
