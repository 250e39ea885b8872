----------------------- MODULE LocalStorageCachedArea -----------------------
(***************************************************************************)
(* The renderers' side of localStorage for one origin.  Each renderer has  *)
(* a copy of the origin's items, from which its pages read, and changes it *)
(* at once when a page writes; the change is sent to the browser, which    *)
(* has the map that counts, and the browser tells every renderer of every  *)
(* change.  What a renderer is told must neither undo a write of its own   *)
(* that is still on its way nor be applied to a copy that has it already.  *)
(*                                                                         *)
(* A renderer has one pipe to the browser: its requests arrive in order,   *)
(* and events, answers and the notice that GetAll is complete come back in *)
(* order.  GetAll is synchronous: the renderer waits and its answer comes  *)
(* before what is in the pipe.  The browser's map is changed here at once; *)
(* LevelDBWrapper has what lies behind it.  Left out: renderers that open  *)
(* the area later or close it, the events that pages get, and the few      *)
(* bytes by which the browser counts an item longer than the renderer.     *)
(***************************************************************************)
EXTENDS Integers, Sequences, FiniteSets, FiniteSetsExt

CONSTANTS
  Renderer, Key,
  Value,        \* the values, each given by its size
  Absent,       \* what a map has for a key that is not in it
  Quota,        \* kPerStorageAreaQuota, where every key has size 1
  MaxSize,      \* max_size_: the quota with the allowance
  MaxCalls      \* bound: calls by pages and deletions by the browser

ASSUME ValueAssumption == Value \subseteq Nat /\ Absent \notin Value

Map == [Key -> Value \cup {Absent}]
Empty == [k \in Key |-> Absent]

Browser == "browser"  \* as the source of a deletion
ASSUME RendererAssumption == Browser \notin Renderer
ASSUME BoundAssumption == MaxCalls \in Nat

\* What pages do; an item that is set to Absent is removed.
Call == [op: {"set"}, key: Key, value: Value \cup {Absent}]
          \cup [op: {"clear", "get"}]
NoCall == [op |-> "none"]

VARIABLES
  log,         \* history: the browser's map, and all it was before
  area,        \* the renderers' copies, each an Area
  calling,     \* the call for which a renderer waits for GetAll
  requests,    \* from each renderer to the browser
  inbox,       \* from the browser to each renderer
  left         \* what the bound leaves

vars == <<log, area, calling, requests, inbox, left>>

Area ==
  [loaded: BOOLEAN,              \* map_ is there
   items: Map,                   \* and what is in it
   ignored: [Key -> Nat],        \* ignore_key_mutations_
   ignoreAll: BOOLEAN,           \* ignore_all_mutations_
   lost: BOOLEAN]                \* history: AllDeleted dropped a local write

NoItems == [loaded |-> FALSE, items |-> Empty, ignored |-> [k \in Key |-> 0],
            ignoreAll |-> FALSE, lost |-> FALSE]

Init ==
  /\ log \in {<<m>> : m \in Map}
  /\ area = [r \in Renderer |-> NoItems]
  /\ calling = [r \in Renderer |-> NoCall]
  /\ requests = [r \in Renderer |-> <<>>]
  /\ inbox = [r \in Renderer |-> <<>>]
  /\ left = MaxCalls

-----------------------------------------------------------------------------
(* Items and their sizes. *)

ItemSize(v) == IF v = Absent THEN 0 ELSE 1 + v
Bytes(m) == MapThenSumSet(LAMBDA k : ItemSize(m[k]), Key)

\* A map over its budget may still shrink.
Fits(k, v, m, limit) ==
  ItemSize(v) > ItemSize(m[k]) => Bytes([m EXCEPT ![k] = v]) <= limit

\* Mutant: the weak pointers are not invalidated.
StillBound(q) == q

\* Messages whose callback's weak pointer is gone.
Orphaned(q) == [i \in 1..Len(q) |-> [q[i] EXCEPT !.callback = FALSE]]

-----------------------------------------------------------------------------
(* The renderer. *)

(***************************************************************************)
(* SetItem and RemoveItem in a copy that is loaded, with what is sent to   *)
(* the browser, if anything is.                                            *)
(***************************************************************************)
Stores(c, items) ==
  /\ c.op = "set"
  /\ IF c.value = Absent THEN items[c.key] # Absent
                         ELSE Fits(c.key, c.value, items, Quota)

AreaAfter(c, a) ==
  IF Stores(c, a.items)
    THEN [a EXCEPT !.items[c.key] = c.value, !.ignored[c.key] = @ + 1] ELSE a

Sends(c, a) ==
  IF Stores(c, a.items)
    THEN <<[op |-> "set", key |-> c.key, value |-> c.value, callback |-> TRUE]>>
    ELSE <<>>

\* EnsureLoaded finds the copy, or has the renderer wait for GetAll.
Uses(r, c) ==
  /\ c.op # "clear"
  /\ IF area[r].loaded
       THEN /\ area' = [area EXCEPT ![r] = AreaAfter(c, @)]
            /\ requests' = [requests EXCEPT ![r] = @ \o Sends(c, area[r])]
            /\ UNCHANGED calling
       ELSE /\ area' = [area EXCEPT ![r].ignoreAll = TRUE]
            /\ requests' = [requests EXCEPT ![r] =
                              Append(@, [op |-> "getAll", callback |-> TRUE])]
            /\ calling' = [calling EXCEPT ![r] = c]
  /\ UNCHANGED inbox

\* Clear starts anew, and no answer under way matters any more.
Clears(r) ==
  /\ area' = [area EXCEPT ![r] = [NoItems EXCEPT !.loaded = TRUE, !.ignoreAll = TRUE]]
  /\ requests' = [requests EXCEPT ![r] =
                    Append(Orphaned(@), [op |-> "clear", callback |-> TRUE])]
  /\ inbox' = [inbox EXCEPT ![r] = Orphaned(@)]
  /\ UNCHANGED calling

PageCalls(r, c) ==
  /\ calling[r] = NoCall
  /\ left > 0 /\ left' = left - 1
  /\ area[r].loaded => c.op # "get"
  /\ IF c.op = "clear" THEN Clears(r) ELSE Uses(r, c)
  /\ UNCHANGED log

(***************************************************************************)
(* KeyAdded, KeyChanged, KeyDeleted, AllDeleted.  An event that comes from *)
(* an area in this renderer is skipped.  AllDeleted puts what the renderer *)
(* has written itself, as far as the quota allows, in the order of the     *)
(* keys, which may be any, into a new map.                                 *)
(***************************************************************************)
\* Mutant: a clear under way does not keep events away.
SkipsUnloaded(a) == ~a.loaded

Skips(a) == ~a.loaded \/ a.ignoreAll

\* Mutant: the event changes what was written after it.
ChangedAnyway(a, e) == [a EXCEPT !.items[e.key] = e.value]

Changed(a, e) == IF a.ignored[e.key] = 0 THEN [a EXCEPT !.items[e.key] = e.value] ELSE a

OwnItems(a) == [k \in Key |-> IF a.ignored[k] > 0 THEN a.items[k] ELSE Absent]

Retained(own) ==
  {m \in Map :
     /\ \A k \in Key : m[k] \in {own[k], Absent}
     /\ Bytes(m) <= Quota
     /\ \A k \in Key : m[k] # own[k] => ~Fits(k, own[k], m, Quota)}

TakeEvent(r) ==
  LET e == Head(inbox[r])
      a == area[r]
  IN /\ e.op \in {"changed", "cleared"}
     /\ \/ Skips(a) /\ UNCHANGED area
        \/ e.source = r /\ UNCHANGED area
        \/ ~Skips(a) /\ e.op = "changed"
           /\ area' = [area EXCEPT ![r] = Changed(a, e)]
        \/ ~Skips(a) /\ e.op = "cleared"
           /\ \E m \in Retained(OwnItems(a)) :
                area' = [area EXCEPT ![r].items = m,
                                     ![r].lost = @ \/ m # OwnItems(a)]
     /\ inbox' = [inbox EXCEPT ![r] = Tail(@)]
     /\ UNCHANGED requests

(***************************************************************************)
(* OnSetItemComplete, OnRemoveItemComplete, OnClearComplete and            *)
(* OnGetAllComplete.  A write that was refused has the copy dropped, with  *)
(* the callbacks under way.                                                *)
(***************************************************************************)
TakeAnswer(r) ==
  LET e == Head(inbox[r])
      rest == Tail(inbox[r])
  IN /\ e.op \in {"setDone", "clearDone", "getAllDone"}
     /\ IF ~e.callback
          THEN inbox' = [inbox EXCEPT ![r] = rest] /\ UNCHANGED <<area, requests>>
        ELSE IF e.op = "setDone" /\ ~e.ok
          THEN /\ area' = [area EXCEPT ![r] = NoItems]
               /\ inbox' = [inbox EXCEPT ![r] = Orphaned(rest)]
               /\ requests' = [requests EXCEPT ![r] = Orphaned(@)]
        ELSE /\ area' = IF e.op = "setDone"
                          THEN [area EXCEPT ![r].ignored[e.key] = @ - 1]
                          ELSE [area EXCEPT ![r].ignoreAll = FALSE]
             /\ inbox' = [inbox EXCEPT ![r] = rest]
             /\ UNCHANGED requests

\* A renderer that waits for GetAll takes nothing from its pipe.
Receive(r) ==
  /\ calling[r] = NoCall /\ inbox[r] # <<>>
  /\ TakeEvent(r) \/ TakeAnswer(r)
  /\ UNCHANGED <<log, calling, left>>

-----------------------------------------------------------------------------
(* The browser. *)

map == log[Len(log)]

\* The map becomes m, of which every renderer is told by event e.
Told(q, m, e) == IF m = map THEN q ELSE Append(q, e)

Answered(m, e, r, answer) ==
  inbox' = [s \in Renderer |-> IF s = r THEN Append(Told(inbox[s], m, e), answer)
                                        ELSE Told(inbox[s], m, e)]

Becomes(m) == log' = IF m = map THEN log ELSE Append(log, m)

\* Put and Delete.
ServeSet(r) ==
  LET c == Head(requests[r])
      ok == Fits(c.key, c.value, map, MaxSize)
      m == IF ok THEN [map EXCEPT ![c.key] = c.value] ELSE map
  IN /\ c.op = "set"
     /\ Becomes(m)
     /\ Answered(m, [op |-> "changed", key |-> c.key, value |-> c.value, source |-> r,
                     callback |-> FALSE, at |-> Len(log')],
                 r, [op |-> "setDone", key |-> c.key, value |-> c.value, ok |-> ok,
                     callback |-> c.callback, at |-> Len(log')])
     /\ requests' = [requests EXCEPT ![r] = Tail(@)]
     /\ UNCHANGED <<area, calling, left>>

Cleared(source) ==
  [op |-> "cleared", source |-> source, callback |-> FALSE, at |-> Len(log')]

\* DeleteAll
ServeClear(r) ==
  LET c == Head(requests[r])
  IN /\ c.op = "clear"
     /\ Becomes(Empty)
     /\ Answered(Empty, Cleared(r), r,
                 [op |-> "clearDone", callback |-> c.callback, at |-> Len(log')])
     /\ requests' = [requests EXCEPT ![r] = Tail(@)]
     /\ UNCHANGED <<area, calling, left>>

(***************************************************************************)
(* GetAll: the renderer has its answer at once and goes on with the call   *)
(* that needed it.                                                         *)
(***************************************************************************)
ServeGetAll(r) ==
  LET loaded == [area[r] EXCEPT !.loaded = TRUE, !.items = map]
      c == calling[r]
  IN /\ Head(requests[r]).op = "getAll"
     /\ area' = [area EXCEPT ![r] = AreaAfter(c, loaded)]
     /\ requests' = [requests EXCEPT ![r] = Tail(@) \o Sends(c, loaded)]
     /\ calling' = [calling EXCEPT ![r] = NoCall]
     /\ inbox' = [inbox EXCEPT ![r] =
          Append(@, [op |-> "getAllDone", callback |-> TRUE, at |-> Len(log)])]
     /\ UNCHANGED <<log, left>>

Serve(r) ==
  /\ requests[r] # <<>>
  /\ ServeSet(r) \/ ServeClear(r) \/ ServeGetAll(r)

\* The browser deletes the origin's data.
DeleteStorage ==
  /\ left > 0 /\ left' = left - 1
  /\ map # Empty
  /\ log' = Append(log, Empty)
  /\ inbox' = [s \in Renderer |-> Append(inbox[s], Cleared(Browser))]
  /\ UNCHANGED <<area, calling, requests>>

-----------------------------------------------------------------------------
Next ==
  \/ \E r \in Renderer :
       \/ \E c \in Call : PageCalls(r, c)
       \/ Receive(r)
       \/ Serve(r)
  \/ DeleteStorage

Spec == Init /\ [][Next]_vars

-----------------------------------------------------------------------------
(* Messages. *)

Stamp == Nat \ {0}
Request ==
  [op: {"set"}, key: Key, value: Value \cup {Absent}, callback: BOOLEAN]
    \cup [op: {"clear", "getAll"}, callback: BOOLEAN]
Event ==
  [op: {"changed"}, key: Key, value: Value \cup {Absent},
   source: Renderer \cup {Browser}, callback: {FALSE}, at: Stamp]
    \cup [op: {"cleared"}, source: Renderer \cup {Browser}, callback: {FALSE}, at: Stamp]
Answer ==
  [op: {"setDone"}, key: Key, value: Value \cup {Absent}, ok: BOOLEAN,
   callback: BOOLEAN, at: Stamp]
    \cup [op: {"clearDone", "getAllDone"}, callback: BOOLEAN, at: Stamp]

\* The state of the copies, the pipes and the browser's map is well formed.
TypeOK ==
  /\ log \in Seq(Map) /\ log # <<>>
  /\ area \in [Renderer -> Area]
  /\ calling \in [Renderer -> Call \cup {NoCall}]
  /\ requests \in [Renderer -> Seq(Request)]
  /\ inbox \in [Renderer -> Seq(Event \cup Answer)]
  /\ left \in Nat

-----------------------------------------------------------------------------
(* Properties. *)

\* How much of the log a renderer has been told of.
Reached(r) ==
  IF inbox[r] = <<>> THEN Len(log)
  ELSE IF Head(inbox[r]) \in Event THEN Head(inbox[r]).at - 1
  ELSE Head(inbox[r]).at

(***************************************************************************)
(* A copy never differs from the browser's map, as it was after the last   *)
(* change the renderer has been told of, but in what it wrote itself and   *)
(* has no answer for: no event is lost to the skipping of KeyAdded,        *)
(* KeyChanged, KeyDeleted and AllDeleted, and none is applied twice.  The  *)
(* exception is what AllDeleted did not retain.                            *)
(***************************************************************************)
CacheFollowsTheMap ==
  \A r \in Renderer :
    area[r].loaded /\ ~area[r].ignoreAll /\ ~area[r].lost =>
      \A k \in Key :
        area[r].ignored[k] = 0 => area[r].items[k] = log[Reached(r)][k]

\* When nothing is under way between a renderer and the browser, its copy is the
\* browser's map: the pages of all processes have come to the same items.
QuietCopiesAgree ==
  \A r \in Renderer :
    area[r].loaded /\ ~area[r].lost /\ inbox[r] = <<>> /\ requests[r] = <<>> =>
      area[r].items = log[Len(log)]

\* The writes of k that a callback is to come for.
Writes(q, k) ==
  {i \in 1..Len(q) : q[i].op \in {"set", "setDone"} /\ q[i].callback /\ q[i].key = k}

Pending(r) == inbox[r] \o requests[r]

HasOwnWrites(r) ==
  \A k \in Key : \A i \in Writes(Pending(r), k) :
    (\A j \in Writes(Pending(r), k) : j <= i) =>
      area[r].loaded /\ area[r].items[k] = Pending(r)[i].value

(***************************************************************************)
(* A page reads what its renderer has last written while the answer of Put *)
(* or Delete is still to come, whatever events of others come before it    *)
(* and whether or not the browser will refuse it.  Excepted are the copies *)
(* out of which AllDeleted dropped such a write because its new map was    *)
(* full: what is said of them is LocalChangesAreRetained, which fails.     *)
(***************************************************************************)
ReadsOwnWrites == \A r \in Renderer : ~area[r].lost => HasOwnWrites(r)

(***************************************************************************)
(* As the comment in AllDeleted has it: local changes made after a clear   *)
(* from another process are retained.  They are not when together they are *)
(* over the quota.                                                         *)
(***************************************************************************)
LocalChangesAreRetained == \A r \in Renderer : HasOwnWrites(r)

\* A clear or a load under way, whose callback is to come.
Resets(q) ==
  {i \in 1..Len(q) : /\ q[i].op \in {"clear", "clearDone", "getAll", "getAllDone"}
                     /\ q[i].callback}

(***************************************************************************)
(* The DCHECKs of OnSetItemComplete, OnRemoveItemComplete, OnClearComplete *)
(* and OnGetAllComplete, in both directions: a key is ignored as often as  *)
(* it has answers to come, and everything is ignored as long as one clear  *)
(* or load, never two, has its answer to come.  An answer from before a    *)
(* reset finds no callback.                                                *)
(***************************************************************************)
AnswersAreExpected ==
  \A r \in Renderer :
    /\ \A k \in Key : area[r].ignored[k] = Cardinality(Writes(Pending(r), k))
    /\ Cardinality(Resets(Pending(r))) = IF area[r].ignoreAll THEN 1 ELSE 0
=============================================================================
