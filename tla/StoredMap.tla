------------------------------ MODULE StoredMap ------------------------------
(***************************************************************************)
(* What localStorage promises of one origin's items: pages see one map,    *)
(* which changes by their calls only; what is written to disk is the whole *)
(* map as it was at some moment, one such map after the other; and after a *)
(* crash pages see the last one that was written.  Data of an old version  *)
(* is taken over by an empty map.  Once LevelDB has reported an error      *)
(* nothing is promised any more.                                           *)
(***************************************************************************)
EXTENDS Sequences

CONSTANTS Call, Empty, Old, MapAfter(_, _)

VARIABLES
  seen,    \* the map that pages see
  sent,    \* the maps on their way to the disk
  disk,    \* the map on the disk
  hasOld,  \* there is data of the old version
  broken   \* LevelDB has reported an error

vars == <<seen, sent, disk, hasOld, broken>>

Init ==
  /\ seen = Empty /\ sent = <<>> /\ disk = Empty
  /\ hasOld \in BOOLEAN
  /\ broken = FALSE

CallMade(c) ==
  /\ seen' = MapAfter(c, seen)
  /\ UNCHANGED <<sent, disk, hasOld, broken>>

Send ==
  /\ sent' = Append(sent, seen)
  /\ UNCHANGED <<seen, disk, hasOld, broken>>

\* The last change before the map goes out of use is sent with it.
CallMadeAndSent(c) ==
  /\ seen' = MapAfter(c, seen)
  /\ sent' = Append(sent, seen')
  /\ UNCHANGED <<disk, hasOld, broken>>

Persist ==
  /\ sent # <<>>
  /\ disk' = Head(sent)
  /\ sent' = Tail(sent)
  /\ UNCHANGED <<seen, hasOld, broken>>

TakeOverOld ==
  /\ seen = Empty /\ hasOld
  /\ seen' = Old
  /\ sent' = Append(sent, Old)
  /\ hasOld' \in BOOLEAN
  /\ UNCHANGED <<disk, broken>>

DeleteOld ==
  /\ hasOld' = FALSE
  /\ UNCHANGED <<seen, sent, disk, broken>>

Crash ==
  /\ seen' = disk
  /\ sent' = <<>>
  /\ hasOld' \in {hasOld, FALSE}
  /\ UNCHANGED <<disk, broken>>

Fail == ~broken /\ broken'
Broken == broken /\ broken'

Next ==
  \/ \E c \in Call : CallMade(c) \/ CallMadeAndSent(c)
  \/ Send \/ Persist \/ TakeOverOld \/ DeleteOld \/ Crash \/ Fail \/ Broken

Spec == Init /\ [][Next]_vars
=============================================================================
