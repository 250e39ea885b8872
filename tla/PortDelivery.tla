---------------------------- MODULE PortDelivery ----------------------------
(***************************************************************************)
(* What one end of a message channel promises its application, whatever    *)
(* threads, locks and watchers it is made of: the decodable messages of    *)
(* the peer are handed to the callback one at a time, in the order they    *)
(* were posted, none twice and none skipped, until the port is closed; an  *)
(* undecodable message is consumed silently, and so is one that comes      *)
(* while the application has no callback.  AppWebMessagePort implements    *)
(* this specification.                                                     *)
(***************************************************************************)
EXTENDS Naturals, Sequences

CONSTANT Undecodable    \* the positions whose payload is not a V8 string

VARIABLES posted,       \* how many messages the peer has posted
          consumed,     \* how many of them have been consumed
          delivered,    \* the messages handed to the callback, in order
          listening,    \* there is a callback
          open          \* the port still reads from its pipe

vars == <<posted, consumed, delivered, listening, open>>

Init ==
  /\ posted = 0
  /\ consumed = 0
  /\ delivered = <<>>
  /\ listening = FALSE
  /\ open = TRUE

Post ==
  /\ posted' = posted + 1
  /\ UNCHANGED <<consumed, delivered, listening, open>>

\* The application sets a callback, or null.
Listen ==
  /\ listening' = ~listening
  /\ UNCHANGED <<posted, consumed, delivered, open>>

Deliver ==
  /\ open /\ listening
  /\ consumed < posted
  /\ consumed + 1 \notin Undecodable
  /\ consumed' = consumed + 1
  /\ delivered' = Append(delivered, consumed + 1)
  /\ UNCHANGED <<posted, listening, open>>

Skip ==
  /\ open
  /\ consumed < posted
  /\ consumed + 1 \in Undecodable \/ ~listening
  /\ consumed' = consumed + 1
  /\ UNCHANGED <<posted, delivered, listening, open>>

Close ==
  /\ open
  /\ open' = FALSE
  /\ UNCHANGED <<posted, consumed, delivered, listening>>

Next == Post \/ Listen \/ Deliver \/ Skip \/ Close

Spec == Init /\ [][Next]_vars
=============================================================================
