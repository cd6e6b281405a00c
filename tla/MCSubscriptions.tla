--------------------------- MODULE MCSubscriptions ---------------------------
(* Instances of Subscriptions for TLC. *)
EXTENDS Subscriptions, TLC

CONSTANTS c1, c2

\* The smallest subscription that lives three timer periods without a request, with
\* one notification in a message.
ShortLived == [keepAlive |-> 0, lifetime |-> 0, maxNotifs |-> 1]
Short == {ShortLived}
=============================================================================
