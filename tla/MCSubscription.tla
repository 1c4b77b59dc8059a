--------------------------- MODULE MCSubscription ---------------------------
(* Two nodes whose applications start in the same instant, as              *)
(* caf::StackHelper installs them.  In MCConsumers.cfg the first one stops *)
(* after four ticks, with an interest pending.                             *)
EXTENDS Subscription

TwoNodes == {0, 1}
StartTogether == [n \in Node |-> 0]
NobodyStops == <<>>
FirstStops == [n \in {0} |-> 4]
=============================================================================
