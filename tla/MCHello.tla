------------------------------ MODULE MCHello ------------------------------
(* One vehicle between two RSUs of opposite phases, in and out of their     *)
(* reach; any hello may be lost.  The vehicle is installed last, so the     *)
(* wake-ups that follow a mark belong to another node.                      *)
EXTENDS Hello

TwoRsus == {0, 1}
OneVehicle == {2}
Stacks == TwoRsus \cup OneVehicle
StartTogether == [n \in Node |-> 0]
NobodyStops == <<>>
Phase180 == [r \in Rsu |-> IF r % 2 = 0 THEN 0 ELSE Interval \div 2]
=============================================================================
