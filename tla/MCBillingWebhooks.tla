------------------------- MODULE MCBillingWebhooks -------------------------
(***************************************************************************)
(* Instances of BillingWebhooks for TLC.                                   *)
(***************************************************************************)
EXTENDS BillingWebhooks

CONSTANTS q1, w1, sweep1

TwoEvents == 1 .. 2
ThreeEvents == 1 .. 3
First == {1}
FirstTwo == {1, 2}
Second == {2}
Third == {3}
OneRequest == {q1}
OneWorker == {w1}
OneSweeper == {sweep1}
============================================================================
