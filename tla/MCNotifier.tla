----------------------------- MODULE MCNotifier -----------------------------
(* Instances of Notifier.tla for TLC.                                      *)
EXTENDS Notifier

MCSeverity == [r \in Rule |-> IF r = "quiet" THEN "warn" ELSE "danger"]
=============================================================================
