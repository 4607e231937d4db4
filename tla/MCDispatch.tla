----------------------------- MODULE MCDispatch -----------------------------
(* Instances of Dispatch for TLC.                                          *)
EXTENDS Dispatch, TLC

MCChannel == {"app", "sms", "email", "rm_call", "app_push"}

\* The one channel whose outreach leaves more than a line in the log.
MCPreferred == [c \in Customer |-> "app"]

\* Tasks and workers are interchangeable; customers are not (profiles).
MCSymmetry == Permutations(Task) \cup Permutations(Worker)
=============================================================================
