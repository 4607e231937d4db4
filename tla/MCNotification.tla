--------------------------- MODULE MCNotification ---------------------------
(* Instances of Notification for TLC.                                      *)
EXTENDS Notification, TLC

\* The customer's mail address is not on file.
NoMail == {<<c, "email">> : c \in Customer}

MCSymmetry == Permutations(Request) \cup Permutations(Server)
=============================================================================
