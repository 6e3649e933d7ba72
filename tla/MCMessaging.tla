----------------------------- MODULE MCMessaging -----------------------------
(* Messaging on a small instance.                                           *)
EXTENDS Messaging, TLC

CONSTANTS h1, h2, c1, c2

MessagingSymmetry == Permutations({h1, h2}) \cup Permutations({c1, c2})
==============================================================================
