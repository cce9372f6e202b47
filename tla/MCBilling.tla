----------------------------- MODULE MCBilling -----------------------------
(* Small instances of Billing; webhook requests are interchangeable.        *)
EXTENDS Billing, TLC

Symmetry == Permutations(Webhooks) \cup Permutations(Subs)
=============================================================================
