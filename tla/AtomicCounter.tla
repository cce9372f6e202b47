--------------------------- MODULE AtomicCounter ---------------------------
(***************************************************************************)
(* What a usage counter promises: one number that only grows, to which     *)
(* every metered transaction adds its amount in one indivisible step, and  *)
(* which answers that transaction with the total right after its addition. *)
(***************************************************************************)
EXTENDS Naturals

CONSTANTS Workers, Amounts

VARIABLES
    total,   \* the metered amount so far
    told     \* told[w]: the total last reported to w by a metered transaction

Init ==
    /\ total = 0
    /\ told = [w \in Workers |-> 0]

Add(w, n) ==
    /\ total' = total + n
    /\ told' = [told EXCEPT ![w] = total + n]

Next == \E w \in Workers, n \in Amounts : Add(w, n)

Spec == Init /\ [][Next]_<<total, told>>
=============================================================================
