---------------------------- MODULE MCConstatPricing ----------------------------
(***************************************************************************)
(* Instances of ConstatPricing for TLC.                                    *)
(***************************************************************************)
EXTENDS ConstatPricing, TLC

Entered(from, to, price, base, discount) ==
    [tier_from |-> from, tier_to |-> to, price_unit |-> price,
     fixed_amount |-> base, discount_percent |-> discount]

\* Two rules the form refuses: an empty range, and an end left empty.
Refusable == {Entered(3, 3, 1, 0, 0), Entered(2, Empty, 1, 0, 0)}

Tiers == {<<0, 2>>, <<0, 5>>, <<2, 4>>, <<4, 9>>}

\* Tiers that follow one another, overlap or leave gaps, with and without a
\* fixed amount and a discount.
MCForms == Refusable \cup
    {Entered(t[1], t[2], p, IF d = 0 THEN 0 ELSE 50, d) : t \in Tiers, p \in {1, 5}, d \in {0, 15}}
==============================================================================
