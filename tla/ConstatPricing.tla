----------------------------- MODULE ConstatPricing -----------------------------
(***************************************************************************)
(* From the volume of a constat to an invoice, in Odoo CORE: the pricing   *)
(* rules of a contract for one kind of document, the loop that applies     *)
(* them (_apply_tier_pricing and _apply_tier_pricing_detailed, which are   *)
(* the same but for what they add up), and the lines of                    *)
(* action_generate_invoice.                                                *)
(*                                                                         *)
(* Prices are cents; amounts are hundredths of a cent, so that a discount  *)
(* of whole percents is exact.  Tax comes after and is left out.           *)
(***************************************************************************)
EXTENDS Integers, Sequences

CONSTANTS
    Forms,     \* what a user may enter as a rule; tier_to may be left empty
    Volumes,   \* volumes of a constat
    MaxRules,  \* rules of a contract
    Empty      \* a field left empty

Tiered(tiers) == [tier_from : Nat, tier_to : tiers, price_unit : Nat,
                  fixed_amount : Nat, discount_percent : 0..100]

ASSUME PricingAssumption ==
    /\ Empty \notin Nat /\ MaxRules \in Nat
    /\ Forms \subseteq Tiered(Nat \cup {Empty})
    /\ Volumes \subseteq Nat \ {0}

VARIABLES
    rules,      \* the active rules, in the order of their sequence field
    refused,    \* the rules the form has refused
    pc,         \* "contract", then "pricing", then "invoiced" or "nothing"
    volume,
    i,          \* the rule the loop is at
    processed,  \* volume_processed
    based,      \* fixed_amount_applied
    fixed, variable,
    charged,    \* which rule each document of the volume has been charged by, or 0
    lines       \* the total of the invoice's lines

vars == <<rules, refused, pc, volume, i, processed, based, fixed, variable, charged, lines>>

Rule == Tiered(Nat)
Documents == 0..volume-1

TypeOK ==
    /\ rules \in Seq(Rule) /\ refused \subseteq Forms
    /\ pc \in {"contract", "pricing", "invoiced", "nothing"}
    /\ volume \in Nat /\ i \in Nat /\ processed \in 0..volume
    /\ based \in BOOLEAN /\ fixed \in Nat /\ variable \in Nat
    /\ charged \in [Documents -> 0..Len(rules)]
    /\ lines \in Nat

Init == /\ rules = <<>> /\ refused = {} /\ pc = "contract"
        /\ volume = 0 /\ i = 1 /\ processed = 0
        /\ based = FALSE /\ fixed = 0 /\ variable = 0
        /\ charged = [k \in 0..-1 |-> 0] /\ lines = 0

account == <<volume, i, processed, based, fixed, variable, charged, lines>>

-----------------------------------------------------------------------------
\* The value of an Integer field: 0 when it is empty, never None.
Value(field) == IF field = Empty THEN 0 ELSE field

\* Saving a rule: _check_tiers refuses one whose end is not after its start.
SaveRule(form) ==
    /\ pc = "contract" /\ Len(rules) < MaxRules
    /\ IF Value(form.tier_to) <= form.tier_from
       THEN refused' = refused \cup {form} /\ rules' = rules
       ELSE /\ rules' = Append(rules, [form EXCEPT !.tier_to = Value(form.tier_to)])
            /\ UNCHANGED refused
    /\ UNCHANGED <<pc, account>>

\* _compute_amounts, for a volume that is not 0.
Receive(v) ==
    /\ pc = "contract"
    /\ pc' = "pricing" /\ volume' = v
    /\ charged' = [k \in 0..v-1 |-> 0]
    /\ UNCHANGED <<rules, refused, i, processed, based, fixed, variable, lines>>

\* _apply_discount, to an amount in cents.
Net(cents, r) == cents * (100 - r.discount_percent)

FromTier(r)    == r.tier_from  \* mutant of From: what was charged is forgotten
UntilTier(r)   == r.tier_to    \* mutant of Until: a tier is charged to its end
UntilVolume(r) == volume       \* mutant of Until: the end of a tier is ignored
UntilBefore(r) == IF r.tier_to < volume THEN r.tier_to - 1 ELSE volume  \* mutant of Until: off by one
\* The range of documents a rule charges: effective_start and effective_end.
From(r)   == IF r.tier_from > processed THEN r.tier_from ELSE processed
Until(r)  == IF r.tier_to < volume THEN r.tier_to ELSE volume
Applies(r) == processed < volume /\ volume >= r.tier_from

AddFixedAgain(r) ==  \* mutant of AddFixed: every rule that applies adds its own
    IF r.fixed_amount > 0
    THEN fixed' = fixed + Net(r.fixed_amount, r) /\ based' = TRUE
    ELSE UNCHANGED <<fixed, based>>
\* The fixed amount, of the first rule that applies and has one.
AddFixed(r) ==
    IF ~based /\ r.fixed_amount > 0
    THEN fixed' = fixed + Net(r.fixed_amount, r) /\ based' = TRUE
    ELSE UNCHANGED <<fixed, based>>

Charge(r) ==
    IF From(r) < Until(r)
    THEN /\ variable' = variable + Net((Until(r) - From(r)) * r.price_unit, r)
         /\ charged' = [k \in Documents |-> IF k \in From(r)..Until(r)-1 THEN i ELSE charged[k]]
         /\ processed' = Until(r)
    ELSE UNCHANGED <<variable, charged, processed>>

ApplyRule ==
    /\ pc = "pricing" /\ i <= Len(rules)
    /\ i' = i + 1
    /\ IF Applies(rules[i])
       THEN AddFixed(rules[i]) /\ Charge(rules[i])
       ELSE UNCHANGED <<fixed, based, variable, charged, processed>>
    /\ UNCHANGED <<rules, refused, pc, volume, lines>>

\* float_round of a quotient, half up.
RoundedQuotient(a, b) == (2 * a + b) \div (2 * b)

\* The unit price of the variable line: four decimals, then two.
UnitPrice == RoundedQuotient(RoundedQuotient(variable, volume), 100)

\* action_generate_invoice refuses to invoice nothing; otherwise one line for
\* the fixed amount and one of `volume` units for the rest, in whole cents.
GenerateInvoice ==
    /\ pc = "pricing" /\ i > Len(rules)
    /\ IF fixed + variable = 0
       THEN pc' = "nothing" /\ lines' = 0
       ELSE pc' = "invoiced" /\ lines' = 100 * (RoundedQuotient(fixed, 100) + volume * UnitPrice)
    /\ UNCHANGED <<rules, refused, volume, i, processed, based, fixed, variable, charged>>

\* The constat has been dealt with.
Done == pc \in {"invoiced", "nothing"} /\ UNCHANGED vars

Next == \/ \E form \in Forms : SaveRule(form)
        \/ \E v \in Volumes : Receive(v)
        \/ ApplyRule \/ GenerateInvoice \/ Done

Spec == Init /\ [][Next]_vars

-----------------------------------------------------------------------------
Over == pc \in {"invoiced", "nothing"}

\* A document is only charged at the price of the tier it falls in, whatever
\* the tiers and their order (dorevia_constat.py:232-240).
ChargedInTier ==
    \A k \in Documents : charged[k] # 0 =>
        rules[charged[k]].tier_from <= k /\ k < rules[charged[k]].tier_to

\* No document is charged twice, even by tiers that overlap, and none beyond
\* the volume (dorevia_constat.py:232, 240).
ChargedOnce == [][pc = "pricing" => \A k \in Documents : charged[k] # 0 => charged'[k] = charged[k]]_vars

\* The price a document is charged.
Price(k) == IF charged[k] = 0 THEN 0 ELSE Net(rules[charged[k]].price_unit, rules[charged[k]])

\* What the first n documents are charged, where p[k] is the price of document k.
PartialSums(p) == LET sum[n \in Nat] == IF n = 0 THEN 0 ELSE sum[n - 1] + p[n - 1] IN sum

\* The variable amount is the sum of what the documents are charged
\* (dorevia_constat.py:235-240).
VariableIsCharged == variable = PartialSums([k \in Documents |-> Price(k)])[volume]

\* The fixed amount is due once: it is that of one rule, or none
\* (dorevia_constat.py:227-229).
FixedOnce == fixed = 0 \/ \E n \in DOMAIN rules : fixed = Net(rules[n].fixed_amount, rules[n])

\* Tiers that follow one another from 0 charge every document up to the end
\* of the last one (dorevia_constat.py:216-240).
Consecutive ==
    \A n \in DOMAIN rules :
        rules[n].tier_from = IF n = 1 THEN 0 ELSE rules[n - 1].tier_to

ConsecutiveIsCharged ==
    Over /\ Consecutive =>
        \A k \in Documents, n \in DOMAIN rules : k < rules[n].tier_to => charged[k] # 0

\* "Cela garantit que le montant total soit exactement celui calculé": where
\* every document has a price and the amount computed is in whole cents, the
\* invoice's lines add up to it (dorevia_constat.py:352-353, 383).
InvoiceIsAmount ==
    /\ pc = "invoiced"
    /\ \A k \in Documents : charged[k] # 0
    /\ (fixed + variable) % 100 = 0
    => lines = fixed + variable

\* What holds in its place: the invoice is off by no more than the rounding of the unit price, half a
\* cent and a little per document (dorevia_constat.py:384-389).
InvoiceWithinRounding ==
    pc = "invoiced" =>
        LET off == lines - (fixed + variable)
            bound == 101 * volume + 100
        IN -bound <= 2 * off /\ 2 * off <= bound
==============================================================================
