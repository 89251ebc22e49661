---------------------------- MODULE ConstatPromise ----------------------------
(***************************************************************************)
(* What a tenant and the one who bills it may rely on, whatever processes, *)
(* retries and lost answers lie between the Vault and Odoo CORE: a (tenant,*)
(* period) has one constat for ever, which is no other's; CORE bills that  *)
(* one, once; and it is said to be transmitted only when CORE has it.      *)
(***************************************************************************)
CONSTANTS Pairs,  \* (tenant, period)
          Ids,    \* constat_id values
          None

VARIABLES kept,      \* the constat of each pair in the Vault
          billed,    \* the constat CORE holds for each pair
          invoiced,  \* the pairs CORE has invoiced
          told       \* the pairs whose constat is said to be transmitted

vars == <<kept, billed, invoiced, told>>

Init == /\ kept = [p \in Pairs |-> None]
        /\ billed = [p \in Pairs |-> None]
        /\ invoiced = {} /\ told = {}

Certify(p, id) ==
    /\ kept[p] = None /\ \A q \in Pairs : kept[q] # id
    /\ kept' = [kept EXCEPT ![p] = id]
    /\ UNCHANGED <<billed, invoiced, told>>

\* CORE receives the constat, and may invoice it at once.
Bill(p) ==
    /\ kept[p] # None /\ billed[p] = None
    /\ billed' = [billed EXCEPT ![p] = kept[p]]
    /\ invoiced' = invoiced \/ invoiced' = invoiced \cup {p}
    /\ UNCHANGED <<kept, told>>

Invoice(p) ==
    /\ billed[p] # None /\ p \notin invoiced
    /\ invoiced' = invoiced \cup {p}
    /\ UNCHANGED <<kept, billed, told>>

Tell(p) ==
    /\ billed[p] # None
    /\ told' = told \cup {p}
    /\ UNCHANGED <<kept, billed, invoiced>>

\* A transmission that ends later has failed.
Untell(p) == told' = told \ {p} /\ UNCHANGED <<kept, billed, invoiced>>

Next == \E p \in Pairs : \/ \E id \in Ids : Certify(p, id)
                         \/ Bill(p) \/ Invoice(p)
                         \/ Tell(p) \/ Untell(p)

Spec == Init /\ [][Next]_vars
==============================================================================
