---------------------------- MODULE OutboxPromise ----------------------------
(***************************************************************************)
(* What DVIG promises to the ERP that pushes events to it and to whoever   *)
(* reads its outbox, without saying how: an acknowledged event has been    *)
(* recorded with one content for ever, what reaches the Vault under its    *)
(* idempotency key is that content and is never replaced, and a receipt is *)
(* only shown for what the Vault holds.                                    *)
(***************************************************************************)
CONSTANTS Keys,       \* (tenant, idempotency_key) pairs
          Payloads,   \* contents an event may carry
          NoPayload   \* "nothing recorded" / "nothing stored"

VARIABLES submitted,  \* the content recorded for each key
          acked,      \* keys whose sender was told "accepted"
          stored,     \* what the Vault holds for each key
          receipted   \* keys shown as received by the Vault

vars == <<submitted, acked, stored, receipted>>

Init == /\ submitted = [k \in Keys |-> NoPayload]
        /\ acked = {}
        /\ stored = [k \in Keys |-> NoPayload]
        /\ receipted = {}

\* A new event is recorded and acknowledged at once.
Submit(k, p) ==
    /\ submitted[k] = NoPayload
    /\ submitted' = [submitted EXCEPT ![k] = p]
    /\ acked' = acked \cup {k}
    /\ UNCHANGED <<stored, receipted>>

\* A repeated submission is acknowledged and changes nothing else, whatever
\* content it carries.
Acknowledge(k) ==
    /\ submitted[k] # NoPayload
    /\ acked' = acked \cup {k}
    /\ UNCHANGED <<submitted, stored, receipted>>

\* The recorded content reaches the Vault.
Store(k) ==
    /\ submitted[k] # NoPayload
    /\ stored[k] = NoPayload
    /\ stored' = [stored EXCEPT ![k] = submitted[k]]
    /\ UNCHANGED <<submitted, acked, receipted>>

\* The Vault's receipt is shown.
Receipt(k) ==
    /\ stored[k] # NoPayload
    /\ receipted' = receipted \cup {k}
    /\ UNCHANGED <<submitted, acked, stored>>

Next == \E k \in Keys : \/ \E p \in Payloads : Submit(k, p)
                        \/ Acknowledge(k)
                        \/ Store(k)
                        \/ Receipt(k)

Spec == Init /\ [][Next]_vars
==============================================================================
