----------------------------- MODULE ReplayPromise -----------------------------
(***************************************************************************)
(* What a replay owes a tenant, without sequence numbers, batches, runners *)
(* or retries: a document is posted in Odoo for an event that the Vault    *)
(* knows and that a job was asked to apply, once and for ever; whatever a  *)
(* job shows as passed, and everything it was due when it is said to be    *)
(* completed, is in Odoo or has failed, which is reported unless the       *)
(* report is lost.                                                         *)
(***************************************************************************)
EXTENDS Naturals

CONSTANTS Events, Jobs

VARIABLES
    known,      \* events that have come
    documents,  \* documents posted in Odoo for each event
    asked,      \* jobs that were asked for
    wanted,     \* the events each was asked to apply, those to come included
    due,        \* those of them there were at the time
    failed,     \* those it has seen fail
    reported,   \* those it says have failed
    passed,     \* those its progress says it is done with
    completed   \* jobs said to be completed

vars == <<known, documents, asked, wanted, due, failed, reported, passed, completed>>
reports == <<failed, reported>>

Nothing == [j \in Jobs |-> {}]

Init == /\ known = {} /\ asked = {} /\ completed = {}
        /\ documents = [e \in Events |-> 0]
        /\ wanted = Nothing /\ due = Nothing /\ passed = Nothing
        /\ failed = Nothing /\ reported = Nothing

Arrive(e) ==
    /\ known' = known \cup {e}
    /\ UNCHANGED <<documents, asked, wanted, due, reports, passed, completed>>

Ask(j, S) ==
    /\ j \notin asked
    /\ asked' = asked \cup {j}
    /\ wanted' = [wanted EXCEPT ![j] = S]
    /\ due' = [due EXCEPT ![j] = S \cap known]
    /\ UNCHANGED <<known, documents, reports, passed, completed>>

\* An event fails, and is reported unless the report is lost.
ToReport(j, e) ==
    /\ j \in asked /\ e \in wanted[j] \cap known
    /\ failed' = [failed EXCEPT ![j] = @ \cup {e}]
    /\ reported' = [reported EXCEPT ![j] = @ \cup {e}] \/ UNCHANGED reported

\* A document is posted.  When its answer is lost a job reports the event though
\* it was applied.
Apply(e) ==
    /\ e \in known /\ documents[e] = 0
    /\ \E j \in asked : e \in wanted[j]
    /\ documents' = [documents EXCEPT ![e] = 1]
    /\ UNCHANGED reports \/ \E j \in asked : ToReport(j, e)
    /\ UNCHANGED <<known, asked, wanted, due, passed, completed>>

Report(j, e) ==
    /\ ToReport(j, e)
    /\ UNCHANGED <<known, documents, asked, wanted, due, passed, completed>>

Settled(j) == {e \in wanted[j] : documents[e] # 0} \cup failed[j]

\* The progress is shown anew, by a runner that may be behind another.
Advance(j, S) ==
    /\ j \in asked /\ S \subseteq Settled(j)
    /\ passed' = [passed EXCEPT ![j] = S]
    /\ UNCHANGED <<known, documents, asked, wanted, due, reports, completed>>

Complete(j) ==
    /\ j \in asked /\ due[j] \subseteq Settled(j)
    /\ completed' = completed \cup {j}
    /\ UNCHANGED <<known, documents, asked, wanted, due, reports, passed>>

\* Another runner takes it for running, or failed.
Reopen(j) ==
    /\ completed' = completed \ {j}
    /\ UNCHANGED <<known, documents, asked, wanted, due, reports, passed>>

Next == \/ \E e \in Events : Arrive(e) \/ Apply(e)
        \/ \E j \in Jobs : \/ \E S \in SUBSET Events : Ask(j, S) \/ Advance(j, S)
                           \/ \E e \in Events : Report(j, e)
                           \/ Complete(j) \/ Reopen(j)

Spec == Init /\ [][Next]_vars
==============================================================================
