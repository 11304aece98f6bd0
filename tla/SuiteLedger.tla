---------------------------- MODULE SuiteLedger ----------------------------
(***************************************************************************)
(* What a declared eval suite promises, with no process, file or crash in  *)
(* sight: every planned attempt has one outcome, drawn once and never      *)
(* drawn again; an entry whose evidence is spoilt is never repaired; and   *)
(* the suite is complete only over entries all closed and none spoilt.     *)
(* A suite is such a ledger (EvalSuite), and each of its attempts is one   *)
(* with a single entry (AgentTask).                                        *)
(***************************************************************************)
CONSTANTS
    Entry,      \* the planned attempts
    Draw,       \* what can be an outcome
    NoDraw      \* and what is none

VARIABLES
    outcome,    \* each entry's outcome
    closed,     \* the entries that are scored and recorded
    spoilt,     \* the entries whose evidence can no longer be trusted
    complete    \* the suite is complete

vars == <<outcome, closed, spoilt, complete>>

Init ==
    /\ outcome = [e \in Entry |-> NoDraw]
    /\ closed = {}
    /\ spoilt = {}
    /\ complete = FALSE

\* Some outcome is drawn for an entry that has none.
DrawOutcome(e) ==
    /\ outcome[e] = NoDraw /\ e \notin spoilt
    /\ outcome'[e] \in Draw
    /\ outcome' = [outcome EXCEPT ![e] = outcome'[e]]

\* The outcome of a model attempt is its generation.
Commit(e) ==
    /\ DrawOutcome(e)
    /\ UNCHANGED <<closed, spoilt, complete>>

\* The entry is scored and recorded.
Close(e) ==
    /\ outcome[e] # NoDraw /\ e \notin closed \cup spoilt
    /\ closed' = closed \cup {e}
    /\ UNCHANGED <<outcome, spoilt, complete>>

\* A control attempt is drawn and recorded in one write.
CommitAndClose(e) ==
    /\ DrawOutcome(e)
    /\ closed' = closed \cup {e}
    /\ UNCHANGED <<spoilt, complete>>

\* A write is cut short, or stored evidence is damaged.
Spoil(e) ==
    /\ ~complete /\ e \notin spoilt
    /\ spoilt' = spoilt \cup {e}
    /\ UNCHANGED <<outcome, closed, complete>>

Complete ==
    /\ ~complete
    /\ closed = Entry /\ spoilt = {}
    /\ complete' = TRUE
    /\ UNCHANGED <<outcome, closed, spoilt>>

Next ==
    \/ \E e \in Entry : Commit(e) \/ CommitAndClose(e) \/ Close(e) \/ Spoil(e)
    \/ Complete

Spec == Init /\ [][Next]_vars
=============================================================================
