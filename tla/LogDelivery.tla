---------------------------- MODULE LogDelivery ----------------------------
(***************************************************************************)
(* What the log pipeline promises its callers, without queues, batches or  *)
(* workers: entries are taken, taken entries are stored in groups of at    *)
(* most BatchSize, a group at a time and each entry once, and closing is   *)
(* finished only when everything taken before it is stored.                *)
(*                                                                         *)
(* The comments of domain/log.go and service/log_ingest.go are the source: *)
(* BulkInsert is all-or-nothing, Submit is the hand-over, Stop drains, and *)
(* only a hard abort excuses a loss.                                       *)
(***************************************************************************)
EXTENDS Naturals, FiniteSets

CONSTANTS Entry, BatchSize

VARIABLES
    taken,      \* entries a Submit has handed over
    stored,     \* entries in the table
    closing,    \* Stop was called
    due,        \* what had been handed over at that moment
    aborted,    \* the hard abort happened
    finished    \* Stop returned nil

dvars == <<taken, stored, closing, due, aborted, finished>>

Init ==
    /\ taken = {}
    /\ stored = {}
    /\ closing = FALSE
    /\ due = {}
    /\ aborted = FALSE
    /\ finished = FALSE

Take(e) ==
    /\ e \notin taken
    /\ taken' = taken \cup {e}
    /\ UNCHANGED <<stored, closing, due, aborted, finished>>

\* A group lands as a whole, and nothing lands after Stop has returned.
Store(group) ==
    /\ group # {}
    /\ group \subseteq taken \ stored
    /\ Cardinality(group) <= BatchSize
    /\ ~finished
    /\ stored' = stored \cup group
    /\ UNCHANGED <<taken, closing, due, aborted, finished>>

Close ==
    /\ ~closing
    /\ closing' = TRUE
    /\ due' = taken
    /\ UNCHANGED <<taken, stored, aborted, finished>>

Abort ==
    /\ ~aborted
    /\ aborted' = TRUE
    /\ UNCHANGED <<taken, stored, closing, due, finished>>

Finish ==
    /\ closing
    /\ due \subseteq stored \/ aborted
    /\ finished' = TRUE
    /\ UNCHANGED <<taken, stored, closing, due, aborted>>

Next ==
    \/ \E e \in Entry : Take(e)
    \/ \E group \in SUBSET Entry : Store(group)
    \/ Close
    \/ Abort
    \/ Finish

Spec == Init /\ [][Next]_dvars
=============================================================================
