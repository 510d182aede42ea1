------------------------------- MODULE Reports -------------------------------
(***************************************************************************)
(* The log of wrongly flagged messages: FalsePositiveReporter over the     *)
(* native store, which fails soft.                                         *)
(*                                                                         *)
(* An operation is suspended in ensureLoaded until the first load is back; *)
(* its own part and the save that ends it follow without an await between. *)
(* A report is a model value; the order of the log is left out.            *)
(***************************************************************************)
EXTENDS FiniteSets

CONSTANTS
    ReportIds,  \* bound: reports made
    Ops         \* bound: operations suspended at a time

VARIABLES
    pending,  \* the log in memory
    loaded,
    disk,     \* the log in the native store
    op,       \* the suspended operations: what they do, and what their load read
    batch,    \* the batch a caller of flush has and has not restored
    made      \* the reports made so far

reportVars == <<pending, loaded, disk, op, batch, made>>

\* An operation: a report, or flush or restore; read: the answer of the store;
\* early: its load was asked for before any load had come back.
NoOp == [does |-> "count", at |-> "idle", read |-> {}, early |-> FALSE]
Does == ReportIds \union {"flush", "restore", "count"}

ReportsInit ==
    /\ pending = {} /\ loaded = FALSE /\ disk = {} /\ batch = {} /\ made = {}
    /\ op = [k \in Ops |-> NoOp]

\* sink.save, at the end of an operation: written, or not, and nobody is told.
Save(log) == disk' \in {log, disk}

\* The part of an operation after ensureLoaded, over the log of that moment.
Body(does, log) ==
    IF does = "flush" THEN
        /\ pending' = {} /\ batch' = batch \union log /\ Save({})
    ELSE IF does = "restore" THEN
        /\ pending' = log \union batch /\ batch' = {} /\ Save(log \union batch)
    ELSE IF does = "count" THEN
        /\ pending' = log /\ UNCHANGED <<disk, batch>>
    ELSE
        /\ pending' = log \union {does} /\ Save(log \union {does}) /\ UNCHANGED batch

\* The operation asks the store for the log.
Asking(does) == [does |-> does, at |-> "load", read |-> {}, early |-> ~loaded]

\* Mutant of Begin: ensureLoaded loads every time.
BeginReloads(k, does) ==
    /\ op[k] = NoOp /\ does \notin made
    /\ made' = made \union ({does} \intersect ReportIds)
    /\ op' = [op EXCEPT ![k] = Asking(does)]
    /\ UNCHANGED <<pending, loaded, disk, batch>>

\* An operation begins; it goes through at once when the log is loaded.
Begin(k, does) ==
    /\ op[k] = NoOp /\ does \notin made
    /\ made' = made \union ({does} \intersect ReportIds)
    /\ IF loaded
       THEN Body(does, pending) /\ UNCHANGED <<loaded, op>>
       ELSE /\ op' = [op EXCEPT ![k] = Asking(does)]
            /\ UNCHANGED <<pending, loaded, disk, batch>>

\* An operation whose load is back.
Answered(k, log) == [op[k] EXCEPT !.at = "read", !.read = log]

\* The native store reads its file, or fails, which counts as an empty log.
Read(k) ==
    /\ op[k].at = "load"
    /\ \E log \in {disk, {}} : op' = [op EXCEPT ![k] = Answered(k, log)]
    /\ UNCHANGED <<pending, loaded, disk, batch, made>>

\* The load is back: it replaces the log, whatever that is by now.
Resume(k) ==
    /\ op[k].at = "read"
    /\ op' = [op EXCEPT ![k] = NoOp]
    /\ loaded' = TRUE
    /\ Body(op[k].does, op[k].read)
    /\ UNCHANGED made

\* The process ends, and with it what was only in memory.
Restart ==
    /\ pending' = {} /\ loaded' = FALSE /\ batch' = {}
    /\ op' = [k \in Ops |-> NoOp]
    /\ UNCHANGED <<disk, made>>

ReportsNext ==
    \/ \E k \in Ops :
        \/ \E does \in Does : Begin(k, does)
        \/ Read(k) \/ Resume(k)
    \/ Restart

ReportsSpec == ReportsInit /\ [][ReportsNext]_reportVars

-----------------------------------------------------------------------------
(* Properties.                                                             *)

\* The reports that are recorded: in the log, or with the caller that flushed them.
Held == (IF loaded THEN pending ELSE disk) \union batch

\* The process ended before a save had written the report.
DiedUnsaved(r) == ~loaded' /\ r \notin disk

\* An operation that had asked for the log before it was there goes on with what
\* its load read, and the report was not in it: recorded meanwhile by another
\* first operation, or in a file that could not be read.
WipedByEarlyLoad(r) ==
    \E k \in Ops :
        /\ op[k].at = "read" /\ op'[k].at = "idle"
        /\ op[k].early /\ r \notin op[k].read

\* A recorded report is lost in these two ways and no other: a flush hands it over,
\* a restore takes it back, a failed save leaves it in memory, and once the log is
\* there no new operation loads it again.
OnlyEarlyLoadWipes ==
    [][\A r \in Held : r \in Held' \/ DiedUnsaved(r) \/ WipedByEarlyLoad(r)]_reportVars

(* What the code's comments say, and the code does not do.                 *)

\* reports.ts:36-38 "Collects false-positive reports and hands them off in batches
\* ... the caller uploads it (Phase 2) and, on failure, can `restore` it to retry
\* later": no operation loses a report.
ReportStays == [][\A r \in Held : r \in Held' \/ DiedUnsaved(r)]_reportVars
=============================================================================
