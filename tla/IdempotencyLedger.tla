------------------------- MODULE IdempotencyLedger -------------------------
(***************************************************************************)
(* The row of one idempotency key in the ledger                            *)
(* (infra/db/repos/idempotency.py), written by executors whose units of    *)
(* work overlap.  A statement is a step.                                   *)
(*                                                                         *)
(* Assumed of the database and of SQLAlchemy, which are not in this        *)
(* repository: isolation is READ COMMITTED, so a SELECT reads what is      *)
(* committed and a write waits for the unit of work that holds the row; a  *)
(* flush updates the columns whose value differs from what the session has *)
(* read; and the audit entry that an attempt appends changes the packet of *)
(* its run, so that its flush locks the packet's row.                      *)
(*                                                                         *)
(* record_ledger passes no expiry, so that rows never expire; timestamps   *)
(* are left out, and the two kinds of failure are one, as no reader tells  *)
(* them apart.                                                             *)
(***************************************************************************)
EXTENDS Integers

CONSTANTS
    Writers,       \* executors that handle tasks with this key
    LedgerTools,   \* tools the key is used for
    LedgerResults, \* results of a tool; "ok" is the successful one
    RunChoices,    \* functions from Writers to the run of its task
    MaxUnits       \* units of work in all

ASSUME LedgerAssumption == MaxUnits \in Nat /\ "ok" \in LedgerResults /\ "free" \notin Writers

NoLedgerRow == [tool |-> "none", status |-> "none", result |-> "none"]

VARIABLES
    run_of,      \* the run of each writer's task
    row,         \* the committed row
    unit,        \* per writer: where it is, what it records and what it has read
    packet_lock, \* run -> the writer whose unit of work has updated its packet, or "free"
    row_lock,    \* the writer with an uncommitted row, or "free"
    units,       \* units of work begun
    recorded     \* history: a success has been committed

ledger_vars == <<run_of, row, unit, packet_lock, row_lock, units, recorded>>

Idle == [at |-> "idle", new |-> NoLedgerRow, seen |-> NoLedgerRow, written |-> NoLedgerRow]

LedgerInit ==
    /\ run_of \in RunChoices
    /\ row = NoLedgerRow /\ unit = [w \in Writers |-> Idle]
    /\ packet_lock = [r \in {run_of[w] : w \in Writers} |-> "free"]
    /\ row_lock = "free" /\ units = 0 /\ recorded = FALSE

\* get_success: the row, when it is a success
get_success == IF row.status = "succeeded" THEN row ELSE NoLedgerRow

\* record_success and record_failure refuse a result of the other kind.
Status(result) == IF result = "ok" THEN "succeeded" ELSE "failed"

\* _should_write_existing: record_failure does not overwrite a success, and nothing does for
\* another tool.
should_write_existing(old, new) ==
    IF old.tool # new.tool THEN old.status # "succeeded"
    ELSE new.status = "succeeded" \/ old.status # "succeeded"

-----------------------------------------------------------------------------

\* maybe_use_cached_success has found no success of the tool, and the tool is run.
Execute(w) ==
    /\ unit[w].at = "idle" /\ units < MaxUnits
    /\ \E tool \in LedgerTools, result \in LedgerResults :
         /\ get_success.tool # tool
         /\ unit' = [unit EXCEPT ![w] = [Idle EXCEPT !.at = "audit",
                       !.new = [tool |-> tool, status |-> Status(result), result |-> result]]]
    /\ units' = units + 1
    /\ UNCHANGED <<run_of, row, packet_lock, row_lock, recorded>>

\* Mutant: the unit of work records the outcome before it updates the run packet.
AppendAudit_Later(w) ==
    /\ unit[w].at = "audit"
    /\ unit' = [unit EXCEPT ![w].at = "select"]
    /\ UNCHANGED <<run_of, row, packet_lock, row_lock, units, recorded>>

\* persist_outcome: append_audit updates the packet of the run, whose row is locked until the
\* unit of work ends.
AppendAudit(w) ==
    /\ unit[w].at = "audit" /\ packet_lock[run_of[w]] = "free"
    /\ unit' = [unit EXCEPT ![w].at = "select"]
    /\ packet_lock' = [packet_lock EXCEPT ![run_of[w]] = w]
    /\ UNCHANGED <<run_of, row, row_lock, units, recorded>>

\* _upsert: session.get and what follows from it
SelectRow(w, before) ==
    /\ unit[w].at = before
    /\ unit' = [unit EXCEPT ![w].seen = row,
                 ![w].at = CASE row = NoLedgerRow -> "insert"
                             [] row # NoLedgerRow /\ should_write_existing(row, unit[w].new) -> "update"
                             [] OTHER -> "commit"]
    /\ UNCHANGED <<run_of, row, packet_lock, row_lock, units, recorded>>

\* The insert of the savepoint, or its IntegrityError
Insert(w) ==
    /\ unit[w].at = "insert" /\ row_lock = "free"
    /\ IF row = NoLedgerRow
       THEN /\ row_lock' = w
            /\ unit' = [unit EXCEPT ![w].at = "commit", ![w].written = unit[w].new]
       ELSE /\ unit' = [unit EXCEPT ![w].at = "again"]
            /\ UNCHANGED row_lock
    /\ UNCHANGED <<run_of, row, packet_lock, units, recorded>>

\* After the IntegrityError; the row is there, as rows are never deleted.
SelectAgain(w) == SelectRow(w, "again")

\* The flush of the changed columns, on the row as it is by now
Update(w) ==
    /\ unit[w].at = "update" /\ row_lock = "free"
    /\ row_lock' = w
    /\ LET new == unit[w].new IN
       unit' = [unit EXCEPT ![w].at = "commit",
                 ![w].written = [c \in DOMAIN row |->
                     IF new[c] # unit[w].seen[c] THEN new[c] ELSE row[c]]]
    /\ UNCHANGED <<run_of, row, packet_lock, units, recorded>>

Unlocked(w) ==
    /\ row_lock' = IF row_lock = w THEN "free" ELSE row_lock
    /\ packet_lock' = [r \in DOMAIN packet_lock |->
                          IF packet_lock[r] = w THEN "free" ELSE packet_lock[r]]

Commit(w) ==
    /\ unit[w].at = "commit"
    /\ row' = IF row_lock = w THEN unit[w].written ELSE row
    /\ recorded' = (recorded \/ (row_lock = w /\ unit[w].new.status = "succeeded"))
    /\ unit' = [unit EXCEPT ![w] = Idle] /\ Unlocked(w)
    /\ UNCHANGED <<run_of, units>>

\* Another statement has failed, or the process has ended.
RollBack(w) ==
    /\ unit[w].at # "idle"
    /\ unit' = [unit EXCEPT ![w] = Idle] /\ Unlocked(w)
    /\ UNCHANGED <<run_of, row, units, recorded>>

LedgerNext ==
    \E w \in Writers :
        \/ Execute(w) \/ AppendAudit(w) \/ SelectRow(w, "select") \/ Insert(w) \/ SelectAgain(w)
        \/ Update(w) \/ Commit(w) \/ RollBack(w)

LedgerSpec == LedgerInit /\ [][LedgerNext]_ledger_vars

-----------------------------------------------------------------------------
(* Properties *)

\* The executors of one run never spoil the ledger, however their units of work overlap, fail
\* and are repeated: once a success is committed the ledger serves one for ever, and a success
\* that it serves has a successful result.  The check of _should_write_existing is made on what
\* the session has read; that nobody writes in between is owed to the packet of the run, which
\* persist_outcome has locked before.  Nothing of the kind orders executors of different runs
\* that share a key, and there it does not hold: a failure written over a failure that has
\* become a success leaves a row that is a success with a failed result.
LedgerKeepsSuccess ==
    (\A v, w \in Writers : run_of[v] = run_of[w]) =>
        /\ recorded => get_success # NoLedgerRow
        /\ get_success # NoLedgerRow => get_success.result = "ok"
=============================================================================
