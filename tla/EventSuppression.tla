-------------------------- MODULE EventSuppression --------------------------
(***************************************************************************)
(* reflexor.orchestrator.event_suppression and the commands on its rows:   *)
(* the row of one signature, observed by events and cleared by operators   *)
(* in transactions that read, compute and write.                           *)
(*                                                                         *)
(* A transaction writes the columns it has changed of the row it has read, *)
(* and the others keep what is in the table by then.                       *)
(***************************************************************************)
EXTENDS Naturals

CONSTANTS
    Observers, Operators,   \* events of the signature, calls of clear
    WindowMs, Threshold, TtlMs,
    MaxNow                  \* bound of the clock

ASSUME SuppressionConstants ==
    /\ Observers \cap Operators = {}
    /\ WindowMs \in Nat \ {0} /\ Threshold \in Nat \ {0} /\ TtlMs \in Nat \ {0}

Never == 0                     \* NULL in a column of times: the clock starts at 1
NoRow == [count |-> 0]
Columns == {"start", "count", "until", "created", "updated", "expires", "cleared"}

VARIABLES
    suppression,   \* the event_suppressions row, or NoRow
    txn,           \* txn[x]: "idle", "begun", "read" or the outcome of x
    began,         \* began[x]: now_ms of x, taken before the row is read
    seen,          \* seen[x]: the row as x has read it
    tripped,       \* history: the latest now_ms of an event beyond the threshold
    now

suppression_vars == <<suppression, txn, began, seen, tripped, now>>
Transactions == Observers \cup Operators

SuppressionInit ==
    /\ suppression = NoRow
    /\ txn = [x \in Transactions |-> "idle"]
    /\ began = [x \in Transactions |-> 1]
    /\ seen = [x \in Transactions |-> NoRow]
    /\ tripped = 0
    /\ now = 1

\* _validated_record
ValidRecord(r) ==
    /\ r.created <= r.updated /\ r.updated <= r.expires
    /\ r.until # Never => r.updated <= r.until /\ r.until <= r.expires
    /\ r.cleared # Never => r.created <= r.cleared /\ r.cleared <= r.updated

\* _is_active_suppression; also the condition of count_active and list_active.
is_active_suppression(r, t) == r # NoRow /\ r.until # Never /\ r.until > t /\ r.expires > t

Suppressed(r, t) == r # NoRow /\ t < r.expires /\ r.until # Never /\ t < r.until

\* The row an event counts on: expired rows and rows past their suppression are deleted.
Existing(r, t) == IF r # NoRow /\ t < r.expires /\ r.until = Never THEN r ELSE NoRow

\* The record an event that is not suppressed writes.
Counted(r, t) ==
    LET old == Existing(r, t)
        fresh == old = NoRow \/ (old # NoRow /\ t - old.start >= WindowMs)
        start == IF fresh THEN t ELSE old.start
        count == IF fresh THEN 1 ELSE old.count + 1
        trips == count > Threshold
    IN  [start |-> start, count |-> count, updated |-> t,
         until |-> IF trips THEN t + TtlMs ELSE Never,
         expires |-> IF trips THEN t + TtlMs ELSE start + WindowMs,
         created |-> IF fresh THEN t ELSE old.created,
         cleared |-> IF old = NoRow THEN Never ELSE old.cleared]

\* Mutant: every suppressed event prolongs the suppression.
Observed_Prolongs(r, t) ==
    IF Suppressed(r, t)
    THEN [r EXCEPT !.count = @ + 1, !.updated = t, !.until = t + TtlMs, !.expires = t + TtlMs]
    ELSE Counted(r, t)

\* DbEventSuppressor.observe: the record to store.
Observed(r, t) ==
    IF Suppressed(r, t) THEN [r EXCEPT !.count = @ + 1, !.updated = t] ELSE Counted(r, t)

\* EventSuppressionCommandService.clear: the record to store.
Cleared(r, t) ==
    [r EXCEPT !.start = t, !.count = 0, !.until = Never, !.cleared = t, !.updated = t,
              !.expires = t + WindowMs]

----------------------------------------------------------------------------

BeginTransaction(x) ==
    /\ txn[x] = "idle"
    /\ txn' = [txn EXCEPT ![x] = "begun"]
    /\ began' = [began EXCEPT ![x] = now]
    /\ UNCHANGED <<suppression, seen, tripped, now>>

\* repo.get; clear finds only active suppressions.
ReadRow(x) ==
    /\ txn[x] = "begun"
    /\ seen' = [seen EXCEPT ![x] = suppression]
    /\ txn' = [txn EXCEPT ![x] =
                 IF x \in Operators /\ ~is_active_suppression(suppression, began[x])
                 THEN "not_found" ELSE "read"]
    /\ UNCHANGED <<suppression, began, tripped, now>>

\* UPDATE of the columns that differ from the row that was read.
Changed(x, new) ==
    [c \in Columns |-> IF new[c] # seen[x][c] THEN new[c] ELSE suppression[c]]

\* The transaction is over.
Forget(x) == seen' = [seen EXCEPT ![x] = NoRow] /\ began' = [began EXCEPT ![x] = 1]

\* repo.upsert and the commit.  A row that was not there, or was deleted before, is
\* written as a whole, unless another transaction has inserted one since upsert looked;
\* an update of a row that is gone fails; an invalid record is refused.
upsert(x, new, replaces, outcome) ==
    \/ /\ ValidRecord(new) /\ replaces
       /\ suppression' = new
       /\ txn' = [txn EXCEPT ![x] = outcome]
    \/ /\ ValidRecord(new) /\ ~replaces /\ suppression # NoRow
       /\ suppression' = Changed(x, new)
       /\ txn' = [txn EXCEPT ![x] = outcome]
    \/ /\ \/ ~ValidRecord(new)
          \/ ~replaces /\ suppression = NoRow
          \/ seen[x] = NoRow /\ suppression # NoRow
       /\ txn' = [txn EXCEPT ![x] = "error"]
       /\ UNCHANGED suppression

observe(x) ==
    LET t == began[x]
        new == Observed(seen[x], t)
        trips == ~Suppressed(seen[x], t) /\ new.until # Never
    IN
    /\ x \in Observers /\ txn[x] = "read"
    /\ upsert(x, new, ~Suppressed(seen[x], t) /\ Existing(seen[x], t) = NoRow,
              IF new.until # Never THEN "suppressed" ELSE "passed")
    /\ tripped' = IF trips /\ t > tripped THEN t ELSE tripped
    /\ Forget(x) /\ UNCHANGED now

clear(x) ==
    /\ x \in Operators /\ txn[x] = "read"
    /\ upsert(x, Cleared(seen[x], began[x]), FALSE, "cleared")
    /\ Forget(x) /\ UNCHANGED <<tripped, now>>

SuppressionClock ==
    /\ now < MaxNow /\ now' = now + 1
    /\ UNCHANGED <<suppression, txn, began, seen, tripped>>

SuppressionNext ==
    \/ \E x \in Transactions : BeginTransaction(x) \/ ReadRow(x) \/ observe(x) \/ clear(x)
    \/ SuppressionClock

SuppressionSpec == SuppressionInit /\ [][SuppressionNext]_suppression_vars

----------------------------------------------------------------------------

\* A suppression ends TtlMs after an event that has passed the threshold, however many
\* events it suppresses meanwhile and whatever they race with (DbEventSuppressor.observe).
SuppressionEnds ==
    suppression # NoRow /\ suppression.until # Never => suppression.until <= tripped + TtlMs
=============================================================================
