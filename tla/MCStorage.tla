----------------------------- MODULE MCStorage ------------------------------
(* A run of two tasks: the second waits for the first and for an approval.   *)
EXTENDS Storage, TLC

First == "first"
Second == "second"
TwoStored == {First, Second}
SecondAfterFirst == (First :> {}) @@ (Second :> {First})
GatedSecond == {Second}

\* The clocks of the planning node and of one worker are ahead of the others.
TwoAhead ==
    [n \in {"planner", "api", "maintenance", "wa", "wb"} |-> IF n \in {"planner", "wa"} THEN 1 ELSE 0]
AllInStep == [n \in {"planner", "api", "maintenance", "wa", "wb"} |-> 0]

\* The storage variables where nothing is stored
StorageIdle ==
    /\ store_time = MaxStoreTime /\ ended = MaxEnded
    /\ task_rows = [t \in StoredTasks |-> NewRecord(0)]
    /\ approval_rows = [t \in StoredTasks |-> NoRecord]
    /\ packet_row = NewPacket([t \in StoredTasks |-> "PENDING"], 0)
    /\ memory_row = NoRecord /\ held = [w \in StoreWorkers |-> Free] /\ pass = NoPass
=============================================================================
