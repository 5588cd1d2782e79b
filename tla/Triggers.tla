------------------------------ MODULE Triggers ------------------------------
(***************************************************************************)
(* reflexor.orchestrator.triggers: the debouncer that turns a burst of     *)
(* trigger() calls into one planning cycle, and the ticker beside it.      *)
(*                                                                         *)
(* Times are kept relative to the monotonic clock, saturating where the    *)
(* code only compares them with it: time since the last trigger, time left *)
(* until due_ms and until the next tick.                                   *)
(***************************************************************************)
EXTENDS Naturals

CONSTANTS
    DebounceMs, IntervalMs,
    MaxTriggers     \* bound: calls of trigger()

ASSUME TriggersConstants == DebounceMs \in Nat /\ IntervalMs \in Nat \ {0} /\ MaxTriggers \in Nat

VARIABLES
    debouncer,      \* where its _run_loop is: "wait", "window", "callback" or "stopped"
    trigger_event,  \* DebouncedTrigger._trigger_event
    since_trigger,  \* the clock - _last_trigger_monotonic_ms, at most DebounceMs
    due_in,         \* due_ms - the clock, at least 0
    ticker,         \* "sleep", "callback" or "stopped"
    tick_in,        \* _next_tick_monotonic_ms - the clock, at least 0
    triggers_closed,
    trigger_calls

trigger_vars == <<debouncer, trigger_event, since_trigger, due_in, ticker, tick_in,
                  triggers_closed, trigger_calls>>

\* Both loops wait, or have not been started.
TriggersInit ==
    /\ triggers_closed \in BOOLEAN
    /\ debouncer = IF triggers_closed THEN "stopped" ELSE "wait"
    /\ ticker = IF triggers_closed THEN "stopped" ELSE "sleep"
    /\ since_trigger = DebounceMs /\ due_in = 0 /\ tick_in = IntervalMs
    /\ trigger_event = FALSE /\ trigger_calls = 0

trigger ==
    /\ trigger_calls < MaxTriggers /\ ~triggers_closed
    /\ trigger_calls' = trigger_calls + 1
    /\ since_trigger' = 0
    /\ trigger_event' = TRUE
    /\ UNCHANGED <<debouncer, due_in, ticker, tick_in, triggers_closed>>

\* The event is cleared and the window ends DebounceMs after the last trigger: from the
\* outer loop, after the wait for event or deadline, and when both have come.
Rearm ==
    /\ debouncer \in {"wait", "window"} /\ trigger_event /\ ~triggers_closed
    /\ debouncer' = "window"
    /\ trigger_event' = FALSE
    /\ due_in' = DebounceMs - since_trigger
    /\ UNCHANGED <<since_trigger, ticker, tick_in, triggers_closed, trigger_calls>>

\* Mutant: a trigger at the deadline does not extend the window.
WindowEnds_IgnoresEvent ==
    /\ debouncer = "window" /\ due_in = 0 /\ ~triggers_closed
    /\ debouncer' = "callback"
    /\ UNCHANGED <<trigger_event, since_trigger, due_in, ticker, tick_in, triggers_closed, trigger_calls>>

WindowEnds ==
    /\ debouncer = "window" /\ due_in = 0 /\ ~trigger_event /\ ~triggers_closed
    /\ debouncer' = "callback"
    /\ UNCHANGED <<trigger_event, since_trigger, due_in, ticker, tick_in, triggers_closed, trigger_calls>>

\* Mutant: the event is cleared after the callback, too.
CallbackEnds_Clears ==
    /\ debouncer = "callback"
    /\ debouncer' = "wait"
    /\ trigger_event' = FALSE
    /\ UNCHANGED <<since_trigger, due_in, ticker, tick_in, triggers_closed, trigger_calls>>

\* The callback returns or fails; an error is logged and the loop goes on.
CallbackEnds ==
    /\ debouncer = "callback"
    /\ debouncer' = "wait"
    /\ UNCHANGED <<trigger_event, since_trigger, due_in, ticker, tick_in, triggers_closed, trigger_calls>>

TickIsDue ==
    /\ ticker = "sleep" /\ tick_in = 0 /\ ~triggers_closed
    /\ ticker' = "callback"
    /\ UNCHANGED <<debouncer, trigger_event, since_trigger, due_in, tick_in, triggers_closed, trigger_calls>>

\* The next tick is due IntervalMs after the callback is over.
TickEnds ==
    /\ ticker = "callback"
    /\ ticker' = "sleep"
    /\ tick_in' = IntervalMs
    /\ UNCHANGED <<debouncer, trigger_event, since_trigger, due_in, triggers_closed, trigger_calls>>

\* aclose() of both: the loops are cancelled where they are.
CloseTriggers ==
    /\ ~triggers_closed
    /\ triggers_closed' = TRUE
    /\ trigger_event' = TRUE
    /\ debouncer' = "stopped" /\ ticker' = "stopped"
    /\ UNCHANGED <<since_trigger, due_in, tick_in, trigger_calls>>

Less(n) == IF n = 0 THEN 0 ELSE n - 1

\* Time matters to the loops alone.
MonotonicTime ==
    /\ ~triggers_closed
    /\ since_trigger' = IF since_trigger < DebounceMs THEN since_trigger + 1 ELSE since_trigger
    /\ due_in' = Less(due_in)
    /\ tick_in' = Less(tick_in)
    /\ UNCHANGED <<debouncer, trigger_event, ticker, triggers_closed, trigger_calls>>

TriggersNext ==
    \/ trigger \/ Rearm \/ WindowEnds \/ CallbackEnds \/ TickIsDue \/ TickEnds
    \/ CloseTriggers \/ MonotonicTime

TriggersSpec == TriggersInit /\ [][TriggersNext]_trigger_vars

\* Time passes, the loop goes on when it can, callbacks end.
TriggersFairness ==
    /\ WF_trigger_vars(MonotonicTime)
    /\ WF_trigger_vars(Rearm)
    /\ WF_trigger_vars(WindowEnds)
    /\ WF_trigger_vars(CallbackEnds)

----------------------------------------------------------------------------

\* The callback starts only when DebounceMs have passed without a trigger, also when one
\* arrives at the deadline or while an earlier callback runs (DebouncedTrigger._run_loop).
DebounceHonoured ==
    [][(debouncer # "callback" /\ debouncer' = "callback") =>
          since_trigger = DebounceMs /\ ~trigger_event]_trigger_vars

\* A trigger is followed by a callback that starts after it, also one that arrives while a
\* callback runs, when the triggers pause at last (DebouncedTrigger).
TriggerIsServed ==
    (trigger_event /\ debouncer # "stopped") ~> (debouncer \in {"callback", "stopped"} /\ (~trigger_event \/ triggers_closed))
=============================================================================
