------------------------------ MODULE Sanitize -----------------------------
(***************************************************************************)
(* What is kept of a run packet: redaction, truncation to a byte budget    *)
(* and the identifiers that are put back ("anchors").  A stored packet is  *)
(* sanitised again each time it is read and each time it is written.       *)
(*                                                                         *)
(* A value is a text (a string, a number or None) or a node: a mapping or  *)
(* a list.  Of a text the model keeps the kind and the size in bytes, one  *)
(* byte per character; mappings keep the order of their keys.  Values are  *)
(* JSON trees, so the cycle checks never fire.  Keys, the marker and the   *)
(* replacement have small sizes; fields of a packet that are treated alike *)
(* are one field.                                                          *)
(***************************************************************************)
EXTENDS Integers, Sequences, SequencesExt, FiniteSets

CONSTANTS
    MarkerBytes,     \* len(TRUNCATION_MARKER)
    MaxDepth,        \* Redactor.max_depth
    MaxListed,       \* Redactor.max_items
    AuditLimits,     \* the settings to check: records with the fields packet, output and payload,
                     \* and attempts, which bounds the attempts of a run with these settings
    PacketTasks,     \* tool_call_id of each task, a sequence
    Outputs,         \* what tools return
    Payloads         \* payloads of the event

ASSUME SanitizeAssumption ==
    /\ {MarkerBytes, MaxDepth, MaxListed} \subseteq Nat \ {0}
    /\ \A l \in AuditLimits : {l.packet, l.output, l.payload, l.attempts} \subseteq Nat \ {0}

VARIABLES
    audit_limits, \* the settings
    returned,     \* what the tools of the run return
    audit_row,    \* the packet column of the run, or NoPacket
    appended,     \* tool_call_ids with a recorded attempt
    appends       \* attempts so far

audit_vars == <<audit_limits, returned, audit_row, appended, appends>>

-----------------------------------------------------------------------------
(* Values *)

Text(t, n) == [text |-> t, bytes |-> n]
Empty == Text("", 0)
Number == Text("number", 1)
Redacted == Text("redacted", 1)
Mark(n) == IF n = 0 THEN Empty ELSE Text("marker", n)
MaxDepthText == Text("MAX_DEPTH", 1)

NoKey == Empty
Pair(k, v) == [key |-> k, value |-> v]
Field(k, v) == Pair(Text(k, 1), v)
Mapping(entries) == [node |-> "map", entries |-> entries]
Listing(values) == [node |-> "list", entries |-> [i \in DOMAIN values |-> Pair(NoKey, values[i])]]

IsText(o) == "text" \in DOMAIN o
IsMap(o) == "node" \in DOMAIN o /\ o.node = "map"
IsList(o) == "node" \in DOMAIN o /\ o.node = "list"
Values(o) == [i \in DOMAIN o.entries |-> o.entries[i].value]
Total(s) == FoldLeft(LAMBDA a, b : a + b, 0, s)

\* F(e), with e evaluated once.
Given(e, F(_)) == CHOOSE r \in {F(v) : v \in {e}} : TRUE

HasKey(m, k) == \E i \in DOMAIN m.entries : m.entries[i].key = k
ValueAt(m, k) == m.entries[CHOOSE i \in DOMAIN m.entries : m.entries[i].key = k].value
HasField(m, f) == HasKey(m, Text(f, 1))
Get(m, f) == ValueAt(m, Text(f, 1))

\* result[k] = v, in the place of an older value.
Put(entries, k, v) ==
    IF \E i \in DOMAIN entries : entries[i].key = k
    THEN [i \in DOMAIN entries |-> IF entries[i].key = k THEN Pair(k, v) ELSE entries[i]]
    ELSE Append(entries, Pair(k, v))
Set(m, f, v) == Given(m.entries, LAMBDA es : Given(v, LAMBDA x : Mapping(Put(es, Text(f, 1), x))))

-----------------------------------------------------------------------------
(* truncation.py *)

\* What the patterns recognise, what only its key tells, and what is left of either when cut.
Secrets == {"secret", "password", "leak"}

\* Part of a secret is no longer recognised as one.
Part(t) == IF t \in Secrets THEN "leak" ELSE "part"

truncate_str(s, max_bytes) ==
    IF s.bytes <= max_bytes THEN s
    ELSE IF max_bytes <= MarkerBytes \/ s.text \in {"marker", "number"}
         THEN Mark(IF max_bytes <= MarkerBytes THEN max_bytes ELSE MarkerBytes)
    ELSE Text(Part(s.text), max_bytes)

RECURSIVE EstimatedAt(_, _)
EstimatedAt(o, depth) ==
    IF IsText(o) THEN o.bytes
    ELSE IF depth >= MaxDepth THEN MarkerBytes
    ELSE Total([i \in 1..(IF Len(o.entries) < MaxListed THEN Len(o.entries) ELSE MaxListed) |->
                  o.entries[i].key.bytes + EstimatedAt(o.entries[i].value, depth + 1)])
         + (IF Len(o.entries) > MaxListed THEN MarkerBytes ELSE 0)
estimate_size_bytes(o) == EstimatedAt(o, 0)

\* The kept entries end with the marker when some are missing and there is room for it.
Marked(o, kept, remaining) ==
    IF Len(kept) >= Len(o.entries) \/ remaining <= 0 THEN kept
    ELSE LET m == Mark(IF remaining < MarkerBytes THEN remaining ELSE MarkerBytes)
         IN  IF IsMap(o) THEN Put(kept, m, Empty) ELSE Append(kept, Pair(NoKey, m))

Reserved(o, i) == IF i < Len(o.entries) THEN MarkerBytes ELSE 0

\* _truncate_with_budget: entry after entry is cut to the room that is left, where all but
\* the last leave room for the marker.
RECURSIVE truncate_with_budget(_, _, _), TruncatedEntries(_, _, _, _)
truncate_with_budget(o, budget, depth) ==
    IF budget <= 0 THEN IF IsText(o) THEN Empty ELSE [o EXCEPT !.entries = <<>>]
    ELSE IF IsText(o) THEN truncate_str(o, budget)
    ELSE IF depth >= MaxDepth THEN truncate_str(Mark(MarkerBytes), budget)
    ELSE [o EXCEPT !.entries = TruncatedEntries(o, <<>>, budget, depth)]

TruncatedEntries(o, kept, remaining, depth) ==
    LET i == Len(kept) + 1
        room == remaining - Reserved(o, i)
        key == o.entries[i].key
        Kept(value) ==
            LET size == key.bytes + estimate_size_bytes(value)
            IN  IF size > room THEN Marked(o, kept, remaining)
                ELSE Given(Append(kept, Pair(key, value)),
                          LAMBDA k : Given(remaining - size, LAMBDA r : TruncatedEntries(o, k, r, depth)))
    IN  IF i > Len(o.entries) \/ i > MaxListed THEN Marked(o, kept, remaining)
        ELSE IF room <= 0 \/ key.bytes > room THEN Marked(o, kept, remaining)
        ELSE Given(truncate_with_budget(o.entries[i].value, room - key.bytes, depth + 1), Kept)

truncate_collection(o, max_bytes) == truncate_with_budget(o, max_bytes, 0)

-----------------------------------------------------------------------------
(* redaction.py *)

SecretKey(k) == k.text = "token"

redact_text(s) == IF s.text = "secret" THEN Redacted ELSE s

RECURSIVE RedactedAt(_, _)
RedactedAt(o, depth) ==
    IF IsText(o) THEN redact_text(o)
    ELSE IF depth >= MaxDepth THEN MaxDepthText
    ELSE LET n == Len(o.entries)
             kept == [i \in 1..(IF n < MaxListed THEN n ELSE MaxListed) |->
                        [o.entries[i] EXCEPT !.value = IF SecretKey(o.entries[i].key) THEN Redacted
                                                       ELSE RedactedAt(@, depth + 1)]]
             more == Text("TRUNCATED", 1)
         IN  [o EXCEPT !.entries = IF n <= MaxListed THEN kept
                                   ELSE IF IsMap(o) THEN Put(kept, more, Number)
                                   ELSE Append(kept, Pair(NoKey, more))]

\* Mutant: truncation first.
redact_within_TruncatedFirst(o, max_bytes) == RedactedAt(truncate_collection(o, max_bytes), 0)

redact(o) == RedactedAt(o, 0)
redact_within(o, max_bytes) == Given(redact(o), LAMBDA r : truncate_collection(r, max_bytes))

-----------------------------------------------------------------------------
(* audit_sanitize.py *)

Smaller(a, b) == IF a < b THEN a ELSE b

sanitize_tool_output(o) == redact_within(o, Smaller(audit_limits.output, audit_limits.packet))

\* Entries in the order of priority, the others behind them.
Ordered(m, priority) ==
    LET Named(f) == SelectSeq(m.entries, LAMBDA e : e.key = Text(f, 1))
        Rest == SelectSeq(m.entries, LAMBDA e : \A i \in DOMAIN priority : e.key # Text(priority[i], 1))
    IN  Mapping(FoldLeft(LAMBDA s, f : s \o Named(f), <<>>, priority) \o Rest)
order_packet_keys(m) == Ordered(m, <<"run_id", "event", "tasks", "tool_results", "policy_decisions">>)
order_event_keys(m) == Ordered(m, <<"event_id", "type", "payload">>)

sanitize_tool_result_entry(o) ==
    IF ~IsMap(o) THEN sanitize_tool_output(o)
    ELSE Mapping([i \in DOMAIN redact(o).entries |->
                    [redact(o).entries[i] EXCEPT
                       !.value = truncate_collection(@, Smaller(audit_limits.output, audit_limits.packet))]])

prepare_packet_for_audit(m) ==
    LET event == Get(m, "event")
        sized == IF HasField(event, "payload")
                 THEN Set(event, "payload",
                          redact_within(Get(event, "payload"), Smaller(audit_limits.payload, audit_limits.packet)))
                 ELSE event
        withEvent == IF HasField(m, "event") /\ IsMap(event) THEN Set(m, "event", order_event_keys(sized)) ELSE m
        results == Values(Get(m, "tool_results"))
        withResults == IF HasField(m, "tool_results") /\ IsList(Get(m, "tool_results"))
                       THEN Set(withEvent, "tool_results",
                                Listing([i \in DOMAIN results |-> sanitize_tool_result_entry(results[i])]))
                       ELSE withEvent
    IN  order_packet_keys(withResults)

MapsOf(m, f) ==
    IF HasField(m, f) /\ IsList(Get(m, f)) THEN SelectSeq(Values(Get(m, f)), IsMap) ELSE <<>>

extract_audit_anchors(m) ==
    LET Id(o, f) == IF HasField(o, f) /\ IsText(Get(o, f)) THEN {Get(o, f)} ELSE {}
        WithId(s, f) == SelectSeq(s, LAMBDA o : Id(o, f) # {})
        tasks == WithId(MapsOf(m, "tasks"), "task_id")
        results == WithId(MapsOf(m, "tool_results"), "tool_call_id")
    IN  [run_id |-> Id(m, "run_id"),
         event_id |-> IF HasField(m, "event") /\ IsMap(Get(m, "event")) THEN Id(Get(m, "event"), "event_id") ELSE {},
         tasks |-> [i \in DOMAIN tasks |->
                      [task_id |-> Get(tasks[i], "task_id"),
                       tool_call_id |-> IF HasField(tasks[i], "tool_call") /\ IsMap(Get(tasks[i], "tool_call"))
                                        THEN Id(Get(tasks[i], "tool_call"), "tool_call_id") ELSE {}]],
         tool_call_ids |-> [i \in DOMAIN results |-> Get(results[i], "tool_call_id")]]

\* Adds the field f with the value v \in vs, if there is one.
SetAll(m, f, vs) == IF vs = {} THEN m ELSE Set(m, f, CHOOSE v \in vs : TRUE)
WithToolCall(task, ids) ==
    IF ids = {} THEN task
    ELSE Set(task, "tool_call",
             SetAll(IF HasField(task, "tool_call") /\ IsMap(Get(task, "tool_call"))
                    THEN Get(task, "tool_call") ELSE Mapping(<<>>), "tool_call_id", ids))
TaskAnchor(a) == WithToolCall(Mapping(<<Field("task_id", a.task_id)>>), a.tool_call_id)
ResultAnchor(id) == Mapping(<<Field("tool_call_id", id)>>)

build_minimal_audit_packet(a) ==
    LET ids == SetAll(Mapping(<<>>), "run_id", a.run_id)
        event == IF a.event_id = {} THEN ids
                 ELSE Set(ids, "event", SetAll(Mapping(<<>>), "event_id", a.event_id))
        tasks == IF a.tasks = <<>> THEN event
                 ELSE Set(event, "tasks", Listing([i \in DOMAIN a.tasks |-> TaskAnchor(a.tasks[i])]))
    IN  IF a.tool_call_ids = <<>> THEN tasks
        ELSE Set(tasks, "tool_results", Listing([i \in DOMAIN a.tool_call_ids |-> ResultAnchor(a.tool_call_ids[i])]))

\* The tasks that are there get their tool_call_id, in the first entry with their task_id; the
\* others are added.
AnchoredTasks(tasks, anchors) ==
    LET Named(a) == {i \in DOMAIN tasks : HasField(tasks[i], "task_id") /\ Get(tasks[i], "task_id") = a.task_id}
        First(i, a) == i \in Named(a) /\ \A j \in Named(a) : i <= j
        Ids(i) == UNION {anchors[k].tool_call_id : k \in {k \in DOMAIN anchors : First(i, anchors[k])}}
        missing == SelectSeq(anchors, LAMBDA a : Named(a) = {})
    IN  [i \in DOMAIN tasks |-> WithToolCall(tasks[i], Ids(i))]
        \o [i \in DOMAIN missing |-> TaskAnchor(missing[i])]

\* Mutant: results that were cut away are not put back.
AnchoredResults_Dropped(results, ids) == results

\* Mutant: results that are there are added again.
AnchoredResults_Twice(results, ids) == results \o [i \in DOMAIN ids |-> ResultAnchor(ids[i])]

AnchoredResults(results, ids) ==
    LET Present(id) == \E i \in DOMAIN results :
                         HasField(results[i], "tool_call_id") /\ Get(results[i], "tool_call_id") = id
        missing == SelectSeq(ids, LAMBDA id : ~Present(id))
    IN  results \o [i \in DOMAIN missing |-> ResultAnchor(missing[i])]

apply_anchors(m, a) ==
    LET ids == SetAll(m, "run_id", a.run_id)
        event == IF HasField(m, "event") /\ IsMap(Get(m, "event")) THEN Get(m, "event") ELSE Mapping(<<>>)
        withEvent == IF a.event_id = {} THEN ids
                     ELSE Set(ids, "event", order_event_keys(SetAll(event, "event_id", a.event_id)))
        withTasks == IF a.tasks = <<>> THEN withEvent
                     ELSE Set(withEvent, "tasks", Listing(AnchoredTasks(MapsOf(m, "tasks"), a.tasks)))
        withResults == IF a.tool_call_ids = <<>> THEN withTasks
                       ELSE Set(withTasks, "tool_results",
                                Listing(AnchoredResults(MapsOf(m, "tool_results"), a.tool_call_ids)))
    IN  order_packet_keys(withResults)

with_truncation_marker(m) ==
    IF HasKey(m, Mark(MarkerBytes)) THEN m ELSE Mapping(Append(m.entries, Pair(Mark(MarkerBytes), Empty)))

Fits(m) == estimate_size_bytes(m) <= audit_limits.packet

SanitizedWith(m, anchors) ==
    LET minimal == build_minimal_audit_packet(anchors)
        Retruncated(anchored) ==
            Given(apply_anchors(truncate_collection(anchored, audit_limits.packet), anchors),
                 LAMBDA reanchored : IF Fits(reanchored) THEN reanchored ELSE with_truncation_marker(minimal))
    IN  IF ~Fits(minimal) THEN truncate_collection(redact(minimal), audit_limits.packet)
        ELSE Given(redact_within(prepare_packet_for_audit(m), audit_limits.packet),
                  LAMBDA sanitized : Given(apply_anchors(sanitized, anchors),
                    LAMBDA anchored : IF Fits(anchored) THEN anchored ELSE Retruncated(anchored)))
sanitize_for_audit(m) ==
    Given(m, LAMBDA packet : Given(extract_audit_anchors(packet), LAMBDA a : SanitizedWith(packet, a)))

-----------------------------------------------------------------------------
(* The stored packet *)

NoPacket == Empty

TaskDump(t) ==
    Mapping(<<Field("task_id", t.task_id), Field("status", Number),
              Field("tool_call", Mapping(<<Field("tool_call_id", t.tool_call_id), Field("status", Number)>>))>>)
TaskDumps == Listing([i \in DOMAIN PacketTasks |-> TaskDump(PacketTasks[i])])

\* RunPacket.model_dump, in the order of the fields of the model.
model_dump(p) ==
    Mapping(<<Field("run_id", Text("run", 1)),
              Field("event", Mapping(<<Field("event_id", Text("event", 1)), Field("type", Number),
                                       Field("payload", p.payload)>>)),
              Field("tasks", TaskDumps),
              Field("tool_results", Listing(p.results)), Field("policy_decisions", Listing(p.decisions))>>)

\* RunPacket.model_validate: unknown keys are ignored, absent lists are empty.  The packet,
\* or nothing when it raises.
model_validate(m) ==
    LET event == Get(m, "event")
        Default(f, v) == IF HasField(m, f) THEN Get(m, f) ELSE v
        results == Default("tool_results", Listing(<<>>))
        decisions == Default("policy_decisions", Listing(<<>>))
        AllMaps(o) == IsList(o) /\ \A i \in DOMAIN o.entries : IsMap(o.entries[i].value)
        valid == /\ HasField(m, "event") /\ IsMap(event)
                 /\ HasField(event, "type") /\ Get(event, "type") = Number
                 /\ HasField(event, "payload") /\ IsMap(Get(event, "payload"))
                 /\ HasField(m, "tasks") /\ Get(m, "tasks") = TaskDumps
                 /\ AllMaps(results) /\ AllMaps(decisions)
    IN  IF valid THEN {[payload |-> Get(event, "payload"),
                        results |-> Values(results), decisions |-> Values(decisions)]}
        ELSE {}

\* append_audit: the record of an attempt of c whose tool returned output.
Attempted(p, c, output) ==
    [p EXCEPT !.results = Append(@, Mapping(<<Field("tool_call_id", c),
                                              Field("result_summary", sanitize_tool_output(output))>>)),
              !.decisions = Append(@, Mapping(<<Field("tool_call_id", c)>>))]

AuditInit ==
    /\ audit_limits \in AuditLimits /\ returned \in Outputs
    /\ audit_row = NoPacket /\ appended = {} /\ appends = 0

\* finalize_run stores the packet of the planned run, if it validates.
StorePlanned(payload) ==
    /\ audit_row = NoPacket
    /\ \E row \in {sanitize_for_audit(model_dump([payload |-> payload, results |-> <<>>, decisions |-> <<>>]))} :
         model_validate(row) # {} /\ audit_row' = row
    /\ UNCHANGED <<audit_limits, returned, appended, appends>>

\* The packet is read, extended and written; when it does not validate nothing is.
RecordAttempt(t) ==
    /\ audit_row # NoPacket /\ appends < audit_limits.attempts /\ appends' = appends + 1
    /\ \E p \in model_validate(sanitize_for_audit(audit_row)) :
       \E row \in {sanitize_for_audit(model_dump(Attempted(p, t.tool_call_id, returned)))} :
         IF model_validate(row) # {}
         THEN audit_row' = row /\ appended' = appended \cup {t.tool_call_id}
         ELSE UNCHANGED <<audit_row, appended>>
    /\ UNCHANGED <<audit_limits, returned>>

AuditNext ==
    \/ \E payload \in Payloads : StorePlanned(payload)
    \/ \E i \in DOMAIN PacketTasks : RecordAttempt(PacketTasks[i])

AuditSpec == AuditInit /\ [][AuditNext]_audit_vars

-----------------------------------------------------------------------------
(* Properties *)

\* Reading a stored packet sanitises it again and so does the next write: that must neither
\* change it nor leave something that no longer validates, or a run would lose its audit
\* record bit by bit, or for good, by being read.
StoredPacketIsFixed ==
    \/ audit_row = NoPacket
    \/ Given(sanitize_for_audit(audit_row), LAMBDA again : again = audit_row /\ model_validate(again) # {})

\* However small the budget, what is stored fits into it and still names the run, the event,
\* every task with its tool call and every tool call with a recorded attempt.
AnchorsKept ==
    audit_row # NoPacket =>
    LET anchors == extract_audit_anchors(audit_row) IN
    /\ estimate_size_bytes(audit_row) <= audit_limits.packet
    /\ anchors.run_id = {Text("run", 1)} /\ anchors.event_id = {Text("event", 1)}
    /\ \A i \in DOMAIN PacketTasks : \E j \in DOMAIN anchors.tasks :
         anchors.tasks[j] = [task_id |-> PacketTasks[i].task_id, tool_call_id |-> {PacketTasks[i].tool_call_id}]
    /\ appended \subseteq ToSet(anchors.tool_call_ids)

RECURSIVE TextsIn(_)
TextsIn(o) ==
    IF IsText(o) THEN {o.text}
    ELSE UNION {TextsIn(e.value) : e \in ToSet(o.entries)}

\* No secret is stored, nor a part of one: what the patterns recognise is replaced before
\* anything is cut, and values under the listed keys are replaced whole.
SecretsNeverStored == TextsIn(audit_row) \cap Secrets = {}
============================================================================
