---------------------------- MODULE ReflexRules ----------------------------
(***************************************************************************)
(* The ordered rules that decide what happens to an event at once:         *)
(* loading and validating them, matching them against an event, rendering  *)
(* the templates of their actions.                                         *)
(*                                                                         *)
(* A JSON value is a record with one field: map (an object), list, text (a *)
(* string) or num (all else).  A text is the sequence of its parts: [lit]  *)
(* for plain text, [json] for a value written out, [expr] for a ${...}     *)
(* with the segments between its dots, of which there are fewer than two   *)
(* when it is no dot path, and [open] for a ${ that is never closed.       *)
(***************************************************************************)
EXTENDS Integers, Sequences, SequencesExt

CONSTANTS
    Padding,        \* str.strip() of the texts with white space around them
    MaxRulesBytes,  \* MAX_REFLEX_RULES_FILE_BYTES
    Classified      \* what the optional classifier answers; NoDecision: nothing

Null == "null"
Nothing == [num |-> Null]

Strip(t) == IF t \in DOMAIN Padding THEN Padding[t] ELSE t
StripOrNull(t) == IF t = Null \/ Strip(t) = "" THEN Null ELSE Strip(t)

Is(v, kind) == kind \in DOMAIN v
Found(v) == [ok |-> TRUE, value |-> v]
Missing == [ok |-> FALSE, value |-> [num |-> 0]]

\* The decisions of route(); no classifier, or one that has no opinion, is NoDecision.
ReflexDecision(action, reason) == [action |-> action, reason |-> reason, tool |-> Null, args |-> Nothing]
NoDecision == ReflexDecision("none", Null)
RouteError(rule_id) == ReflexDecision("error", rule_id)

----------------------------------------------------------------------------
(* template.py *)

AllowedEventFields == {"event_id", "type", "source", "received_at_ms", "payload", "dedupe_key"}

\* _iter_placeholder_spans raises at a placeholder that is not closed.
Closed(t) == \A i \in DOMAIN t.text : ~Is(t.text[i], "open")
Placeholders(t) == SelectSeq(t.text, LAMBDA p : Is(p, "expr"))

validate_placeholder_expression(e) ==
    /\ Len(e) >= 2
    /\ e[1] \in {"payload", "event"}
    /\ e[1] = "event" => /\ e[2] \in AllowedEventFields
                         /\ e[2] # "payload" => Len(e) = 2

RECURSIVE validate_placeholders_in_obj(_)
validate_placeholders_in_obj(v) ==
    CASE Is(v, "map") -> \A k \in DOMAIN v.map : validate_placeholders_in_obj(v.map[k])
      [] Is(v, "list") -> \A i \in DOMAIN v.list : validate_placeholders_in_obj(v.list[i])
      [] Is(v, "text") -> /\ Closed(v)
                          /\ \A i \in DOMAIN Placeholders(v) :
                               validate_placeholder_expression(Placeholders(v)[i].expr)
      [] OTHER -> TRUE

RECURSIVE lookup_mapping_path(_, _)
lookup_mapping_path(v, segments) ==
    IF segments = <<>> THEN Found(v)
    ELSE IF ~Is(v, "map") \/ (Is(v, "map") /\ Head(segments) \notin DOMAIN v.map) THEN Missing
    ELSE lookup_mapping_path(v.map[Head(segments)], Tail(segments))

\* getattr(event, f): a string, but for the time and a key that is None.
EventField(ev, f) ==
    IF f = "received_at_ms" \/ ev[f] = Null THEN [num |-> ev[f]]
    ELSE [text |-> << [lit |-> ev[f]] >>]

resolve_placeholder(e, ev) ==
    CASE e[1] = "payload" -> lookup_mapping_path(ev.payload, Tail(e))
      [] e[1] = "event" /\ e[2] = "payload" -> lookup_mapping_path(ev.payload, SubSeq(e, 3, Len(e)))
      [] e[1] = "event" /\ e[2] # "payload" -> Found(EventField(ev, e[2]))
      [] OTHER -> Missing

\* _stringify_placeholder_value: a text stays as it is, all else becomes JSON.
Stringified(v) == IF Is(v, "text") THEN v.text ELSE << [json |-> v] >>

\* A text that is one placeholder becomes its value, whatever that is; in all others the
\* values are spliced in as texts.
RenderText(t, ev) ==
    LET value(i) == IF Is(t.text[i], "expr") THEN resolve_placeholder(t.text[i].expr, ev)
                    ELSE Found([text |-> <<t.text[i]>>])
    IN  IF \E i \in DOMAIN t.text : ~value(i).ok THEN Missing
        ELSE IF Len(t.text) = 1 THEN value(1)
        ELSE Found([text |-> FlattenSeq([i \in DOMAIN t.text |-> Stringified(value(i).value)])])

RECURSIVE render_template_value(_, _)
render_template_value(t, ev) ==
    LET Rendered(f) == [x \in DOMAIN f |-> render_template_value(f[x], ev)]
        Values(f) == [x \in DOMAIN f |-> f[x].value]
        AllFound(f) == \A x \in DOMAIN f : f[x].ok
    IN  CASE Is(t, "map") ->
               (IF AllFound(Rendered(t.map)) THEN Found([map |-> Values(Rendered(t.map))]) ELSE Missing)
          [] Is(t, "list") ->
               (IF AllFound(Rendered(t.list)) THEN Found([list |-> Values(Rendered(t.list))]) ELSE Missing)
          [] Is(t, "text") -> RenderText(t, ev)
          [] OTHER -> Found(t)

----------------------------------------------------------------------------
(* models.py: a rule has an id, a match and an action *)

\* The paths of payload_equals and payload_has_keys are dot paths of one segment or more.
MatchOK(m) ==
    /\ Strip(m.event_type) # ""
    /\ \A p \in m.has_keys : p # <<>>
    /\ \A p \in DOMAIN m.equals : p # <<>>

\* A blank note is none.
ActionOK(a) ==
    CASE a.kind = "fast_tool" -> Strip(a.tool_name) # "" /\ validate_placeholders_in_obj(a.template)
      [] a.kind = "flag" -> validate_placeholders_in_obj(a.template) /\ \A t \in a.tags : Strip(t) # ""
      [] OTHER -> a.kind \in {"needs_planning", "drop"}

ReflexRuleOK(r) == Strip(r.rule_id) # "" /\ MatchOK(r.match) /\ ActionOK(r.action)

ReflexRule(r) ==
    [r EXCEPT !.rule_id = Strip(@), !.match.event_type = Strip(@), !.match.source = StripOrNull(@),
              !.action = IF r.action.kind = "fast_tool" THEN [@ EXCEPT !.tool_name = Strip(@)] ELSE @]

\* ReflexRuleMatch.matches
matches(m, ev) ==
    /\ ev.type = m.event_type
    /\ m.source # Null => ev.source = m.source
    /\ \A p \in m.has_keys : lookup_mapping_path(ev.payload, p).ok
    /\ \A p \in DOMAIN m.equals :
         lookup_mapping_path(ev.payload, p) = Found(m.equals[p])

----------------------------------------------------------------------------
(* loader.py and router.py *)

\* A rules file: whether it is a regular file, its size, whether it parses, and what it
\* holds: a list, or an object with a list under "rules".
ReadRulesFile(f) == f.regular /\ f.bytes <= MaxRulesBytes /\ f.parses
ExtractRules(f) == IF f.shape = "object" THEN f.data.rules ELSE f.data
ParseRules(f) ==
    LET raw == ExtractRules(f) IN
    IF f.shape \in {"list", "object"} /\ \A i \in DOMAIN raw : ReflexRuleOK(raw[i])
    THEN Found([i \in DOMAIN raw |-> ReflexRule(raw[i])])
    ELSE Missing

UniqueRuleIds(rules) == \A i, j \in DOMAIN rules : rules[i].rule_id = rules[j].rule_id => i = j

\* RuleBasedReflexRouter.from_file
from_file(f) ==
    IF ~ReadRulesFile(f) THEN Missing
    ELSE IF ~ParseRules(f).ok THEN Missing
    ELSE IF ~UniqueRuleIds(ParseRules(f).value) THEN Missing
    ELSE ParseRules(f)

\* What a matching rule decides: a note must render to a string and arguments to an object.
Decide(rule, ev) ==
    LET a == rule.action
        rendered == render_template_value(a.template, ev)
    IN  CASE a.kind \in {"needs_planning", "drop"} -> ReflexDecision(a.kind, rule.rule_id)
          [] a.kind = "flag" /\ (rendered.ok /\ Is(rendered.value, "text")) ->
               [ReflexDecision("flag", rule.rule_id) EXCEPT !.args = rendered.value]
          [] a.kind = "fast_tool" /\ (rendered.ok /\ Is(rendered.value, "map")) ->
               [ReflexDecision("fast_tasks", rule.rule_id) EXCEPT !.tool = a.tool_name,
                                                                  !.args = rendered.value]
          [] OTHER -> RouteError(rule.rule_id)

\* RuleBasedReflexRouter.route
route(rules, ev) ==
    LET hits == SelectSeq(rules, LAMBDA r : matches(r.match, ev)) IN
    CASE hits # <<>> -> Decide(hits[1], ev)
      [] hits = <<>> /\ Classified # NoDecision -> Classified
      [] OTHER -> ReflexDecision("needs_planning", "no_matching_rule")
=============================================================================
