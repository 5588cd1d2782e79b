------------------------------- MODULE Policy -------------------------------
(***************************************************************************)
(* The policy gate: five rules that look at a tool call, at the manifest   *)
(* of its tool and at the settings, the approvals that overrule one of the *)
(* gate's answers, and a configuration that changes while calls wait.      *)
(***************************************************************************)
EXTENDS NetSafety, FiniteSets

CONSTANTS
    PolicyCalls,      \* the calls: [known, args_ok, scope, manifest_scope, side_effects, urls, outside, words]
    FirstContext,     \* the settings of the first start
    Stricter(_),      \* the contexts one step stricter than a context
    MaxExecutions     \* bound: how often the call is executed

VARIABLES
    policy_ctx,       \* PolicyContext of the running process
    judged,           \* the call that is executed again and again
    approval_row,     \* its approval: "none", "pending", "approved" or "denied"
    outcomes          \* what the executions of the call ended with, in order

policy_vars == <<policy_ctx, judged, approval_row, outcomes>>

NetworkScopes == {"net.http", "webhook.emit"}
FilesystemScopes == {"fs.read", "fs.write"}

\* Only tools of a network scope have a URL among their arguments.
ASSUME PolicyConstants == \A c \in PolicyCalls : c.scope \in NetworkScopes \/ DOMAIN c.urls = {}

----------------------------------------------------------------------------
(* decision.py *)

PolicyDecision(action, reason) == [action |-> action, reason |-> reason]
NoOpinion == PolicyDecision("none", "none")
Allow(reason) == PolicyDecision("allow", reason)
Deny(reason) == PolicyDecision("deny", reason)
RequireApproval(reason) == PolicyDecision("require_approval", reason)

----------------------------------------------------------------------------
(* rules.py *)

\* _extract_url: the first URL among the fields that may hold one, the preferred names first.
UrlFields == <<"url", "target_url", "webhook_url", "endpoint_url", "other_url">>
UrlsOf(c) == SelectSeq(UrlFields, LAMBDA f : f \in DOMAIN c.urls)
HasUrl(c) == UrlsOf(c) # <<>>
extract_url(c) == c.urls[UrlsOf(c)[1]]

ScopeMatchesManifestRule(c, ctx) ==
    IF c.scope = c.manifest_scope THEN NoOpinion ELSE Deny("scope_mismatch")

ScopeEnabledRule(c, ctx) ==
    IF c.scope \in ctx.enabled_scopes THEN NoOpinion ELSE Deny("scope_disabled")

classify_network_validation_error(e) ==
    CASE e = "allowed_domains" -> "domain_not_allowlisted"
      [] e \in {"scheme", "no_host", "credentials", "port"} -> "args_invalid"
      [] OTHER -> "ssrf_blocked"

NetworkAllowlistRule(c, ctx) ==
    IF c.scope \notin NetworkScopes THEN NoOpinion
    ELSE IF ~HasUrl(c) THEN Deny("args_invalid")
    ELSE LET u == extract_url(c)
             error == UrlError(u, ctx.http_allowed_domains, c.scope # "net.http")
         IN  IF u.fragment # NoFragment THEN Deny("args_invalid")
             ELSE IF error # "ok" THEN Deny(classify_network_validation_error(error))
             ELSE IF /\ c.scope = "webhook.emit"
                     /\ ~webhook_target_matches_allowlist(NormalizedUrl(u), ctx.webhook_allowed_targets)
             THEN Deny("domain_not_allowlisted")
             ELSE NoOpinion

\* Whether one of the paths among the arguments resolves to a place outside of the
\* workspace depends on the file system; outside says so.
WorkspaceRule(c, ctx) ==
    IF c.scope \in FilesystemScopes /\ c.outside THEN Deny("workspace_violation") ELSE NoOpinion

ApprovalRequiredRule(c, ctx) ==
    LET to_domain == /\ HasUrl(c) /\ extract_url(c).host # NoHost
                     /\ hostname_in_allowlist(extract_url(c).host, ctx.approval_required_domains)
        keyword == c.words \cap ctx.approval_required_payload_keywords # {}
    IN  IF c.scope \in ctx.approval_required_scopes \/ to_domain \/ keyword
        THEN RequireApproval("approval_required")
        ELSE IF ctx.profile = "prod" /\ c.side_effects /\ ~ctx.dry_run
        THEN RequireApproval("profile_guardrail")
        ELSE NoOpinion

----------------------------------------------------------------------------
(* gate.py *)

build_default_policy_rules(c, ctx) ==
    << ScopeMatchesManifestRule(c, ctx), ScopeEnabledRule(c, ctx), NetworkAllowlistRule(c, ctx),
       WorkspaceRule(c, ctx), ApprovalRequiredRule(c, ctx) >>

\* PolicyGate.evaluate: the first DENY ends it, else the first demand for approval counts.
gate_evaluate(c, ctx) ==
    LET rules == build_default_policy_rules(c, ctx)
        Saying(action) == {i \in 1..5 : rules[i].action = action}
    IN  IF Saying("deny") # {} THEN rules[Min(Saying("deny"))]
        ELSE IF Saying("require_approval") # {} THEN rules[Min(Saying("require_approval"))]
        ELSE Allow("ok")

\* PolicyGuard.check for an approved call: a demand for approval is met.
approved_evaluate(c, ctx) ==
    LET d == gate_evaluate(c, ctx) IN
    IF d.action = "require_approval" THEN Allow("approved_override") ELSE d

----------------------------------------------------------------------------
(* The call and its approval *)

PolicyInit ==
    /\ policy_ctx = FirstContext /\ judged \in PolicyCalls
    /\ approval_row = "none" /\ outcomes = <<>>

\* InMemoryApprovalStore.create_pending: the approval of a call is made once.
create_pending == IF approval_row = "none" THEN "pending" ELSE approval_row

\* What execute_tool_call says first: the registry and the arguments' model before the gate.
first_decision(c, ctx) ==
    IF ~c.known THEN Deny("tool_unknown")
    ELSE IF ~c.args_ok THEN Deny("args_invalid")
    ELSE gate_evaluate(c, ctx)

\* execute_tool_call and handle_require_approval; a call that was allowed runs, and may be
\* delivered again.  The arguments of a call never change, so its approval is always for
\* the payload it was made for.
execute ==
    /\ \E d \in {first_decision(judged, policy_ctx)} :
         LET ended == IF d.action # "require_approval" THEN d
                      ELSE IF approval_row = "approved" THEN approved_evaluate(judged, policy_ctx)
                      ELSE IF approval_row = "denied" THEN Deny("approval_denied")
                      ELSE d
         IN  /\ outcomes' = Append(outcomes, ended)
             /\ approval_row' = IF d.action = "require_approval" THEN create_pending ELSE approval_row
    /\ UNCHANGED <<policy_ctx, judged>>

\* InMemoryApprovalStore.decide by an operator: the same decision twice changes nothing,
\* another one is refused.
decide(decision) ==
    /\ approval_row \in {"pending", decision}
    /\ approval_row' = decision
    /\ UNCHANGED <<policy_ctx, judged, outcomes>>

\* Fewer scopes, domains and targets, more that needs an approval, production, no dry run.
AtLeastAsStrict(new, old) ==
    /\ new.enabled_scopes \subseteq old.enabled_scopes
    /\ Range(new.http_allowed_domains) \subseteq Range(old.http_allowed_domains)
    /\ Range(new.webhook_allowed_targets) \subseteq Range(old.webhook_allowed_targets)
    /\ old.approval_required_scopes \subseteq new.approval_required_scopes
    /\ Range(old.approval_required_domains) \subseteq Range(new.approval_required_domains)
    /\ old.approval_required_payload_keywords \subseteq new.approval_required_payload_keywords
    /\ (old.profile = "prod" => new.profile = "prod") /\ (new.dry_run => old.dry_run)

\* The process starts again with stricter settings.
Tighten ==
    /\ \E ctx \in Stricter(policy_ctx) : AtLeastAsStrict(ctx, policy_ctx) /\ policy_ctx' = ctx
    /\ UNCHANGED <<judged, approval_row, outcomes>>

PolicyNext ==
    /\ Len(outcomes) < MaxExecutions
    /\ execute \/ (\E d \in {"approved", "denied"} : decide(d)) \/ Tighten

PolicySpec == PolicyInit /\ [][PolicyNext]_policy_vars

----------------------------------------------------------------------------
(* Properties *)

Strictness(d) == IF d.action = "allow" THEN 0 ELSE IF d.action = "require_approval" THEN 1 ELSE 2
NeedsHuman(d) == d.reason \in {"approval_required", "profile_guardrail", "approved_override", "approval_denied"}

\* Stricter settings never let a call through that an earlier execution has refused, nor run
\* without an approval a call that needed one, and an approval that was denied is the end of
\* the call: what one execution refuses no later one runs, unless an operator approved it in
\* between (gate.py, rules.py, approval_flow.py).
RefusedStaysRefused ==
    \A i, j \in DOMAIN outcomes : i < j =>
        /\ Strictness(outcomes[i]) = 2 => Strictness(outcomes[j]) = 2
        /\ NeedsHuman(outcomes[i]) /\ outcomes[j].action = "allow"
             => outcomes[j].reason = "approved_override" /\ approval_row = "approved"
=============================================================================
