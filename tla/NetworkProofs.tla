--------------------------- MODULE NetworkProofs ----------------------------
(***************************************************************************)
(* Proofs about what decides where a tool call may go: the policy gate,    *)
(* whose answers only get stricter when the settings do, and the tools     *)
(* that send requests and follow redirects.                                *)
(***************************************************************************)
EXTENDS Policy, NetTools, TLAPS

\* Most steps are first-order; those that count or expand records cite SMT.
USE Zenon

----------------------------------------------------------------------------
(* The policy gate *)

\* More entries match more hosts, wherever they stand in the list.
LEMMA AllowlistGrows ==
    ASSUME NEW h, NEW a, NEW b, Range(a) \subseteq Range(b), hostname_in_allowlist(h, a)
    PROVE  hostname_in_allowlist(h, b)
<1> DEFINE P(e) == LET base == normalize_hostname(e.host) IN
                   IF e.wild THEN IsStrictSuffix(base, normalize_hostname(h)) ELSE base = normalize_hostname(h)
<1>1. PICK i \in DOMAIN a : P(a[i])
  BY DEF hostname_in_allowlist
<1>2. PICK j \in DOMAIN b : b[j] = a[i]
  BY DEF Range
<1>3. P(b[j])
  BY <1>1, <1>2
<1> QED BY <1>3 DEF hostname_in_allowlist

LEMMA TargetsGrow ==
    ASSUME NEW u, NEW a, NEW b, Range(a) \subseteq Range(b), webhook_target_matches_allowlist(u, a)
    PROVE  webhook_target_matches_allowlist(u, b)
<1> DEFINE P(t) == /\ WebhookTargetOK(t)
                   /\ PortOf(t) = PortOf(NormalizedUrl(u)) /\ t.path = u.path
                   /\ hostname_in_allowlist(u.host, << [wild |-> t.wild, host |-> t.host] >>)
<1>1. PICK i \in DOMAIN a : P(a[i])
  BY DEF webhook_target_matches_allowlist
<1>2. PICK j \in DOMAIN b : b[j] = a[i]
  BY DEF Range
<1>3. P(b[j])
  BY <1>1, <1>2
<1> QED BY <1>3 DEF webhook_target_matches_allowlist

\* A URL that passes with a list of domains passes with a longer one.
LEMMA UrlPasses ==
    ASSUME NEW u, NEW a, NEW b, NEW Unlisted \in BOOLEAN, Range(a) \subseteq Range(b), UrlError(u, a, Unlisted) = "ok"
    PROVE  UrlError(u, b, Unlisted) = "ok"
BY AllowlistGrows, SMT DEF UrlError

----------------------------------------------------------------------------
DenyReasons ==
    {"tool_unknown", "args_invalid", "scope_mismatch", "scope_disabled", "domain_not_allowlisted",
     "ssrf_blocked", "workspace_violation"}
Decisions ==
    [action : {"none", "allow", "deny", "require_approval"},
     reason : DenyReasons \cup {"none", "ok", "approval_required", "profile_guardrail", "approved_override",
                               "approval_denied"}]
Denial(d) == d \in Decisions /\ d.action = "deny" /\ d.reason \in DenyReasons

\* The first four rules deny or have no opinion, the last one demands an approval or has none.
LEMMA RulesSay ==
    ASSUME NEW c, NEW ctx
    PROVE  /\ \A d \in {ScopeMatchesManifestRule(c, ctx), ScopeEnabledRule(c, ctx), NetworkAllowlistRule(c, ctx),
                        WorkspaceRule(c, ctx)} : d.action = "none" \/ Denial(d)
           /\ ApprovalRequiredRule(c, ctx) \in Decisions
           /\ ApprovalRequiredRule(c, ctx).action \in {"none", "require_approval"}
<1> USE DEF PolicyDecision, Deny, RequireApproval, NoOpinion, Decisions, Denial, DenyReasons
<1>1. ScopeMatchesManifestRule(c, ctx).action = "none" \/ Denial(ScopeMatchesManifestRule(c, ctx))
  BY SMT DEF ScopeMatchesManifestRule
<1>2. ScopeEnabledRule(c, ctx).action = "none" \/ Denial(ScopeEnabledRule(c, ctx))
  BY SMT DEF ScopeEnabledRule
<1>3. NetworkAllowlistRule(c, ctx).action = "none" \/ Denial(NetworkAllowlistRule(c, ctx))
  <2>1. \A e : Denial(Deny(classify_network_validation_error(e)))
    BY SMT DEF classify_network_validation_error
  <2> QED BY <2>1, SMT DEF NetworkAllowlistRule
<1>4. WorkspaceRule(c, ctx).action = "none" \/ Denial(WorkspaceRule(c, ctx))
  BY SMT DEF WorkspaceRule
<1>5. ApprovalRequiredRule(c, ctx) \in Decisions /\ ApprovalRequiredRule(c, ctx).action \in {"none", "require_approval"}
  BY SMT DEF ApprovalRequiredRule
<1> HIDE DEF PolicyDecision, Deny, RequireApproval, NoOpinion, Decisions, Denial, DenyReasons
<1> QED BY <1>1, <1>2, <1>3, <1>4, <1>5

RuleDenies(c, ctx) ==
    \/ ScopeMatchesManifestRule(c, ctx).action = "deny" \/ ScopeEnabledRule(c, ctx).action = "deny"
    \/ NetworkAllowlistRule(c, ctx).action = "deny" \/ WorkspaceRule(c, ctx).action = "deny"

\* PolicyGate.evaluate: a denial of the first four rules, else what the last one says.
LEMMA GateSays ==
    ASSUME NEW c, NEW ctx
    PROVE  /\ RuleDenies(c, ctx) => Denial(gate_evaluate(c, ctx))
           /\ ~RuleDenies(c, ctx) /\ ApprovalRequiredRule(c, ctx).action = "require_approval" =>
                gate_evaluate(c, ctx) \in Decisions /\ gate_evaluate(c, ctx).action = "require_approval"
           /\ ~RuleDenies(c, ctx) /\ ApprovalRequiredRule(c, ctx).action # "require_approval" =>
                gate_evaluate(c, ctx) = Allow("ok")
<1> DEFINE rules == build_default_policy_rules(c, ctx)
           Saying(action) == {i \in 1..5 : rules[i].action = action}
<1>1. /\ rules[1] = ScopeMatchesManifestRule(c, ctx) /\ rules[2] = ScopeEnabledRule(c, ctx)
      /\ rules[3] = NetworkAllowlistRule(c, ctx) /\ rules[4] = WorkspaceRule(c, ctx)
      /\ rules[5] = ApprovalRequiredRule(c, ctx)
  BY SMT DEF build_default_policy_rules
<1>2. gate_evaluate(c, ctx) =
        IF Saying("deny") # {} THEN rules[Min(Saying("deny"))]
        ELSE IF Saying("require_approval") # {} THEN rules[Min(Saying("require_approval"))]
        ELSE Allow("ok")
  BY DEF gate_evaluate
<1>3. /\ \A i \in 1..4 : rules[i].action = "none" \/ Denial(rules[i])
      /\ rules[5] \in Decisions /\ rules[5].action \in {"none", "require_approval"}
  BY <1>1, RulesSay, SMT
<1>4. RuleDenies(c, ctx) <=> \E i \in 1..4 : rules[i].action = "deny"
  BY <1>1, SMT DEF RuleDenies
<1>5. ApprovalRequiredRule(c, ctx).action = rules[5].action
  BY <1>1
<1> HIDE DEF rules
<1>6. ASSUME NEW a, Saying(a) # {} PROVE Min(Saying(a)) \in 1..5 /\ rules[Min(Saying(a))].action = a
  <2>1. \E x \in Saying(a) : \A y \in Saying(a) : x <= y
    BY <1>6, SMT
  <2>2. Min(Saying(a)) \in Saying(a)
    BY <2>1 DEF Min
  <2> QED BY <2>2
<1>7. \A i \in 1..5 : i \in 1..4 \/ i = 5
  BY SMT
<1>8. \A i \in 1..4 : i \in 1..5
  BY SMT
<1>9. 5 \in 1..5
  BY SMT
<1>10. CASE RuleDenies(c, ctx)
  <2>1. Saying("deny") # {}
    BY <1>4, <1>8, <1>10
  <2>2. Min(Saying("deny")) \in 1..5 /\ rules[Min(Saying("deny"))].action = "deny"
    BY <1>6, <2>1
  <2>3. Denial(rules[Min(Saying("deny"))])
    BY <1>3, <1>7, <2>2
  <2> QED BY <1>2, <1>10, <2>1, <2>3
<1>11. CASE ~RuleDenies(c, ctx)
  <2>1. Saying("deny") = {}
    BY <1>3, <1>4, <1>7, <1>11
  <2>2. CASE rules[5].action = "require_approval"
    <3>1. Saying("require_approval") # {}
      BY <1>9, <2>2
    <3>2. LET i == Min(Saying("require_approval")) IN i \in 1..5 /\ rules[i].action = "require_approval"
      BY <1>6, <3>1
    <3>3. rules[Min(Saying("require_approval"))] \in Decisions
      BY <1>3, <1>7, <3>2 DEF Denial
    <3> QED BY <1>2, <1>5, <1>11, <2>1, <2>2, <3>1, <3>2, <3>3
  <2>3. CASE rules[5].action # "require_approval"
    <3>1. Saying("require_approval") = {}
      BY <1>3, <1>7, <2>3 DEF Denial
    <3> QED BY <1>2, <1>5, <1>11, <2>1, <2>3, <3>1
  <2> QED BY <2>2, <2>3
<1> QED BY <1>10, <1>11

----------------------------------------------------------------------------
\* What stricter settings do to an answer of the gate: a rule that denied still denies, and
\* an approval that was needed is still needed.
LEMMA StricterDenies ==
    ASSUME NEW c, NEW old, NEW new, AtLeastAsStrict(new, old), RuleDenies(c, old)
    PROVE  RuleDenies(c, new)
<1> USE DEF PolicyDecision, Deny, NoOpinion
<1>1. CASE ScopeMatchesManifestRule(c, old).action = "deny"
  BY <1>1, SMT DEF ScopeMatchesManifestRule, RuleDenies
<1>2. CASE ScopeEnabledRule(c, old).action = "deny"
  BY <1>2, SMT DEF ScopeEnabledRule, RuleDenies, AtLeastAsStrict
<1>3. CASE NetworkAllowlistRule(c, old).action = "deny"
  <2> DEFINE u == extract_url(c)
             listed(ctx) == UrlError(u, ctx.http_allowed_domains, c.scope # "net.http") = "ok"
             target(ctx) == webhook_target_matches_allowlist(NormalizedUrl(u), ctx.webhook_allowed_targets)
             passes(ctx) == \/ c.scope \notin NetworkScopes
                            \/ /\ HasUrl(c) /\ u.fragment = NoFragment /\ listed(ctx)
                               /\ c.scope = "webhook.emit" => target(ctx)
  <2>1. \A ctx : NetworkAllowlistRule(c, ctx).action = "deny" <=> ~passes(ctx)
    BY SMT DEF NetworkAllowlistRule
  <2>2. listed(new) => listed(old)
    BY UrlPasses DEF AtLeastAsStrict
  <2>3. target(new) => target(old)
    BY TargetsGrow DEF AtLeastAsStrict
  <2>4. passes(new) => passes(old)
    BY <2>2, <2>3
  <2> QED BY <1>3, <2>1, <2>4 DEF RuleDenies
<1>4. CASE WorkspaceRule(c, old).action = "deny"
  BY <1>4, SMT DEF WorkspaceRule, RuleDenies
<1> QED BY <1>1, <1>2, <1>3, <1>4 DEF RuleDenies

LEMMA StricterAsks ==
    ASSUME NEW c, NEW old, NEW new, AtLeastAsStrict(new, old),
           ApprovalRequiredRule(c, old).action = "require_approval"
    PROVE  ApprovalRequiredRule(c, new).action = "require_approval"
<1> DEFINE to_domain(ctx) == /\ HasUrl(c) /\ extract_url(c).host # NoHost
                             /\ hostname_in_allowlist(extract_url(c).host, ctx.approval_required_domains)
           keyword(ctx) == c.words \cap ctx.approval_required_payload_keywords # {}
           asks(ctx) == \/ c.scope \in ctx.approval_required_scopes \/ to_domain(ctx) \/ keyword(ctx)
                        \/ ctx.profile = "prod" /\ c.side_effects /\ ~ctx.dry_run
<1>1. \A ctx : ApprovalRequiredRule(c, ctx).action = "require_approval" <=> asks(ctx)
  BY SMT DEF ApprovalRequiredRule, PolicyDecision, RequireApproval, NoOpinion
<1>2. to_domain(old) => to_domain(new)
  BY AllowlistGrows DEF AtLeastAsStrict
<1>3. keyword(old) => keyword(new)
  BY DEF AtLeastAsStrict
<1>4. asks(old) => asks(new)
  BY <1>2, <1>3 DEF AtLeastAsStrict
<1> QED BY <1>1, <1>4

\* What execute_tool_call says first, and that stricter settings say no less.
LEMMA FirstSays ==
    ASSUME NEW c, NEW ctx
    PROVE  \/ Denial(first_decision(c, ctx)) \/ first_decision(c, ctx) = Allow("ok")
           \/ /\ first_decision(c, ctx) = gate_evaluate(c, ctx) /\ first_decision(c, ctx) \in Decisions
              /\ first_decision(c, ctx).action = "require_approval"
<1>1. Denial(Deny("tool_unknown")) /\ Denial(Deny("args_invalid"))
  BY SMT DEF Decisions, Denial, Deny, PolicyDecision, DenyReasons
<1>2. \/ Denial(gate_evaluate(c, ctx)) \/ gate_evaluate(c, ctx) = Allow("ok")
      \/ gate_evaluate(c, ctx) \in Decisions /\ gate_evaluate(c, ctx).action = "require_approval"
  BY GateSays
<1> QED BY <1>1, <1>2 DEF first_decision

LEMMA StricterSaysNoLess ==
    ASSUME NEW c, NEW old, NEW new, AtLeastAsStrict(new, old)
    PROVE  /\ first_decision(c, old).action = "deny" => first_decision(c, new).action = "deny"
           /\ first_decision(c, old).action # "allow" => first_decision(c, new).action # "allow"
<1>1. CASE ~c.known \/ ~c.args_ok
  BY <1>1, SMT DEF first_decision, Deny, PolicyDecision
<1>2. CASE c.known /\ c.args_ok
  <2>1. first_decision(c, old) = gate_evaluate(c, old) /\ first_decision(c, new) = gate_evaluate(c, new)
    BY <1>2 DEF first_decision
  <2>2. Allow("ok").action = "allow"
    BY SMT DEF Allow, PolicyDecision
  <2>3. \A ctx : (gate_evaluate(c, ctx).action = "deny" <=> RuleDenies(c, ctx))
    BY <2>2, GateSays DEF Denial
  <2>4. \A ctx : (gate_evaluate(c, ctx).action # "allow"
                    <=> RuleDenies(c, ctx) \/ ApprovalRequiredRule(c, ctx).action = "require_approval")
    BY <2>2, GateSays DEF Denial
  <2> QED BY <2>1, <2>3, <2>4, StricterDenies, StricterAsks
<1> QED BY <1>1, <1>2

----------------------------------------------------------------------------
\* A call that was refused is refused under the settings of now, or asks for an approval that
\* was denied; a call that needed an approval still needs one, or is refused.
RefusedNow ==
    \/ first_decision(judged, policy_ctx).action = "deny"
    \/ first_decision(judged, policy_ctx).action = "require_approval" /\ approval_row = "denied"

PolicyInductive ==
    /\ approval_row \in {"none", "pending", "approved", "denied"}
    /\ outcomes \in Seq(Decisions)
    /\ \A i \in 1..Len(outcomes) :
         /\ Strictness(outcomes[i]) = 2 => RefusedNow
         /\ NeedsHuman(outcomes[i]) => first_decision(judged, policy_ctx).action # "allow"
    /\ RefusedStaysRefused

LEMMA TightenKeeps == PolicyInductive /\ Tighten => PolicyInductive'
<1> SUFFICES ASSUME PolicyInductive, Tighten PROVE PolicyInductive'
  OBVIOUS
<1> DEFINE old == first_decision(judged, policy_ctx)
           new == first_decision(judged, policy_ctx')
<1>1. AtLeastAsStrict(policy_ctx', policy_ctx) /\ UNCHANGED <<judged, approval_row, outcomes>>
  BY DEF Tighten
<1>2. (old.action = "deny" => new.action = "deny") /\ (old.action # "allow" => new.action # "allow")
  BY <1>1, StricterSaysNoLess
<1>3. new.action \in {"deny", "allow", "require_approval"}
  <2>1. Allow("ok").action = "allow"
    BY SMT DEF Allow, PolicyDecision
  <2> QED BY <2>1, FirstSays DEF Denial
<1>4. RefusedNow => RefusedNow'
  <2>1. ASSUME old.action = "require_approval", approval_row = "denied" PROVE RefusedNow'
    BY <1>1, <1>2, <1>3, <2>1 DEF RefusedNow
  <2>2. ASSUME old.action = "deny" PROVE RefusedNow'
    BY <1>1, <1>2, <2>2 DEF RefusedNow
  <2> QED BY <2>1, <2>2 DEF RefusedNow
<1>5. RefusedStaysRefused'
  BY <1>1 DEF PolicyInductive, RefusedStaysRefused
<1> QED BY <1>1, <1>2, <1>4, <1>5 DEF PolicyInductive

LEMMA DecideKeeps ==
    ASSUME PolicyInductive, NEW d \in {"approved", "denied"}, decide(d)
    PROVE  PolicyInductive'
<1>1. /\ approval_row \in {"pending", d} /\ approval_row' = d
      /\ UNCHANGED <<policy_ctx, judged, outcomes>>
  BY DEF decide
<1>2. approval_row \in {"approved", "denied"} => approval_row' = approval_row
  BY <1>1
<1>3. RefusedNow => RefusedNow'
  BY <1>1, <1>2 DEF RefusedNow
<1>4. RefusedStaysRefused'
  BY <1>1, <1>2 DEF PolicyInductive, RefusedStaysRefused
<1>5. approval_row' \in {"none", "pending", "approved", "denied"}
  BY <1>1
<1> QED BY <1>1, <1>3, <1>4, <1>5 DEF PolicyInductive

\* The outcome of an execution: what it says of the settings of now.
LEMMA ExecuteFacts ==
    ASSUME PolicyInductive, execute
    PROVE  \E d \in Decisions :
             /\ outcomes' = Append(outcomes, d)
             /\ approval_row' \in {"none", "pending", "approved", "denied"}
             /\ approval_row \in {"approved", "denied"} => approval_row' = approval_row
             /\ Strictness(d) = 2 => RefusedNow
             /\ NeedsHuman(d) => first_decision(judged, policy_ctx).action # "allow"
             /\ RefusedNow => Strictness(d) = 2
             /\ d.action = "allow" /\ first_decision(judged, policy_ctx).action # "allow"
                  => d.reason = "approved_override" /\ approval_row = "approved"
<1> DEFINE f == first_decision(judged, policy_ctx)
<1>1. PICK d : /\ d = (IF f.action # "require_approval" THEN f
                       ELSE IF approval_row = "approved" THEN approved_evaluate(judged, policy_ctx)
                       ELSE IF approval_row = "denied" THEN Deny("approval_denied")
                       ELSE f)
               /\ outcomes' = Append(outcomes, d)
               /\ approval_row' = IF f.action = "require_approval" THEN create_pending ELSE approval_row
  BY DEF execute
<1>2. /\ approval_row \in {"none", "pending", "approved", "denied"}
      /\ approval_row' \in {"none", "pending", "approved", "denied"}
      /\ approval_row \in {"approved", "denied"} => approval_row' = approval_row
  BY <1>1 DEF PolicyInductive, create_pending
<1>3. /\ Allow("ok") \in Decisions /\ Allow("ok").action = "allow" /\ Allow("ok").reason = "ok"
      /\ Allow("approved_override") \in Decisions /\ Allow("approved_override").action = "allow"
      /\ Allow("approved_override").reason = "approved_override"
      /\ Deny("approval_denied") \in Decisions /\ Deny("approval_denied").action = "deny"
  BY SMT DEF Allow, Deny, PolicyDecision, Decisions
<1>4. CASE Denial(f)
  <2>1. d = f /\ d \in Decisions /\ d.action = "deny" /\ d.reason \in DenyReasons
    BY <1>1, <1>4 DEF Denial
  <2>2. ~NeedsHuman(d)
    BY <2>1, SMT DEF NeedsHuman, DenyReasons
  <2>3. RefusedNow /\ Strictness(d) = 2
    BY <2>1, SMT DEF RefusedNow, Strictness
  <2>4. d.action # "allow"
    BY <2>1
  <2> QED BY <1>1, <1>2, <2>1, <2>2, <2>3, <2>4
<1>5. CASE f = Allow("ok")
  <2>1. d = f /\ d \in Decisions /\ d.action = "allow" /\ d.reason = "ok" /\ f.action = "allow"
    BY <1>1, <1>3, <1>5
  <2>2. ~NeedsHuman(d) /\ Strictness(d) # 2
    BY <2>1, SMT DEF NeedsHuman, Strictness
  <2>3. ~RefusedNow
    BY <2>1 DEF RefusedNow
  <2> QED BY <1>1, <1>2, <2>1, <2>2, <2>3
<1>6. CASE f = gate_evaluate(judged, policy_ctx) /\ f \in Decisions /\ f.action = "require_approval"
  <2>0. f.action # "allow" /\ f.action # "deny"
    BY <1>6
  <2>1. CASE approval_row = "approved"
    <3>1. d = Allow("approved_override")
      BY <1>1, <1>6, <2>1 DEF approved_evaluate
    <3>2. ~RefusedNow
      BY <2>0, <2>1 DEF RefusedNow
    <3>3. Strictness(d) # 2
      BY <1>3, <3>1, SMT DEF Strictness
    <3> QED BY <1>1, <1>2, <1>3, <2>0, <2>1, <3>1, <3>2, <3>3
  <2>2. CASE approval_row = "denied"
    <3>1. d = Deny("approval_denied")
      BY <1>1, <1>6, <2>2
    <3>2. RefusedNow
      BY <1>6, <2>2 DEF RefusedNow
    <3>3. Strictness(d) = 2
      BY <1>3, <3>1, SMT DEF Strictness
    <3>4. d.action # "allow"
      BY <1>3, <3>1
    <3> QED BY <1>1, <1>2, <1>3, <2>0, <3>1, <3>2, <3>3, <3>4
  <2>3. CASE approval_row \notin {"approved", "denied"}
    <3>1. d = f
      BY <1>1, <2>3
    <3>2. ~RefusedNow
      BY <2>0, <2>3 DEF RefusedNow
    <3>3. Strictness(d) # 2
      BY <1>6, <3>1, SMT DEF Strictness
    <3> QED BY <1>1, <1>2, <1>6, <2>0, <3>1, <3>2, <3>3
  <2> QED BY <2>1, <2>2, <2>3
<1> QED BY <1>4, <1>5, <1>6, FirstSays

LEMMA ExecuteKeeps == PolicyInductive /\ execute => PolicyInductive'
<1> SUFFICES ASSUME PolicyInductive, execute PROVE PolicyInductive'
  OBVIOUS
<1> DEFINE f == first_decision(judged, policy_ctx)
           n == Len(outcomes)
<1>1. PICK d \in Decisions :
             /\ outcomes' = Append(outcomes, d)
             /\ approval_row' \in {"none", "pending", "approved", "denied"}
             /\ approval_row \in {"approved", "denied"} => approval_row' = approval_row
             /\ Strictness(d) = 2 => RefusedNow
             /\ NeedsHuman(d) => f.action # "allow"
             /\ RefusedNow => Strictness(d) = 2
             /\ d.action = "allow" /\ f.action # "allow" => d.reason = "approved_override" /\ approval_row = "approved"
  BY ExecuteFacts
<1>2. judged' = judged /\ policy_ctx' = policy_ctx
  BY DEF execute
<1> HIDE DEF f
<1>3. /\ n \in Nat /\ outcomes' \in Seq(Decisions) /\ Len(outcomes') = n + 1 /\ outcomes'[n + 1] = d
      /\ \A i \in 1..n : outcomes'[i] = outcomes[i]
      /\ DOMAIN outcomes = 1..n /\ DOMAIN outcomes' = 1..(n + 1)
      /\ \A i \in 1..(n + 1) : i \in 1..n \/ i = n + 1
  BY <1>1, SMT DEF PolicyInductive
<1>4. RefusedNow => RefusedNow'
  BY <1>1, <1>2 DEF RefusedNow
<1>5. \A i \in 1..Len(outcomes') :
         /\ Strictness(outcomes'[i]) = 2 => RefusedNow'
         /\ NeedsHuman(outcomes'[i]) => f.action # "allow"
  BY <1>1, <1>3, <1>4 DEF PolicyInductive, f
<1>6. RefusedStaysRefused'
  <2> SUFFICES ASSUME NEW i \in 1..(n + 1), NEW j \in 1..(n + 1), i < j
               PROVE  /\ Strictness(outcomes'[i]) = 2 => Strictness(outcomes'[j]) = 2
                      /\ NeedsHuman(outcomes'[i]) /\ outcomes'[j].action = "allow"
                           => outcomes'[j].reason = "approved_override" /\ approval_row' = "approved"
    BY <1>3 DEF RefusedStaysRefused
  <2>1. i \in 1..n
    BY <1>3, SMT
  <2>2. CASE j \in 1..n
    <3>1. /\ Strictness(outcomes[i]) = 2 => Strictness(outcomes[j]) = 2
          /\ NeedsHuman(outcomes[i]) /\ outcomes[j].action = "allow"
               => outcomes[j].reason = "approved_override" /\ approval_row = "approved"
      BY <1>3, <2>1, <2>2 DEF PolicyInductive, RefusedStaysRefused
    <3> QED BY <1>1, <1>3, <2>1, <2>2, <3>1
  <2>3. CASE j = n + 1
    <3>1. /\ Strictness(outcomes[i]) = 2 => RefusedNow
          /\ NeedsHuman(outcomes[i]) => f.action # "allow"
      BY <2>1 DEF PolicyInductive, f
    <3>2. outcomes'[i] = outcomes[i] /\ outcomes'[j] = d
      BY <1>3, <2>1, <2>3
    <3> QED BY <1>1, <3>1, <3>2
  <2> QED BY <1>3, <2>2, <2>3
<1>7. first_decision(judged', policy_ctx') = f
  BY <1>2 DEF f
<1> QED BY <1>1, <1>3, <1>5, <1>6, <1>7 DEF PolicyInductive

\* RefusedStaysRefused, for all calls, hosts, lists and changes of the settings that only
\* make them stricter (gate.py, rules.py, approval_flow.py).
THEOREM RefusalsLast == PolicySpec => []RefusedStaysRefused
<1>1. PolicyInit => PolicyInductive
  <2> SUFFICES ASSUME PolicyInit PROVE PolicyInductive
    OBVIOUS
  <2>1. outcomes \in Seq(Decisions) /\ 1..Len(outcomes) = {} /\ DOMAIN outcomes = {} /\ approval_row = "none"
    BY SMT DEF PolicyInit
  <2> QED BY <2>1 DEF PolicyInductive, RefusedStaysRefused
<1>2. PolicyInductive /\ [PolicyNext]_policy_vars => PolicyInductive'
  <2> SUFFICES ASSUME PolicyInductive, [PolicyNext]_policy_vars PROVE PolicyInductive'
    OBVIOUS
  <2>1. CASE UNCHANGED policy_vars
    BY <2>1 DEF policy_vars, PolicyInductive, RefusedNow, RefusedStaysRefused
  <2> QED BY <2>1, ExecuteKeeps, DecideKeeps, TightenKeeps DEF PolicyNext
<1>3. PolicyInductive => RefusedStaysRefused
  BY DEF PolicyInductive
<1> QED BY <1>1, <1>2, <1>3, PTL DEF PolicySpec

----------------------------------------------------------------------------
(* The net tools *)

\* normalize_url changes the port of a URL only, and never to the default one.
LEMMA NormalizedFacts ==
    ASSUME NEW u \in Urls
    PROVE  /\ NormalizedUrl(u) \in Urls
           /\ NormalizedUrl(u).https = u.https /\ NormalizedUrl(u).host = u.host
           /\ NormalizedUrl(u).credentials = u.credentials /\ NormalizedUrl(u).fragment = u.fragment
           /\ NormalizedUrl(u).port = IF u.port = HttpsPort THEN NoPort ELSE u.port
BY SMT DEF NormalizedUrl, Urls, HttpsPort, NoPort

\* A URL that passed the checks still passes them in its normal form.
LEMMA NormalizedPasses ==
    ASSUME NEW u \in Urls, NEW a, UrlError(u, a, FALSE) = "ok"
    PROVE  UrlError(NormalizedUrl(u), a, FALSE) = "ok"
BY NormalizedFacts, SMT DEF UrlError, HttpsPort, NoPort, BadPort, NoHost

\* The resolver can refuse a URL, never admit one that the checks refused.
LEMMA ValidatedPasses ==
    ASSUME NEW u, NEW a, NEW e \in validate_url_async(u, a, FALSE), e = "ok"
    PROVE  UrlError(u, a, FALSE) = "ok"
<1>1. CASE UrlError(u, a, FALSE) # "ok"
  <2>1. validate_url_async(u, a, FALSE) = {UrlError(u, a, FALSE)}
    BY <1>1 DEF validate_url_async
  <2> QED BY <2>1
<1> QED BY <1>1

\* urldefrag changes the fragment only.
LEMMA FragmentlessFacts ==
    ASSUME NEW u \in Urls
    PROVE  fragmentless(u) \in Urls /\ fragmentless(u).fragment = NoFragment
BY SMT DEF fragmentless, Urls, NoFragment

ToolHeaders == {"content-type", "signature", "idempotency-key"}
HeaderNames == ToolHeaders \cup UNION {c.headers : c \in NetCalls}
NetRequests ==
    [method : {"GET", "POST"}, url : Urls, content : Nat, params : BOOLEAN, headers : SUBSET HeaderNames]

LEMMA HeaderFacts ==
    /\ \A c \in NetCalls : c.headers \subseteq HeaderNames
    /\ {"content-type"} \subseteq HeaderNames /\ {"signature"} \subseteq HeaderNames
    /\ {"idempotency-key"} \subseteq HeaderNames
<1>1. ASSUME NEW c \in NetCalls PROVE c.headers \subseteq HeaderNames
  <2>1. c.headers \in {d.headers : d \in NetCalls}
    OBVIOUS
  <2> QED BY <2>1 DEF HeaderNames
<1>2. ToolHeaders \subseteq HeaderNames
  BY DEF HeaderNames
<1>3. /\ {"content-type"} \subseteq ToolHeaders /\ {"signature"} \subseteq ToolHeaders
      /\ {"idempotency-key"} \subseteq ToolHeaders
  BY DEF ToolHeaders
<1> QED BY <1>1, <1>2, <1>3

\* What is known of the i-th request of a call
NetRequestOK(c, requests, i) ==
    LET r == requests[i]
        first == requests[1]
    IN  /\ AllowedUrl(c, r.url) /\ r.url.fragment = NoFragment /\ r.url.port # HttpsPort
        /\ HostLabels[first.url.host] = HostLabels[r.url.host] /\ first.url.port = r.url.port
        /\ r.content = IF r.method = "POST" THEN c.body ELSE NoBody
        /\ i > 1 => c.follow_redirects /\ ~r.params /\ requests[i-1].method \in {"POST", r.method}

WebhookOK(c, r) ==
    /\ c.signature => "signature" \in r.headers
    /\ c.key # "none" => "idempotency-key" \in r.headers

\* The request of the round is the last one sent, no URL names the default port, and nothing
\* is sent before the checks.
NetInductive ==
    /\ net_call \in NetCalls
    /\ net_sent \in Seq(NetRequests) /\ Len(net_sent) <= MaxRedirects + 1
    /\ net_at = "start" => net_sent = <<>>
    /\ net_at = "exchange" => net_sent # <<>> /\ net_request = net_sent[Len(net_sent)]
    /\ net_at # "returned" => net_result = NoNetResult
    /\ \A i \in 1..Len(net_sent) : NetRequestOK(net_call, net_sent, i)
    /\ net_call.dry_run => net_sent = <<>>
    /\ net_call.tool = "webhook.emit" /\ net_sent # <<>> => Len(net_sent) = 1 /\ WebhookOK(net_call, net_sent[1])
    /\ net_result.ok /\ net_result.code = "response" => net_result.redirects = Len(net_sent) - 1

LEMMA NetInductiveImplies == NetInductive => NetRequestsConfined
<1> SUFFICES ASSUME NetInductive PROVE NetRequestsConfined
  OBVIOUS
<1>1. DOMAIN net_sent = 1..Len(net_sent)
  BY SMT DEF NetInductive
<1>2. \A i \in DOMAIN net_sent : NetRequestOK(net_call, net_sent, i)
  BY <1>1 DEF NetInductive
<1> QED BY <1>2, SMT DEF NetInductive, NetRequestsConfined, NetRequestOK, WebhookOK

\* The call returns: the requests stay what they are.
LEMMA NetReturned ==
    ASSUME NetInductive, net_at' = "returned", UNCHANGED <<net_call, net_request, net_sent>>,
           net_result'.ok /\ net_result'.code = "response" => net_result'.redirects = Len(net_sent) - 1
    PROVE  NetInductive'
BY DEF NetInductive

LEMMA ReturnsKeeps ==
    ASSUME NetInductive, NEW ok, NEW code, Returns(ok, code), ok /\ code = "response" => net_sent # <<>>
    PROVE  NetInductive'
<1>1. net_result'.ok /\ net_result'.code = "response" => net_result'.redirects = Len(net_sent) - 1
  BY SMT DEF Returns
<1> QED BY <1>1, NetReturned DEF Returns

\* A request goes out: the first one, or one that follows a redirect within the origin.
LEMMA SendKeeps ==
    ASSUME NetInductive, NEW r \in NetRequests, Send(r), net_at # "returned", ~net_call.dry_run,
           AllowedUrl(net_call, r.url), r.url.fragment = NoFragment, r.url.port # HttpsPort,
           r.content = IF r.method = "POST" THEN net_call.body ELSE NoBody,
           net_call.tool = "webhook.emit" => net_sent = <<>> /\ WebhookOK(net_call, r),
           net_sent # <<>> =>
              /\ net_call.follow_redirects /\ ~r.params /\ net_request = net_sent[Len(net_sent)]
              /\ net_request.method \in {"POST", r.method} /\ Len(net_sent) <= MaxRedirects
              /\ HostLabels[net_request.url.host] = HostLabels[r.url.host] /\ net_request.url.port = r.url.port
    PROVE  NetInductive'
<1> DEFINE n == Len(net_sent)
<1>1. /\ n \in Nat /\ net_sent' \in Seq(NetRequests) /\ Len(net_sent') = n + 1 /\ net_sent'[n + 1] = r
      /\ \A i \in 1..n : net_sent'[i] = net_sent[i]
      /\ net_sent = <<>> <=> n = 0
  BY SMT DEF NetInductive, Send
<1>2. \A i \in 1..n : NetRequestOK(net_call', net_sent', i)
  <2> SUFFICES ASSUME NEW i \in 1..n PROVE NetRequestOK(net_call', net_sent', i)
    OBVIOUS
  <2>1. NetRequestOK(net_call, net_sent, i)
    BY DEF NetInductive
  <2>2. net_sent'[i] = net_sent[i] /\ net_sent'[1] = net_sent[1] /\ (i > 1 => net_sent'[i-1] = net_sent[i-1])
    BY <1>1, SMT
  <2>3. net_call' = net_call
    BY DEF Send
  <2> QED BY <2>1, <2>2, <2>3, SMT DEF NetRequestOK
<1>3. NetRequestOK(net_call', net_sent', n + 1)
  <2>1. net_call' = net_call
    BY DEF Send
  <2>2. CASE n = 0
    BY <1>1, <2>1, <2>2, SMT DEF NetRequestOK
  <2>3. CASE n > 0
    <3>1. NetRequestOK(net_call, net_sent, n)
      BY <1>1, <2>3, SMT DEF NetInductive
    <3>2. net_sent'[1] = net_sent[1] /\ net_sent'[n + 1 - 1] = net_sent[n] /\ n + 1 > 1 /\ net_request = net_sent[n]
      BY <1>1, <2>3, SMT
    <3> QED BY <1>1, <2>1, <2>3, <3>1, <3>2, SMT DEF NetRequestOK
  <2> QED BY <1>1, <2>2, <2>3, SMT
<1>4. \A i \in 1..Len(net_sent') : NetRequestOK(net_call', net_sent', i)
  <2>1. \A i \in 1..Len(net_sent') : i \in 1..n \/ i = n + 1
    BY <1>1, SMT
  <2> QED BY <1>2, <1>3, <2>1
<1>5. /\ net_at' = "exchange" /\ net_request' = r /\ net_call' = net_call
      /\ net_result' = net_result /\ net_result = NoNetResult
  BY DEF Send, NetInductive
<1>6. Len(net_sent') <= MaxRedirects + 1
  BY <1>1, NetToolsAssumption, SMT
<1>7. net_call.tool = "webhook.emit" => n = 0
  BY <1>1
<1> HIDE DEF n
<1>8. /\ net_sent' # <<>> /\ net_request' = net_sent'[Len(net_sent')]
      /\ net_call.tool = "webhook.emit" => Len(net_sent') = 1 /\ WebhookOK(net_call, net_sent'[1])
  BY <1>1, <1>5, <1>7, SMT
<1>9. ~(net_result'.ok /\ net_result'.code = "response")
  BY <1>5, SMT DEF NoNetResult
<1> QED BY <1>1, <1>4, <1>5, <1>6, <1>8, <1>9 DEF NetInductive

LEMMA HttpRunKeeps == NetInductive /\ http_run => NetInductive'
<1> SUFFICES ASSUME NetInductive, http_run PROVE NetInductive'
  OBVIOUS
<1> DEFINE u == net_call.url
           a == NetSettings.http_allowed_domains
           r == [method |-> net_call.method, url |-> NormalizedUrl(u), content |-> net_call.body,
                 params |-> net_call.params,
                 headers |-> net_call.headers \cup IF net_call.body = NoBody THEN {} ELSE {"content-type"}]
<1>0. net_at = "start" /\ net_call.tool = "net.http" /\ net_sent = <<>> /\ net_call \in NetCalls
  BY DEF http_run, NetInductive
<1>1. PICK e \in validate_url_async(u, a, FALSE) :
         IF u.fragment # NoFragment THEN Returns(FALSE, "INVALID_ARGS")
         ELSE IF e # "ok" THEN Returns(FALSE, classify_url_error(e))
         ELSE IF net_call.body > MaxBodyBytes THEN Returns(FALSE, "BODY_TOO_LARGE")
         ELSE IF net_call.dry_run THEN Returns(TRUE, "dry_run")
         ELSE Send(r)
  BY DEF http_run
<1> HIDE DEF a
<1>2. (\A code : Returns(FALSE, code) => NetInductive') /\ (Returns(TRUE, "dry_run") => NetInductive')
  BY ReturnsKeeps
<1>3. CASE u.fragment = NoFragment /\ e = "ok" /\ ~net_call.dry_run /\ Send(r)
  <2>1. /\ u \in Urls /\ net_call.body \in Nat /\ net_call.headers \subseteq HeaderNames
        /\ net_call.method \in {"GET", "POST"} /\ net_call.params \in BOOLEAN
        /\ net_call.method = "GET" => net_call.body = 0
    BY <1>0, NetToolsAssumption, HeaderFacts
  <2>2. NormalizedUrl(u) \in Urls /\ NormalizedUrl(u).fragment = NoFragment /\ NormalizedUrl(u).port # HttpsPort
    BY <1>3, <2>1, NormalizedFacts, SMT DEF HttpsPort, NoPort
  <2>3. AllowedUrl(net_call, NormalizedUrl(u))
    BY <1>0, <1>3, <2>1, ValidatedPasses, NormalizedPasses DEF AllowedUrl, a
  <2> HIDE DEF u
  <2>4. /\ r \in NetRequests /\ r.url = NormalizedUrl(u)
        /\ r.content = IF r.method = "POST" THEN net_call.body ELSE NoBody
    <3>1. r.headers \subseteq HeaderNames
      BY <2>1, HeaderFacts, SMT
    <3> QED BY <2>1, <2>2, <3>1, SMT DEF NetRequests, NoBody
  <2> HIDE DEF r
  <2> QED BY <1>0, <1>3, <2>2, <2>3, <2>4, SendKeeps
<1> QED BY <1>1, <1>2, <1>3

LEMMA WebhookRunKeeps == NetInductive /\ webhook_run => NetInductive'
<1> SUFFICES ASSUME NetInductive, webhook_run PROVE NetInductive'
  OBVIOUS
<1> DEFINE u == net_call.url
           r(h) == [method |-> "POST", url |-> NormalizedUrl(u), content |-> net_call.body, params |-> FALSE,
                    headers |-> h \cup {"content-type"} \cup IF net_call.signature THEN {"signature"} ELSE {}]
           targets == NetSettings.webhook_allowed_targets
<1>0. net_at = "start" /\ net_call.tool = "webhook.emit" /\ net_sent = <<>> /\ net_call \in NetCalls
  BY DEF webhook_run, NetInductive
<1>1. PICK e \in validate_url_async(u, <<>>, TRUE) :
         IF u.fragment # NoFragment THEN Returns(FALSE, "INVALID_ARGS")
         ELSE IF e # "ok" THEN Returns(FALSE, classify_url_error(e))
         ELSE IF ~webhook_target_matches_allowlist(NormalizedUrl(u), targets)
         THEN Returns(FALSE, "TARGET_NOT_ALLOWLISTED")
         ELSE IF net_call.body > MaxBodyBytes THEN Returns(FALSE, "PAYLOAD_TOO_LARGE")
         ELSE IF resolve_idempotency_header = {} THEN Returns(FALSE, "INVALID_ARGS")
         ELSE IF net_call.signature /\ net_call.secrets = "no_provider"
         THEN Returns(FALSE, "MISSING_SECRETS_PROVIDER")
         ELSE IF net_call.signature /\ net_call.secrets = "fails"
         THEN Returns(FALSE, "SECRET_RESOLVE_FAILED")
         ELSE IF net_call.dry_run THEN Returns(TRUE, "dry_run")
         ELSE \E h \in resolve_idempotency_header : Send(r(h))
  BY DEF webhook_run
<1> HIDE DEF r, targets
<1>2. (\A code : Returns(FALSE, code) => NetInductive') /\ (Returns(TRUE, "dry_run") => NetInductive')
  BY ReturnsKeeps
<1>3. CASE /\ u.fragment = NoFragment /\ ~net_call.dry_run
           /\ webhook_target_matches_allowlist(NormalizedUrl(u), targets)
           /\ \E h \in resolve_idempotency_header : Send(r(h))
  <2>0. PICK h \in resolve_idempotency_header : Send(r(h))
    BY <1>3
  <2>1. u \in Urls /\ net_call.body \in Nat /\ net_call.headers \subseteq HeaderNames
    BY <1>0, NetToolsAssumption, HeaderFacts
  <2>2. NormalizedUrl(u) \in Urls /\ NormalizedUrl(u).fragment = NoFragment /\ NormalizedUrl(u).port # HttpsPort
    BY <1>3, <2>1, NormalizedFacts, SMT DEF HttpsPort, NoPort
  <2>3. AllowedUrl(net_call, NormalizedUrl(u))
    BY <1>0, <1>3, SMT DEF AllowedUrl, targets
  <2>4. h \subseteq HeaderNames /\ (net_call.key # "none" => "idempotency-key" \in h)
    BY <2>1, HeaderFacts, SMT DEF resolve_idempotency_header
  <2> HIDE DEF u
  <2>5. /\ r(h) \in NetRequests /\ r(h).url = NormalizedUrl(u)
        /\ r(h).content = IF r(h).method = "POST" THEN net_call.body ELSE NoBody
    <3>1. r(h).headers \subseteq HeaderNames
      BY <2>4, HeaderFacts, SMT DEF r
    <3> QED BY <2>1, <2>2, <3>1, SMT DEF NetRequests, NoBody, r
  <2>6. WebhookOK(net_call, r(h))
    BY <2>4, SMT DEF WebhookOK, r
  <2> QED BY <1>0, <1>3, <2>0, <2>2, <2>3, <2>5, <2>6, SendKeeps
<1> QED BY <1>1, <1>2, <1>3

LEMMA HttpRedirectKeeps ==
    ASSUME NEW status, NEW location \in NetLocations, NetInductive, http_redirect(status, location)
    PROVE  NetInductive'
<1> DEFINE next == fragmentless(location)
           u == NormalizedUrl(next)
           a == NetSettings.http_allowed_domains
           get == status \in {301, 302, 303} /\ net_request.method = "POST"
           r == [method |-> IF get THEN "GET" ELSE net_request.method,
                 content |-> IF get THEN NoBody ELSE net_request.content,
                 url |-> u, params |-> FALSE, headers |-> net_request.headers]
<1>0. /\ net_at = "exchange" /\ net_call.tool = "net.http" /\ net_call.follow_redirects
      /\ net_sent # <<>> /\ net_request = net_sent[Len(net_sent)] /\ ~net_call.dry_run
  BY DEF http_redirect, NetInductive
<1>1. PICK e \in validate_url_async(next, a, FALSE) :
         IF e # "ok" THEN Returns(FALSE, classify_url_error(e))
         ELSE IF ~same_origin(net_request.url, u) THEN Returns(FALSE, "SSRF_BLOCKED")
         ELSE IF Len(net_sent) > MaxRedirects THEN Returns(FALSE, "TOOL_ERROR")
         ELSE Send(r)
  BY DEF http_redirect
<1> HIDE DEF a, r
<1>2. (\A code : Returns(FALSE, code) => NetInductive') /\ (Returns(TRUE, "dry_run") => NetInductive')
  BY ReturnsKeeps
<1>3. CASE e = "ok" /\ same_origin(net_request.url, u) /\ ~(Len(net_sent) > MaxRedirects) /\ Send(r)
  <2>1. next \in Urls /\ next.fragment = NoFragment
    BY NetToolsAssumption, FragmentlessFacts
  <2> HIDE DEF next
  <2>2. u \in Urls /\ u.fragment = NoFragment /\ u.port # HttpsPort
    BY <2>1, NormalizedFacts, SMT DEF HttpsPort, NoPort
  <2>3. AllowedUrl(net_call, u)
    BY <1>0, <1>3, <2>1, ValidatedPasses, NormalizedPasses DEF AllowedUrl, a
  <2> HIDE DEF u
  <2>4. /\ Len(net_sent) \in 1..Len(net_sent) /\ net_request \in NetRequests
        /\ Len(net_sent) <= MaxRedirects
    BY <1>0, <1>3, NetToolsAssumption, SMT DEF NetInductive
  <2>5. NetRequestOK(net_call, net_sent, Len(net_sent))
    BY <2>4 DEF NetInductive
  <2>6. /\ net_request.url.port # HttpsPort
        /\ net_request.content = IF net_request.method = "POST" THEN net_call.body ELSE NoBody
    BY <1>0, <2>5 DEF NetRequestOK
  <2>7. HostLabels[net_request.url.host] = HostLabels[u.host] /\ net_request.url.port = u.port
    BY <1>3, <2>2, <2>6, SMT DEF same_origin, normalize_hostname, PortOf
  <2>8. /\ r \in NetRequests /\ r.url = u /\ ~r.params /\ net_request.method \in {"POST", r.method}
        /\ r.content = IF r.method = "POST" THEN net_call.body ELSE NoBody
    BY <2>2, <2>4, <2>6, SMT DEF NetRequests, NoBody, r
  <2>9. net_at # "returned" /\ ~(net_call.tool = "webhook.emit")
    BY <1>0
  <2> QED BY <1>0, <1>3, <2>2, <2>3, <2>4, <2>7, <2>8, <2>9, SendKeeps
<1> QED BY <1>1, <1>2, <1>3

LEMMA NetStepKeeps == NetInductive /\ [NetNext]_net_vars => NetInductive'
<1> SUFFICES ASSUME NetInductive, [NetNext]_net_vars PROVE NetInductive'
  OBVIOUS
<1>1. CASE http_run
  BY <1>1, HttpRunKeeps
<1>2. CASE webhook_run
  BY <1>2, WebhookRunKeeps
<1>3. CASE http_response \/ webhook_response
  <2>1. Returns(TRUE, "response") /\ net_sent # <<>>
    BY <1>3 DEF http_response, webhook_response, NetInductive
  <2> QED BY <2>1, ReturnsKeeps
<1>4. CASE \E status \in {302, 307}, location \in NetLocations : http_redirect(status, location)
  BY <1>4, HttpRedirectKeeps
<1>5. CASE \E code \in {"TIMEOUT", "TOOL_ERROR"} : NetFails(code)
  BY <1>5, ReturnsKeeps DEF NetFails
<1>6. CASE UNCHANGED net_vars
  BY <1>6 DEF net_vars, NetInductive
<1> QED BY <1>1, <1>2, <1>3, <1>4, <1>5, <1>6 DEF NetNext

\* NetRequestsConfined, for every call, every list of redirects a server may answer with and
\* every answer of the resolver: _execute_with_redirects checks each Location as run() checked
\* the first URL, and compares its origin with that of the request before (http.py, webhook.py).
THEOREM RequestsAreConfined == NetSpec => []NetRequestsConfined
<1>1. NetInit => NetInductive
  <2> SUFFICES ASSUME NetInit PROVE NetInductive
    OBVIOUS
  <2>1. net_sent \in Seq(NetRequests) /\ Len(net_sent) = 0 /\ 1..Len(net_sent) = {} /\ 0 <= MaxRedirects + 1
    BY NetToolsAssumption, SMT DEF NetInit
  <2>2. ~net_result.ok
    BY SMT DEF NetInit, NoNetResult
  <2> QED BY <2>1, <2>2 DEF NetInit, NetInductive
<1> QED BY <1>1, NetStepKeeps, NetInductiveImplies, PTL DEF NetSpec
=============================================================================
