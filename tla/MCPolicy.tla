------------------------------ MODULE MCPolicy ------------------------------
(* Hosts, calls and settings for model checking Policy.                     *)
EXTENDS Policy, TLC

\* Two forms of one name, a name below it, an address, and a name IDNA cannot encode.
Hosts == [host \in {"x.io", "X.io."} |-> <<"x", "io">>]
           @@ [host \in {"a.x.io"} |-> <<"a", "x", "io">>] @@ [host \in {"y.io"} |-> <<"y", "io">>]
           @@ [host \in {"10.0.0.1"} |-> <<"10", "0", "0", "1">>] @@ [host \in {"localhost"} |-> <<"localhost">>]
           @@ [host \in {"?"} |-> <<>>]

ToHost(h) == [https |-> TRUE, host |-> h, credentials |-> FALSE, port |-> NoPort, path |-> "/p", fragment |-> NoFragment]
Entry_(wild, h) == [wild |-> wild, host |-> h]
Target(wild, h) == [wild |-> wild] @@ ToHost(h)

Base == [known |-> TRUE, args_ok |-> TRUE, scope |-> "net.http", manifest_scope |-> "net.http", side_effects |-> TRUE, 
         outside |-> FALSE, urls |-> <<>>, words |-> {}]
Http(u) == [Base EXCEPT !.urls = [url |-> u]]
Hook(u) == [Base EXCEPT !.urls = [webhook_url |-> u], !.scope = "webhook.emit", !.manifest_scope = "webhook.emit"]
File == [Base EXCEPT !.scope = "fs.write", !.manifest_scope = "fs.write"]

SomeCalls ==
    {Http(ToHost("a.x.io")), Http([ToHost("X.io.") EXCEPT !.port = 443]), Http(ToHost("y.io")),
     [Http(ToHost("x.io")) EXCEPT !.words = {"wire"}], Hook([ToHost("x.io") EXCEPT !.port = 443]),
     Hook(ToHost("a.x.io")), File, [File EXCEPT !.outside = TRUE], [File EXCEPT !.manifest_scope = "fs.read"]}
      \cup {Http([ToHost("x.io") EXCEPT ![f] = v]) : f \in {"https"}, v \in {FALSE}}
      \cup {Http([ToHost("x.io") EXCEPT !.credentials = TRUE]), Http([ToHost("x.io") EXCEPT !.fragment = "f"]),
            Http([ToHost("x.io") EXCEPT !.port = BadPort]), Base,
            [Base EXCEPT !.known = FALSE], [Base EXCEPT !.args_ok = FALSE]}
      \cup {Http(ToHost(h)) : h \in {NoHost, "10.0.0.1", "localhost", "?"}}

Loose ==
    [enabled_scopes |-> {"net.http", "webhook.emit", "fs.write"}, approval_required_scopes |-> {},
     approval_required_domains |-> <<>>, approval_required_payload_keywords |-> {},
     http_allowed_domains |-> <<Entry_(FALSE, "X.io."), Entry_(TRUE, "x.io")>>,
     webhook_allowed_targets |-> <<Target(TRUE, "x.io"), Target(FALSE, "x.io")>>,
     profile |-> "dev", dry_run |-> TRUE]

\* One more domain, one domain or target less, one scope less, one more scope or keyword to
\* approve, production, no dry run.
OneStepStricter(ctx) ==
    {[ctx EXCEPT !.approval_required_domains = d] :
        d \in IF Len(ctx.approval_required_domains) < 2
              THEN {<<Entry_(TRUE, "y.io")>> \o ctx.approval_required_domains,
                    <<Entry_(FALSE, "x.io")>> \o ctx.approval_required_domains}
              ELSE {}}
      \cup {[ctx EXCEPT ![f] = Tail(@)] :
              f \in {g \in {"http_allowed_domains", "webhook_allowed_targets"} : ctx[g] # <<>>}}
      \cup {[ctx EXCEPT !.enabled_scopes = @ \ {"fs.write"}], [ctx EXCEPT !.approval_required_scopes = {"fs.write"}],
            [ctx EXCEPT !.approval_required_payload_keywords = {"wire"}],
            [ctx EXCEPT !.profile = "prod"], [ctx EXCEPT !.dry_run = FALSE]}

\* The policy variables where nothing is judged
PolicyIdle == policy_ctx = {} /\ judged = {} /\ approval_row = "none" /\ outcomes = <<>>
=============================================================================
