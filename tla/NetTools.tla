------------------------------ MODULE NetTools ------------------------------
(***************************************************************************)
(* One call of net.http (tools/impl/http.py) or webhook.emit               *)
(* (tools/impl/webhook.py) with a server that answers as it likes: with a  *)
(* status and a Location, late, or not at all.  A step is what the tool    *)
(* does between two network operations.  Arguments are those that the      *)
(* ArgsModel accepts: a GET has no body.  A Location is the URL that       *)
(* urljoin makes of it.                                                    *)
(***************************************************************************)
EXTENDS NetSafety, FiniteSets

CONSTANTS
    NetCalls,        \* calls: tool, args, and the context (dry_run, secrets)
    NetLocations,    \* where a server may redirect to
    NetSettings,     \* http_allowed_domains, webhook_allowed_targets, resolve_dns
    MaxBodyBytes,    \* max_event_payload_bytes
    MaxRedirects     \* _MAX_REDIRECTS

\* Of a fragment only its presence counts.
Urls ==
    [https : BOOLEAN, host : STRING, credentials : BOOLEAN, port : Int, path : STRING,
     fragment : {NoFragment, "f"}]

\* ArgsModel: the method is GET or POST, and a GET has no body.
ASSUME NetToolsAssumption ==
    /\ MaxRedirects \in Nat /\ MaxBodyBytes \in Nat
    /\ NetLocations \subseteq Urls
    /\ \A c \in NetCalls :
         /\ c.tool \in {"net.http", "webhook.emit"} /\ c.url \in Urls /\ c.body \in Nat
         /\ c.tool = "net.http" => c.method \in {"GET", "POST"} /\ c.params \in BOOLEAN
         /\ c.tool = "net.http" /\ c.method = "GET" => c.body = 0

VARIABLES
    net_call,
    net_at,      \* "start", "exchange" or "returned"
    net_request, \* the request of this round: method, url, content, params, headers
    net_sent,    \* the requests that went out
    net_result

net_vars == <<net_call, net_at, net_request, net_sent, net_result>>

NoRequest == [method |-> "none", url |-> "none", content |-> 0, params |-> FALSE, headers |-> {}]
NoNetResult == [ok |-> FALSE, code |-> "none", redirects |-> 0]
NoBody == 0

NetInit ==
    /\ net_call \in NetCalls /\ net_at = "start" /\ net_request = NoRequest
    /\ net_sent = <<>> /\ net_result = NoNetResult

-----------------------------------------------------------------------------
(* URLs *)

\* What the resolver answers for a name: kinds of addresses, or an error.
DnsAnswers == (SUBSET {"global", "private", "metadata"}) \cup {{"timeout"}, {"failed"}}

\* _validate_dns_resolution: every address must be one that may be reached.
dns_resolution_ok(answer) == answer # {} /\ answer \subseteq {"global"}

\* validate_and_normalize_url_async: what it may raise, or "ok".
validate_url_async(u, allowlist, Unlisted) ==
    LET e == UrlError(u, allowlist, Unlisted) IN
    IF e # "ok" \/ ~NetSettings.resolve_dns THEN {e}
    ELSE {IF dns_resolution_ok(answer) THEN "ok" ELSE "dns" : answer \in DnsAnswers}

classify_url_error(e) ==
    CASE e = "allowed_domains" -> "DOMAIN_NOT_ALLOWLISTED"
      [] e \in {"scheme", "no_host", "credentials", "port"} -> "INVALID_ARGS"
      [] OTHER -> "SSRF_BLOCKED"

fragmentless(u) == [u EXCEPT !.fragment = NoFragment]

\* Mutant: the port is not compared.
same_origin_AnyPort(u, v) == normalize_hostname(u.host) = normalize_hostname(v.host)

\* Both URLs are https.
same_origin(u, v) ==
    normalize_hostname(u.host) = normalize_hostname(v.host) /\ PortOf(u) = PortOf(v)

-----------------------------------------------------------------------------
(* Results *)

Returns(ok, code) ==
    /\ net_at' = "returned"
    /\ net_result' = [ok |-> ok, code |-> code,
                      redirects |-> IF ok /\ net_sent # <<>> THEN Len(net_sent) - 1 ELSE 0]
    /\ UNCHANGED <<net_call, net_request, net_sent>>

\* client.stream: the request goes out.
Send(r) ==
    /\ net_at' = "exchange" /\ net_request' = r /\ net_sent' = Append(net_sent, r)
    /\ UNCHANGED <<net_call, net_result>>

-----------------------------------------------------------------------------
(* net.http *)

\* Checks in the order of run(); the first that fails is the answer.
http_run ==
    /\ net_at = "start" /\ net_call.tool = "net.http"
    /\ \E e \in validate_url_async(net_call.url, NetSettings.http_allowed_domains, FALSE) :
         IF net_call.url.fragment # NoFragment THEN Returns(FALSE, "INVALID_ARGS")
         ELSE IF e # "ok" THEN Returns(FALSE, classify_url_error(e))
         ELSE IF net_call.body > MaxBodyBytes THEN Returns(FALSE, "BODY_TOO_LARGE")
         ELSE IF net_call.dry_run THEN Returns(TRUE, "dry_run")
         ELSE Send([method |-> net_call.method, url |-> NormalizedUrl(net_call.url),
                    content |-> net_call.body, params |-> net_call.params,
                    headers |-> net_call.headers \cup
                                IF net_call.body = NoBody THEN {} ELSE {"content-type"}])

\* A response that is not followed is the result, whatever its status.
http_response ==
    /\ net_at = "exchange" /\ net_call.tool = "net.http"
    /\ Returns(TRUE, "response")

\* A redirect in _execute_with_redirects; after the last round it raises TooManyRedirects.
http_redirect(status, location) ==
    /\ net_at = "exchange" /\ net_call.tool = "net.http" /\ net_call.follow_redirects
    /\ LET next == fragmentless(location) IN
       \E e \in validate_url_async(next, NetSettings.http_allowed_domains, FALSE) :
         IF e # "ok" THEN Returns(FALSE, classify_url_error(e))
         ELSE IF ~same_origin(net_request.url, NormalizedUrl(next)) THEN Returns(FALSE, "SSRF_BLOCKED")
         ELSE IF Len(net_sent) > MaxRedirects THEN Returns(FALSE, "TOOL_ERROR")
         ELSE LET get == status \in {301, 302, 303} /\ net_request.method = "POST" IN
              Send([method |-> IF get THEN "GET" ELSE net_request.method,
                    content |-> IF get THEN NoBody ELSE net_request.content,
                    url |-> NormalizedUrl(next), params |-> FALSE, headers |-> net_request.headers])

-----------------------------------------------------------------------------
(* webhook.emit *)

\* _resolve_idempotency_header: the headers to send, or nothing when it raises.
resolve_idempotency_header ==
    IF net_call.key = "none" THEN {net_call.headers}
    ELSE IF net_call.key_header \notin {"none", net_call.key} THEN {}
    ELSE {net_call.headers \cup {"idempotency-key"}}

webhook_run ==
    /\ net_at = "start" /\ net_call.tool = "webhook.emit"
    /\ \E e \in validate_url_async(net_call.url, <<>>, TRUE) :
         IF net_call.url.fragment # NoFragment THEN Returns(FALSE, "INVALID_ARGS")
         ELSE IF e # "ok" THEN Returns(FALSE, classify_url_error(e))
         ELSE IF ~webhook_target_matches_allowlist(NormalizedUrl(net_call.url),
                                                   NetSettings.webhook_allowed_targets)
         THEN Returns(FALSE, "TARGET_NOT_ALLOWLISTED")
         ELSE IF net_call.body > MaxBodyBytes THEN Returns(FALSE, "PAYLOAD_TOO_LARGE")
         ELSE IF resolve_idempotency_header = {} THEN Returns(FALSE, "INVALID_ARGS")
         ELSE IF net_call.signature /\ net_call.secrets = "no_provider"
         THEN Returns(FALSE, "MISSING_SECRETS_PROVIDER")
         ELSE IF net_call.signature /\ net_call.secrets = "fails"
         THEN Returns(FALSE, "SECRET_RESOLVE_FAILED")
         ELSE IF net_call.dry_run THEN Returns(TRUE, "dry_run")
         ELSE \E headers \in resolve_idempotency_header :
              Send([method |-> "POST", url |-> NormalizedUrl(net_call.url),
                    content |-> net_call.body, params |-> FALSE,
                    headers |-> headers \cup {"content-type"} \cup
                                IF net_call.signature THEN {"signature"} ELSE {}])

\* The client does not follow redirects, and any status is a success.
webhook_response ==
    /\ net_at = "exchange" /\ net_call.tool = "webhook.emit"
    /\ Returns(TRUE, "response")

\* httpx raises TimeoutException or another RequestError, before or while it reads.
NetFails(code) == net_at = "exchange" /\ Returns(FALSE, code)

NetNext ==
    \/ http_run \/ http_response \/ webhook_run \/ webhook_response
    \/ \E status \in {302, 307}, location \in NetLocations : http_redirect(status, location)
    \/ \E code \in {"TIMEOUT", "TOOL_ERROR"} : NetFails(code)

NetSpec == NetInit /\ [][NetNext]_net_vars

-----------------------------------------------------------------------------
(* Properties *)

AllowedUrl(c, u) ==
    IF c.tool = "net.http" THEN UrlError(u, NetSettings.http_allowed_domains, FALSE) = "ok"
    ELSE webhook_target_matches_allowlist(u, NetSettings.webhook_allowed_targets)

\* However the server redirects: every request goes to a URL that the settings allow and to
\* the origin of the first; a body goes with a POST only, and with every request up to the
\* redirect that turned the POST into a GET; there are at most MaxRedirects + 1 requests and
\* a dry run sends none.  A webhook goes out once, with the signature and the key asked for.
NetRequestsConfined ==
    /\ \A i \in DOMAIN net_sent :
         /\ AllowedUrl(net_call, net_sent[i].url) /\ net_sent[i].url.fragment = NoFragment
         /\ LET u == net_sent[1].url
                v == net_sent[i].url
            IN  HostLabels[u.host] = HostLabels[v.host] /\ u.port = v.port
         /\ net_sent[i].content = IF net_sent[i].method = "POST" THEN net_call.body ELSE NoBody
         /\ i > 1 => net_call.follow_redirects /\ ~net_sent[i].params
                                                       /\ net_sent[i-1].method \in {"POST", net_sent[i].method}
    /\ Len(net_sent) <= MaxRedirects + 1
    /\ net_call.dry_run => net_sent = <<>>
    /\ net_call.tool = "webhook.emit" /\ net_sent # <<>> =>
         /\ Len(net_sent) = 1
         /\ net_call.signature => "signature" \in net_sent[1].headers
         /\ net_call.key # "none" => "idempotency-key" \in net_sent[1].headers
    /\ net_result.ok /\ net_result.code = "response" => net_result.redirects = Len(net_sent) - 1
=============================================================================
