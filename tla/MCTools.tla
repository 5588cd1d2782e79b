------------------------------ MODULE MCTools -------------------------------
(* Hosts, calls and files for model checking the tools: settings of a host   *)
(* in all that the registry and the payload depend on; net calls with the    *)
(* hosts of MCPolicy; two calls of fs.write_text and one of fs.read_text.    *)
EXTENDS ToolSandbox, NetTools, FileTools, TLC

-----------------------------------------------------------------------------
\* The sandbox: one host with requests around the limits, the others vary.
DevHost ==
    [profile |-> "dev", dry_run |-> TRUE, allow_side_effects_in_prod |-> FALSE,
     allow_unsupported_tools |-> FALSE, queue_backend |-> "inmemory", redis_url |-> FALSE,
     enable_tool_entrypoints |-> TRUE, trusted_tool_packages |-> {}, blocked_tool_packages |-> {},
     max_tool_output_bytes |-> 2, sandbox_enabled |-> TRUE, sandbox_tools |-> {"fs", "plugin"}]

Plugin == [dist |-> <<"plugins", "Plugins">>, tool |-> "plugin", loads |-> "tool", sdk |-> "1.0", sound |-> TRUE]
Environments ==
    {<<>>, <<Plugin>>, <<[Plugin EXCEPT !.sdk = "2.0"]>>,
     <<[Plugin EXCEPT !.dist = <<"", "">>, !.tool = "other", !.loads = "raises"], Plugin>>,
     <<[Plugin EXCEPT !.loads = "factory"], [Plugin EXCEPT !.dist = <<"more", "more">>, !.sound = FALSE]>>}

SandboxCall == [tool |-> "plugin", args |-> "valid", bytes |-> 1, max_output_bytes |-> 1]

VariedHosts ==
    {[DevHost EXCEPT !.profile = p, !.allow_unsupported_tools = u, !.queue_backend = q,
                     !.redis_url = (q = "redis_streams"), !.trusted_tool_packages = t, !.blocked_tool_packages = b] :
       p \in {"dev", "prod"}, u \in BOOLEAN, q \in {"inmemory", "redis_streams"},
       t \in {{}, {<<"plugins", "plugins">>}}, b \in {{}, {<<"more", "More">>}}}

SomeScenarios ==
    [settings : VariedHosts, installed : Environments, call : {SandboxCall}]
      \cup [settings : {DevHost, [DevHost EXCEPT !.sandbox_enabled = FALSE]}, installed : {<<>>},
            call : [tool : {"fs", "http", "plugin"}, args : {"valid", "invalid"}, bytes : {1, 3, 4},
                    max_output_bytes : {3}]]

FewPrinted == [stdout |-> 1, stderr |-> 2]

\* The sandbox variables where no tool is run
SandboxIdle ==
    /\ host = [settings |-> DevHost, installed |-> <<>>] /\ request = SandboxCall
    /\ host_at = "idle" /\ failure = "none" /\ child = NoChild
    /\ printed = [stdout |-> 0, stderr |-> 0] /\ received = [stdout |-> 0, stderr |-> 0]
    /\ answer = "none" /\ verdict = NothingPrinted

-----------------------------------------------------------------------------
\* The net tools: a host allowed by name, one below it by a wildcard, one neither.
NetUrl(h) == [https |-> TRUE, host |-> h, credentials |-> FALSE, port |-> NoPort, path |-> "/p", fragment |-> NoFragment]

NetHttp == [tool |-> "net.http", method |-> "POST", url |-> NetUrl("x.io"), headers |-> {}, params |-> TRUE,
            body |-> 1, follow_redirects |-> TRUE, dry_run |-> FALSE]
NetHook == [tool |-> "webhook.emit", url |-> NetUrl("x.io"), headers |-> {}, body |-> 1, key |-> "none",
            key_header |-> "none", signature |-> FALSE, secrets |-> "ok", dry_run |-> FALSE]

NetUrls ==
    {NetUrl("x.io"), NetUrl("y.io"), NetUrl("10.0.0.1"), [NetUrl("X.io.") EXCEPT !.port = 443],
     [NetUrl("x.io") EXCEPT !.https = FALSE], [NetUrl("x.io") EXCEPT !.fragment = "f"],
     [NetUrl("x.io") EXCEPT !.port = BadPort]}

SomeNetCalls ==
    {[NetHttp EXCEPT !.url = u, !.dry_run = d] : u \in NetUrls, d \in BOOLEAN}
      \cup {[NetHttp EXCEPT !.method = "GET", !.body = 0, !.follow_redirects = f] : f \in BOOLEAN}
      \cup {[NetHttp EXCEPT !.body = 2]}
      \cup {[NetHook EXCEPT !.url = u, !.dry_run = d] : u \in NetUrls, d \in BOOLEAN}
      \cup {[NetHook EXCEPT !.signature = TRUE, !.secrets = s, !.key = "k"] : s \in {"ok", "fails", "no_provider"}}
      \cup {[NetHook EXCEPT !.key = k, !.key_header = "k", !.headers = {"idempotency-key"}] : k \in {"none", "k"}}
      \cup {[NetHook EXCEPT !.body = 2]}

SomeLocations ==
    {[NetUrl("x.io") EXCEPT !.path = "/q", !.fragment = "f"], [NetUrl("X.io.") EXCEPT !.port = 443],
     [NetUrl("x.io") EXCEPT !.port = 8443], [NetUrl("x.io") EXCEPT !.https = FALSE],
     NetUrl("a.x.io"), NetUrl("y.io")}

SomeNetSettings ==
    [http_allowed_domains |-> << [wild |-> FALSE, host |-> "x.io"], [wild |-> TRUE, host |-> "x.io"] >>,
     webhook_allowed_targets |-> << [wild |-> FALSE] @@ NetUrl("x.io") >>,
     resolve_dns |-> TRUE]

NetIdle ==
    /\ net_call = NetHttp /\ net_at = "returned" /\ net_request = NoRequest /\ net_sent = <<>>
    /\ net_result = NoNetResult

-----------------------------------------------------------------------------
\* The file tools: of the arguments, one at a time is wrong.
GoodWrite == [inside |-> TRUE, encodes |-> TRUE, fits |-> TRUE, dry_run |-> FALSE, create_parents |-> TRUE]

SomeWrites ==
    {GoodWrite, [GoodWrite EXCEPT !.inside = FALSE], [GoodWrite EXCEPT !.encodes = FALSE],
     [GoodWrite EXCEPT !.fits = FALSE], [GoodWrite EXCEPT !.dry_run = TRUE],
     [GoodWrite EXCEPT !.create_parents = FALSE]}

FileIdle ==
    /\ existed = FALSE /\ parent = FALSE /\ write_call = [w \in FileWriters |-> GoodWrite]
    /\ write_at = [w \in FileWriters |-> "returned"]
    /\ target_mode = [w \in FileWriters |-> DefaultMode]
    /\ blocks = [w \in FileWriters |-> 0] /\ synced = blocks
    /\ temps = {} /\ renamed = <<>> /\ on_disk = 0 /\ flushed = {}
    /\ outcome = [w \in FileWriters |-> "none"]
    /\ reading = [r \in FileReaders |-> "run"]
    /\ power = FALSE
=============================================================================
