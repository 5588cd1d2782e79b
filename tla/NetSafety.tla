----------------------------- MODULE NetSafety ------------------------------
(***************************************************************************)
(* Which URLs a tool may be sent to (net_safety.py).  A URL is the record  *)
(* of its parts; a host is a name, and HostLabels maps it to its labels    *)
(* after strip, lower case and IDNA: <<>> is a host that cannot be         *)
(* encoded.  An allowlist is a sequence of entries [wild, host], wild for  *)
(* "*.host".  The path of a URL stands for its path and its query.         *)
(***************************************************************************)
EXTENDS Integers, Sequences, SequencesExt

CONSTANTS
    HostLabels,   \* normalize_hostname
    IpLiterals,   \* the hosts that are IP addresses
    Localhost     \* _DISALLOWED_HOSTNAMES

NoHost == "no_host"
NoFragment == "no_fragment"
NoPort == 0       \* the URL names none
BadPort == -1     \* split.port raises
HttpsPort == 443

normalize_hostname(h) == HostLabels[h]

\* Mutant: the first wildcard that does not match ends the search.
hostname_in_allowlist_StopsAtWildcard(h, allowlist) ==
    \E i \in DOMAIN allowlist :
        LET e == allowlist[i]
            Hit(entry) == IF entry.wild THEN IsStrictSuffix(normalize_hostname(entry.host), normalize_hostname(h))
                          ELSE normalize_hostname(entry.host) = normalize_hostname(h)
        IN  Hit(e) /\ \A j \in 1..i-1 : ~allowlist[j].wild

\* A wildcard stands for the hosts below its base, not for the base.
hostname_in_allowlist(h, allowlist) ==
    \E i \in DOMAIN allowlist :
        LET base == normalize_hostname(allowlist[i].host) IN
        IF allowlist[i].wild THEN IsStrictSuffix(base, normalize_hostname(h))
        ELSE base = normalize_hostname(h)

\* What validate_and_normalize_url raises, in the order of its checks, or "ok".  Unlisted
\* says that there is no allowlist, which is not the same as an empty one.
UrlError(u, allowlist, Unlisted) ==
    CASE ~u.https -> "scheme"
      [] u.https /\ u.host = NoHost -> "no_host"
      [] u.https /\ u.host # NoHost /\ u.credentials -> "credentials"
      [] OTHER ->
           IF normalize_hostname(u.host) = <<>> THEN "hostname"
           ELSE IF u.host \in Localhost THEN "localhost"
           ELSE IF u.host \in IpLiterals THEN "ip_literal"
           ELSE IF ~Unlisted /\ ~hostname_in_allowlist(u.host, allowlist) THEN "allowed_domains"
           ELSE IF u.port = BadPort THEN "port"
           ELSE "ok"

\* The URL it returns leaves out the default port.
NormalizedUrl(u) == [u EXCEPT !.port = IF @ = HttpsPort THEN NoPort ELSE @]

PortOf(u) == IF u.port = NoPort THEN HttpsPort ELSE u.port

\* _normalize_webhook_target: the other targets of the allowlist are passed over.
WebhookTargetOK(t) ==
    /\ t.https /\ t.host # NoHost /\ ~t.credentials /\ t.fragment = NoFragment
    /\ normalize_hostname(t.host) # <<>>
    /\ t.wild => Len(normalize_hostname(t.host)) >= 2
    /\ ~t.wild => t.host \notin IpLiterals
    /\ t.port # BadPort

webhook_target_matches_allowlist(u, targets) ==
    /\ UrlError(u, <<>>, TRUE) = "ok"
    /\ u.fragment = NoFragment
    /\ \E i \in DOMAIN targets :
         LET t == targets[i] IN
         /\ WebhookTargetOK(t)
         /\ PortOf(t) = PortOf(NormalizedUrl(u)) /\ t.path = u.path
         /\ hostname_in_allowlist(u.host, << [wild |-> t.wild, host |-> t.host] >>)
=============================================================================
