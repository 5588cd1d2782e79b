------------------------------ MODULE MCGuards ------------------------------
(* Model checking Guards: three callers, two tools, small limits.          *)
EXTENDS Guards, TLC

CONSTANTS c1, c2, c3

Spec(capacity, burst, rate) == [capacity |-> capacity, burst |-> burst, rate |-> rate]

ThreeCallers == {c1, c2, c3}

PlainCall(tool, destination, policy) ==
    [tool |-> tool, destination |-> destination, raw_destination |-> destination, run |-> None,
     policy |-> policy, cached |-> FALSE]

\* Two calls of one tool to one host, the second of which needs an approval, and a call
\* whose success is in the ledger already, of a run that may make two calls.
ThreeCalls ==
    (c1 :> PlainCall("http", "a", "ALLOW"))
    @@ (c2 :> PlainCall("http", "a", "REQUIRE_APPROVAL"))
    @@ (c3 :> [PlainCall("fs", None, "ALLOW") EXCEPT !.run = "r", !.cached = TRUE])

OneHttp == "http" :> 1
ToolSpecs == "http" :> Spec(1, 1, 2)

RunSpec == Spec(1, 0, 0)
HostSpecs == "a" :> Spec(3, 0, 1)
NoneSpec == NoSpec
=============================================================================
