----------------------------- MODULE MCSdkClient -----------------------------
(* The instances of SdkClient that TLC checks. *)
EXTENDS SdkClient

CONSTANTS c1, c2, r1, r2

\* The two ends of a run, an event that fails the pump, and another run that takes the
\* replay slot.  An event that ends a run is buffered and delivered like any other.
MCTraffic ==
  ({r1} \X {"final", "terminal", "noTs"}) \cup {<<r2, "other">>}

\* One caller iterates, another one sends a request.
MCCalls == {<<c1, r1>>, <<c2, "request">>}

=============================================================================
