---------------------------- MODULE MCHealthCheck ----------------------------
(* HealthCheck for TLC: endpoints of different intervals, timeouts and       *)
(* retries, and two that NewChecker leaves out.                              *)
EXTENDS HealthCheck

Endpoint(enabled, interval, timeout, retries) ==
    [enabled |-> enabled, url |-> TRUE, interval |-> interval,
     timeout |-> timeout, retries |-> retries]

MCConfig ==
    [e \in Endpoints |->
        CASE e = "distributor" -> Endpoint(TRUE, 2, 3, 2)
          [] e = "query"       -> Endpoint(TRUE, 3, 1, 0)
          [] e = "ruler"       -> Endpoint(FALSE, 1, 1, 0)
          [] e = "compactor"   -> Endpoint(TRUE, 0, 1, 0)]
==============================================================================
