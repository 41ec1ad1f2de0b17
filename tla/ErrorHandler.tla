---------------------------- MODULE ErrorHandler ----------------------------
(***************************************************************************)
(* The status a proxy answers when it has no response to pass on           *)
(* (util/proxy/error.go). An error is the class the handler tells apart:   *)
(*                                                                         *)
(*   canceled        context.Canceled                                      *)
(*   unexpected EOF  the client's body ended before its declared end       *)
(*   deadline        context.DeadlineExceeded                              *)
(*   grpc deadline, grpc canceled   a gRPC status, the peer's or our own   *)
(*   net read, net op   a *net.OpError that timed out, in a read or else   *)
(*   net timeout     a network time-out inside another error               *)
(*   read timeout    errHTTPRequestReadTimeout                             *)
(*   too large       *http.MaxBytesError                                   *)
(*   other           anything else                                         *)
(***************************************************************************)

\* errorHandler, for a request whose context has ended or not. "stuck" says
\* whether a further read of the request's body times out as well: that is how
\* a time-out whose operation is unknown is told to be the client's.
StatusCode(err, ended, stuck) ==
    CASE err \in {"canceled", "unexpected EOF"}   -> 499
      [] err = "grpc canceled" /\ ended           -> 499
      [] err \in {"deadline", "grpc deadline"}    -> 504
      [] err = "net read"                         -> 598
      [] err = "net op"                           -> 504
      [] err = "net timeout"                      -> IF stuck THEN 598 ELSE 504
      [] err = "read timeout"                     -> 598
      [] err = "too large"                        -> 413
      [] OTHER                                    -> 502
==============================================================================
