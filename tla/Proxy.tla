-------------------------------- MODULE Proxy --------------------------------
(***************************************************************************)
(* The handler NewProxy (util/proxy/proxy.go) builds for one downstream:   *)
(* by the form of its URL, HTTPProxy with its host providers or            *)
(* HTTPOverGRPC. The others keep no state of the gateway's: the native     *)
(* gRPC proxy is a library's, the one without URL answers 404, the black   *)
(* hole reads and answers.                                                 *)
(***************************************************************************)
EXTENDS HTTPProxy

CONSTANTS
    Forms,          \* forms of the downstream's URL to look at
    Kinds, MaxBody, MaxSizes, WriteLimits   \* of HTTPOverGRPC

ASSUME GrpcAssumption ==
    /\ Kinds # {} /\ MaxBody \in Nat
    /\ MaxSizes \subseteq Nat /\ WriteLimits \subseteq Nat

VARIABLES
    scheme,         \* the kind of handler
    maxSize, writeLimit, step, kind, url, uri, size, length, got, client, ctx, sent, status

Grpc == INSTANCE HTTPOverGRPC

grpcVars == <<maxSize, writeLimit, step, kind, url, uri, size, length, got, client, ctx, sent, status>>

proxyVars == <<scheme, vars, grpcVars>>

\* NewProxy
SchemeOf(form) ==
    CASE form = ""                                     -> "not found"
      [] form \in {"dns://", "kubernetes://", "grpc:"} -> "http over grpc"
      [] form = "grpc-proxy://"                        -> "grpc"
      [] form = "http:blackhole"                       -> "black hole"
      [] OTHER                                         -> "http"

\* Settings only the other handler reads are left at their defaults.
ProxyInit ==
    /\ \E form \in Forms : scheme = SchemeOf(form)
    /\ Init /\ (scheme # "http" => policy = "")
    /\ Grpc!Init /\ (scheme # "http over grpc" => maxSize = 0 /\ writeLimit = 0)

\* Requests are served by the handler of the scheme.
ProxyNext ==
    \/ scheme = "http" /\ Next /\ UNCHANGED <<scheme, grpcVars>>
    \/ scheme = "http over grpc" /\ Grpc!Next /\ UNCHANGED <<scheme, vars>>

ProxySpec == ProxyInit /\ [][ProxyNext]_proxyVars

ProxyTypeOK ==
    /\ scheme \in {SchemeOf(form) : form \in Forms}
    /\ TypeOK /\ Grpc!TypeOK

\* HTTPOverGRPC's DeliveredWhole, of a gRPC downstream.
DeliveredWhole == Grpc!DeliveredWhole

\* HTTPOverGRPC's BlameFits, of a gRPC downstream.
BlameFits == Grpc!BlameFits
==============================================================================
