------------------------------ MODULE ClientIP ------------------------------
(***************************************************************************)
(* Where a request comes from (middleware/clientip, the X-Forwarded-For    *)
(* middleware and forward.go): what the extractors make of the headers and *)
(* of the remote address.                                                  *)
(*                                                                         *)
(* An entry of a header is an address and how it is written: "plain",      *)
(* "port" (host:port) or "brackets" ([host] alone). An X-Forwarded-For     *)
(* header, or several, is the sequence of its entries, <<>> when absent.   *)
(***************************************************************************)
EXTENDS Integers, Sequences

CONSTANTS
    Addresses,  \* what net.ParseIP accepts
    Junk,       \* what it refuses
    NoAddress   \* no address, an error or an absent header

ASSUME AddressAssumption ==
    /\ Junk \notin Addresses /\ NoAddress \notin Addresses /\ NoAddress # Junk

Forms == {"plain", "port", "brackets"}

Entries == [addr : Addresses \cup {Junk}, form : Forms]

Entry(addr, form) == [addr |-> addr, form |-> form]

\* net.SplitHostPort, then net.ParseIP; only the X-Forwarded-For extractor
\* also takes brackets off.
Parsed(e, bracketsOff) ==
    IF (e.form = "brackets" /\ ~bracketsOff) \/ e.addr = Junk THEN NoAddress ELSE e.addr

\* Mutant: counted from the first entry.
XFFClientIPFromLeft(xff, trusted) ==
    IF trusted < 0 \/ trusted > Len(xff) - 1 THEN NoAddress ELSE Parsed(xff[trusted + 1], TRUE)

\* XFFClientIPExtractor.GetClientIP: the entry to the left of those of the
\* trusted proxies, which must all be addresses.
XFFClientIP(xff, trusted) ==
    LET i == Len(xff) - trusted
    IN  IF trusted < 0 \/ trusted > Len(xff) - 1 THEN NoAddress
        ELSE IF \E j \in i .. Len(xff) : Parsed(xff[j], TRUE) = NoAddress THEN NoAddress
        ELSE Parsed(xff[i], TRUE)

\* RemoteAddrClientIPExtractor.GetClientIP
RemoteAddrClientIP(remote) == Parsed(remote, FALSE)

\* XRealIPClientIPExtractor.GetClientIP
XRealIPClientIP(realIP) == Parsed(realIP, FALSE)

\* ExtractorTypePriority
Priority == <<"xrealip", "remoteaddr", "xff">>

\* ClientIPMiddleware.GetClientIP: the first configured extractor that succeeds.
\* from is what the request says of its origin, types the extractors.
GetClientIP(types, trusted, from) ==
    LET ip(t) == CASE t = "xrealip"    -> XRealIPClientIP(from.realIP)
                   [] t = "remoteaddr" -> RemoteAddrClientIP(from.remote)
                   [] t = "xff"        -> XFFClientIP(from.xff, trusted)
        found == {n \in DOMAIN Priority : Priority[n] \in types /\ ip(Priority[n]) # NoAddress}
    IN  IF found = {} THEN NoAddress
        ELSE ip(Priority[CHOOSE n \in found : \A m \in found : n <= m])

\* XForwardedForMiddleware: a missing header is set from the context.
XForwardedFor(xff, ip) == IF xff = <<>> /\ ip # NoAddress THEN <<Entry(ip, "plain")>> ELSE xff

\* What ForwardAuthenticator tells the auth service: the address in the context,
\* else the host of the remote address.
ToldAddress(ip, remote) == IF ip # NoAddress THEN ip ELSE remote.addr

\* The request as it arrives through the proxies before the gateway: each
\* appends to X-Forwarded-For the address it was called from, in its own
\* writing, and may set X-Real-IP to it.
Arriving(client, forged, claimed, proxies, form, setRealIP) ==
    LET hops == <<client>> \o proxies
    IN  [xff    |-> forged \o [i \in 1 .. Len(proxies) |-> Entry(hops[i], form)],
         realIP |-> IF setRealIP /\ proxies # <<>> THEN Entry(hops[Len(proxies)], form) ELSE claimed,
         remote |-> Entry(hops[Len(hops)], "port")]
==============================================================================
