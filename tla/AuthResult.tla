------------------------------ MODULE AuthResult ------------------------------
(***************************************************************************)
(* The AuthResult value of pkg/auth/authenticator.go: how the raw          *)
(* X-Scope-OrgID and X-Prom-Label-Policy headers of an answer are parsed,  *)
(* validated against each other and turned into the headers of the proxied *)
(* request.                                                                *)
(*                                                                         *)
(* An X-Scope-OrgID value is the sequence of identifiers between its pipes *)
(* after trimming; a label policy header is the sequence of its entries    *)
(* over all values and commas, each entry a record or MalformedEntry (empty*)
(* entry, no colon, empty tenant, bad escape, bad selector: the code treats*)
(* them alike).                                                            *)
(***************************************************************************)
EXTENDS Naturals, Sequences

CONSTANTS
    Tenants,        \* identifiers that tenant.ValidTenantID accepts
    BadTenant,      \* an identifier it refuses, or the empty string
    Selectors,      \* label selectors the PromQL parser accepts
    MalformedEntry  \* an X-Prom-Label-Policy entry that does not parse

ASSUME TenantAssumption == BadTenant \notin Tenants

Policies == [tenant : Tenants \cup {BadTenant}, selector : Selectors]

ASSUME EntryAssumption == MalformedEntry \notin Policies

\* The error classes authMiddleware tells apart; "invalid" stands for every
\* error that is neither ErrUnauthorized nor ErrForbidden.
Errors == {"unauthorized", "forbidden", "invalid"}

Failure(e) == [err |-> e, tenants |-> <<>>, policies |-> <<>>]

Grants == [err : {"none"}, tenants : Seq(Tenants), policies : Seq(Policies)]

Results == Grants \cup {Failure(e) : e \in Errors}

Elements(s) == {s[i] : i \in DOMAIN s}

NoDuplicates(s) == \A i, j \in DOMAIN s : s[i] = s[j] => i = j

-----------------------------------------------------------------------------

\* parseTenantIDs: at most one header value; every identifier is valid and
\* none appears twice. The identifiers it returns, when it returns no error:
ParsesTenantIDs(values) ==
    \/ values = <<>>
    \/ /\ Len(values) = 1
       /\ Elements(values[1]) \subseteq Tenants
       /\ NoDuplicates(values[1])

TenantIDs(values) == IF values = <<>> THEN <<>> ELSE values[1]

\* parseLabelPolicies: one malformed entry fails the whole header.
ParsesLabelPolicies(entries) == MalformedEntry \notin Elements(entries)

\* Mutant: the authorised-tenant loop is forgotten.
NewAuthResultNoTenantCheck(orgIDs, labelPolicies) ==
    IF ParsesTenantIDs(orgIDs) /\ orgIDs # <<>> /\ ParsesLabelPolicies(labelPolicies)
    THEN [err |-> "none", tenants |-> TenantIDs(orgIDs), policies |-> labelPolicies]
    ELSE Failure("invalid")

\* NewAuthResult: at least one tenant, and every label policy names one of the
\* authorised tenants.
NewAuthResult(orgIDs, labelPolicies) ==
    IF /\ ParsesTenantIDs(orgIDs)
       /\ Len(TenantIDs(orgIDs)) > 0
       /\ ParsesLabelPolicies(labelPolicies)
       /\ \A i \in DOMAIN labelPolicies :
             labelPolicies[i].tenant \in Elements(TenantIDs(orgIDs))
    THEN [err |-> "none", tenants |-> TenantIDs(orgIDs), policies |-> labelPolicies]
    ELSE Failure("invalid")

-----------------------------------------------------------------------------

\* What the rest of the gateway relies on in a result without error: it names
\* a tenant, names none twice, and restricts only tenants it grants.
WellFormedGrant(result) ==
    /\ result.err = "none"
    /\ Len(result.tenants) > 0
    /\ NoDuplicates(result.tenants)
    /\ \A i \in DOMAIN result.policies :
          result.policies[i].tenant \in Elements(result.tenants)
===============================================================================
