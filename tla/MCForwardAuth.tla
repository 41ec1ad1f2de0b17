---------------------------- MODULE MCForwardAuth ----------------------------
\* Two requests at a time, one credential that contains the separator asked for
\* two scopes (one of them empty), and a grant, a grant the parser must refuse
\* and a denial as the service's rulings.
EXTENDS ForwardAuth

CONSTANTS t1, t2, sel, c, bar

MCCreds == {<<c, bar>>}
MCScopes == {<<>>, <<c>>}

Response(status, orgIDs, labelPolicies) ==
    [status |-> status, orgIDs |-> orgIDs, labelPolicies |-> labelPolicies]

MCResponses ==
    { Response(200, <<<<t1, t2>>>>, <<[tenant |-> t2, selector |-> sel]>>),
      Response(200, <<<<t1>>>>, <<[tenant |-> t2, selector |-> sel]>>),
      Response(403, <<>>, <<>>) }
===============================================================================
