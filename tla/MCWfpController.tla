--------------------------- MODULE MCWfpController ---------------------------
(***************************************************************************)
(* Model-checking instance of WfpController: two session handles, one     *)
(* filter of another WFP client, and rules whose compilation gives two,  *)
(* one and no filters, and one the engine refuses.                        *)
(***************************************************************************)
EXTENDS WfpController

V4 == [fam |-> "V4", val |-> 1]
V6 == [fam |-> "V6", val |-> 1]

\* A rule for both directions (two IPv4 IP-packet layers), an inbound rule
\* for one application and an IPv6 address (one ALE layer), and a rule
\* whose remote address does not resolve (skipped by validate).
RuleBoth  == New("both")
RuleIn    == SetRemoteIp(SetAppPath(SetDirection(New("in"), "Inbound"), "app"),
                         [parts |-> 1, addr |-> V6, prefix |-> 0])
RuleBad   == SetRemoteIp(New("bad"), [parts |-> 3, addr |-> BadAddr, prefix |-> 0])

\* A rule with a port and no application: valid, but its IP-packet layer
\* has no port field, so the engine refuses its only unit.
RulePort  == SetLocalPort(SetDirection(New("port"), "Outbound"), 2)

MCBatches  == {<<RuleBoth>>, <<RuleBad, RuleIn>>, <<RuleBad, RulePort>>}

\* Ids the caller may ask to delete: the foreign filter 1, ids the engine
\* hands out (2..), a repeated id and one the engine never handed out.
MCRequests == {<<1>>, <<2>>, <<3, 3>>, <<4, 9>>}
=============================================================================
