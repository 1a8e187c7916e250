--------------------------- MODULE FilterCompiler ---------------------------
(***************************************************************************)
(* How WfpController compiles one FilterRule into WFP filters:            *)
(* get_layers_for_rule (the layer selector), add_network_filter and       *)
(* add_ip_condition (the condition builder), and the weight and action    *)
(* of the FWPM_FILTER0 it submits.  All of it is pure: the same rule      *)
(* always compiles to the same filters.                                   *)
(*                                                                         *)
(* To say what a compiled filter means, a flow is the traffic a WFP layer *)
(* classifies: its direction, address family, originating application,   *)
(* local and remote address, ports and IP protocol number.  A filter      *)
(* matches a flow when its layer sees the flow and every condition holds  *)
(* (WFP ANDs the conditions of one filter).                               *)
(***************************************************************************)
EXTENDS FilterRule, Sequences

\* `is_ipv6` of get_layers_for_rule: some address text contains ':'.
IsIpv6(r) ==
    \/ r.local # None /\ ContainsColon(r.local)
    \/ r.remote # None /\ ContainsColon(r.remote)

\* get_layers_for_rule: ALE layers for a rule with an application path,
\* IP-packet layers otherwise; outbound before inbound for Both.
GetLayersForRule(r) ==
    LET fam    == IF IsIpv6(r) THEN "V6" ELSE "V4"
        kind   == IF r.app_path # None
                  THEN [Outbound |-> "ALE_AUTH_CONNECT",
                        Inbound  |-> "ALE_AUTH_RECV_ACCEPT"]
                  ELSE [Outbound |-> "OUTBOUND_IPPACKET",
                        Inbound  |-> "INBOUND_IPPACKET"]
        dirs   == IF r.direction = "Both" THEN <<"Outbound", "Inbound">>
                  ELSE <<r.direction>>
    IN  [i \in 1 .. Len(dirs) |-> [kind |-> kind[dirs[i]], fam |-> fam]]

\* add_ip_condition: an equality on a bare address, a range on an IPv4
\* network, and nothing at all for an IPv6 network (only a log line).
AddIpCondition(t, field) ==
    IF ParsesAsIp(t)
    THEN <<[field |-> field, match |-> "EQUAL", value |-> t.addr]>>
    ELSE LET n == FromCidr(t)
             r == V4Range(n)
         IN  IF n.ok /\ n.ip.fam = "V4"
             THEN <<[field |-> field, match |-> "RANGE",
                     value |-> [low |-> r.low, high |-> r.high]]>>
             ELSE <<>>

\* The range tested before the single port (a mutation of PortCondition).
PortConditionRangeFirst(port, range, field) ==
    IF range # None
    THEN <<[field |-> field, match |-> "RANGE",
            value |-> [low |-> range[1], high |-> range[2]]]>>
    ELSE IF port # None
    THEN <<[field |-> field, match |-> "EQUAL", value |-> port]>>
    ELSE <<>>

\* The port condition of one side: the single port wins over the range.
PortCondition(port, range, field) ==
    IF port # None
    THEN <<[field |-> field, match |-> "EQUAL", value |-> port]>>
    ELSE IF range # None
    THEN <<[field |-> field, match |-> "RANGE",
            value |-> [low |-> range[1], high |-> range[2]]]>>
    ELSE <<>>

\* to_wide_string: the UTF-16 code units of the text followed by a 0.  The
\* text is abstract, so its units are the text itself, then the 0.
ToWideString(t) == <<t, 0>>

\* The IP protocol number add_network_filter puts in the condition.
ProtocolNumber(p) == IF p = "Tcp" THEN 6 ELSE 17

\* The conditions add_network_filter builds, in the code's order.
\* They do not depend on the layer.  The application condition carries
\* the byte blob of to_wide_string(app_path), the path as the caller wrote
\* it; FwpmGetAppIdFromFileName0 is never called.
Conditions(r) ==
    (IF r.app_path # None
     THEN <<[field |-> "ALE_APP_ID", match |-> "EQUAL",
             value |-> ToWideString(r.app_path)]>>
     ELSE <<>>)
    \o (IF r.local # None THEN AddIpCondition(r.local, "IP_LOCAL_ADDRESS") ELSE <<>>)
    \o (IF r.remote # None THEN AddIpCondition(r.remote, "IP_REMOTE_ADDRESS") ELSE <<>>)
    \o PortCondition(r.local_port, r.local_port_range, "IP_LOCAL_PORT")
    \o PortCondition(r.remote_port, r.remote_port_range, "IP_REMOTE_PORT")
    \o (IF r.protocol # None
        THEN <<[field |-> "IP_PROTOCOL", match |-> "EQUAL",
                value |-> ProtocolNumber(r.protocol)]>>
        ELSE <<>>)

\* The FWPM_FILTER0 add_network_filter submits on one layer: the priority
\* as the 64-bit weight, Allow as PERMIT and Block as BLOCK.
Filter(r, layer) ==
    [layer      |-> layer,
     conditions |-> Conditions(r),
     weight     |-> r.priority,
     action     |-> IF r.action = "Allow" THEN "PERMIT" ELSE "BLOCK"]

-----------------------------------------------------------------------------
(* What WFP does with a filter: the flows a layer classifies and the test *)
(* of one condition.                                                      *)

\* An ALE connect or outbound-packet layer sees outbound flows, the others
\* inbound ones, each of its own address family.
LayerSees(layer, flow) ==
    /\ layer.fam = flow.fam
    /\ (layer.kind \in {"ALE_AUTH_CONNECT", "OUTBOUND_IPPACKET"})
           <=> (flow.dir = "Outbound")

\* The ALE_APP_ID WFP classifies a connection with: the blob
\* FwpmGetAppIdFromFileName0 gives for the program, the UTF-16 of its NT
\* device path (\device\harddiskvolumeN\..., lower case) with its 0.
AppId(app) == ToWideString([app |-> app, form |-> "device"])

\* The flow's value of a condition field.
FieldValue(field, flow) ==
    CASE field = "ALE_APP_ID"        -> AppId(flow.app)
      [] field = "IP_LOCAL_ADDRESS"  -> [fam |-> flow.fam, val |-> flow.local]
      [] field = "IP_REMOTE_ADDRESS" -> [fam |-> flow.fam, val |-> flow.remote]
      [] field = "IP_LOCAL_PORT"     -> flow.lport
      [] field = "IP_REMOTE_PORT"    -> flow.rport
      [] field = "IP_PROTOCOL"       -> flow.proto

\* FWP_MATCH_EQUAL and FWP_MATCH_RANGE; an address range is an IPv4 range.
CondHolds(c, flow) ==
    LET v == FieldValue(c.field, flow)
    IN  IF c.match = "EQUAL" THEN v = c.value
        ELSE IF c.field \in {"IP_LOCAL_ADDRESS", "IP_REMOTE_ADDRESS"}
        THEN v.fam = "V4" /\ c.value.low <= v.val /\ v.val <= c.value.high
        ELSE c.value.low <= v /\ v <= c.value.high

FilterMatches(f, flow) ==
    /\ LayerSees(f.layer, flow)
    /\ \A i \in 1 .. Len(f.conditions) : CondHolds(f.conditions[i], flow)

\* The filters add_filters submits for a rule, one per selected layer.
CompiledFilters(r) ==
    LET layers == GetLayersForRule(r)
    IN  {Filter(r, layers[i]) : i \in 1 .. Len(layers)}

-----------------------------------------------------------------------------
(* What FwpmFilterAdd0 accepts.  A layer offers a fixed set of condition  *)
(* fields (FWPS_FIELDS_* of the WFP headers): the ALE authorization layers *)
(* classify connections of an application, the IP-packet layers classify *)
(* packets by address only.  A condition on a field the layer lacks, or   *)
(* an address condition of the other family, or a range whose low end is *)
(* above its high end (FWP_E_INVALID_RANGE), makes the call fail.         *)

AddrFields == {"IP_LOCAL_ADDRESS", "IP_REMOTE_ADDRESS"}

LayerFields(kind) ==
    IF kind \in {"ALE_AUTH_CONNECT", "ALE_AUTH_RECV_ACCEPT"}
    THEN AddrFields \cup {"ALE_APP_ID", "IP_LOCAL_PORT", "IP_REMOTE_PORT",
                          "IP_PROTOCOL"}
    ELSE AddrFields

\* The address family of an address condition's value (a range is IPv4).
CondFamily(c) == IF c.match = "RANGE" THEN "V4" ELSE c.value.fam

EngineAccepts(f) ==
    \A i \in 1 .. Len(f.conditions) :
        LET c == f.conditions[i]
        IN  /\ c.field \in LayerFields(f.layer.kind)
            /\ c.field \in AddrFields => CondFamily(c) = f.layer.fam
            /\ c.match = "RANGE" => c.value.low <= c.value.high

-----------------------------------------------------------------------------
(* Values FwpmFilterAdd0 reads through dangling pointers.  A port range   *)
(* condition points at the `range` local of its `else if let` block, an   *)
(* IPv4 network condition at the `range` local and an IPv6 address        *)
(* condition at the `byte_array` local of add_ip_condition: all of them   *)
(* are dead when the filter is submitted.  What the engine then reads is  *)
(* undefined; the outcomes modelled are the two a build produces by reusing *)
(* the storage: the slot still holds the value written, or it holds the   *)
(* value of the same local written by the later sibling block (the remote *)
(* port range shares a slot with the local one) or by the later call of   *)
(* add_ip_condition for the remote address (same frame, same offset).     *)

\* The condition's value is read through a pointer to a dead local.
Dangles(c) ==
    \/ c.match = "RANGE"
    \/ c.field \in AddrFields /\ c.value.fam = "V6"

\* Two dangling conditions whose locals a build can place in one slot.
SameSlot(c, d) ==
    /\ c.match = d.match
    /\ (c.field \in AddrFields) <=> (d.field \in AddrFields)

\* The conditions of cs whose value condition i may carry when the engine
\* reads it: its own, or that of a later local placed in the same slot.
ReadsOf(cs, i) ==
    {i} \cup IF ~Dangles(cs[i]) THEN {}
             ELSE {j \in i + 1 .. Len(cs) : Dangles(cs[j]) /\ SameSlot(cs[i], cs[j])}

\* The filters FwpmFilterAdd0 may install for a rule on one layer.
SubmittedFilters(r, layer) ==
    LET f  == Filter(r, layer)
        cs == f.conditions
        D  == 1 .. Len(cs)
    IN  {[f EXCEPT !.conditions =
                [i \in D |-> [cs[i] EXCEPT !.value = cs[g[i]].value]]] :
            g \in {h \in [D -> D] : \A i \in D : h[i] \in ReadsOf(cs, i)}}
=============================================================================
