-------------------------- MODULE MCFilterCompiler --------------------------
(***************************************************************************)
(* Builds rules the way a caller can (new, new_with_params, then any      *)
(* sequence of setters) and checks, for every rule validate() accepts,    *)
(* what the filters get_layers_for_rule and add_network_filter produce    *)
(* match against what the rule says (the meaning spec.md gives a rule).   *)
(***************************************************************************)
EXTENDS FilterCompiler

CONSTANTS
    Names, Apps,        \* model values; Apps are programs
    AppForms,           \* how a caller writes a program's path: "dos"
                        \* (C:\...) or "device" (\device\harddiskvolumeN\...)
    AddrTexts,          \* address texts a caller may set
    Ports,              \* single ports a caller may set
    PortRanges,         \* (start, end) pairs a caller may set
    Priorities,         \* priorities a caller may set
    Descriptions,       \* descriptions a caller may set
    FlowPorts           \* port numbers of the flows the filters are tested on

VARIABLE rule

Opt(S) == S \cup {None}

\* The app_path texts a caller may set: a program's path in one form.
AppPaths == [app : Apps, form : AppForms]

Init ==
    \/ \E n \in Names : rule = New(n)
    \/ \E n \in Names, a \in Opt(AppPaths), l, rm \in Opt(AddrTexts),
          lp, rp \in Opt(Ports), lr, rr \in Opt(PortRanges),
          pr \in Opt(Protocols), d \in Directions, ac \in Actions,
          py \in Opt(Priorities), ds \in Opt(Descriptions) :
          rule = NewWithParams(n, a, l, rm, lp, rp, lr, rr, pr, d, ac, py, ds)

\* One setter call; its argument ranges over what a caller may pass.
Next ==
    \/ \E v \in Opt(AppPaths)         : rule' = SetAppPath(rule, v)
    \/ \E v \in Opt(AddrTexts)    : rule' = SetLocalIp(rule, v)
    \/ \E v \in Opt(AddrTexts)    : rule' = SetRemoteIp(rule, v)
    \/ \E v \in Opt(Ports)        : rule' = SetLocalPort(rule, v)
    \/ \E v \in Opt(Ports)        : rule' = SetRemotePort(rule, v)
    \/ \E v \in Opt(PortRanges)   : rule' = SetLocalPortRange(rule, v)
    \/ \E v \in Opt(PortRanges)   : rule' = SetRemotePortRange(rule, v)
    \/ \E v \in Opt(Protocols)    : rule' = SetProtocol(rule, v)
    \/ \E v \in Directions        : rule' = SetDirection(rule, v)
    \/ \E v \in Actions           : rule' = SetAction(rule, v)
    \/ \E v \in Priorities        : rule' = SetPriority(rule, v)
    \/ \E v \in Opt(Descriptions) : rule' = SetDescription(rule, v)

Spec == Init /\ [][Next]_rule

-----------------------------------------------------------------------------
(* The meaning of a rule, from spec.md sections 3, 4.3 and 4.4: a flow    *)
(* matches when it has the rule's address family (IPv6 exactly when an    *)
(* address is written in IPv6 form), a direction the rule covers, and     *)
(* every field the rule sets; the single port of a side wins over its     *)
(* range; TCP and UDP are the IANA protocols 6 and 17.                    *)

Flows ==
    LET v4 == 0 .. 2^V4Bits - 1
        v6 == 0 .. 2^V6Bits - 1
    IN  {f \in [dir : {"Inbound", "Outbound"}, fam : {"V4", "V6"}, app : Apps,
                local : v4 \cup v6, remote : v4 \cup v6,
                lport : FlowPorts, rport : FlowPorts, proto : {6, 17}] :
            f.fam = "V6" => f.local \in v6 /\ f.remote \in v6}

IanaNumber == [Tcp |-> 6, Udp |-> 17]

AddrMeans(t, fam, val) ==
    \/ t = None
    \/ ParsesAsIp(t) /\ t.addr = [fam |-> fam, val |-> val]
    \/ /\ ~ParsesAsIp(t)
       /\ t.addr.fam = fam
       /\ val \in CidrMembers(t.addr, t.prefix)

PortMeans(port, range, p) ==
    IF port # None THEN p = port
    ELSE range = None \/ (range[1] <= p /\ p <= range[2])

RuleMeans(r, flow) ==
    /\ flow.fam = (IF IsIpv6(r) THEN "V6" ELSE "V4")
    /\ r.direction \in {"Both", flow.dir}
    /\ r.app_path = None \/ r.app_path.app = flow.app
    /\ AddrMeans(r.local, flow.fam, flow.local)
    /\ AddrMeans(r.remote, flow.fam, flow.remote)
    /\ PortMeans(r.local_port, r.local_port_range, flow.lport)
    /\ PortMeans(r.remote_port, r.remote_port_range, flow.rport)
    /\ r.protocol = None \/ IanaNumber[r.protocol] = flow.proto

\* Action, description and name do not change which flows a rule
\* or its filters match; states differing only in them are one state.
MatchView ==
    [rule EXCEPT !.name = CHOOSE n \in Names : TRUE, !.action = "Block",
                 !.description = None]

MCAddrTexts ==
    { [parts |-> 1, addr |-> [fam |-> "V4", val |-> 1], prefix |-> 0],
      [parts |-> 2, addr |-> [fam |-> "V4", val |-> 3], prefix |-> 1],
      [parts |-> 1, addr |-> [fam |-> "V6", val |-> 1], prefix |-> 0],
      [parts |-> 2, addr |-> [fam |-> "V6", val |-> 0], prefix |-> 1],
      [parts |-> 2, addr |-> [fam |-> "V4", val |-> 0], prefix |-> 3] }

MCPortRanges == {<<0, 1>>}

\* Two distinct ranges, so that a range read from the other side's slot
\* differs from the one written.
MCPortRangesTwo == {<<0, 1>>, <<1, 2>>}

\* A range set with its ends swapped, which no setter rejects.
MCPortRangesInverted == {<<0, 1>>, <<2, 1>>}

-----------------------------------------------------------------------------

(* Nothing a valid rule asks for escapes its filters: every flow the rule *)
(* matches is matched by one of the filters add_filters submits for it    *)
(* (the layer choice of get_layers_for_rule, the condition values of      *)
(* add_network_filter and add_ip_condition, and the port precedence).     *)
FiltersCoverRule ==
    Validate(rule) =>
        LET fs == CompiledFilters(rule)
        IN  \A flow \in Flows :
                RuleMeans(rule, flow) => \E f \in fs : FilterMatches(f, flow)

(* The filters of a valid rule match no flow the rule does not: a filter  *)
(* never blocks or permits more traffic than its rule names.              *)
FiltersWithinRule ==
    Validate(rule) =>
        LET fs == CompiledFilters(rule)
        IN  \A flow \in Flows :
                (\E f \in fs : FilterMatches(f, flow)) => RuleMeans(rule, flow)

(* spec.md 4.5 and 8: add_filters installs every rule that passes         *)
(* validate(), one unit per selected layer.  Each unit get_layers_for_rule *)
(* and add_network_filter produce is one FwpmFilterAdd0 accepts: its      *)
(* conditions use fields the layer offers, addresses of the layer's family. *)
ValidRulesInstallable ==
    Validate(rule) => \A f \in CompiledFilters(rule) : EngineAccepts(f)

=============================================================================
