----------------------------- MODULE FilterRule -----------------------------
(***************************************************************************)
(* The FilterRule value type of astral_wfp.rs: its two constructors, its  *)
(* setters and validate().  A rule is a record with the fields of the     *)
(* Rust struct; an Option is a value or None.  The setters take `&mut     *)
(* self` and are modelled as functions from a rule to the updated rule;   *)
(* the module that owns a rule variable applies them as actions.          *)
(*                                                                         *)
(* Abstractions: name, app_path and description are model values; an      *)
(* address text is an IpNetwork text record (see IpNetwork).  `enabled`   *)
(* is always true and the rule's own filter_ids is never written by any   *)
(* code (add_filters takes the rules by shared reference), so neither is  *)
(* a field here.                                                          *)
(***************************************************************************)
EXTENDS IpNetwork

CONSTANT None     \* model value: Option::None

Directions == {"Inbound", "Outbound", "Both"}
Actions    == {"Allow", "Block"}
Protocols  == {"Tcp", "Udp"}

\* FilterRule::new: every optional field None, Both, Block, priority 0.
New(name) ==
    [name |-> name, app_path |-> None, local |-> None, remote |-> None,
     local_port |-> None, remote_port |-> None,
     local_port_range |-> None, remote_port_range |-> None,
     protocol |-> None, direction |-> "Both", action |-> "Block",
     priority |-> 0, description |-> None]

\* new_with_params storing the Option as given, without unwrap_or(200)
\* (a mutation of NewWithParams).
NewWithParamsNoDefault(name, app_path, local, remote, local_port, remote_port, local_port_range, remote_port_range, protocol, direction, action, priority, description) ==
    [name |-> name, app_path |-> app_path, local |-> local, remote |-> remote,
     local_port |-> local_port, remote_port |-> remote_port,
     local_port_range |-> local_port_range,
     remote_port_range |-> remote_port_range,
     protocol |-> protocol, direction |-> direction, action |-> action,
     priority |-> priority, description |-> description]

\* FilterRule::new_with_params: every field given; priority defaults to 200.
NewWithParams(name, app_path, local, remote, local_port, remote_port, local_port_range, remote_port_range, protocol, direction, action, priority, description) ==
    [name |-> name, app_path |-> app_path, local |-> local, remote |-> remote,
     local_port |-> local_port, remote_port |-> remote_port,
     local_port_range |-> local_port_range,
     remote_port_range |-> remote_port_range,
     protocol |-> protocol, direction |-> direction, action |-> action,
     priority |-> IF priority = None THEN 200 ELSE priority,
     description |-> description]

\* The setters: each replaces one field and validates nothing.
SetAppPath(r, v)         == [r EXCEPT !.app_path = v]
SetLocalIp(r, v)         == [r EXCEPT !.local = v]
SetRemoteIp(r, v)        == [r EXCEPT !.remote = v]
SetLocalPort(r, v)       == [r EXCEPT !.local_port = v]
SetRemotePort(r, v)      == [r EXCEPT !.remote_port = v]
SetLocalPortRange(r, v)  == [r EXCEPT !.local_port_range = v]
SetRemotePortRange(r, v) == [r EXCEPT !.remote_port_range = v]
SetProtocol(r, v)        == [r EXCEPT !.protocol = v]
SetDirection(r, v)       == [r EXCEPT !.direction = v]
SetAction(r, v)          == [r EXCEPT !.action = v]
SetPriority(r, v)        == [r EXCEPT !.priority = v]
SetDescription(r, v)     == [r EXCEPT !.description = v]

\* `text.parse::<IpAddr>()` succeeds: no '/' and a valid address.
ParsesAsIp(t) == t.parts = 1 /\ t.addr # BadAddr

\* The address test of validate(): a bare IP address or a CIDR network.
AddrResolvable(t) == ParsesAsIp(t) \/ FromCidr(t).ok

\* FilterRule::validate: remote first, then local; Ok when both resolve.
Validate(r) ==
    /\ r.remote # None => AddrResolvable(r.remote)
    /\ r.local # None => AddrResolvable(r.local)

\* `text.contains(":")`: a text holds a colon exactly when its address part
\* is an IPv6 address (a text that fails validate never reaches a caller
\* of this test).
ContainsColon(t) == t.addr # BadAddr /\ t.addr.fam = "V6"
=============================================================================
