---------------------------- MODULE MCIpNetwork ----------------------------
(***************************************************************************)
(* Checks IpNetwork::from_cidr and the range add_ip_condition derives from *)
(* it against the meaning of CIDR notation, for every address text of a   *)
(* reduced width.  Each step parses one more text: the network values are *)
(* immutable, so a behaviour is just a sequence of independent parses.    *)
(***************************************************************************)
EXTENDS IpNetwork

VARIABLES text, net

vars == <<text, net>>

\* Every text shape from_cidr distinguishes: no '/', one '/', two '/';
\* a valid or invalid address part; every prefix up to past the maximum,
\* one that overflows u8 and one that is not a number.
CidrTexts ==
    [parts : {1, 3}, addr : {BadAddr}, prefix : {0}]
    \cup [parts : {2}, addr : IpAddr \cup {BadAddr},
          prefix : (0 .. V4Bits + 1) \cup {256, NaN}]

Init ==
    /\ text \in CidrTexts
    /\ net = FromCidr(text)

Parse ==
    \E t \in CidrTexts :
        /\ text' = t
        /\ net' = FromCidr(t)

Spec == Init /\ [][Parse]_vars

TypeOK ==
    /\ text \in CidrTexts
    /\ net.ok \in BOOLEAN
    /\ net.ok => /\ net.ip \in IpAddr
                 /\ net.prefix_len \in 0 .. (IF net.ip.fam = "V4" THEN V4Bits ELSE V6Bits)

(* For every IPv4 text from_cidr accepts, the range add_ip_condition      *)
(* submits ([network, network | !mask]) holds exactly the addresses that  *)
(* share the first prefix_len bits with the written address: the mask of  *)
(* from_cidr zeroes the host bits, including at prefix 0 and at the full  *)
(* width, where the shift would overflow.                                 *)
V4RangeIsCidr ==
    (net.ok /\ net.ip.fam = "V4") =>
        LET r == V4Range(net)
        IN  {x \in 0 .. U32Max : r.low <= x /\ x <= r.high}
                = CidrMembers(text.addr, net.prefix_len)

=============================================================================
