----------------------------- MODULE IpNetwork -----------------------------
(***************************************************************************)
(* CIDR parsing and IPv4 network arithmetic of astral_wfp.rs:             *)
(* IpNetwork::from_cidr and the range computation of add_ip_condition.    *)
(*                                                                         *)
(* An address text is abstracted to what from_cidr inspects: how many     *)
(* parts split('/') yields, whether the first part parses as an IpAddr    *)
(* (and which one), and the numeric value of the second part (NaN when it *)
(* does not parse as a number).  The IPv4 width is a constant so that the *)
(* arithmetic, including the shift and complement, can be checked         *)
(* exhaustively at a reduced width; the code's width is 32.               *)
(***************************************************************************)
EXTENDS Integers, Bitwise

CONSTANTS
    V4Bits,     \* bits of an IPv4 address (32 in the code)
    V6Bits,     \* bits of an IPv6 address (128 in the code)
    BadAddr,    \* model value: a first part that is not an IP address
    NaN         \* model value: a prefix part that is not a number

ASSUME V4Bits \in Nat \ {0} /\ V6Bits \in Nat \ {0}

V4Addrs == [fam : {"V4"}, val : 0 .. 2^V4Bits - 1]
V6Addrs == [fam : {"V6"}, val : 0 .. 2^V6Bits - 1]
IpAddr  == V4Addrs \cup V6Addrs

\* The largest value of a u32 (u32::MAX), at the model's width.
U32Max == 2^V4Bits - 1

\* `!x` on a u32.
BitNot32(x) == U32Max - x

\* `x << n` on a u32 in a release build: the shift amount is taken modulo
\* the width and the bits shifted out are lost.
Shl32(x, n) == (x * 2^(n % V4Bits)) % 2^V4Bits

\* The two family widths swapped (a mutation of MaxPrefix).
MaxPrefixSwapped(fam) == IF fam = "V4" THEN V6Bits ELSE V4Bits

\* The prefix length from_cidr accepts for an address family.
MaxPrefix(fam) == IF fam = "V4" THEN V4Bits ELSE V6Bits

\* A netmask computed without the prefix-0 case: `1u32 << 32` then wraps
\* to `1 << 0` (a mutation of Mask, kept for the mutation check).
MaskWithoutZeroCase(p) ==
    IF p = V4Bits THEN U32Max
    ELSE BitNot32(Shl32(1, V4Bits - p) - 1)

\* The netmask of from_cidr and add_ip_condition.
Mask(p) ==
    IF p = 0 THEN 0
    ELSE IF p = V4Bits THEN U32Max
    ELSE BitNot32(Shl32(1, V4Bits - p) - 1)

\* `parts[1].parse::<u8>()`: a number above 255 does not parse.
ParsesAsU8(x) == x # NaN /\ x \in 0 .. 255

\* IpNetwork::from_cidr: the error it returns, or the network it builds.
\* IPv4 addresses are reduced to their network address, IPv6 kept as given.
FromCidr(t) ==
    IF t.parts # 2 THEN [ok |-> FALSE, err |-> "Invalid CIDR format"]
    ELSE IF t.addr = BadAddr THEN [ok |-> FALSE, err |-> "Invalid IP address"]
    ELSE IF ~ParsesAsU8(t.prefix) THEN [ok |-> FALSE, err |-> "Invalid prefix length"]
    ELSE IF t.prefix > MaxPrefix(t.addr.fam)
         THEN [ok |-> FALSE, err |-> "Prefix length exceeds maximum"]
    ELSE [ok |-> TRUE,
          ip |-> IF t.addr.fam = "V4"
                 THEN [fam |-> "V4", val |-> t.addr.val & Mask(t.prefix)]
                 ELSE t.addr,
          prefix_len |-> t.prefix]

\* The FWP_MATCH_RANGE bounds add_ip_condition builds for an IPv4 network.
V4Range(net) ==
    LET m  == Mask(net.prefix_len)
        lo == net.ip.val & m
    IN  [low |-> lo, high |-> lo | BitNot32(m)]

-----------------------------------------------------------------------------
(* Reference definitions, written from the meaning of CIDR notation.       *)

\* The addresses of a family whose first p bits equal those of a.
CidrMembers(a, p) ==
    LET bits == MaxPrefix(a.fam)
        unit == 2^(bits - p)
    IN  {x \in 0 .. 2^bits - 1 : x \div unit = a.val \div unit}

=============================================================================
