------------------------------- MODULE MCHops -------------------------------
(***************************************************************************)
(* Two interfaces: a one-word one with IPv6, and a two-word one without   *)
(* IPv6 whose name has two blanks between its words, so that the name get *)
(* shows differs from the one set needs.  Two callers, so that a set can *)
(* run between the two commands of another.                              *)
(***************************************************************************)
EXTENDS Hops

MCIfName ==
    [i \in Ifaces |-> IF i = "lan" THEN [words |-> <<"Ethernet">>, gaps |-> <<>>]
                      ELSE [words |-> <<"Astral", "Tun">>, gaps |-> <<2>>]]

MCIfaceOrder == <<"tun", "lan">>

\* Every real name, and the name get shows for the tunnel.
MCNameTexts ==
    {MCIfName["lan"], MCIfName["tun"], [words |-> <<"Astral", "Tun">>, gaps |-> <<1>>]}
=============================================================================
