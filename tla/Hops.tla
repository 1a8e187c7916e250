-------------------------------- MODULE Hops --------------------------------
(***************************************************************************)
(* Interface metrics on Windows (hops.rs): get_all_interfaces_metrics     *)
(* runs `netsh interface ipv4 show interfaces` and parses its table;      *)
(* set_interface_metric runs `netsh interface ipv4 set interface` and     *)
(* then the ipv6 one.                                                     *)
(*                                                                         *)
(* The state is the operating system's metric table per address family.  *)
(* netsh output is abstracted to its lines, each line to the tokens       *)
(* split_whitespace yields; a token is a number or a text.  An interface  *)
(* name is its words and the widths of the blanks between them.  netsh    *)
(* resolves `set interface "<name>"` by the exact name; any command may    *)
(* also fail to spawn or exit with an error (rights, netsh busy).         *)
(*                                                                         *)
(* Both are free functions without a lock, so callers on different        *)
(* threads run them concurrently.  Each netsh command is one step: a     *)
(* set is two steps, and another caller may run between them.            *)
(***************************************************************************)
EXTENDS Integers, SequencesExt

CONSTANTS
    Ifaces,         \* the interfaces of the machine
    IfName,         \* IfName[i]: the name of i, [words, gaps]
    IfaceOrder,     \* the order netsh lists the interfaces in
    HasV6,          \* the interfaces with IPv6 enabled
    MetricValues,   \* metrics the table may hold or a caller may set
    NameTexts,      \* names a caller may pass to set_interface_metric
    Callers         \* threads calling the two functions

ASSUME /\ IfaceOrder \in Seq(Ifaces) /\ ToSet(IfaceOrder) = Ifaces
       /\ HasV6 \subseteq Ifaces

VARIABLES
    metric,         \* metric[fam][i]: what netsh shows for i in family fam
    pc,             \* pc[c]: "idle", or "ipv6" between the two commands of a set
    call,           \* call[c]: the arguments of c's last set and the interface
    result,         \* result[c]: what c's last call returned
    rival           \* rival[c]: another set's IPv4 command ran on c's
                    \* interface while c was between its commands (history)

vars == <<metric, pc, call, result, rival>>

Fams == {"ipv4", "ipv6"}

Num(n)  == [kind |-> "num", val |-> n]
Text(w) == [kind |-> "text", val |-> w]

\* The lines of `netsh interface ipv4 show interfaces` for a metric table:
\* a blank line, the header, the dashes, one row per interface, a blank line.
NetshTable(m) ==
    LET Row(x, i) == <<Num(x), Num(m["ipv4"][i]), Num(1500), Text("connected")>>
                     \o [k \in 1 .. Len(IfName[i].words) |-> Text(IfName[i].words[k])]
    IN  << <<>>,
           <<Text("Idx"), Text("Met"), Text("MTU"), Text("State"), Text("Name")>>,
           <<Text("---"), Text("---"), Text("---"), Text("---"), Text("---")>> >>
        \o [k \in 1 .. Len(IfaceOrder) |-> Row(k, IfaceOrder[k])]
        \o << <<>> >>

\* `parts[1].parse::<u32>().unwrap_or(0)`.
ParseU32(t) == IF t.kind = "num" THEN t.val ELSE 0

\* `parts[4..].join(" ")`: the words with single blanks between them.
JoinWords(ws) ==
    [words |-> [k \in 1 .. Len(ws) |-> ws[k].val],
     gaps  |-> [k \in 1 .. Len(ws) - 1 |-> 1]]

\* The parse loop skipping two lines instead of three (a mutation of
\* ParseInterfaces).
ParseInterfacesSkipTwo(lines) ==
    LET rows == SelectSeq(SubSeq(lines, 3, Len(lines)), LAMBDA p : Len(p) >= 5)
    IN  [k \in 1 .. Len(rows) |->
            <<JoinWords(SubSeq(rows[k], 5, Len(rows[k]))), ParseU32(rows[k][2])>>]

\* The parse loop reading the metric from the index column `parts[0]` (a
\* mutation of ParseInterfaces).
ParseInterfacesIndexColumn(lines) ==
    LET rows == SelectSeq(SubSeq(lines, 4, Len(lines)), LAMBDA p : Len(p) >= 5)
    IN  [k \in 1 .. Len(rows) |->
            <<JoinWords(SubSeq(rows[k], 5, Len(rows[k]))), ParseU32(rows[k][1])>>]

\* The parse loop: skip the three header lines, drop blank lines and lines
\* of fewer than five tokens, take the name from the fifth token on and
\* the metric from the second.
ParseInterfaces(lines) ==
    LET rows == SelectSeq(SubSeq(lines, 4, Len(lines)), LAMBDA p : Len(p) >= 5)
    IN  [k \in 1 .. Len(rows) |->
            <<JoinWords(SubSeq(rows[k], 5, Len(rows[k]))), ParseU32(rows[k][2])>>]

\* The interface netsh resolves a name to, if any.
Named(text) == {i \in Ifaces : IfName[i] = text}

NoIface == "none"

Init ==
    /\ metric \in [Fams -> [Ifaces -> MetricValues]]
    /\ pc = [c \in Callers |-> "idle"]
    /\ call = [c \in Callers |-> [name |-> "none", m |-> 0, iface |-> NoIface]]
    /\ result = [c \in Callers |-> [op |-> "none", ok |-> TRUE, list |-> <<>>]]
    /\ rival = [c \in Callers |-> FALSE]

\* get_all_interfaces_metrics: one netsh command; Err when it cannot be
\* spawned or fails, otherwise the parsed table.
GetAllInterfacesMetrics(c) ==
    /\ pc[c] = "idle"
    /\ \E ok \in BOOLEAN :
          result' = [result EXCEPT ![c] =
                        [op |-> "get", ok |-> ok,
                         list |-> IF ok THEN ParseInterfaces(NetshTable(metric))
                                  ELSE <<>>]]
    /\ UNCHANGED <<metric, pc, call, rival>>

SetResult(ok) == [op |-> "set", ok |-> ok, list |-> <<>>]

\* set_interface_metric up to its IPv4 command: Err when the command fails
\* (always for a name no interface has); otherwise the interface's IPv4
\* metric is set and the call goes on to the IPv6 command.
SetIpv4(c, text, m) ==
    /\ pc[c] = "idle"
    /\ \/ /\ call' = [call EXCEPT ![c] = [name |-> text, m |-> m, iface |-> NoIface]]
          /\ result' = [result EXCEPT ![c] = SetResult(FALSE)]
          /\ UNCHANGED <<metric, pc, rival>>
       \/ \E i \in Named(text) :
             /\ metric' = [metric EXCEPT !["ipv4"][i] = m]
             /\ pc' = [pc EXCEPT ![c] = "ipv6"]
             /\ call' = [call EXCEPT ![c] = [name |-> text, m |-> m, iface |-> i]]
             /\ rival' = [d \in Callers |->
                             IF d = c THEN FALSE
                             ELSE rival[d] \/ (pc[d] = "ipv6" /\ call[d].iface = i)]
             /\ UNCHANGED result

\* The IPv6 command returning Ok whether or not it failed (a mutation of
\* SetIpv6).
SetIpv6IgnoresFailure(c) ==
    /\ pc[c] = "ipv6"
    /\ LET i == call[c].iface
       IN  \/ /\ result' = [result EXCEPT ![c] = SetResult(TRUE)]
              /\ UNCHANGED metric
           \/ /\ i \in HasV6
              /\ metric' = [metric EXCEPT !["ipv6"][i] = call[c].m]
              /\ result' = [result EXCEPT ![c] = SetResult(TRUE)]
    /\ pc' = [pc EXCEPT ![c] = "idle"]
    /\ UNCHANGED <<call, rival>>

\* set_interface_metric from its IPv6 command on: Err when the command
\* fails (always for an interface without IPv6), leaving the IPv4 metric
\* set; otherwise the IPv6 metric is set and the call returns Ok.
SetIpv6(c) ==
    /\ pc[c] = "ipv6"
    /\ LET i == call[c].iface
       IN  \/ /\ result' = [result EXCEPT ![c] = SetResult(FALSE)]
              /\ UNCHANGED metric
           \/ /\ i \in HasV6
              /\ metric' = [metric EXCEPT !["ipv6"][i] = call[c].m]
              /\ result' = [result EXCEPT ![c] = SetResult(TRUE)]
    /\ pc' = [pc EXCEPT ![c] = "idle"]
    /\ UNCHANGED <<call, rival>>

Next ==
    \E c \in Callers :
        \/ GetAllInterfacesMetrics(c)
        \/ \E text \in NameTexts, m \in MetricValues : SetIpv4(c, text, m)
        \/ SetIpv6(c)

Spec == Init /\ [][Next]_vars

-----------------------------------------------------------------------------

TypeOK ==
    /\ metric \in [Fams -> [Ifaces -> MetricValues]]
    /\ pc \in [Callers -> {"idle", "ipv6"}]
    /\ \A c \in Callers :
          /\ result[c].op \in {"none", "get", "set"} /\ result[c].ok \in BOOLEAN
          /\ \A k \in DOMAIN result[c].list :
                result[c].list[k][2] \in MetricValues \cup {0}
          /\ pc[c] = "ipv6" => call[c].iface \in Named(call[c].name)

\* The name netsh shows an interface under, as a caller reads it back:
\* every run of blanks rendered as one.
ShownName(i) == [IfName[i] EXCEPT !.gaps = [k \in DOMAIN @ |-> 1]]

(* A get_all_interfaces_metrics that returns Ok lists exactly the         *)
(* interfaces of the table, in netsh's order, each once, with its IPv4     *)
(* metric at the moment of the call: the header, dash and blank lines are *)
(* never taken for rows, whatever sets are in flight.                     *)
GetReportsIpv4Metrics ==
    [][\A c \in Callers :
        result'[c] # result[c] /\ result'[c].op = "get" /\ result'[c].ok =>
            result'[c].list =
                [k \in 1 .. Len(IfaceOrder) |->
                    <<ShownName(IfaceOrder[k]), metric["ipv4"][IfaceOrder[k]]>>]]_vars

(* set_interface_metric changes the metrics of the interface it names and *)
(* no other, and when it returns Ok, the interface has the metric in both *)
(* families unless another set's IPv4 command ran on the same interface   *)
(* between its two commands.  An Err after the IPv4 command leaves that   *)
(* metric changed.                                                        *)
SetAppliesOnlyNamed ==
    [][/\ \A c \in Callers :
            pc[c] = "ipv6" /\ pc'[c] = "idle" /\ result'[c].ok /\ ~rival[c]
                => \A f \in Fams : metric'[f][call[c].iface] = call[c].m
       /\ \A f \in Fams, i \in Ifaces :
            metric'[f][i] # metric[f][i] =>
                \E c \in Callers : pc'[c] # pc[c] /\ call'[c].iface = i]_vars

=============================================================================
