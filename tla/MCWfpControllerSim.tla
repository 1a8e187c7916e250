------------------------- MODULE MCWfpControllerSim -------------------------
(***************************************************************************)
(* Model-checking instance of WfpControllerSim: batches with valid and    *)
(* invalid rules, and delete requests naming present, repeated and absent *)
(* ids.                                                                   *)
(***************************************************************************)
EXTENDS WfpControllerSim

RuleOk  == New("ok")
RuleBad == SetLocalIp(New("bad"),
                      [parts |-> 2, addr |-> [fam |-> "V4", val |-> 0], prefix |-> 3])

MCBatches  == {<<RuleOk, RuleBad, RuleOk>>, <<RuleBad>>, <<RuleOk>>}
MCRequests == {<<1>>, <<3, 3>>, <<2>>}
=============================================================================
