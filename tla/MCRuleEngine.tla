---------------------------- MODULE MCRuleEngine ----------------------------
(***************************************************************************)
(* A small policy over the lid and the power source (stateful) and a VM    *)
(* starting (stateless, value 1 the start of one VM, 0 none):              *)
(*   both   whileLidClosed() whileUsingBatt()                              *)
(*   start  onAnyVmRunning() whileLidClosed()                              *)
(*   twice  onAnyVmRunning() onVmNameRunning("vm")                         *)
(*   named  onVmNameRunning($name), true only while $name is that VM       *)
(*   empty  only unknown condition names, so no condition at all           *)
(*   broken arguments that do not match a prototype                        *)
(***************************************************************************)
EXTENDS RuleEngine

CONSTANTS both, start, twice, named, empty, broken

MCEvents == {"lid", "ac", "vm_running"}
MCStateless == {"vm_running"}
MCValues == {0, 1}
MCResetValue == [e \in MCEvents |-> 0]
MCWorlds == {0, 1}
MCRuleIds == {both, start, twice, named, empty, broken}
MCMalformed == {broken}

MCConds == 1..8
MCRuleOf == <<both, both, start, start, twice, twice, named, broken>>
MCEventOf == <<"lid", "ac", "vm_running", "lid", "vm_running", "vm_running",
               "vm_running", "lid">>
MCInverted == {2}
MCSat == [c \in MCConds |->
            IF c = 7 THEN {<<1, 1>>} ELSE {<<1, w>> : w \in MCWorlds}]
=============================================================================
