--------------------------- MODULE MCXcpmdInputs ---------------------------
(* Two battery slots, two batteries, two VMs that may share a name.        *)
EXTENDS XcpmdInputs

CONSTANTS p1, p2, web, mail_vm

MCCells == {
    [present |-> TRUE, charge |-> 2, full |-> 50, design |-> 60, flow |-> "out", rate |-> 3],
    [present |-> TRUE, charge |-> 53, full |-> 50, design |-> 60, flow |-> "in", rate |-> 7]}

MCPaths == {p1, p2}
MCNames == {web, mail_vm}
MCRules == {
    [when |-> "creating", cond |-> Anyone, act |-> [by |-> "name", whom |-> web]],
    [when |-> "running", cond |-> [by |-> "name", whom |-> web], act |-> [by |-> "uuid", whom |-> p1]],
    [when |-> "stopping", cond |-> [by |-> "uuid", whom |-> p1], act |-> [by |-> "name", whom |-> web]]}
=============================================================================
