---------------------------- MODULE MCEntityMap ----------------------------
(* The program itself and the programs one slip away from it.              *)
EXTENDS EntityMap

MCNames == {"Status", "Version", "Relations", "Sensors", "Server", "Chassis", "Baseboard"}
MCRules == DOMAIN Queries
MCMemberLists == {c.list : c \in {d \in ToSet(initEntityMap) : d.op = "addMembers"}}
MCMeta == metaMembers
=============================================================================
