---------------------------- MODULE MCVersionLink ----------------------------
(* Two images of the BMC, one of the host and one of another kind, read by  *)
(* two requests.                                                            *)
EXTENDS VersionLink

CONSTANTS r1, r2

MCImages == <<"bmc1", "other", "host", "bmc2">>
MCPurpose == [bmc1 |-> "BMC", other |-> "Other", host |-> "Host", bmc2 |-> "BMC"]
RequestSymmetry == Permutations(Requests)
=============================================================================
