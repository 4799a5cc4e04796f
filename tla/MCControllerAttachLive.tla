--------------------- MODULE MCControllerAttachLive -----------------------
(* Instances of ControllerAttachLive for TLC. *)
EXTENDS ControllerAttachLive, TLC

CONSTANTS v1, h1, h2, t1, t2, lim, any

MCHostType == (h1 :> "SDC") @@ (h2 :> "NVMeTCP")
TwoDrivers == (t1 :> "leader") @@ (t2 :> "former leader")

MCCapsOf == (v1 :> {[mode |-> "SINGLE_NODE_WRITER", block |-> FALSE],
                    [mode |-> "SINGLE_NODE_MULTI_WRITER", block |-> TRUE]})
MCLimits == {any, lim}
MCNumerals == {"0", "10240", "1"}
MCLimitOf == ("0" :> any) @@ ("10240" :> lim) @@ ("1" :> Rejected)
MCPrintOf == (any :> "0") @@ (lim :> "10240")
MCQoSRequests == {[bw |-> "10240", iops |-> Unspecified], [bw |-> "1", iops |-> Unspecified]}
=============================================================================
