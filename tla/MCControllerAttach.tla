----------------------- MODULE MCControllerAttach -------------------------
(* Instances of ControllerAttach for TLC. *)
EXTENDS ControllerAttach, TLC

CONSTANTS v1, h1, h2, h3, t1, t2, lim, any

MCHostType == [h \in Hosts |-> IF h = h2 THEN "NVMeTCP" ELSE "SDC"]
OneDriver == [p \in Threads |-> "controller"]

\* The volume is used by one node or shared by several.
MCCapsOf == [v \in Vols |-> {[mode |-> "SINGLE_NODE_WRITER", block |-> FALSE],
                             [mode |-> "MULTI_NODE_MULTI_WRITER", block |-> TRUE]}]

\* "10240" and "010240" are the limit lim, "1" is below what the array takes.
MCLimits == {any, lim}
MCNumerals == {"0", "10240", "010240", "1"}
MCLimitOf == ("0" :> any) @@ ("10240" :> lim) @@ ("010240" :> lim) @@ ("1" :> Rejected)
MCPrintOf == (any :> "0") @@ (lim :> "10240")

Bw(s) == [bw |-> s, iops |-> Unspecified]
Iops(s) == [bw |-> Unspecified, iops |-> s]
MCQoSRequests ==
  {Bw(Unspecified), Bw("10240"), Bw("010240"), Iops("1"), Iops(NotNumeric)}

ThreadSymmetry == Permutations(Threads)
=============================================================================
