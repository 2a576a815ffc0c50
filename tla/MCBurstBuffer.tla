---------------------------- MODULE MCBurstBuffer ----------------------------
(***************************************************************************)
(* Small instances of BurstBuffer.                                         *)
(***************************************************************************)
EXTENDS BurstBuffer

PlainJob == {1}
HeteroJob == {1, 2}

\* The components name the same QPM, one more, or one each.
SameQpu == [j \in Jobs |-> {"iqm"}]
MoreQpus == [j \in Jobs |-> IF j = Leader THEN {"iqm"} ELSE {"iqm", "nwqsim"}]
OwnQpu == [j \in Jobs |-> IF j = Leader THEN {"iqm"} ELSE {"nwqsim"}]
==============================================================================
