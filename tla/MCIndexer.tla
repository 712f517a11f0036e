----------------------------- MODULE MCIndexer -----------------------------
(***************************************************************************)
(* The instance of QuStreamIndexer for TLC.                                *)
(***************************************************************************)
EXTENDS QuStreamIndexer

CONSTANTS owner, node1, node2

Register(readable) == [fn |-> "register", readable |-> readable]
Answer(from, id, status) == [fn |-> "process", from |-> from, id |-> id, status |-> status]
SetMaster(from, to) == [fn |-> "setMaster", from |-> from, to |-> to]

\* Blocks that register and answer, one after the other or in one block; a
\* request with unreadable strings; a new master node, whose calls then count;
\* and a log of another contract.
AllPayloads == {
    <<Register(TRUE), Register(FALSE)>>,
    <<Register(TRUE), Answer(node1, 1, "Fail"), Answer(node1, 1, "Success"),
      Answer(node1, 2, "Pending")>>,
    <<SetMaster(owner, node2), SetMaster(owner, ZeroAddress), SetMaster(node2, node1),
      Answer(node1, 2, "Success"), Answer(node2, 1, "Success"),
      [fn |-> "other", log |-> [topic |-> "RequestRegistered", id |-> 3, readable |-> TRUE]]>> }
=============================================================================
