--------------------------- MODULE RequestManager ---------------------------
(***************************************************************************)
(* The QuStreamRequestManager contract                                     *)
(* (src/qustream-smart-contracts/contracts/QuStreamRequestManager.sol) as  *)
(* operators on its storage.  A block of the chain, and so each branch of  *)
(* a fork, has its own storage; QuStreamIndexer keeps one per block.       *)
(*                                                                         *)
(* A request is its id: the sender, user and qBlock strings are abstracted *)
(* to whether the strings can be decoded again by a reader of the log.     *)
(***************************************************************************)
EXTENDS Naturals

CONSTANTS
    Accounts,   \* the callers, the zero address excluded
    Owner,      \* contractOwner of the constructor
    FirstMaster \* masterNode of the constructor

ASSUME RequestManagerAssumption == {Owner, FirstMaster} \subseteq Accounts

ZeroAddress == "zero"
Status == {"Pending", "Success", "Fail"}

\* The storage: _nextRequestId, the ids with an entry in _requests, _masterNode.
Contracts == [nextRequestId : Nat \ {0}, requests : SUBSET (Nat \ {0}), masterNode : Accounts]

Deployed == [nextRequestId |-> 1, requests |-> {}, masterNode |-> FirstMaster]

\* What a call leaves behind.  A call that reverts leaves the storage as it was
\* and no log.
Reverted(c) == [contract |-> c, logs |-> <<>>]

registerRequest(c, readable) ==
    LET id == c.nextRequestId IN
    [contract |-> [c EXCEPT !.nextRequestId = id + 1, !.requests = @ \cup {id}],
     logs     |-> << [topic |-> "RequestRegistered", id |-> id, readable |-> readable] >>]

processRequest(c, from, id, status) ==
    IF from = c.masterNode /\ status \in {"Success", "Fail"} /\ id \in c.requests
    THEN [contract |-> [c EXCEPT !.requests = @ \ {id}],
          logs     |-> << [topic |-> "RequestStatusUpdated", id |-> id, status |-> status] >>]
    ELSE Reverted(c)

setMasterNode(c, from, newMasterNode) ==
    IF from = Owner /\ newMasterNode # ZeroAddress
    THEN [contract |-> [c EXCEPT !.masterNode = newMasterNode],
          logs     |-> << [topic |-> "MasterNodeUpdated", newMasterNode |-> newMasterNode] >>]
    ELSE Reverted(c)
=============================================================================
