--------------------------- MODULE Erc20XcmBridge ---------------------------
(***************************************************************************)
(* pallet-erc20-xcm-bridge (src/pallets/erc20-xcm-bridge): XCM transfers   *)
(* of local ERC20 tokens.  A withdrawal moves nothing: it notes in the     *)
(* origins of the message who owes how much, and a deposit drains these    *)
(* notes, oldest first and only whole, and makes the transfers.            *)
(*                                                                         *)
(* The origins live for one message, in memory: a storage transaction that *)
(* is rolled back does not bring them back.  There is one ERC20 contract,  *)
(* external, given by the balances e; a transfer of more than the sender   *)
(* has is refused.                                                         *)
(***************************************************************************)
EXTENDS Integers, Sequences, SequencesExt, Functions

\* One note of a withdrawal.
Note(who, amount) == [who |-> who, amount |-> amount]

Owed(origins) == SumFunction([i \in DOMAIN origins |-> origins[i].amount])

insert(origins, who, amount) == Append(origins, Note(who, amount))

\* The number of notes that add up to the amount exactly, if there is one.  A note
\* cannot be split.
drain_inner(origins, amount) ==
    {n \in 1 .. Len(origins) :
        /\ Owed(SubSeq(origins, 1, n)) = amount
        /\ \A m \in 1 .. n - 1 : Owed(SubSeq(origins, 1, m)) < amount}

\* The notes drained and the notes left; none drained when the call fails.
drain(origins, amount) ==
    LET found == drain_inner(origins, amount) IN
    IF found = {} THEN [ok |-> FALSE, drained |-> <<>>, left |-> origins]
    ELSE LET n == CHOOSE m \in found : TRUE IN
         [ok |-> TRUE, drained |-> SubSeq(origins, 1, n),
          left |-> SubSeq(origins, n + 1, Len(origins))]

erc20_transfer(e, from, to, amount) ==
    IF e[from] < amount THEN {}
    ELSE {[[e EXCEPT ![from] = @ - amount] EXCEPT ![to] = @ + amount]}

\* The transfers of a deposit, in one storage layer: all or none.
TransferAll(e, notes, to) ==
    FoldLeft(LAMBDA states, note :
                 UNION {erc20_transfer(s, note.who, to, note.amount) : s \in states},
             {e}, notes)

\* The drained notes are gone whether or not the transfers succeed.
deposit_erc20(e, origins, to, amount) ==
    LET d == drain(origins, amount) IN
    [balances |-> IF d.ok THEN TransferAll(e, d.drained, to) ELSE {},
     origins  |-> d.left]

withdraw_erc20(origins, who, amount) == insert(origins, who, amount)

internal_transfer_erc20(e, from, to, amount) == erc20_transfer(e, from, to, amount)
=============================================================================
