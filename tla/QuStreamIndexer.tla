-------------------------- MODULE QuStreamIndexer --------------------------
(***************************************************************************)
(* The indexer of the QuStream requests (src/qustream-indexer) over a      *)
(* chain that forks, reorganises and finalizes.  The chain is external: a  *)
(* tree of blocks, each with its parent, the contract's storage after it   *)
(* and the EVM logs of its transactions.                                   *)
(*                                                                         *)
(* The processor of the indexer (src/processor/index.ts) runs batches of   *)
(* blocks in one database transaction each.  It runs with supportHotBlocks: *)
(* blocks that are not final are indexed too, and a batch first undoes the *)
(* indexed blocks that left the best chain.  That, the fetching of the     *)
(* blocks and the database are libraries, modelled from their use here:    *)
(* what was committed for each indexed block is an element of "indexed".   *)
(*                                                                         *)
(* Timestamps, senders and hashes of transactions are left out.  The names *)
(* of the specification carry the indexer's: EvmReaders_proofs extends     *)
(* this module together with CallList.                                     *)
(***************************************************************************)
EXTENDS RequestManager, Sequences, SequencesExt, FiniteSets, Functions

CONSTANTS
    Payloads,      \* the sequences of calls a block may carry
    StartHeight,   \* START_BLOCK
    MaxBlocks,     \* bound: the blocks of the tree
    MaxSwitches,   \* bound: the times the best block moves to another branch
    MaxCrashes,    \* bound: the times the processor dies
    MaxBatch       \* bound: the blocks of a batch

\* The calls of transactions.  A call of some other contract may log an event of
\* the same name.
Calls ==
    [fn : {"register"}, readable : BOOLEAN]
    \cup [fn : {"process"}, from : Accounts, id : Nat, status : Status]
    \cup [fn : {"setMaster"}, from : Accounts, to : Accounts \cup {ZeroAddress}]
    \cup [fn : {"other"}, log : [topic : {"RequestRegistered"}, id : Nat, readable : BOOLEAN]
                              \cup [topic : {"RequestStatusUpdated"}, id : Nat, status : Status]]

ASSUME IndexerAssumption ==
    /\ StartHeight \in Nat \ {0} /\ {MaxSwitches, MaxCrashes, MaxBatch} \subseteq Nat
    /\ Payloads \subseteq Seq(Calls)

VARIABLES
    chain,     \* the blocks, numbered as they were authored; 0 is genesis
    best,      \* the best block
    final,     \* the last finalized block
    indexed,   \* the database: the indexed blocks in order with the tables after each
    batch,     \* the transaction under way
    switches, crashes

chainVars == <<chain, best, final, switches>>
indexerVars == <<chainVars, indexed, batch, crashes>>

-----------------------------------------------------------------------------
(* The chain                                                               *)

\* The result of one call of a block.
Execute(c, call) ==
    CASE call.fn = "register"  -> registerRequest(c, call.readable)
      [] call.fn = "process"   -> processRequest(c, call.from, call.id, call.status)
      [] call.fn = "setMaster" -> setMasterNode(c, call.from, call.to)
      [] call.fn = "other"     -> [contract |-> c, logs |-> <<call.log>>]

Insert(f, x, v) == [y \in DOMAIN f \cup {x} |-> IF y = x THEN v ELSE f[y]]

\* A call after those before it.  The logs carry the address of the contract they
\* come from.
AfterCall(before, call) ==
    LET r == Execute(before.contract, call)
        address == IF call.fn = "other" THEN "other" ELSE "requests" IN
    [contract |-> r.contract,
     logs     |-> before.logs \o [i \in DOMAIN r.logs |-> Insert(r.logs[i], "address", address)]]

BlockAfter(c, calls) == FoldLeft(AfterCall, [contract |-> c, logs |-> <<>>], calls)

\* The blocks from genesis to b.
Branch(b) ==
    LET branch[a \in 0 .. b] ==
            IF a = 0 THEN <<0>> ELSE Append(branch[chain[a].parent], a)
    IN  branch[b]

Height(b) == chain[b].height
OnBranch(b, a) == a \in Range(Branch(b))

\* A block is authored on any block that is not behind finality, and becomes the
\* best one when it extends it.
Author(parent, calls) ==
    LET b     == Cardinality(DOMAIN chain)
        after == BlockAfter(chain[parent].contract, calls) IN
    /\ b <= MaxBlocks
    /\ OnBranch(parent, final)
    /\ chain' = Insert(chain, b, [parent |-> parent, height |-> Height(parent) + 1,
                                  contract |-> after.contract, logs |-> after.logs])
    /\ best' = IF parent = best THEN b ELSE best
    /\ UNCHANGED <<final, switches, indexed, batch, crashes>>

\* The best block moves to the head of another branch.
Reorganise(b) ==
    /\ switches < MaxSwitches
    /\ OnBranch(b, final) /\ ~OnBranch(best, b) /\ ~OnBranch(b, best)
    /\ best' = b
    /\ switches' = switches + 1
    /\ UNCHANGED <<chain, final, indexed, batch, crashes>>

Finalize(b) ==
    /\ OnBranch(best, b) /\ OnBranch(b, final) /\ b # final
    /\ final' = b
    /\ UNCHANGED <<chain, best, switches, indexed, batch, crashes>>

-----------------------------------------------------------------------------
(* The tables and the handlers                                             *)

\* QuStreamRequest by requestId, and QuStreamStats, which exists from the first
\* update on.
NoStats == [totalRequests |-> 0, totalSuccessful |-> 0, totalFailed |-> 0,
            totalPending |-> 0, lastUpdatedBlock |-> 0]
EmptyTables == [rows |-> <<>>, stats |-> NoStats]

Tables == IF indexed = <<>> THEN EmptyTables ELSE Last(indexed).tables

updateStats(stats, requests, successful, failed, pending, height) ==
    [totalRequests    |-> stats.totalRequests + requests,
     totalSuccessful  |-> stats.totalSuccessful + successful,
     totalFailed      |-> stats.totalFailed + failed,
     totalPending     |-> stats.totalPending + pending,
     lastUpdatedBlock |-> height]

\* A log whose strings do not decode throws; handleEthereumLog catches it and the
\* processor goes on with the next log.
handleRequestRegistered(t, log, height) ==
    IF ~log.readable THEN t
    ELSE [rows  |-> Insert(t.rows, log.id, [status |-> "Pending", createdAtBlock |-> height,
                                            processedAtBlock |-> 0]),
          stats |-> updateStats(t.stats, 1, 0, 0, 1, height)]

\* An update counted although its request has no row.
handleRequestStatusUpdated_unknown(t, log, height) ==
    LET known == log.id \in DOMAIN t.rows IN
    [rows  |-> IF known THEN [t.rows EXCEPT ![log.id].status = log.status] ELSE t.rows,
     stats |-> updateStats(t.stats, 0, IF log.status = "Success" THEN 1 ELSE 0,
                           IF log.status = "Success" THEN 0 ELSE 1, 0 - 1, height)]

handleRequestStatusUpdated(t, log, height) ==
    IF log.id \notin DOMAIN t.rows THEN t
    ELSE LET success == log.status = "Success" IN
         [rows  |-> [t.rows EXCEPT ![log.id] =
                        [@ EXCEPT !.status = IF success THEN "Success" ELSE "Fail",
                                  !.processedAtBlock = height]],
          stats |-> updateStats(t.stats, 0, IF success THEN 1 ELSE 0, IF success THEN 0 ELSE 1,
                                IF t.rows[log.id].status = "Pending" THEN 0 - 1 ELSE 0, height)]

handleEthereumLog(t, log, height) ==
    IF log.address # "requests" THEN t
    ELSE CASE log.topic = "RequestRegistered"    -> handleRequestRegistered(t, log, height)
           [] log.topic = "RequestStatusUpdated" -> handleRequestStatusUpdated(t, log, height)
           [] OTHER                              -> t

-----------------------------------------------------------------------------
(* The processor                                                           *)

NoBatch == [running |-> FALSE, base |-> <<>>, blocks |-> <<>>, tables |-> EmptyTables, log |-> 1]

\* The blocks to index on the best chain, those of a height from StartHeight on
\* (genesis is first and has height 0), and how many of the indexed ones are still
\* on it.
Wanted == SubSeq(Branch(best), StartHeight + 1, Len(Branch(best)))
Kept   == Cardinality({i \in DOMAIN indexed :
                           i <= Len(Wanted) /\ \A j \in 1 .. i : indexed[j].block = Wanted[j]})

\* A batch that goes on from the indexed height, on whatever branch that was.
BeginBatch_byHeight(n) ==
    /\ ~batch.running
    /\ Len(indexed) + n <= Len(Wanted)
    /\ batch' = [running |-> TRUE, base |-> indexed,
                 blocks |-> SubSeq(Wanted, Len(indexed) + 1, Len(indexed) + n),
                 tables |-> Tables, log |-> 1]
    /\ UNCHANGED <<chainVars, indexed, crashes>>

\* A batch takes the next n blocks; what was indexed of other branches is undone
\* in its transaction.
BeginBatch(n) ==
    LET base == SubSeq(indexed, 1, Kept) IN
    /\ ~batch.running
    /\ Kept + n <= Len(Wanted)
    /\ batch' = [running |-> TRUE, base |-> base,
                 blocks |-> SubSeq(Wanted, Kept + 1, Kept + n),
                 tables |-> IF base = <<>> THEN EmptyTables ELSE Last(base).tables,
                 log |-> 1]
    /\ UNCHANGED <<chainVars, indexed, crashes>>

\* The loop over the events of a block, one log at a time.
HandleLog ==
    /\ batch.running /\ batch.blocks # <<>>
    /\ LET b == Head(batch.blocks) IN
       /\ batch.log <= Len(chain[b].logs)
       /\ batch' = [batch EXCEPT
              !.tables = handleEthereumLog(@, chain[b].logs[batch.log], Height(b)),
              !.log = @ + 1]
    /\ UNCHANGED <<chainVars, indexed, crashes>>

\* The loop over the blocks.
FinishBlock ==
    /\ batch.running /\ batch.blocks # <<>>
    /\ LET b == Head(batch.blocks) IN
       /\ batch.log > Len(chain[b].logs)
       /\ batch' = [batch EXCEPT !.base = Append(@, [block |-> b, tables |-> batch.tables]),
                                 !.blocks = Tail(@), !.log = 1]
    /\ UNCHANGED <<chainVars, indexed, crashes>>

Commit ==
    /\ batch.running /\ batch.blocks = <<>>
    /\ indexed' = batch.base
    /\ batch' = NoBatch
    /\ UNCHANGED <<chainVars, crashes>>

\* The processor dies and is started again: its transaction is rolled back, and
\* it takes up from what the database says.
Crash ==
    /\ batch.running
    /\ crashes < MaxCrashes
    /\ crashes' = crashes + 1
    /\ batch' = NoBatch
    /\ UNCHANGED <<chainVars, indexed>>

-----------------------------------------------------------------------------

IndexerInit ==
    /\ chain = [b \in {0} |-> [parent |-> 0, height |-> 0, contract |-> Deployed, logs |-> <<>>]]
    /\ best = 0
    /\ final = 0
    /\ indexed = <<>>
    /\ batch = NoBatch
    /\ switches = 0
    /\ crashes = 0

Process == (\E n \in 1 .. MaxBatch : BeginBatch(n)) \/ HandleLog \/ FinishBlock \/ Commit

IndexerNext ==
    \/ \E parent \in DOMAIN chain, calls \in Payloads : Author(parent, calls)
    \/ \E b \in DOMAIN chain : Reorganise(b) \/ Finalize(b)
    \/ Process
    \/ Crash

\* The processor loops for ever.  Nothing is assumed of the chain.
IndexerSpec == IndexerInit /\ [][IndexerNext]_indexerVars /\ WF_indexerVars(Process)

-----------------------------------------------------------------------------
(* Properties                                                              *)

TablesTyped ==
    /\ \A b \in DOMAIN chain : chain[b].contract \in Contracts
    /\ best \in DOMAIN chain /\ final \in DOMAIN chain
    /\ \A i \in DOMAIN indexed :
        /\ indexed[i].block \in DOMAIN chain
        /\ \A id \in DOMAIN indexed[i].tables.rows :
               indexed[i].tables.rows[id].status \in Status
    /\ batch.running \in BOOLEAN
    /\ switches \in 0 .. MaxSwitches /\ crashes \in 0 .. MaxCrashes

\* What the chain says of the requests registered from StartHeight on: the
\* contract's own logs of the branch of b, each with the height of its block.
LogsOf(b) ==
    UNION { {[log |-> chain[a].logs[i], height |-> Height(a)] :
                i \in {j \in DOMAIN chain[a].logs : chain[a].logs[j].address = "requests"}} :
            a \in {x \in Range(Branch(b)) : Height(x) >= StartHeight} }
Registered(b) ==
    {l \in LogsOf(b) : l.log.topic = "RequestRegistered" /\ l.log.readable}

\* The table of requests mirrors the contract of the last indexed block, whatever
\* forks, reorganisations, crashes and unreadable logs came before: one row for
\* each readable request registered from the first indexed block on, pending
\* exactly as long as the contract still holds the request, and otherwise with
\* the outcome the master node gave it and the block it did so in.
RowsMirrorContract ==
    indexed # <<>> =>
        LET b == Last(indexed).block
            rows == Tables.rows IN
        /\ DOMAIN rows = {l.log.id : l \in Registered(b)}
        /\ \A l \in Registered(b) : rows[l.log.id].createdAtBlock = l.height
        /\ \A id \in DOMAIN rows :
            IF id \in chain[b].contract.requests
            THEN rows[id].status = "Pending"
            ELSE \E l \in LogsOf(b) :
                    /\ l.log.topic = "RequestStatusUpdated" /\ l.log.id = id
                    /\ rows[id].status = l.log.status
                    /\ rows[id].processedAtBlock = l.height

\* The running totals count the rows: every update moves one request from pending
\* to one outcome, in the transaction under way and in the database.
StatsExact ==
    \A t \in {Tables, batch.tables} :
        LET Count(s) == Cardinality({id \in DOMAIN t.rows : t.rows[id].status = s}) IN
        /\ t.stats.totalRequests = Cardinality(DOMAIN t.rows)
        /\ t.stats.totalPending = Count("Pending")
        /\ t.stats.totalSuccessful = Count("Success")
        /\ t.stats.totalFailed = Count("Fail")

\* The database is what the contract says, and its rows and totals agree.
TablesMirrorContract == TablesTyped /\ RowsMirrorContract /\ StatsExact

\* A block that became final is indexed in the end and stays so, whatever the
\* best chain does and although the processor dies from time to time.
FinalBlocksIndexed ==
    \A b \in 1 .. MaxBlocks :
        (b \in DOMAIN chain /\ OnBranch(final, b) /\ Height(b) >= StartHeight)
            ~> [](\E i \in DOMAIN indexed : indexed[i].block = b)
=============================================================================
