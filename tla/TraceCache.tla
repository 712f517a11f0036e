----------------------------- MODULE TraceCache -----------------------------
(***************************************************************************)
(* The cache behind the trace_filter RPC                                   *)
(* (src/client/rpc/trace/src/lib.rs).  RPC requests talk to one cache task *)
(* through an unbounded queue and wait for the answers on one-shot         *)
(* channels; the cache task spawns one tracer per block that is not cached *)
(* yet; a tracer waits for a permit of the pool it shares with the debug   *)
(* RPC, replays the block, and reports through a bounded channel.          *)
(*                                                                         *)
(* A trace is abstracted to whether the replay succeeded.  Each client     *)
(* makes one request.  The answer a one-shot channel holds is the "reply"  *)
(* of the client waiting on it.                                            *)
(***************************************************************************)
EXTENDS Integers, Sequences, FiniteSets, Functions

CONSTANTS
    Clients,    \* the RPC requests
    BlocksOf,   \* the blocks of each request, in the order it asks for them
    Limited,    \* the requests whose count of traces may be reached early
    Fragile,    \* the blocks whose replay may fail
    Permits     \* the permits of the pool (--ethapi-max-permits)

ASSUME ClientsAssumption ==
    /\ DOMAIN BlocksOf = Clients
    /\ \A c \in Clients : BlocksOf[c] \in Seq(Range(BlocksOf[c])) /\ IsInjective(BlocksOf[c])
    /\ Limited \subseteq Clients
ASSUME PermitsAssumption == Permits \in Nat \ {0}

VARIABLES
    client,        \* where each request stands
    inbox,         \* the requests queued for the cache task
    cachedBlocks,  \* the entries of the cache
    batches,       \* the blocks of each batch that has not expired
    nextBatchId,
    expirations,   \* the stopped batches whose timer runs
    tracers,       \* the spawned tasks, each named by its batch and block
    channel,       \* the tracers' messages to the cache task
    debugPermits   \* the permits the debug RPC holds

cacheVars == <<cachedBlocks, batches, nextBatchId, expirations>>
vars == <<client, inbox, cacheVars, tracers, channel, debugPermits>>

BlockSet(c) == Range(BlocksOf[c])
Blocks == UNION {BlockSet(c) : c \in Clients}
BatchIds == 0 .. Cardinality(Clients) - 1
TracerIds == BatchIds \X Blocks

\* What a one-shot channel can carry: the batch was started; the traces; the
\* error of a replay; the error for a block no batch asked for; or the sender
\* was dropped.
Answers == {"batch", "traces", "failed", "unbatched", "closed"}

Requests ==
         [kind : {"StartBatch"}, from : Clients]
    \cup [kind : {"GetTraces"}, from : Clients, block : Blocks]
    \cup [kind : {"StopBatch"}, batch : Nat]

\* CacheBlock: active_batch_count, the state, and for a pooled block its
\* waiting requests and the tracer that its unqueue channel cancels.
Entries ==
    [count : Nat \ {0}, state : {"pooled", "started", "traces", "failed"},
     waiting : SUBSET Clients, tracer : Nat]

IsPooled(b) == b \in DOMAIN cachedBlocks /\ cachedBlocks[b].state \in {"pooled", "started"}

-----------------------------------------------------------------------------
(* The RPC requests: Trace::filter and Trace::fetch_traces                 *)

Init ==
    /\ client = [c \in Clients |->
                    [phase |-> "idle", fetched |-> 0, batch |-> 0, reply |-> "none"]]
    /\ inbox = <<>>
    /\ cachedBlocks = <<>>
    /\ batches = <<>>
    /\ nextBatchId = 0
    /\ expirations = {}
    /\ tracers = <<>>
    /\ channel = <<>>
    /\ debugPermits = 0

ClientOnly == UNCHANGED <<cacheVars, tracers, channel, debugPermits>>

\* filter: the request sends its blocks as one batch and awaits the batch's id.
Filter(c) ==
    /\ client[c].phase = "idle"
    /\ client' = [client EXCEPT ![c].phase = "starting"]
    /\ inbox' = Append(inbox, [kind |-> "StartBatch", from |-> c])
    /\ ClientOnly

\* fetch_traces is over, by whatever way: filter stops the batch and answers.
StopsBatch(c) ==
    /\ client' = [client EXCEPT ![c].phase = "done", ![c].reply = "none"]
    /\ inbox' = Append(inbox, [kind |-> "StopBatch", batch |-> client[c].batch])

\* The next iteration of the loop over the blocks, n of which are fetched.
AsksNext(c, n) ==
    IF n = Len(BlocksOf[c])
    THEN StopsBatch(c)
    ELSE /\ client' = [client EXCEPT ![c] =
                          [@ EXCEPT !.phase = "fetching", !.fetched = n, !.reply = "none"]]
         /\ inbox' = Append(inbox, [kind |-> "GetTraces", from |-> c,
                                    block |-> BlocksOf[c][n + 1]])

BatchGiven(c) ==
    /\ client[c].phase = "starting"
    /\ client[c].reply = "batch"
    /\ AsksNext(c, 0)
    /\ ClientOnly

\* The traces of one block arrived; a request with a count may have enough.
TracesGiven(c) ==
    /\ client[c].phase = "fetching"
    /\ client[c].reply = "traces"
    /\ \/ AsksNext(c, client[c].fetched + 1)
       \/ c \in Limited /\ StopsBatch(c)
    /\ ClientOnly

\* get_traces returned an error, which ends fetch_traces.
TracesRefused(c) ==
    /\ client[c].phase = "fetching"
    /\ client[c].reply \in {"failed", "unbatched", "closed"}
    /\ StopsBatch(c)
    /\ ClientOnly

-----------------------------------------------------------------------------
(* The cache task: the requests                                            *)

HeadIs(kind) == inbox # <<>> /\ Head(inbox).kind = kind

Answered(clients, answer) ==
    [c \in Clients |-> IF c \in clients THEN [client[c] EXCEPT !.reply = answer]
                                        ELSE client[c]]

\* Dropping the entries of a set of blocks closes the channels in them.
WaitingOn_leaked(blocks) == {}
WaitingOn(blocks) == UNION {cachedBlocks[b].waiting : b \in blocks \cap DOMAIN cachedBlocks}
DropEntries(blocks) == Restrict(cachedBlocks, DOMAIN cachedBlocks \ blocks)

NewEntry(id) == [count |-> 1, state |-> "pooled", waiting |-> {}, tracer |-> id]

\* A block in the cache counts one more batch, the others get an entry and a tracer.
CacheHit(e) == [e EXCEPT !.count = @ + 1]

CacheMisses_untraced(c) == {b \in BlockSet(c) : b \notin DOMAIN cachedBlocks \/ IsPooled(b)}
CacheMisses(c) == BlockSet(c) \ DOMAIN cachedBlocks

RequestStartBatch ==
    /\ HeadIs("StartBatch")
    /\ LET c == Head(inbox).from
           missing == CacheMisses(c)
       IN /\ batches' = [id \in DOMAIN batches \cup {nextBatchId} |->
                           IF id = nextBatchId THEN BlockSet(c) ELSE batches[id]]
          /\ cachedBlocks' =
                [b \in DOMAIN cachedBlocks \cup missing |->
                    IF b \in missing THEN NewEntry(nextBatchId)
                    ELSE IF b \in BlockSet(c) THEN CacheHit(cachedBlocks[b])
                    ELSE cachedBlocks[b]]
          /\ tracers' = [t \in DOMAIN tracers \cup ({nextBatchId} \X missing) |->
                           IF t \in DOMAIN tracers THEN tracers[t] ELSE "queued"]
          /\ client' = [client EXCEPT ![c].batch = nextBatchId, ![c].reply = "batch"]
    /\ nextBatchId' = nextBatchId + 1
    /\ inbox' = Tail(inbox)
    /\ UNCHANGED <<expirations, channel, debugPermits>>

RequestGetTraces ==
    /\ HeadIs("GetTraces")
    /\ LET c == Head(inbox).from
           b == Head(inbox).block
       IN \/ /\ IsPooled(b)
             /\ cachedBlocks' = [cachedBlocks EXCEPT ![b].waiting = @ \cup {c}]
             /\ UNCHANGED client
          \/ /\ b \in DOMAIN cachedBlocks /\ ~IsPooled(b)
             /\ client' = Answered({c}, cachedBlocks[b].state)
             /\ UNCHANGED cachedBlocks
          \/ /\ b \notin DOMAIN cachedBlocks
             /\ client' = Answered({c}, "unbatched")
             /\ UNCHANGED cachedBlocks
    /\ inbox' = Tail(inbox)
    /\ UNCHANGED <<batches, nextBatchId, expirations, tracers, channel, debugPermits>>

\* The blocks whose tracing is given up when a batch stops.
Unneeded(id) ==
    {b \in DOMAIN cachedBlocks :
        /\ b \in batches[id]
        /\ cachedBlocks[b].count = 1
        /\ cachedBlocks[b].state = "pooled"}

\* The expiration timer is started first, in the main loop.
RequestStopBatch ==
    /\ HeadIs("StopBatch")
    /\ LET id == Head(inbox).batch
       IN /\ expirations' = expirations \cup {id}
          /\ client' = Answered(WaitingOn(Unneeded(id)), "closed")
          /\ cachedBlocks' = DropEntries(Unneeded(id))
    /\ inbox' = Tail(inbox)
    /\ UNCHANGED <<batches, nextBatchId, tracers, channel, debugPermits>>

-----------------------------------------------------------------------------
(* The cache task: the tracers' messages and the timers                    *)

BlockingStarted ==
    /\ channel # <<>> /\ Head(channel).kind = "Started"
    /\ LET b == Head(channel).block
       IN cachedBlocks' = IF IsPooled(b) THEN [cachedBlocks EXCEPT ![b].state = "started"]
                                         ELSE cachedBlocks
    /\ channel' = Tail(channel)
    /\ UNCHANGED <<client, inbox, batches, nextBatchId, expirations, tracers, debugPermits>>

\* The result of a block that is not pooled (any more) is ignored.
BlockingFinished ==
    /\ channel # <<>> /\ Head(channel).kind = "Finished"
    /\ LET b == Head(channel).block
       IN IF IsPooled(b)
          THEN /\ client' = Answered(cachedBlocks[b].waiting, Head(channel).result)
               /\ cachedBlocks' = [cachedBlocks EXCEPT ![b] =
                      [@ EXCEPT !.state = Head(channel).result, !.waiting = {}]]
          ELSE UNCHANGED <<client, cachedBlocks>>
    /\ channel' = Tail(channel)
    /\ UNCHANGED <<inbox, batches, nextBatchId, expirations, tracers, debugPermits>>

\* The blocks that no batch but this one counts for.
OnlyUsedBy_kept(id) == {}
OnlyUsedBy(id) == {b \in batches[id] \cap DOMAIN cachedBlocks : cachedBlocks[b].count = 1}

\* Timers of the same length started close together may ring in any order.
ExpiredBatch(id) ==
    /\ id \in expirations
    /\ LET gone == OnlyUsedBy(id)
       IN /\ client' = Answered(WaitingOn(gone), "closed")
          /\ cachedBlocks' =
                [b \in DOMAIN cachedBlocks \ gone |->
                    IF b \in batches[id] THEN [cachedBlocks[b] EXCEPT !.count = @ - 1]
                                         ELSE cachedBlocks[b]]
    /\ batches' = Restrict(batches, DOMAIN batches \ {id})
    /\ expirations' = expirations \ {id}
    /\ UNCHANGED <<inbox, nextBatchId, tracers, channel, debugPermits>>

-----------------------------------------------------------------------------
(* The tracers, and the debug RPC they share the permits with              *)

Holding == {t \in DOMAIN tracers : tracers[t] \in {"granted", "tracing"}}
FreePermits_ownPool == Permits - Cardinality(Holding)
FreePermits == Permits - Cardinality(Holding) - debugPermits

Ends(t) == Restrict(tracers, DOMAIN tracers \ {t})
TracerOnly == UNCHANGED <<client, inbox, cacheVars, debugPermits>>

\* The bounded channel has twice as many places as the pool has permits.
Sends(m) == Len(channel) < 2 * Permits /\ channel' = Append(channel, m)

\* The unqueue channel of a queued tracer closes with the entry that owns it
\* or when that entry stops being pooled.
Unqueued(t) == ~(IsPooled(t[2]) /\ cachedBlocks[t[2]].tracer = t[1])

Cancelled(t) ==
    /\ tracers[t] = "queued" /\ Unqueued(t)
    /\ tracers' = Ends(t)
    /\ UNCHANGED channel /\ TracerOnly

\* A permit may be taken although the tracing was just cancelled: select!
\* chooses at random between two ready futures.
Acquire(t) ==
    /\ tracers[t] = "queued" /\ FreePermits > 0
    /\ tracers' = [tracers EXCEPT ![t] = "granted"]
    /\ UNCHANGED channel /\ TracerOnly

SendStarted(t) ==
    /\ tracers[t] = "granted"
    /\ Sends([kind |-> "Started", block |-> t[2]])
    /\ tracers' = [tracers EXCEPT ![t] = "tracing"]
    /\ TracerOnly

SendFinished_resultsOnly(t) ==
    /\ tracers[t] = "tracing"
    /\ \/ Sends([kind |-> "Finished", block |-> t[2], result |-> "traces"])
       \/ t[2] \in Fragile /\ UNCHANGED channel
    /\ tracers' = Ends(t)
    /\ TracerOnly

\* The replay ends, its result is sent and the permit is dropped.
SendFinished(t) ==
    /\ tracers[t] = "tracing"
    /\ \E result \in {"traces"} \cup (IF t[2] \in Fragile THEN {"failed"} ELSE {}) :
          Sends([kind |-> "Finished", block |-> t[2], result |-> result])
    /\ tracers' = Ends(t)
    /\ TracerOnly

DebugAcquire ==
    /\ FreePermits > 0
    /\ debugPermits' = debugPermits + 1
    /\ UNCHANGED <<client, inbox, cacheVars, tracers, channel>>

DebugRelease ==
    /\ debugPermits > 0
    /\ debugPermits' = debugPermits - 1
    /\ UNCHANGED <<client, inbox, cacheVars, tracers, channel>>

-----------------------------------------------------------------------------

CacheTask ==
    \/ RequestStartBatch \/ RequestGetTraces \/ RequestStopBatch
    \/ BlockingStarted \/ BlockingFinished
    \/ \E id \in BatchIds : ExpiredBatch(id)

Request(c) == BatchGiven(c) \/ TracesGiven(c) \/ TracesRefused(c)

Next ==
    \/ \E c \in Clients : Filter(c) \/ Request(c)
    \/ CacheTask
    \/ \E t \in DOMAIN tracers : Cancelled(t) \/ Acquire(t) \/ SendStarted(t) \/ SendFinished(t)
    \/ DebugAcquire
    \/ DebugRelease

\* The runtime polls every task that can continue; select! gives every ready
\* branch of the main loop its turn; the semaphore of the permits is first in
\* first out, so a tracer that waits cannot be overtaken for ever.
Fairness ==
    /\ \A c \in Clients : WF_vars(Request(c))
    /\ WF_vars(RequestStartBatch \/ RequestGetTraces \/ RequestStopBatch)
    /\ WF_vars(BlockingStarted \/ BlockingFinished)
    /\ \A id \in BatchIds : WF_vars(ExpiredBatch(id))
    /\ \A t \in TracerIds :
          /\ WF_vars(t \in DOMAIN tracers /\ Cancelled(t))
          /\ SF_vars(t \in DOMAIN tracers /\ Acquire(t))
          /\ WF_vars(t \in DOMAIN tracers /\ (SendStarted(t) \/ SendFinished(t)))
    /\ WF_vars(DebugRelease)

Spec == Init /\ [][Next]_vars /\ Fairness

-----------------------------------------------------------------------------
(* Properties                                                              *)

TypeOK ==
    /\ client \in [Clients -> [phase : {"idle", "starting", "fetching", "done"},
                               fetched : Nat, batch : Nat,
                               reply : Answers \cup {"none"}]]
    /\ inbox \in Seq(Requests)
    /\ DOMAIN cachedBlocks \subseteq Blocks
    /\ \A b \in DOMAIN cachedBlocks : cachedBlocks[b] \in Entries
    /\ DOMAIN batches \subseteq Nat
    /\ \A id \in DOMAIN batches : batches[id] \subseteq Blocks
    /\ nextBatchId \in Nat
    /\ expirations \subseteq DOMAIN batches
    /\ DOMAIN tracers \subseteq Nat \X Blocks
    /\ \A t \in DOMAIN tracers : tracers[t] \in {"queued", "granted", "tracing"}
    /\ channel \in Seq([kind : {"Started"}, block : Blocks]
                       \cup [kind : {"Finished"}, block : Blocks, result : {"traces", "failed"}])
    /\ debugPermits \in 0 .. Permits

\* The batches that still count for a block (active_batch_count).
Users(b) == {id \in DOMAIN batches : b \in batches[id]}

\* A request between the answer to its StartBatch and its StopBatch.
Active(c) == client[c].phase = "fetching" \/ client[c].reply = "batch"

\* A request that had its traces, or an error, before it asked for its last block.
StoppedEarly(c) == client[c].phase = "done" /\ client[c].fetched + 1 < Len(BlocksOf[c])
Disturbed == UNION {BlockSet(c) : c \in {d \in Clients : StoppedEarly(d)}}

\* The count of an entry never exceeds the batches that still hold its block, and
\* never is zero: no entry outlives the batches that could remove it, and the
\* decrement of expired_batch cannot underflow.
CountBounded ==
    \A b \in DOMAIN cachedBlocks : cachedBlocks[b].count \in 1 .. Cardinality(Users(b))

\* Only a request that stops early upsets the blocks it shares, and even of those the
\* count is bounded. Of every other block the count is the number of batches, running
\* or not yet expired, that hold it; it is in the cache for each of them; and it is
\* never replayed again while it is cached ("No Runtime API call will be needed until
\* this block cache is removed").
CacheExact ==
    /\ CountBounded
    /\ \A b \in Blocks \ Disturbed :
          /\ (\E c \in Clients : Active(c) /\ b \in BlockSet(c)) => b \in DOMAIN cachedBlocks
          /\ b \in DOMAIN cachedBlocks => cachedBlocks[b].count = Cardinality(Users(b))
          /\ b \in DOMAIN cachedBlocks /\ ~IsPooled(b) => \A t \in Holding : t[2] # b

\* The messages of a block's tracer that the cache task has not yet read.
Pending(kind, b) == \E i \in DOMAIN channel : channel[i].kind = kind /\ channel[i].block = b

\* The places a request's one-shot sender can be in.
Queued(c) == \E i \in DOMAIN inbox : inbox[i].kind # "StopBatch" /\ inbox[i].from = c
Waiting(c) == {b \in DOMAIN cachedBlocks : c \in cachedBlocks[b].waiting}

\* Removals and failures answer everybody: a request that waits has its sender in
\* the queue or in exactly one pooled entry, the one of the block it asks for; and
\* a pooled entry has its tracer, or a result of it on the way.
NobodyForgotten ==
    /\ \A b \in DOMAIN cachedBlocks :
        IsPooled(b) => <<cachedBlocks[b].tracer, b>> \in DOMAIN tracers \/ Pending("Finished", b)
    /\ \A c \in Clients :
        client[c].phase \in {"starting", "fetching"} /\ client[c].reply = "none" =>
            \/ Queued(c) /\ Waiting(c) = {}
            \/ /\ ~Queued(c)
               /\ Waiting(c) = {BlocksOf[c][client[c].fetched + 1]}
               /\ \A b \in Waiting(c) : IsPooled(b)

\* Every request is answered in the end, although the debug RPC competes for
\* the permits and other requests remove blocks.
RequestsEnd == \A c \in Clients : client[c].phase = "starting" ~> client[c].phase = "done"

\* Requests are finite in number here: in between and after them the cache, the
\* batches and the tracers always go away in the end.
CacheEmptied == []<>(cachedBlocks = <<>> /\ batches = <<>> /\ tracers = <<>>)

-----------------------------------------------------------------------------
(* What the documentation says and the code does not do: no run checks     *)
(* these, TLC finds each of them violated.                                 *)

\* Every block of a running request is in the cache, so no running request is
\* refused a block or loses its place in a waiting list (request_get_traces:
\* "If this block is missing from the cache, it means no batch asked for it").
ServedWhileBatched == \A c \in Clients : Active(c) => BlockSet(c) \subseteq DOMAIN cachedBlocks
=============================================================================
